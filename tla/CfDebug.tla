------------------------------- MODULE CfDebug -------------------------------
(***************************************************************************)
(* The debugger of cloud functions (components/CfDebugPanel.tsx,           *)
(* api/cfdebug/dapClient.ts): the page starts a program on the server      *)
(* (api/cfdebug/runner.py), attaches a debug client to it, sets            *)
(* breakpoints and steps.  An ended session shows as "finished", for       *)
(* whatever reason.                                                        *)
(***************************************************************************)
EXTENDS Integers, Sequences, FiniteSets

CONSTANTS
  Functions, Lines,
  Prompt,       \* sources can be read and come in the order they were asked for
  Focused,      \* another function is selected only between sessions
  Reached,      \* a program that is run to the cursor gets there before anything else
  Patient,      \* no step while an answer is under way, no stop before the program is attached to,
                \* no start before the old socket is closed
  MaxRuns, MaxReads \* bounds

VARIABLES
  selected, source,  \* the function that is chosen, the one whose source is shown
  bpByPath,     \* lines remembered per function
  breakpoints, tempBp, \* lines that are shown, the line of runToCursor or 0
  status, sessionId, client, line, \* 0: no session, no client, no current line
  net, reads,   \* requests under way, sources asked for so far
  progs,        \* sessions of the server: function, state, line and breakpoints
  wire,         \* messages and closings of the debug sockets on their way
  put, wanted   \* breakpoints the user set; the user wants a program to run

choice == <<selected, source, bpByPath, reads>>
points == <<bpByPath, breakpoints, tempBp, put>>
session == <<status, sessionId, client, line>>
vars == <<selected, source, points, session, net, reads, progs, wire, wanted>>

Busy == status \in {"running", "connecting", "paused"}
Live(k) == progs[k].state # "over"
Held == client # 0 /\ Live(client)
Calm == Patient => wire = <<>> /\ \A r \in net : r.kind = "source"
Started == Patient => /\ \A r \in net : r.kind # "run"
                      /\ \A i \in DOMAIN wire : wire[i].kind # "open"

Init ==
  /\ selected = "none" /\ source = "none" /\ bpByPath = [f \in Functions |-> {}]
  /\ breakpoints = {} /\ tempBp = 0 /\ put = [f \in Functions |-> {}]
  /\ status = "idle" /\ sessionId = 0 /\ client = 0 /\ line = 0
  /\ net = {} /\ reads = 0 /\ progs = <<>> /\ wire = <<>> /\ wanted = FALSE

-----------------------------------------------------------------------------
SelectFunction(f) ==
  /\ f # selected /\ reads < MaxReads /\ (Focused => ~Busy /\ wire = <<>>)
  /\ selected' = f /\ breakpoints' = bpByPath[f] /\ line' = 0
  /\ reads' = reads + 1 /\ net' = net \cup {[kind |-> "source", n |-> reads', fn |-> f]}
  /\ UNCHANGED <<source, bpByPath, tempBp, put, status, sessionId, client, progs, wire, wanted>>

\* A source that cannot be read leaves the one before.
GotSource(r, ok) ==
  /\ r \in net /\ r.kind = "source" /\ net' = net \ {r}
  /\ Prompt => ok /\ \A q \in net : q.kind = "source" => r.n <= q.n
  /\ source' = IF ok THEN r.fn ELSE source
  /\ UNCHANGED <<selected, points, session, reads, progs, wire, wanted>>

-----------------------------------------------------------------------------
\* A request setBreakpoints replaces all lines of a function.
Puts(f, lines) ==
  IF Held /\ progs[client].fn = f THEN [progs EXCEPT ![client].bps = lines] ELSE progs
\* pushBreakpoints: the line of runToCursor is not remembered.
PushBreakpoints(lines, temp) ==
  /\ breakpoints' = lines /\ tempBp' = temp
  /\ bpByPath' = [bpByPath EXCEPT ![selected] = lines \ {temp}]
  /\ progs' = IF status \in {"running", "paused"} THEN Puts(selected, lines) ELSE progs

ToggleBp(l) ==
  /\ source # "none" /\ Calm /\ (Reached => tempBp # l)
  /\ LET flip(s) == IF l \in breakpoints THEN s \ {l} ELSE s \cup {l} IN
       PushBreakpoints(flip(breakpoints), tempBp) /\ put' = [put EXCEPT ![selected] = flip(@)]
  /\ UNCHANGED <<selected, source, session, net, reads, wire, wanted>>

RemoveBp(l) ==
  /\ l \in breakpoints /\ Calm /\ (Reached => tempBp = 0)
  /\ PushBreakpoints(breakpoints \ {l}, IF tempBp = l THEN 0 ELSE tempBp)
  /\ put' = [put EXCEPT ![selected] = @ \ {l}]
  /\ UNCHANGED <<selected, source, session, net, reads, wire, wanted>>

\* What the debugged program does when it goes on.
Resumes(k, ps) == IF ps[k].state = "paused" THEN [ps EXCEPT ![k].state = "running"] ELSE ps
RunToCursorForgets(l) ==             \* mutant: the line is remembered like any other
  /\ client # 0 /\ l # line /\ Calm /\ (Reached => tempBp = 0 /\ Held /\ progs[client].state = "paused")
  /\ breakpoints' = breakpoints \cup {l} /\ tempBp' = tempBp
  /\ bpByPath' = [bpByPath EXCEPT ![selected] = breakpoints'] /\ progs' = Resumes(client, Puts(selected, breakpoints'))
  /\ UNCHANGED <<selected, source, put, session, net, reads, wire, wanted>>
RunToCursor(l) ==
  /\ client # 0 /\ l # line /\ Calm /\ (Reached => tempBp = 0 /\ Held /\ progs[client].state = "paused")
  /\ IF l \in breakpoints
     THEN UNCHANGED <<bpByPath, breakpoints, tempBp>> /\ progs' = Resumes(client, progs)
     ELSE /\ tempBp' = l /\ breakpoints' = breakpoints \cup {l}
          /\ bpByPath' = [bpByPath EXCEPT ![selected] = breakpoints]
          /\ progs' = Resumes(client, Puts(selected, breakpoints'))
  /\ UNCHANGED <<selected, source, put, session, net, reads, wire, wanted>>

-----------------------------------------------------------------------------
StartDebug ==
  /\ ~Busy /\ selected # "none" /\ Len(progs) < MaxRuns /\ Calm
  /\ status' = "connecting" /\ line' = 0 /\ tempBp' = 0 /\ wanted' = TRUE
  /\ net' = net \cup {[kind |-> "run", n |-> 0, fn |-> selected]}
  /\ UNCHANGED <<choice, breakpoints, put, sessionId, client, progs, wire>>

\* start_session, and the new client.
GotRun(r, ok) ==
  /\ r \in net /\ r.kind = "run" /\ net' = net \ {r} /\ Len(progs) < MaxRuns
  /\ IF ok THEN /\ progs' = Append(progs, [fn |-> r.fn, state |-> "waiting", at |-> 0, bps |-> {}])
                /\ sessionId' = Len(progs') /\ client' = Len(progs')
                /\ wire' = Append(wire, [k |-> Len(progs'), kind |-> "open"]) /\ UNCHANGED status
           ELSE status' = "finished" /\ UNCHANGED <<progs, sessionId, client, wire>>
  /\ UNCHANGED <<choice, breakpoints, tempBp, put, line, wanted>>

\* The socket of a client goes: orphan_guard ends its program.
Ends(k, ps) == [ps EXCEPT ![k].state = "over", ![k].bps = {}]
CloseClient(ps) ==
  /\ client' = 0 /\ status' = "finished" /\ line' = 0
  /\ IF client = 0 THEN progs' = ps /\ UNCHANGED wire
     ELSE progs' = Ends(client, ps) /\ wire' = Append(wire, [k |-> client, kind |-> "closed"])

StopOnly ==                          \* mutant: a status, no more
  /\ Busy /\ Started /\ wanted' = FALSE /\ status' = "finished" /\ line' = 0
  /\ UNCHANGED <<choice, breakpoints, tempBp, put, sessionId, client, net, progs, wire>>
StopDebug ==
  /\ Busy /\ Started /\ wanted' = FALSE /\ (Reached => tempBp = 0)
  /\ CloseClient(IF sessionId = 0 THEN progs ELSE Ends(sessionId, progs)) /\ sessionId' = 0
  /\ UNCHANGED <<choice, breakpoints, tempBp, put, net>>

\* continue keeps the status, the others come to a stop again.
Step(kind, l) ==
  /\ status = "paused" /\ client # 0 /\ Calm /\ (Reached => tempBp = 0) /\ line' = 0
  /\ IF Held /\ progs[client].state = "paused" /\ kind = "next"
     THEN progs' = [progs EXCEPT ![client].at = l] /\ wire' = Append(wire, [k |-> client, kind |-> "stopped"])
     ELSE progs' = Resumes(client, progs) /\ UNCHANGED wire
  /\ UNCHANGED <<choice, breakpoints, tempBp, put, status, sessionId, client, net, wanted>>

-----------------------------------------------------------------------------
\* The program stops at a breakpoint, or comes to its end.
Hits(k, l) ==
  /\ progs[k].state = "running" /\ l \in progs[k].bps /\ (Reached => tempBp \in {0, l})
  /\ progs' = [progs EXCEPT ![k].state = "paused", ![k].at = l]
  /\ wire' = Append(wire, [k |-> k, kind |-> "stopped"])
  /\ UNCHANGED <<choice, breakpoints, tempBp, put, session, net, wanted>>
Exits(k) ==
  /\ progs[k].state = "running" /\ (Reached => tempBp = 0)
  /\ progs' = Ends(k, progs)
  /\ \E kind \in {"terminated", "closed"} : wire' = Append(wire, [k |-> k, kind |-> kind])
  /\ UNCHANGED <<choice, breakpoints, tempBp, put, session, net, wanted>>

\* Of the socket: it opens, and then the adapter says "initialized".
HandleOpen(k) ==
  /\ client = k /\ Live(k)
  /\ status' = "running" /\ progs' = [progs EXCEPT ![k].bps = breakpoints, ![k].state = "running"]
  /\ wire' = Tail(wire)
  /\ UNCHANGED <<selected, source, points, sessionId, client, line, net, reads, wanted>>
HandleStopped(k) ==
  /\ client = k /\ status' = "paused" /\ line' = 0
  /\ net' = net \cup {[kind |-> "frames", n |-> k, fn |-> progs[k].at]} /\ wire' = Tail(wire)
  /\ UNCHANGED <<selected, source, points, sessionId, client, reads, progs, wanted>>
\* handleFinished closes the client of the page, whichever it is.
HandleFinished(m) ==
  /\ client' = 0 /\ status' = "finished" /\ line' = 0
  /\ progs' = IF client = 0 THEN progs ELSE Ends(client, progs)
  /\ wire' = Tail(wire) \o (IF client = 0 \/ m = [k |-> client, kind |-> "closed"] THEN <<>>
                            ELSE <<[k |-> client, kind |-> "closed"]>>)
  /\ UNCHANGED <<selected, source, points, sessionId, net, reads, wanted>>
Dropped == wire' = Tail(wire) /\ UNCHANGED <<selected, source, points, session, net, reads, progs, wanted>>

HandleMessage ==
  /\ wire # <<>>
  /\ LET m == Head(wire) IN
       \/ m.kind = "open" /\ HandleOpen(m.k)
       \/ m.kind = "stopped" /\ HandleStopped(m.k)
       \/ (m.kind = "closed" \/ (m.kind = "terminated" /\ client = m.k)) /\ HandleFinished(m)
       \/ m.kind # "closed" /\ (client # m.k \/ (m.kind = "open" /\ ~Live(m.k))) /\ Dropped

\* The rest of handleStopped: the line of the cursor has been reached.
GotFrames(r) ==
  /\ r \in net /\ r.kind = "frames" /\ net' = net \ {r}
  /\ IF client = r.n
     THEN /\ line' = r.fn
          /\ IF tempBp = r.fn /\ tempBp # 0
             THEN tempBp' = 0 /\ breakpoints' = breakpoints \ {r.fn} /\ progs' = Puts(selected, breakpoints')
             ELSE UNCHANGED <<tempBp, breakpoints, progs>>
     ELSE UNCHANGED <<line, tempBp, breakpoints, progs>>
  /\ UNCHANGED <<choice, put, status, sessionId, client, wire, wanted>>

\* The page: functions on the left, the source in the middle, breakpoints on the right.
Toolbar == StartDebug \/ StopDebug
FunctionList == \E f \in Functions : SelectFunction(f)
SourcePane == \E l \in Lines : ToggleBp(l) \/ \E kind \in {"next", "continue"} : Step(kind, l)
ContextMenu == \E l \in Lines : RunToCursor(l)
BreakpointTab == \E l \in Lines : RemoveBp(l)
Next ==
  \/ Toolbar \/ FunctionList \/ SourcePane \/ ContextMenu \/ BreakpointTab \/ HandleMessage
  \/ \E r \in net : GotFrames(r) \/ \E ok \in BOOLEAN : GotSource(r, ok) \/ GotRun(r, ok)
  \/ \E k \in DOMAIN progs : Exits(k) \/ \E l \in Lines : Hits(k, l)

Spec == Init /\ [][Next]_vars
-----------------------------------------------------------------------------
Quiet == wire = <<>> /\ \A r \in net : r.kind = "source"

TypeOK ==
  /\ {selected, source} \subseteq Functions \cup {"none"} /\ breakpoints \subseteq Lines
  /\ tempBp \in Lines \cup {0} /\ {sessionId, client} \subseteq 0..Len(progs) /\ line \in Lines \cup {0}
  /\ status \in {"idle", "connecting", "running", "paused", "finished"}

\* The source that is shown is of the function whose breakpoints are shown.
SourceIsSelected == (\A r \in net : r.kind # "source") => source = selected

\* The line that is marked is where the program stands.
LineIsTrue == Quiet /\ line # 0 /\ Held /\ progs[client].state = "paused" => line = progs[client].at

(***************************************************************************)
(* Between two messages the debugged program has the breakpoints that the  *)
(* page shows, and the page remembers those that the user set, no others.  *)
(***************************************************************************)
BreakpointsArePut ==
  Quiet => /\ Held => progs[client].bps = breakpoints
           /\ bpByPath = put

\* What runs is what the user wants to run, and the page holds it.
SessionIsHeld == Quiet => \A k \in DOMAIN progs : Live(k) => wanted /\ k = client /\ k = sessionId
=============================================================================
