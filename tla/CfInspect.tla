------------------------------ MODULE CfInspect ------------------------------
(***************************************************************************)
(* The right side of the debugger (components/CfDebugPanel.tsx): the       *)
(* frames, variables and watched expressions of a stopped program, asked   *)
(* for over its debug socket, and the rows of the server's log model.  The *)
(* page does not hear that a program goes on: what it asks for then fails. *)
(***************************************************************************)
EXTENDS Integers, Sequences, FiniteSets, FiniteSetsExt

CONSTANTS
  Exprs, Models,
  Default,      \* dynamic_log, the model the field starts with
  Idle,         \* watched expressions are edited only while no frame is chosen and no answer is due
  Patient,      \* a frame is chosen when the answers are in
  Distinct,     \* no two frames list a variable of one name at the same place
  Settled,      \* the field of the model is edited only while no answer about rows is due
  Listed,       \* rows are deleted only under the model they were listed for
  MaxStops, MaxWatches, MaxCalls \* bounds

VARIABLES
  live,              \* clientRef.current
  status,            \* paused, or something else
  stop, paused,      \* stops of the programs so far, whether one stands
  frames, evalFrame, \* the stop whose frames are listed, the frame that is chosen
  variables, kids,   \* the frame of the variables, and of the opened one
  watchList, entered, \* expressions with the frame they were evaluated in; what the user entered
  popup, queue,      \* frame of the result window, requests on the socket
  model, field,      \* model in the field, the one the user typed or saw
  dynLogs, selected, \* model of the rows, the ids that are ticked
  asked, calls       \* requests to the server, and those of both kinds so far

stopped == <<live, status, stop, paused, frames>>
shown == <<variables, kids, popup>>
watched == <<watchList, entered>>
rows == <<model, field, dynLogs, selected, asked>>
vars == <<stopped, evalFrame, shown, watched, queue, rows, calls>>

None == <<0, 0>>
Failed == <<0, 1>>
Ids(m) == {<<m, 1>>, <<m, 2>>}
Unmasked == popup = None             \* a mask lies under the result window
Current(f) == paused /\ f[1] = stop
Blank == [i \in DOMAIN watchList |-> [watchList[i] EXCEPT !.at = None]]

Init ==
  /\ live = FALSE /\ status = "idle" /\ stop = 0 /\ paused = FALSE /\ frames = 0 /\ evalFrame = None
  /\ variables = None /\ kids = None /\ popup = None
  /\ watchList = <<>> /\ entered = <<>> /\ queue = <<>>
  /\ model = Default /\ field = Default /\ dynLogs = "none" /\ selected = {} /\ asked = {}
  /\ calls = 0

-----------------------------------------------------------------------------
\* Nodes of the tree that go do not hear the answers they asked for.
Lost(kind) == {i \in DOMAIN queue : queue[i].kind = kind}
Unmounted(q) == [i \in DOMAIN q |-> IF q[i].kind = "kids" THEN [q[i] EXCEPT !.kind = "unheard"] ELSE q[i]]
Remounts == Distinct /\ variables' # variables

Ask(kind, f, exc, list) == [kind |-> kind, frame |-> f, exc |-> exc, list |-> list]
\* evaluateWatches: the list is the one of the last render.
EvaluateWatches(f) == IF live /\ watchList # <<>> THEN <<Ask("watches", f, FALSE, watchList)>> ELSE <<>>

\* startDebug forgets the frames, the variables and the results of the watched expressions,
\* whether the program then runs or the server or the socket refuses.
StartDebug ==
  /\ ~live /\ Unmasked
  /\ live' \in BOOLEAN /\ status' = (IF live' THEN "running" ELSE "error")
  /\ frames' = 0 /\ variables' = None /\ kids' = None /\ watchList' = Blank
  /\ UNCHANGED <<stop, paused, evalFrame, popup, entered, queue, rows, calls>>

\* The event "stopped", and the requests for threads and frames.
HandleStopped(exc) ==
  /\ live /\ ~paused /\ stop < MaxStops /\ calls < MaxCalls /\ calls' = calls + 1
  /\ stop' = stop + 1 /\ paused' = TRUE /\ status' = "paused"
  /\ queue' = Append(queue, Ask("stack", <<stop', 1>>, exc, <<>>))
  /\ UNCHANGED <<live, frames, evalFrame, shown, watched, rows>>
GoesOn ==
  /\ paused /\ Unmasked /\ paused' = FALSE
  /\ UNCHANGED <<live, status, stop, frames, evalFrame, shown, watched, queue, rows, calls>>

\* The socket is closed: what is under way fails, the watched expressions included.
HandleFinished ==
  /\ live /\ live' = FALSE /\ status' = "finished" /\ paused' = FALSE /\ evalFrame' = None /\ queue' = <<>>
  /\ popup' = IF Lost("popup") # {} THEN Failed ELSE None
  /\ kids' = IF Lost("kids") # {} THEN Failed ELSE kids
  /\ watchList' = IF Lost("watches") = {} THEN watchList
                  ELSE LET old == queue[Max(Lost("watches"))].list IN
                         [i \in DOMAIN old |-> [old[i] EXCEPT !.at = Failed]]
  /\ UNCHANGED <<stop, frames, variables, entered, rows, calls>>

GotStack(r) ==
  IF paused
  THEN /\ frames' = stop /\ evalFrame' = <<stop, 1>>
       /\ queue' = Append(Tail(queue), Ask("stopped", <<stop, 1>>, r.exc, <<>>))
       /\ UNCHANGED <<shown, watched>>
  ELSE queue' = Tail(queue) /\ UNCHANGED <<frames, evalFrame, shown, watched>>
\* loadFrameVariables, and what the one that called it does next.
GotVariables(r) ==
  /\ variables' = IF Current(r.frame) THEN r.frame ELSE variables
  /\ kids' = IF Remounts THEN None ELSE kids
  /\ queue' = (IF Remounts THEN Unmounted(Tail(queue)) ELSE Tail(queue))
               \o IF r.exc THEN <<Ask("exception", r.frame, TRUE, <<>>)>> ELSE EvaluateWatches(r.frame)
  /\ UNCHANGED <<frames, evalFrame, popup, watched>>
GotException(r) ==
  /\ queue' = Tail(queue) \o EvaluateWatches(r.frame)
  /\ UNCHANGED <<frames, evalFrame, shown, watched>>
GotWatches(r) ==
  /\ watchList' = [i \in DOMAIN r.list |-> [expr |-> r.list[i].expr,
                                            at |-> IF Current(r.frame) THEN r.frame ELSE Failed]]
  /\ queue' = Tail(queue) /\ UNCHANGED <<frames, evalFrame, shown, entered>>
\* Values that do not come count as none, and are not asked for again.
GotKids(r) ==
  /\ kids' = IF Current(r.frame) THEN r.frame ELSE Failed
  /\ queue' = Tail(queue) /\ UNCHANGED <<frames, evalFrame, variables, popup, watched>>
GotPopup(r) ==
  /\ popup' = IF Current(r.frame) THEN r.frame ELSE Failed
  /\ queue' = Tail(queue) /\ UNCHANGED <<frames, evalFrame, variables, kids, watched>>
\* The adapter answers in the order of the requests.
Answer ==
  /\ queue # <<>> /\ UNCHANGED <<live, status, stop, paused, rows, calls>>
  /\ LET r == Head(queue) IN
       \/ r.kind = "stack" /\ GotStack(r)
       \/ r.kind \in {"stopped", "picked"} /\ GotVariables(r)
       \/ r.kind = "exception" /\ GotException(r)
       \/ r.kind = "watches" /\ GotWatches(r)
       \/ r.kind = "kids" /\ GotKids(r)
       \/ r.kind = "popup" /\ GotPopup(r)
       \/ /\ r.kind = "unheard" /\ queue' = Tail(queue)
          /\ UNCHANGED <<frames, evalFrame, shown, watched>>

-----------------------------------------------------------------------------
Sends(more) ==
  /\ (more # <<>> => calls < MaxCalls) /\ calls' = calls + Len(more) /\ queue' = queue \o more
SelectFrameNot(d) ==                 \* mutant: the frame is not taken down
  /\ Unmasked /\ frames # 0 /\ (Patient => queue = <<>>)
  /\ Sends(IF live THEN <<Ask("picked", <<frames, d>>, FALSE, <<>>)>> ELSE <<>>)
  /\ UNCHANGED <<stopped, evalFrame, shown, watched, rows>>
SelectFrame(d) ==
  /\ Unmasked /\ frames # 0 /\ (Patient => queue = <<>>) /\ evalFrame' = <<frames, d>>
  /\ Sends(IF live THEN <<Ask("picked", <<frames, d>>, FALSE, <<>>)>> ELSE <<>>)
  /\ UNCHANGED <<stopped, shown, watched, rows>>
Elsewhere == kids = None /\ Lost("kids") = {}
StackTab == Elsewhere /\ \E d \in 1..2 : SelectFrame(d)

\* Another tab, or the folded panel, takes the tree of variables away.
LeaveVariables ==
  /\ Unmasked /\ kids' = None /\ queue' = Unmounted(queue)
  /\ UNCHANGED <<stopped, evalFrame, variables, popup, watched, rows, calls>>

\* A variable that was opened before is not asked for again.
Toggle ==
  /\ Unmasked /\ live /\ variables # None /\ kids = None
  /\ Sends(<<Ask("kids", variables, FALSE, <<>>)>>)
  /\ UNCHANGED <<stopped, evalFrame, shown, watched, rows>>

\* From the menu of a line (onSourceContextMenu); the page goes on to say "paused".
DoEvaluate ==
  /\ Unmasked /\ status = "paused" /\ evalFrame # None
  /\ Sends(<<Ask("popup", evalFrame, FALSE, <<>>)>>)
  /\ UNCHANGED <<stopped, evalFrame, shown, watched, rows>>
CloseOverlays == popup # None /\ popup' = None /\ UNCHANGED <<stopped, evalFrame, variables, kids, watched, queue, rows, calls>>

Evaluates == IF evalFrame = None THEN <<>> ELSE EvaluateWatches(evalFrame)
Unhurried == Unmasked /\ (Idle => evalFrame = None /\ queue = <<>>)
AddWatch(e) ==
  /\ Unhurried /\ Len(watchList) < MaxWatches
  /\ watchList' = Append(watchList, [expr |-> e, at |-> None]) /\ entered' = Append(entered, e)
  /\ Sends(Evaluates) /\ UNCHANGED <<stopped, evalFrame, shown, rows>>
UpdateWatch(i, e) ==
  /\ Unhurried /\ watchList[i].expr # e
  /\ watchList' = [watchList EXCEPT ![i].expr = e]
  /\ entered' = IF i \in DOMAIN entered THEN [entered EXCEPT ![i] = e] ELSE entered
  /\ Sends(Evaluates) /\ UNCHANGED <<stopped, evalFrame, shown, rows>>
Without(s, i) == SubSeq(s, 1, i - 1) \o SubSeq(s, i + 1, Len(s))
RemoveWatch(i) ==
  /\ Unhurried /\ watchList' = Without(watchList, i)
  /\ entered' = IF i \in DOMAIN entered THEN Without(entered, i) ELSE entered
  /\ UNCHANGED <<stopped, evalFrame, shown, queue, rows, calls>>
WatchTab ==
  /\ Elsewhere
  /\ \/ \E e \in Exprs : AddWatch(e) \/ \E i \in DOMAIN watchList : UpdateWatch(i, e)
     \/ \E i \in DOMAIN watchList : RemoveWatch(i)

-----------------------------------------------------------------------------
Request(kind, m, ids) ==
  /\ calls < MaxCalls /\ calls' = calls + 1
  /\ asked' = asked \cup {[kind |-> kind, model |-> m, ids |-> ids, n |-> calls']}
Deleting == \E r \in asked : r.kind # "list"
EditModel(m) ==
  /\ m # model /\ (Settled => asked = {}) /\ model' = m /\ field' = m
  /\ UNCHANGED <<stopped, evalFrame, shown, watched, queue, dynLogs, selected, asked, calls>>
\* fetchDynLogs; the field asks at its enter key, whether a list is on its way or not.
FetchDynLogs ==
  /\ Request("list", model, {})
  /\ UNCHANGED <<stopped, evalFrame, shown, watched, queue, model, field, dynLogs, selected>>
GotLogsKeepsTicks(r, ok) ==          \* mutant: ticks of rows that went are kept
  /\ r.kind = "list" /\ asked' = asked \ {r}
  /\ IF ok THEN dynLogs' = r.model /\ model' = r.model ELSE UNCHANGED <<dynLogs, model>>
  /\ UNCHANGED <<stopped, evalFrame, shown, watched, queue, field, selected, calls>>
\* Rows come with the model they are of, and the field follows it.
GotLogs(r, ok) ==
  /\ r.kind = "list" /\ asked' = asked \ {r}
  /\ IF ok THEN /\ dynLogs' = r.model /\ model' = r.model
                /\ selected' = selected \cap Ids(r.model)
           ELSE UNCHANGED <<dynLogs, model, selected>>
  /\ UNCHANGED <<stopped, evalFrame, shown, watched, queue, field, calls>>

Ticked(ids) ==
  /\ dynLogs # "none" /\ selected' = ids
  /\ UNCHANGED <<stopped, evalFrame, shown, watched, queue, model, field, dynLogs, asked, calls>>
ToggleSelected(id) == Ticked(IF id \in selected THEN selected \ {id} ELSE selected \cup {id})
ToggleSelectAll ==
  Ticked(IF Cardinality(selected) = Cardinality(Ids(dynLogs)) THEN {} ELSE Ids(dynLogs))
\* The ticked rows when there are any and no deletion is under way, or the one whose cross was hit.
DeleteDynLogs(ids) ==
  /\ dynLogs # "none" /\ (Listed => model = dynLogs)
  /\ (ids = selected /\ ids # {} /\ ~Deleting) \/ (\E id \in Ids(dynLogs) : ids = {id})
  /\ Request("delete", model, ids)
  /\ UNCHANGED <<stopped, evalFrame, shown, watched, queue, model, field, dynLogs, selected>>
\* Whether all, some or none were deleted, the rows are asked for again.
GotDelete(r, answered) ==
  /\ r.kind = "delete"
  /\ asked' = (asked \ {r}) \cup IF answered THEN {[r EXCEPT !.kind = "again", !.ids = {}]} ELSE {}
  /\ UNCHANGED <<stopped, evalFrame, shown, watched, queue, model, field, dynLogs, selected, calls>>
\* Whether they come or not, then no row is ticked.
GotAgain(r, ok) ==
  /\ r.kind = "again" /\ asked' = asked \ {r} /\ selected' = {}
  /\ IF ok THEN dynLogs' = r.model /\ model' = r.model ELSE UNCHANGED <<dynLogs, model>>
  /\ UNCHANGED <<stopped, evalFrame, shown, watched, queue, field, calls>>
Rows == IF dynLogs = "none" THEN {} ELSE Ids(dynLogs)
LogTab ==
  /\ Unmasked /\ Elsewhere
  /\ \/ FetchDynLogs \/ (\E m \in Models : EditModel(m))
     \/ ToggleSelectAll \/ (\E id \in Rows : ToggleSelected(id))
     \/ \E ids \in {selected} \cup {{id} : id \in Rows} : DeleteDynLogs(ids)

Next ==
  \/ \E exc \in BOOLEAN : HandleStopped(exc)
  \/ GoesOn \/ HandleFinished \/ StartDebug \/ Answer
  \/ StackTab \/ LeaveVariables \/ Toggle \/ DoEvaluate \/ CloseOverlays \/ WatchTab \/ LogTab
  \/ \E r \in asked, ok \in BOOLEAN : GotLogs(r, ok) \/ GotDelete(r, ok) \/ GotAgain(r, ok)

Spec == Init /\ [][Next]_vars
-----------------------------------------------------------------------------
TypeOK ==
  /\ stop \in 0..MaxStops /\ frames \in 0..MaxStops /\ live \in BOOLEAN /\ paused \in BOOLEAN
  /\ status \in {"idle", "running", "paused", "finished", "error"}
  /\ {evalFrame, variables, kids, popup} \subseteq (0..MaxStops) \X (0..2)
  /\ \A i \in DOMAIN watchList : watchList[i].expr \in Exprs
  /\ {model, field} \subseteq Models /\ dynLogs \in Models \cup {"none"}

\* The watched expressions are those that the user entered, in their order.
WatchesStay == [i \in DOMAIN watchList |-> watchList[i].expr] = entered

\* A watch is a persistent expression, valued at each stop (CfDebugPanel.tsx:215):
\* one that was added stays listed until the user removes it.
WatchesPersist ==
  \A n \in DOMAIN entered : \E i \in DOMAIN watchList : watchList[i].expr = entered[n]

\* When the answers are in, what is shown of a standing program is of the chosen frame.
ValuesAreOfFrame ==
  paused /\ queue = <<>> =>
    /\ variables = evalFrame /\ kids \in {None, variables} /\ popup \in {None, Failed, evalFrame}
    /\ \A i \in DOMAIN watchList : watchList[i].at \in {None, evalFrame}

\* Rows are deleted that the table showed, in the model they are of.
DeletesShown == \A r \in asked : r.kind = "delete" => r.ids \subseteq Ids(r.model)

\* The field keeps what the user typed.
FieldStays == model = field
=============================================================================
