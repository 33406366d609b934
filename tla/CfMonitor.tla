------------------------------ MODULE CfMonitor ------------------------------
(***************************************************************************)
(* The monitor of cloud functions (CfMonitorPanel.tsx): figures of an      *)
(* environment and a window of time that are fetched on request, once by   *)
(* itself, by the clock, and when the panel comes back to the front.       *)
(***************************************************************************)
EXTENDS Integers, FiniteSets

CONSTANTS
  Servers, Windows,  \* environments; what is asked of one (its log model and period)
  Patient,           \* environment, model and period stay while figures are fetched
  Listed,            \* the environment of the last visit is still there
  Thrown,            \* a server without figures answers with an HTTP error
  MaxCalls           \* bound: fetches

None == [server |-> "", window |-> "", ok |-> FALSE]
VARIABLES
  list, failed,      \* the environments that are there, with those that have a token; the list was not to be had
  server, window, data, err,
  busy, refresh, active, autoRan,
  net, sent,
  lost               \* figures gave way to a refresh that failed

choice == <<server, window>>
lists == <<list, failed>>
shown == <<data, err>>
page == <<refresh, active, autoRan>>
calls == <<net, sent>>
vars == <<lists, choice, shown, busy, page, calls, lost>>

NoList == [known |-> {}, signed |-> {}, ready |-> FALSE]
Init ==
  /\ list = NoList /\ failed = FALSE /\ server \in Servers \cup {""} /\ window \in Windows /\ data = None /\ err = FALSE
  /\ busy = FALSE /\ refresh \in BOOLEAN /\ active \in BOOLEAN /\ autoRan = FALSE /\ sent = 0 /\ lost = FALSE
  /\ net = {[n |-> 0, kind |-> "list"]}

-----------------------------------------------------------------------------
(* run: a silent one goes beside whatever is under way.                     *)
Fetches(silent) ==
  /\ sent < MaxCalls /\ sent' = sent + 1 /\ err' = FALSE /\ busy' = (busy \/ ~silent)
  /\ net' = net \cup {[n |-> sent + 1, kind |-> IF silent THEN "silent" ELSE "loud", server |-> server, window |-> window]}
Run == ~busy /\ server # "" /\ Fetches(FALSE) /\ UNCHANGED <<lists, choice, data, page, lost>>
\* Once, for an environment one is signed in to, as soon as the list is there.
AutoRun ==
  /\ ~autoRan /\ active /\ list.ready /\ ~failed /\ server \in list.signed
  /\ autoRan' = TRUE /\ Fetches(FALSE) /\ UNCHANGED <<lists, choice, data, refresh, active, lost>>
Tick == refresh /\ active /\ server # "" /\ Fetches(TRUE) /\ UNCHANGED <<lists, choice, data, page, lost>>
\* In the background the clock stands still; coming back makes up for it.
SetActive(on) ==
  /\ on # active /\ active' = on /\ UNCHANGED <<lists, choice, data, refresh, autoRan, lost>>
  /\ IF on /\ refresh /\ server # "" THEN Fetches(TRUE) ELSE UNCHANGED <<err, busy, calls>>
SetRefresh ==
  /\ active /\ refresh' = ~refresh /\ UNCHANGED <<lists, choice, shown, busy, active, autoRan, calls, lost>>

Asked(r) == r.kind # "list"
Still == Patient => ~\E r \in net : Asked(r)
PickServerKeeps(s) ==                \* mutant: the figures stay
  /\ active /\ s # server /\ s \in list.known /\ Still /\ server' = s /\ err' = FALSE /\ data' = data
  /\ UNCHANGED <<lists, window, busy, page, calls, lost>>
PickServer(s) ==
  /\ active /\ s # server /\ s \in list.known /\ Still /\ server' = s /\ err' = FALSE /\ data' = None
  /\ UNCHANGED <<lists, window, busy, page, calls, lost>>
PickWindow(w) ==
  /\ active /\ w # window /\ Still /\ window' = w /\ data' = None /\ UNCHANGED <<lists, server, err, busy, page, calls, lost>>

-----------------------------------------------------------------------------
\* The fetch that ends last is shown, with its figures or without.
GotRun(r) ==
  /\ Asked(r) /\ net' = net \ {r} /\ busy' = (busy /\ r.kind = "silent") /\ UNCHANGED <<lists, choice, page, sent>>
  /\ \E ok \in {TRUE} \cup (IF Thrown THEN {} ELSE {FALSE}) :
       /\ data' = [server |-> r.server, window |-> r.window, ok |-> ok] /\ err' = (err \/ ~ok)
       /\ lost' = (lost \/ (data.ok /\ ~ok))
NoRun(r) ==
  /\ Asked(r) /\ net' = net \ {r} /\ busy' = (busy /\ r.kind = "silent") /\ err' = TRUE
  /\ UNCHANGED <<lists, choice, data, page, sent, lost>>
\* An environment that is not in the list gives way to one that can be used.
Usable(K, S) == IF K = {} THEN {""} ELSE IF S # {} THEN S ELSE K
GotList(r) ==
  /\ ~Asked(r) /\ net' = net \ {r} /\ failed' = FALSE /\ UNCHANGED <<window, shown, busy, page, sent, lost>>
  /\ \E K \in SUBSET Servers : \E S \in SUBSET K :
       /\ Listed => server \in K \cup {""}
       /\ list' = [known |-> K, signed |-> S, ready |-> TRUE]
       /\ IF server \in K THEN UNCHANGED server ELSE server' \in Usable(K, S)
NoServers(r) ==
  /\ ~Asked(r) /\ net' = net \ {r} /\ failed' = TRUE /\ list' = [NoList EXCEPT !.ready = TRUE]
  /\ UNCHANGED <<choice, shown, busy, page, sent, lost>>
ReloadServers ==
  /\ failed /\ active /\ net' = net \cup {[n |-> 0, kind |-> "list"]} /\ UNCHANGED <<lists, choice, shown, busy, page, sent, lost>>

User == \/ Run \/ SetRefresh \/ ReloadServers
        \/ \E on \in BOOLEAN : SetActive(on)
        \/ \E s \in Servers : PickServer(s)
        \/ \E w \in Windows : PickWindow(w)
Answers == \E r \in net : GotRun(r) \/ NoRun(r) \/ GotList(r) \/ NoServers(r)
Next == User \/ AutoRun \/ Tick \/ Answers

Spec == Init /\ [][Next]_vars
-----------------------------------------------------------------------------
TypeOK ==
  /\ server \in Servers \cup {""} /\ window \in Windows /\ list.signed \subseteq list.known /\ list.known \subseteq Servers
  /\ \A f \in {failed, err, busy, refresh, active, autoRan, lost} : f \in BOOLEAN
  /\ data.server \in Servers \cup {""} /\ sent \in 0..MaxCalls

\* The figures are of the environment, the model and the period that the head of the page names.
DataIsOfChosen == data # None => data.server = server /\ data.window = window

\* The button waits no longer than a fetch that was asked for is under way.  (Not the other way round:
\* the fetch that begins by itself goes beside one that was asked for, and the first to end frees the button.)
BusyIsTrue == busy => \E r \in net : r.kind = "loud"

\* "With figures there, the strip says that this refresh failed" (480): the figures stay.
FiguresStay == ~lost
=============================================================================
