----------------------------- MODULE ApiTester ------------------------------
(***************************************************************************)
(* The tester of HCM interfaces (HcmApiTester.tsx): the list of interfaces *)
(* of a gateway, fetched in pages and cached; a call that is sent; and a   *)
(* debugging session over a WebSocket that shares the pane of the result.  *)
(***************************************************************************)
EXTENDS Integers, FiniteSets

CONSTANTS
  Gateways, Apis,
  Steady,      \* name and gateway stay once something was sent
  Single,      \* no call is sent beside a session, and none is begun beside a call
  Calm,        \* a session begins when the socket of the last one has closed
  MaxLists, MaxCalls \* bounds: lists; calls and sessions

None == [n |-> 0, api |-> "", g |-> ""]
VARIABLES
  api, target,
  fetchSeq, lists, options, listState, cache, \* lists that are fetched; whose list is offered; gateways in localStorage
  busy, result, net,     \* a call is under way; the result; the calls themselves
  ws, wsRef, sockets,    \* the session that is shown; the socket it holds, or 0; sockets
  sent, astray           \* what went wrong unseen: "name" (told to the AI bridge), "log"

form == <<api, target>>
listing == <<fetchSeq, lists, options, listState, cache>>
calling == <<busy, result, net>>
session == <<ws, wsRef, sockets>>
vars == <<form, listing, calling, session, sent, astray>>

NoSession == [phase |-> "none", final |-> None]
Init ==
  /\ api \in Apis /\ target \in Gateways /\ fetchSeq = 1 /\ cache \in SUBSET Gateways
  /\ IF target \in cache THEN options = target /\ listState = "ready" /\ lists = {}
     ELSE options = "" /\ listState = "loading" /\ lists = {[n |-> 1, g |-> target, pc |-> "first"]}
  /\ busy = FALSE /\ result = None /\ net = {} /\ ws = NoSession /\ wsRef = 0 /\ sockets = {} /\ sent = 0 /\ astray = {}

-----------------------------------------------------------------------------
(* fetchApiList, on every change of the gateway and on request.  A list in  *)
(* the cache is used for a day.                                             *)
FetchApiList(g, force) ==
  /\ fetchSeq < MaxLists /\ fetchSeq' = fetchSeq + 1 /\ UNCHANGED cache
  /\ \/ g \in cache /\ ~force /\ options' = g /\ listState' = "ready" /\ UNCHANGED lists
     \/ listState' = "loading" /\ lists' = lists \cup {[n |-> fetchSeq + 1, g |-> g, pc |-> "first"]} /\ UNCHANGED options
Blame(what, if) == astray' = IF if THEN astray \cup {what} ELSE astray
Settled == net = {} /\ sockets = {} /\ result = None /\ ws.final = None
PickGateway(g) ==
  /\ g # target /\ (Steady => Settled) /\ target' = g /\ FetchApiList(g, FALSE) /\ UNCHANGED <<api, calling, session, sent, astray>>
RetryList ==
  /\ listState = "error" /\ FetchApiList(target, TRUE) /\ UNCHANGED <<form, calling, session, sent, astray>>
\* The name of a result that is shown is told anew with every change of the field.
EditName(a) ==
  /\ a # api /\ (Steady => Settled) /\ api' = a /\ Blame("name", result # None /\ a # result.api)
  /\ UNCHANGED <<target, listing, calling, session, sent>>

Shown(l) == l.n = fetchSeq
\* The built-in interfaces are offered when nothing came.  The first page tells how many there are; pages that came back empty are asked for once more.
MorePages(l) ==
  /\ Shown(l) /\ \E pc \in {<<"first", "rest">>, <<"rest", "retry">>} :
       l.pc = pc[1] /\ lists' = (lists \ {l}) \cup {[l EXCEPT !.pc = pc[2]]}
  /\ UNCHANGED <<fetchSeq, options, listState, cache>>
GotListLate(l) ==                    \* mutant: whichever gateway it is of
  /\ lists' = lists \ {l} /\ options' = l.g /\ listState' = "ready" /\ UNCHANGED fetchSeq
  /\ cache' \in {cache, cache \cup {l.g}}
\* The list is cached if it is as long as the gateway counts, and if there is room.
GotList(l) ==
  /\ Shown(l) /\ lists' = lists \ {l} /\ options' = l.g /\ listState' = "ready" /\ UNCHANGED fetchSeq
  /\ cache' \in {cache, cache \cup {l.g}}
NoList(l) ==
  /\ Shown(l) /\ lists' = lists \ {l} /\ options' = "" /\ listState' = "error" /\ UNCHANGED <<fetchSeq, cache>>
Dropped(l) == ~Shown(l) /\ lists' = lists \ {l} /\ UNCHANGED <<fetchSeq, options, listState, cache>>

-----------------------------------------------------------------------------
Running == ws.phase \in {"connecting", "running"}
Begins == sent < MaxCalls /\ sent' = sent + 1
This == [n |-> sent + 1, api |-> api, g |-> target]
\* A session that has ended makes room; one that runs stays.
SendCall ==
  /\ ~busy /\ (Single => ~Running) /\ Begins /\ busy' = TRUE /\ net' = net \cup {This}
  /\ ws' = IF Running THEN ws ELSE NoSession
  /\ UNCHANGED <<form, listing, result, wsRef, sockets, astray>>
GotCall(r) ==
  /\ net' = net \ {r} /\ busy' = FALSE
  /\ \/ result' = r /\ Blame("name", api # r.api)
     \/ result' = None /\ UNCHANGED astray
  /\ UNCHANGED <<form, listing, session, sent>>

WsStartBeside ==                     \* mutant: without a look at the socket that is held
  /\ ~Running /\ (Calm => \A s \in sockets : s.n = wsRef) /\ (Single => ~busy) /\ Begins /\ result' = None
  /\ wsRef' = sent + 1 /\ ws' = [phase |-> "connecting", final |-> None] /\ sockets' = sockets \cup {This}
  /\ UNCHANGED <<form, listing, busy, net, astray>>
\* An address that the browser refuses opens no socket.
WsStart ==
  /\ ~Running /\ wsRef = 0 /\ (Calm => sockets = {}) /\ (Single => ~busy) /\ Begins /\ result' = None
  /\ \/ wsRef' = sent + 1 /\ ws' = [phase |-> "connecting", final |-> None] /\ sockets' = sockets \cup {This}
     \/ ws' = [phase |-> "error", final |-> None] /\ UNCHANGED <<wsRef, sockets>>
  /\ UNCHANGED <<form, listing, busy, net, astray>>
\* The socket that is stopped delivers no message more, only an error, if it was not open yet, and its close.
WsStop ==
  /\ Running /\ ws' = [ws EXCEPT !.phase = "done"] /\ wsRef' = 0
  /\ sockets' = {IF s.n = wsRef THEN [s EXCEPT !.api = "closing"] ELSE s : s \in sockets}
  /\ UNCHANGED <<form, listing, calling, sent, astray>>
Live(s) == s.api # "closing"
Opened(s) == Live(s) /\ ws.phase = "connecting" /\ ws' = [ws EXCEPT !.phase = "running"] /\ UNCHANGED <<wsRef, sockets, astray>>
\* What is told names the interface that the session began with.
Final(s) ==
  /\ Live(s) /\ ws' = IF ws.phase = "none" THEN ws ELSE [phase |-> "done", final |-> s]
  /\ sockets' = (sockets \ {s}) \cup {[s EXCEPT !.api = "closing"]} /\ UNCHANGED <<wsRef, astray>>
OnError(s) ==
  /\ ws' = IF ws.final = None /\ ws.phase # "none" THEN [ws EXCEPT !.phase = "error"] ELSE ws
  /\ sockets' = (sockets \ {s}) \cup {[s EXCEPT !.api = "closing"]} /\ UNCHANGED <<wsRef, astray>>
\* Whichever socket closes, the page lets go of the one that it holds.
OnClose(s) ==
  /\ sockets' = sockets \ {s} /\ wsRef' = 0 /\ UNCHANGED astray
  /\ ws' = IF ws.phase \in {"none", "done"} \/ ws.final # None THEN ws ELSE [ws EXCEPT !.phase = "error"]

Display == IF ws.final # None THEN ws.final ELSE result
\* The log of a result is asked of the gateway that the field names.
DownloadTemp ==
  /\ result # None /\ ws.final = None /\ Blame("log", target # result.g) /\ UNCHANGED <<form, listing, calling, session, sent>>

Lists == \E l \in lists : MorePages(l) \/ GotList(l) \/ NoList(l) \/ Dropped(l)
Sockets == \E s \in sockets : Opened(s) \/ Final(s) \/ OnError(s) \/ OnClose(s)
User == \/ RetryList \/ SendCall \/ WsStart \/ WsStop \/ DownloadTemp
        \/ \E g \in Gateways : PickGateway(g)
        \/ \E a \in Apis : EditName(a)
Next == \/ User
        \/ \E r \in net : GotCall(r)
        \/ Lists /\ UNCHANGED <<form, calling, session, sent, astray>>
        \/ Sockets /\ UNCHANGED <<form, listing, calling, sent>>

Spec == Init /\ [][Next]_vars
-----------------------------------------------------------------------------
TypeOK ==
  /\ api \in Apis /\ target \in Gateways /\ options \in Gateways \cup {""} /\ cache \subseteq Gateways
  /\ listState \in {"loading", "ready", "error"} /\ ws.phase \in {"none", "connecting", "running", "done", "error"}
  /\ wsRef \in 0..sent /\ sent \in 0..MaxCalls /\ fetchSeq \in 1..MaxLists /\ busy \in BOOLEAN /\ Cardinality(net) <= 1

\* The list that is offered as ready is the list of the gateway in the field.
OptionsAreOfTarget == listState = "ready" => options = target

\* "The pane shows the latest request" (362-364), once everything was answered.
DisplayIsLatest == (~busy /\ ~Running /\ sockets = {}) => Display.n \in {0, sent}

\* A socket that may still deliver is the one the page holds, and can stop.
SessionIsHeld == \A s \in sockets : Live(s) => wsRef = s.n /\ ws.phase # "none"

(***************************************************************************)
(* What the AI bridge was told names the interface that was called, and    *)
(* the log that was saved is of the gateway that the result came from.     *)
(***************************************************************************)
ToldIsTrue == astray = {}
=============================================================================
