----------------------------- MODULE TableWindow ----------------------------
(***************************************************************************)
(* The table of an HCM query in a window of its own (HcmTableWindow.tsx,   *)
(* useHcmDataQuery.ts): rows come from a snapshot of the main window or    *)
(* from the server, page by page.  The table (HcmDataTable.tsx) sorts and  *)
(* narrows what is there, and opens a cell that holds more than a word.    *)
(***************************************************************************)
EXTENDS Integers, Sequences, FiniteSets

CONSTANTS
  Models,
  Filled,       \* every model has rows
  Ordered,      \* answers come in the order of the requests, none fails
  Closed,       \* an open cell is closed before the rows around it change
  MaxCalls      \* bound

VARIABLES
  model,        \* the model chosen in the window
  asked,        \* useHcmDataQuery.model
  snapshot,     \* seedRows: the model of the snapshot, or none
  rows,         \* <<model, page>> of state.rows, or none
  page,         \* state.page
  loading, failed, \* state.loading, state.error
  token,        \* of the store: expired or fresh
  used,         \* the token that the render of load has closed over
  renewing,     \* requery waits for the new token
  autos,        \* queries the window made by itself since the model was chosen
  net, sent,
  sortDir, query, peek, \* the table: its order, its search, the place of the open cell
  opened        \* the row whose cell was opened

view == <<sortDir, query>>
cell == <<peek, opened>>
state == <<asked, rows, page, loading, failed>>
vars == <<model, state, snapshot, token, used, renewing, autos, net, sent, view, cell>>

None == "none"
Nothing == <<>>
LastPage == 2

Init ==
  /\ model \in Models /\ asked = None /\ snapshot \in {None, model}
  /\ rows = Nothing /\ page = 1 /\ loading = FALSE /\ failed = FALSE
  /\ token \in {"expired", "fresh"} /\ used = token /\ renewing = FALSE
  /\ autos = 0 /\ net = {} /\ sent = 0
  /\ sortDir = "none" /\ query = FALSE /\ peek = 0 /\ opened = <<Nothing, 0>>

-----------------------------------------------------------------------------
\* What the table is given: the rows of the snapshot as long as there is one.
Given == IF snapshot # None THEN <<snapshot, 0>> ELSE rows
\* Two rows; in ascending order the second comes first, and only it matches the search.
Sorted == IF sortDir = "asc" THEN <<2, 1>> ELSE <<1, 2>>
View == IF Given = Nothing THEN <<>> ELSE SelectSeq(Sorted, LAMBDA r : query => r = 2)
Shut == Closed => peek = 0

\* load: the closure's token goes with the request.
Load(m, p) ==
  /\ sent < MaxCalls /\ sent' = sent + 1
  /\ net' = net \cup {[n |-> sent + 1, model |-> m, page |-> p, token |-> used]}
  /\ asked' = m /\ loading' = TRUE /\ failed' = FALSE
  /\ UNCHANGED <<rows, page, view, cell>> /\ Shut

\* The effect: "without a snapshot query once".
AutoQuery ==
  /\ snapshot = None /\ ~loading /\ rows = Nothing /\ ~failed
  /\ Load(model, 1)
  /\ autos' = autos + 1
  /\ UNCHANGED <<model, snapshot, token, used, renewing>>

SelectModel(m) ==
  /\ m # model /\ model' = m
  /\ snapshot' = None /\ autos' = 0
  /\ Load(m, 1)
  /\ UNCHANGED <<token, used, renewing>>

\* requery, from the button; the token is renewed first when it is old.
Requery ==
  /\ ~loading /\ ~renewing
  /\ snapshot' = None
  /\ IF token = "expired"
     THEN renewing' = TRUE /\ UNCHANGED <<state, net, sent, view, cell>> /\ Shut
     ELSE Load(model, 1) /\ UNCHANGED renewing
  /\ UNCHANGED <<model, token, used, autos>>

\* The renewal comes back; requery goes on in the closure it began in.
Renewed(ok) ==
  /\ renewing /\ renewing' = FALSE
  /\ token' = IF ok THEN "fresh" ELSE token
  /\ Load(model, 1)
  /\ used' = token'
  /\ UNCHANGED <<model, snapshot, autos>>

\* goPage, changePageSize: of the model that was asked for last.
GoPage(p) ==
  /\ rows # Nothing /\ ~loading /\ p \in 1..LastPage /\ p # page
  /\ Load(asked, p)
  /\ UNCHANGED <<model, snapshot, token, used, renewing, autos>>

GotRowsKeeps(r) ==                   \* mutant: the rows before stay, only the page moves
  /\ rows' = IF rows = Nothing THEN <<r.model, r.page>> ELSE rows
  /\ page' = r.page /\ failed' = FALSE
GotRows(r) ==
  /\ rows' = <<r.model, r.page>> /\ page' = r.page /\ failed' = FALSE
NoRows(r) == rows' = Nothing /\ page' = r.page /\ failed' = FALSE
Fails == rows' = Nothing /\ failed' = TRUE /\ UNCHANGED page

\* An answer sets the whole state; an expired token is refused.
Answer(r) ==
  /\ r \in net /\ net' = net \ {r}
  /\ Ordered => \A s \in net : s.n >= r.n
  /\ \/ r.token = "fresh" /\ GotRows(r)
     \/ r.token = "fresh" /\ ~Filled /\ NoRows(r)
     \/ (~Ordered \/ r.token = "expired") /\ Fails
  /\ loading' = FALSE
  /\ UNCHANGED <<model, asked, snapshot, token, used, renewing, autos, sent, view, cell>>

ToggleSort ==
  /\ Len(View) > 0 /\ Shut
  /\ sortDir' = CASE sortDir = "none" -> "asc" [] sortDir = "asc" -> "desc" [] sortDir = "desc" -> "none"
  /\ UNCHANGED <<model, state, snapshot, token, used, renewing, autos, net, sent, query, cell>>
SetQuery(q) ==
  /\ q # query /\ Shut /\ query' = q
  /\ UNCHANGED <<model, state, snapshot, token, used, renewing, autos, net, sent, sortDir, cell>>
\* The open cell is remembered by its place.
Press(i) ==
  /\ i \in DOMAIN View /\ (Closed => net = {} /\ ~renewing) /\ peek' = IF peek = i THEN 0 ELSE i
  /\ opened' = <<Given, View[i]>>
  /\ UNCHANGED <<model, state, snapshot, token, used, renewing, autos, net, sent, view>>

Next ==
  \/ ToggleSort \/ \E q \in BOOLEAN : SetQuery(q)
  \/ \E i \in 1..2 : Press(i)
  \/ AutoQuery \/ Requery \/ \E m \in Models : SelectModel(m)
  \/ \E ok \in BOOLEAN : Renewed(ok)
  \/ \E p \in 1..LastPage : GoPage(p)
  \/ \E r \in net : Answer(r)
Spec == Init /\ [][Next]_vars /\ WF_vars(\E r \in net : Answer(r)) /\ WF_vars(AutoQuery)
-----------------------------------------------------------------------------
TypeOK ==
  /\ model \in Models /\ {asked, snapshot} \subseteq Models \cup {None}
  /\ rows \in {Nothing} \cup (Models \X (1..LastPage)) /\ page \in 1..LastPage
  /\ {loading, failed, renewing} \subseteq BOOLEAN /\ {token, used} \subseteq {"expired", "fresh"}
  /\ sortDir \in {"none", "asc", "desc"} /\ query \in BOOLEAN /\ peek \in 0..2
  /\ autos \in Nat /\ sent \in 0..MaxCalls

(***************************************************************************)
(* Rows, page number and chosen model belong together when nothing is on   *)
(* its way.                                                                *)
(***************************************************************************)
RowsAreOfModel ==
  /\ net = {} /\ rows # Nothing => rows = <<model, page>>
  /\ snapshot # None => snapshot = model

(***************************************************************************)
(* HcmTableWindow.tsx:108: without a snapshot the window queries once.     *)
(* A model without rows is queried again and again: its empty answer       *)
(* leaves nothing that the effect could tell from "not yet queried".       *)
(***************************************************************************)
AutoQueryOnce == autos <= 1

\* The cell that is open is that of the row it was opened in.
PeekIsOfRow == peek \in DOMAIN View => <<Given, View[peek]>> = opened

\* A query made after the token was renewed carries the new one.
NewTokenIsUsed == \A r \in net : r.token = token
=============================================================================
