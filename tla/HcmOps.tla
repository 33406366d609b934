------------------------------- MODULE HcmOps --------------------------------
(***************************************************************************)
(* The operations page of HCM (HcmOps.tsx): keys of a gateway's Redis that *)
(* are looked up and deleted, one at a time or in a batch, and its errors  *)
(* of a period; a parameter that is decrypted.                             *)
(***************************************************************************)
EXTENDS Integers, Sequences, FiniteSets

CONSTANTS
  Gateways, Keys,
  Times, Dates,      \* periods, "today" among them; the dates of the one called "custom"
  Pages,             \* pages of errors
  Patient,           \* gateway, tab and period stay while something is under way
  Ordered,           \* searches are answered in the order they were sent
  Fresh,             \* nothing is ticked while a search begins or a key is deleted by itself
  Reliable,          \* no deletion of a batch fails
  Dated,             \* dates are not touched while errors are shown or asked for
  MaxCalls           \* bound: searches, deletions and queries

Nothing == [g |-> "", pick |-> FALSE, keys |-> {}]
NoBatch == [g |-> "", keys |-> {}, todo |-> {}]
VARIABLES
  tab, target,
  items, searched, pick, selected, \* keys that were found; whether keys were asked for; whether to pick from; ticked keys
  asks, delTarget, delBusy,        \* the confirmations: for a batch, for a key ("" for none); one key is being deleted
  batch,                           \* the batch that is being deleted
  time, dates, page,               \* the period of errors, the dates of "custom" ("" for none) and the page
  rows, busy,                      \* what the result of the other tabs is of; it is asked for
  net, sent,
  redis, astray                    \* the keys of a gateway; what went wrong unseen: "delete"

found == <<items, searched, pick, selected>>
asking == <<asks, delTarget, delBusy>>
errors == <<time, dates, page, rows, busy>>
calls == <<net, sent>>
vars == <<tab, target, found, asking, batch, errors, calls, redis, astray>>

Tabs == {"redis", "errors", "decrypt"}
Empty == items = Nothing /\ searched = FALSE /\ pick = FALSE /\ selected = {} /\ asks = FALSE /\ delTarget = "" /\ delBusy = FALSE
Init ==
  /\ tab = "redis" /\ target \in Gateways /\ Empty /\ batch = NoBatch
  /\ time = "today" /\ dates = "" /\ page = 1 /\ rows = <<>> /\ busy = FALSE /\ net = {} /\ sent = 0 /\ redis = [g \in Gateways |-> Keys] /\ astray = FALSE

-----------------------------------------------------------------------------
Dialog == asks \/ delTarget # ""
Calm == Patient => net = {} /\ batch = NoBatch
Send(kind, of) == sent < MaxCalls /\ sent' = sent + 1 /\ net' = net \cup {[n |-> sent + 1, kind |-> kind, of |-> of]}
\* A tab that is left forgets everything, the answers to come included (no deletion is left running).
Forgotten == items' = Nothing /\ searched' = FALSE /\ pick' = FALSE /\ selected' = {} /\ delTarget' = ""
PickTab(x) ==
  /\ x # tab /\ ~Dialog /\ ~delBusy /\ batch = NoBatch /\ Calm /\ tab' = x /\ Forgotten
  /\ time' = "today" /\ dates' = "" /\ page' = 1
  /\ rows' = <<>> /\ busy' = FALSE /\ net' = {} /\ UNCHANGED <<target, asks, delBusy, batch, sent, redis, astray>>
PickTargetKeeps(g) ==                \* mutant: what was found stays
  /\ g # target /\ ~Dialog /\ Calm /\ target' = g /\ rows' = <<>>
  /\ UNCHANGED <<tab, found, asking, batch, time, dates, page, busy, calls, redis, astray>>
\* "A key of A taken for one of B is dangerous" (180): what was found is cleared, not what is under way.
PickTarget(g) ==
  /\ g # target /\ ~Dialog /\ Calm /\ target' = g /\ Forgotten /\ rows' = <<>>
  /\ UNCHANGED <<tab, asks, delBusy, batch, time, dates, page, busy, calls, redis, astray>>

-----------------------------------------------------------------------------
(* The keys.  Only the button waits for the answer before; the enter key,   *)
(* the history and the presets do not.                                      *)
DoSearch(p) ==
  /\ tab = "redis" /\ ~Dialog /\ (Fresh => selected = {}) /\ (Patient => batch = NoBatch)
  /\ searched' = TRUE /\ pick' = p /\ Send("find", [g |-> target, pick |-> p])
  /\ UNCHANGED <<tab, target, items, selected, asking, batch, errors, redis, astray>>
Oldest(r) == \A q \in net : q.kind = "find" => r.n <= q.n
GotFind(r) ==
  /\ r.kind = "find" /\ (Ordered => Oldest(r)) /\ net' = net \ {r} /\ UNCHANGED <<tab, target, asking, batch, errors, sent, redis, astray>>
  /\ items' \in {[g |-> r.of.g, pick |-> r.of.pick, keys |-> redis[r.of.g]], Nothing} /\ UNCHANGED <<searched, pick, selected>>
\* A name to pick from is searched for, as a key.
PickKey == pick /\ items.keys # {} /\ DoSearch(FALSE)

Listed == searched /\ ~pick /\ ~Dialog
Tick(S) ==
  /\ Listed /\ (Fresh => ~delBusy) /\ selected' = S
  /\ UNCHANGED <<tab, target, items, searched, pick, asking, batch, errors, calls, redis, astray>>
ToggleSel(k) == k \in items.keys /\ Tick(IF k \in selected THEN selected \ {k} ELSE selected \cup {k})
\* The box above the list ticks all of it or nothing; the bar below clears the ticks, unless a batch runs.
SelectAll(on) == items.keys # {} /\ Tick(IF on THEN items.keys ELSE {})
ClearSelection == selected # {} /\ batch = NoBatch /\ Tick({})
AskDelete(k) ==
  /\ Listed /\ ~delBusy /\ (Fresh => selected = {}) /\ k \in items.keys /\ delTarget' = k
  /\ UNCHANGED <<tab, target, found, asks, delBusy, batch, errors, calls, redis, astray>>
AskBatch ==
  /\ selected # {} /\ ~pick /\ ~Dialog /\ batch = NoBatch /\ asks' = TRUE
  /\ UNCHANGED <<tab, target, found, delTarget, delBusy, batch, errors, calls, redis, astray>>
\* Escape closes the confirmation, also while the deletion runs.
Escape ==
  /\ Dialog /\ asks' = FALSE /\ delTarget' = "" /\ UNCHANGED <<tab, target, found, delBusy, batch, errors, calls, redis, astray>>

Blame(if) == astray' = (astray \/ if)
DoDelete ==
  /\ delTarget # "" /\ ~delBusy /\ delBusy' = TRUE /\ Send("del", [g |-> target, k |-> delTarget]) /\ Blame(items.g \notin {"", target})
  /\ UNCHANGED <<tab, target, found, asks, delTarget, batch, errors, redis>>
Removed(S) == items' = [items EXCEPT !.keys = @ \ S]
GotDelete(r) ==
  /\ r.kind = "del" /\ net' = net \ {r} /\ delBusy' = FALSE /\ UNCHANGED <<tab, target, searched, pick, selected, asks, batch, errors, sent, astray>>
  /\ \/ redis' = [redis EXCEPT ![r.of.g] = @ \ {r.of.k}] /\ Removed({r.of.k}) /\ delTarget' = ""
     \/ UNCHANGED <<redis, items, delTarget>>

\* One key after the other, on the gateway of the beginning.
BatchDelete ==
  /\ asks /\ selected # {} /\ batch = NoBatch /\ batch' = [g |-> target, keys |-> selected, todo |-> selected] /\ Blame(items.g \notin {"", target})
  /\ UNCHANGED <<tab, target, found, asking, errors, calls, redis>>
BatchStep(k) ==
  /\ k \in batch.todo /\ batch' = [batch EXCEPT !.todo = @ \ {k}] /\ UNCHANGED <<tab, target, found, asking, errors, calls, astray>>
  /\ \E ok \in IF Reliable THEN {TRUE} ELSE BOOLEAN : redis' = IF ok THEN [redis EXCEPT ![batch.g] = @ \ {k}] ELSE redis
\* Every key that was ticked leaves the list, those that failed as well.
BatchDone ==
  /\ batch # NoBatch /\ batch.todo = {} /\ Removed(batch.keys) /\ selected' = {} /\ asks' = FALSE /\ batch' = NoBatch
  /\ UNCHANGED <<tab, target, searched, pick, delTarget, delBusy, errors, calls, redis, astray>>

-----------------------------------------------------------------------------
Unsent == UNCHANGED <<tab, target, found, asking, batch, busy, calls, redis, astray>>
PickTime(x) == tab = "errors" /\ x # time /\ Calm /\ time' = x /\ rows' = <<>> /\ UNCHANGED <<dates, page>> /\ Unsent
\* Dates that are typed leave the errors of the old ones.
PickDates(d) ==
  /\ tab = "errors" /\ time = "custom" /\ d # dates /\ (Dated => rows = <<>> /\ ~busy) /\ dates' = d
  /\ UNCHANGED <<time, page, rows>> /\ Unsent
Period == IF time = "custom" THEN dates ELSE time
\* A period of one's own without dates is not asked for.  The pager stands below errors that are shown.
LoadErrors(p) ==
  /\ tab = "errors" /\ ~busy /\ Period # "" /\ busy' = TRUE /\ Send("rows", <<target, Period, p>>)
  /\ p = 1 \/ (rows # <<>> /\ p \in {page - 1, page + 1} \cap 1..Pages)
  /\ UNCHANGED <<tab, target, found, asking, batch, time, dates, page, rows, redis, astray>>
\* A parameter, without which nothing is sent, is decrypted with the keys of the gateway.
Decrypt ==
  /\ tab = "decrypt" /\ ~busy /\ busy' = TRUE /\ rows' = <<>> /\ Send("rows", <<target>>)
  /\ UNCHANGED <<tab, target, found, asking, batch, time, dates, page, redis, astray>>
GotRows(r) ==
  /\ r.kind = "rows" /\ net' = net \ {r} /\ busy' = FALSE
  /\ \/ rows' = r.of /\ page' = IF Len(r.of) = 3 THEN r.of[3] ELSE page
     \/ rows' = <<>> /\ UNCHANGED page
  /\ UNCHANGED <<tab, target, found, asking, batch, time, dates, sent, redis, astray>>

User == \/ PickKey \/ AskBatch \/ Escape \/ DoDelete \/ BatchDelete \/ ClearSelection \/ Decrypt
        \/ \E x \in Tabs : PickTab(x)
        \/ \E g \in Gateways : PickTarget(g)
        \/ \E p \in BOOLEAN : DoSearch(p) \/ SelectAll(p)
        \/ \E k \in Keys : ToggleSel(k) \/ AskDelete(k)
        \/ \E x \in Times : PickTime(x)
        \/ \E d \in Dates \cup {""} : PickDates(d)
        \/ \E p \in 1..Pages : LoadErrors(p)
Answers == \/ BatchDone \/ \E k \in Keys : BatchStep(k)
           \/ \E r \in net : GotFind(r) \/ GotDelete(r) \/ GotRows(r)
Next == User \/ Answers

Spec == Init /\ [][Next]_vars
-----------------------------------------------------------------------------
TypeOK ==
  /\ tab \in Tabs /\ target \in Gateways /\ items.g \in Gateways \cup {""} /\ items.keys \cup selected \subseteq Keys
  /\ \A f \in {searched, pick, asks, delBusy, busy, astray} : f \in BOOLEAN
  /\ delTarget \in Keys \cup {""} /\ Len(rows) <= 3 /\ page \in 1..Pages /\ sent \in 0..MaxCalls

(***************************************************************************)
(* The keys and the errors that are listed are of the gateway, the period  *)
(* and the page; names to pick from are not listed as keys, and what is    *)
(* ticked is listed.                                                       *)
(***************************************************************************)
FoundIsOfTarget ==
  /\ items # Nothing => items.g = target /\ (net = {} => items.pick = pick)
  /\ rows \in {<<>>, IF tab = "errors" THEN <<target, Period, page>> ELSE <<target>>}
  /\ (batch = NoBatch /\ net = {} /\ items # Nothing) => selected \subseteq items.keys

\* A key is deleted on the gateway on which it was found.
DeletesFound == ~astray

\* A key that left the list of the last search has left the gateway.
GoneIsDeleted == (net = {} /\ batch = NoBatch /\ items # Nothing /\ ~items.pick) => redis[items.g] \subseteq items.keys
=============================================================================
