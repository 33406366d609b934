------------------------------ MODULE CfDeploy -------------------------------
(***************************************************************************)
(* Cloud functions on a gateway and in a local file: the panel that        *)
(* compares, pulls, pushes and rolls back (CfConsistencyPanel.tsx), and    *)
(* the server that archives what a push replaces in a ledger of            *)
(* deployments (api/cf/cf_consistency.py).                                 *)
(***************************************************************************)
EXTENDS Integers, Sequences, FiniteSets, Functions, TLC

CONSTANTS
  Gateways,
  MaxTries,    \* writes of a push (3 in the code)
  Fixed,       \* the gateway field stays once a gateway was scanned, and the ledger has no other
  Mapped,      \* a row without a function online is not chosen while a comparison is under way
  Alone,       \* windows deploy one after the other, and nobody else writes to a gateway
  Reachable,   \* the version that a push replaces can be read
  MaxDeploys, MaxCalls \* bounds: pulls, pushes and rollbacks; scans and comparisons

VARIABLES
  target, scanned,       \* the gateway field; the gateway of the list, or ""
  sel, detail, detailReq, \* the row that is chosen, the one whose comparison is shown; the last comparison
  busy, acting,          \* setBusy; a deployment of this window, or 0
  net, sent,
  online, local,         \* versions: a gateway's own, or "local"
  deploys, index,        \* deployments with their ledger directories; index.jsonl: which are listed, as done or not
  astray                 \* what went wrong unseen: "gateway", "restore", "point"

list == <<target, scanned, sel, detail, detailReq>>
page == <<list, busy, acting>>
calls == <<net, sent>>
code == <<online, local>>
ledger == <<deploys, index>>
vars == <<page, calls, code, ledger, astray>>

Rows == {"f", "l"}                   \* a function with its file; a file without a function
Init ==
  /\ target \in Gateways /\ scanned = "" /\ sel = "" /\ detail = "" /\ detailReq = 0 /\ busy = FALSE /\ acting = 0
  /\ net = {} /\ sent = 0 /\ online = [g \in Gateways |-> g] /\ local = "local" /\ deploys = <<>> /\ index = <<>> /\ astray = {}

-----------------------------------------------------------------------------
Send(kind, g, acts) ==
  /\ sent < MaxCalls /\ sent' = sent + 1
  /\ net' = net \cup {[n |-> sent + 1, kind |-> kind, of |-> g, acts |-> acts]}
EditTarget(g) ==
  /\ g # target /\ (Fixed => scanned = "" /\ net = {} /\ deploys = <<>>) /\ target' = g
  /\ UNCHANGED <<scanned, sel, detail, detailReq, busy, acting, calls, code, ledger, astray>>
\* doScan; a deployment that has come back goes on when its scan is answered.
DoScan(g, acts) ==
  /\ busy' = TRUE /\ sel' = "" /\ detail' = "" /\ Send("scan", g, acts)
  /\ UNCHANGED <<target, scanned, detailReq, acting, code, ledger, astray>>
Scan == ~busy /\ DoScan(target, FALSE)
GotScan(r) ==
  /\ r.kind = "scan" /\ net' = net \ {r} /\ scanned' \in {r.of, ""} /\ busy' = FALSE
  /\ acting' = (IF r.acts THEN 0 ELSE acting)
  /\ UNCHANGED <<target, sel, detail, detailReq, sent, code, ledger, astray>>

SelectRowKeeps(r) ==                 \* mutant: the comparison stays
  /\ scanned # "" /\ sel' = r /\ detail' = detail
  /\ IF r = "l" THEN (Mapped => \A q \in net : q.kind # "diff") /\ UNCHANGED <<detailReq, calls>>
     ELSE Send("diff", target, FALSE) /\ detailReq' = sent + 1
  /\ UNCHANGED <<target, scanned, busy, acting, code, ledger, astray>>
\* A file without a function is not compared, and takes no number.
SelectRow(r) ==
  /\ scanned # "" /\ sel' = r /\ detail' = ""
  /\ IF r = "l" THEN (Mapped => \A q \in net : q.kind # "diff") /\ UNCHANGED <<detailReq, calls>>
     ELSE Send("diff", target, FALSE) /\ detailReq' = sent + 1
  /\ UNCHANGED <<target, scanned, busy, acting, code, ledger, astray>>
GotDiff(r) ==
  /\ r.kind = "diff" /\ net' = net \ {r} /\ detail' \in (IF r.n = detailReq THEN {"f", detail} ELSE {detail})
  /\ UNCHANGED <<target, scanned, sel, detailReq, busy, acting, sent, code, ledger, astray>>

-----------------------------------------------------------------------------
Done(i) == deploys[i].pc = "done"
Begin(kind, g, src) ==
  /\ Len(deploys) < MaxDeploys /\ (Alone => \A i \in DOMAIN deploys : Done(i))
  /\ deploys' = Append(deploys, [kind |-> kind, g |-> g, src |-> src, before |-> "", pc |-> "fetch", tries |-> 0,
                                 ok |-> FALSE, thrown |-> FALSE, snap |-> <<>>])
Blame(what, if) == astray' = IF if THEN astray \cup {what} ELSE astray
Act(kind, src) ==
  /\ acting = 0 /\ Begin(kind, target, src) /\ acting' = Len(deploys) + 1
  /\ UNCHANGED <<list, busy, calls, code, index>>
\* What is chosen in the list goes to the gateway that the field names.
Push == sel = "f" /\ scanned # "" /\ Act("push", local) /\ Blame("gateway", target # scanned)
Pull == sel = "f" /\ scanned # "" /\ Act("pull", "") /\ Blame("gateway", target # scanned)
\* A deployment of the ledger is undone on the gateway that the field names.
Rollback(i) ==
  /\ i \in DOMAIN index /\ deploys[i].before # ""
  /\ Act("rollback", deploys[i].before) /\ Blame("restore", target # deploys[i].g)
\* The gateway that it was sent to is scanned again, unless the call has failed.
GotDone ==
  /\ acting # 0 /\ Done(acting) /\ ~\E r \in net : r.acts
  /\ IF deploys[acting].thrown THEN acting' = 0 /\ UNCHANGED <<list, busy, calls, code, ledger, astray>>
     ELSE DoScan(deploys[acting].g, TRUE)

-----------------------------------------------------------------------------
Set(i, new) == deploys' = [deploys EXCEPT ![i] = new @@ deploys[i]]
Throw(i) == Set(i, [pc |-> "done", thrown |-> TRUE])
At(i, pc) == deploys[i].pc = pc /\ UNCHANGED <<page, calls>>
OtherPush(g) ==
  /\ (Fixed => g = target) /\ Begin("push", g, local) /\ UNCHANGED <<page, calls, code, index, astray>>

\* No file to push, no version to pull, no entry to go back to.
Refuse(i) == At(i, "fetch") /\ Throw(i) /\ UNCHANGED <<code, index, astray>>
\* A version that cannot be read is no reason to stop.
FetchOld(i) ==
  /\ At(i, "fetch") /\ deploys[i].kind # "pull" /\ UNCHANGED <<code, index, astray>>
  /\ \E v \in {online[deploys[i].g]} \cup (IF Reachable THEN {} ELSE {""}) : Set(i, [before |-> v, pc |-> "read"])
FetchNew(i) ==
  /\ At(i, "fetch") /\ deploys[i].kind = "pull" /\ UNCHANGED <<code, index, astray>>
  /\ Set(i, [src |-> online[deploys[i].g], pc |-> "save"])
Save(i) ==
  /\ At(i, "save") /\ UNCHANGED <<online, index, astray>>
  /\ \/ local' = deploys[i].src /\ Set(i, [ok |-> TRUE, pc |-> "reread"])
     \/ local' = local /\ Throw(i)
\* ledger_record: the index is read, and written with this entry. It may fail.
ReadIndex(i) ==
  /\ deploys[i].pc \in {"read", "reread"} /\ UNCHANGED <<page, calls, code, index, astray>>
  /\ \/ Set(i, [snap |-> index, pc |-> IF deploys[i].pc = "read" THEN "write" ELSE "rewrite"])
     \/ Throw(i)
WriteIndex(i) ==
  /\ deploys[i].pc \in {"write", "rewrite"} /\ UNCHANGED <<page, calls, code, astray>>
  /\ index' = (i :> deploys[i].ok) @@ deploys[i].snap
  /\ Set(i, [snap |-> <<>>, pc |-> IF deploys[i].pc = "write" THEN "edit" ELSE "done"])
\* An edit may be lost, with or without an error, and so may its answer.
Edit(i) ==
  /\ At(i, "edit") /\ UNCHANGED <<local, index>>
  /\ LET d == deploys[i] IN
     /\ online' \in {[online EXCEPT ![d.g] = d.src], online}
     /\ Blame("point", online' # online /\ online[d.g] # d.before)
     /\ \E pc \in {"verify", IF d.tries + 1 < MaxTries THEN "edit" ELSE "reread"} :
          Set(i, [tries |-> d.tries + 1, pc |-> pc])
VerifyNothing(i) ==                  \* mutant: what was sent is taken as written
  /\ At(i, "verify") /\ UNCHANGED <<code, index, astray>>
  /\ Set(i, [ok |-> TRUE, pc |-> "reread"])
\* An answer that cannot be read ends a push as failed, a rollback without a word in the ledger.
Verify(i) ==
  /\ At(i, "verify") /\ UNCHANGED <<code, index, astray>>
  /\ LET d == deploys[i] IN
     \/ online[d.g] = d.src /\ Set(i, [ok |-> TRUE, pc |-> "reread"])
     \/ online[d.g] # d.src /\ Set(i, [pc |-> IF d.tries < MaxTries THEN "edit" ELSE "reread"])
     \/ d.kind = "push" /\ Set(i, [pc |-> "reread"])
     \/ d.kind = "rollback" /\ Throw(i)

User == \/ Scan \/ Push \/ Pull \/ GotDone
        \/ \E g \in Gateways : EditTarget(g)
        \/ \E r \in Rows : SelectRow(r)
        \/ \E i \in DOMAIN deploys : Rollback(i)
        \/ \E r \in net : GotScan(r) \/ GotDiff(r)
Server ==
  \E i \in DOMAIN deploys :
    Refuse(i) \/ FetchOld(i) \/ FetchNew(i) \/ Save(i) \/ ReadIndex(i) \/ WriteIndex(i) \/ Edit(i) \/ Verify(i)
Next == User \/ Server \/ \E g \in Gateways : OtherPush(g)

Spec == Init /\ [][Next]_vars
-----------------------------------------------------------------------------
TypeOK ==
  /\ target \in Gateways /\ scanned \in Gateways \cup {""} /\ {sel, detail} \subseteq Rows \cup {""} /\ acting \in 0..MaxDeploys
  /\ detailReq \in 0..sent /\ sent \in 0..MaxCalls /\ Range(online) \subseteq Gateways \cup {"local"} /\ DOMAIN index \subseteq DOMAIN deploys

\* The comparison beside a row is of this row.
DetailIsOfSelected == sel # "" => detail \in {"", sel}

(***************************************************************************)
(* A version goes to the gateway whose list it was chosen from, goes back  *)
(* to the gateway that it came from, and replaces nothing that the ledger  *)
(* does not have.                                                          *)
(***************************************************************************)
NothingAstray == astray = {}

(***************************************************************************)
(* When nothing is being deployed, the ledger lists every deployment that  *)
(* wrote to a gateway, and one that it calls done is what the gateway      *)
(* runs, unless a later one has written there.                             *)
(***************************************************************************)
Wrote(i) == deploys[i].tries > 0
LedgerIsTrue ==
  (\A i \in DOMAIN deploys : Done(i)) =>
    /\ \A i \in DOMAIN deploys : Wrote(i) => i \in DOMAIN index
    /\ \A i \in DOMAIN index :
         index[i] /\ Wrote(i) =>
           \/ online[deploys[i].g] = deploys[i].src
           \/ \E k \in DOMAIN deploys : k > i /\ Wrote(k) /\ deploys[k].g = deploys[i].g
=============================================================================
