------------------------------- MODULE K8sEnv --------------------------------
(***************************************************************************)
(* The window in which Kubernetes environments are edited                  *)
(* (k8s/K8sEnvModal.tsx, routes_k8s_env.py, core/k8s/env.py): a list, a    *)
(* form that edits one of it or makes a new one, and the kubeconfigs that  *)
(* a script has pushed and the user imports.  An environment is its        *)
(* kubeconfig and its context; a list is read when its answer is handled.  *)
(***************************************************************************)
EXTENDS Integers, FiniteSets, TLC

CONSTANTS
  Names,
  Listed,     \* a listing does not fail
  Writes,     \* the server can write what it is sent
  Cleared,    \* a field that had a value is not emptied
  Refilled,   \* what is imported is not what the form holds
  Patient,    \* the user waits for the answers
  MaxItems,   \* drafts the server keeps (routes_k8s_env.py:36)
  MaxCalls, MaxDrafts \* bounds

VARIABLES
  envs, current, seed, \* the server's file, and the defaults in its memory
  drafts, pushed,      \* <<id, name>>, pushed and not imported; how many so far
  list, listCurrent, incoming, \* the window's copies; overwrite mark beside a draft
  form, mode, selName, \* the form; "edit" or "new"; the entry of the list that is picked
  dirty,               \* the form was typed in since it was filled or saved
  armed,               \* the name on the button when it asked for confirmation, or none
  busy, asking,        \* setBusy; the request whose overwriting the user is asked about
  jobs, polls, calls   \* handlers that wait for an answer, answers to the timer, calls made

store == <<envs, current, seed>>
server == <<store, drafts, pushed>>
shown == <<list, listCurrent, incoming>>
filled == <<form, mode, selName, dirty>>
edited == <<filled, armed>>
vars == <<server, shown, edited, busy, asking, jobs, polls, calls>>

None == ""
Empty == [name |-> None, kube |-> "", ctx |-> ""]
Nobody == {}
\* DEFAULT_ENV_SEED.
Default == CHOOSE n \in Names : TRUE
Nothing == [envs |-> <<>>, current |-> None]
Job(kind, n, id, sure, stage) ==
  [kind |-> kind, name |-> n, id |-> id, form |-> form, mode |-> mode, sure |-> sure, stage |-> stage, found |-> Nothing]

Init ==
  /\ envs \in UNION {[S -> {[kube |-> "k", ctx |-> "c"]}] : S \in SUBSET Names}
  /\ current \in (IF DOMAIN envs = {} THEN {None} ELSE DOMAIN envs)
  /\ seed = [envs |-> Default :> [kube |-> "d", ctx |-> ""], current |-> Default]
  /\ drafts = {} /\ list = <<>> /\ listCurrent = None /\ incoming = {}
  /\ form = Empty /\ mode = "edit" /\ selName = None /\ dirty = FALSE /\ armed = None
  /\ busy = FALSE /\ asking = Nobody /\ calls = 0 /\ pushed = 0
  /\ jobs = {Job("open", None, 0, FALSE, "list")} /\ polls = {}

-----------------------------------------------------------------------------
\* The form.
Fill(l, n) ==
  /\ form' = [name |-> n, kube |-> l[n].kube, ctx |-> l[n].ctx]
  /\ selName' = n /\ mode' = "edit" /\ armed' = None /\ dirty' = FALSE
StartNew == form' = Empty /\ selName' = None /\ mode' = "new" /\ armed' = None /\ dirty' = FALSE
\* The first of the entries that are there.
FillOr(l, first, second) ==
  IF first \in DOMAIN l THEN Fill(l, first)
  ELSE IF second \in DOMAIN l THEN Fill(l, second)
  ELSE IF DOMAIN l = {} THEN StartNew ELSE \E n \in DOMAIN l : Fill(l, n)
Waits == asking = Nobody /\ (Patient => jobs = {})
Still == UNCHANGED <<server, shown, busy, asking, jobs, polls, calls>>

Pick(n) == Waits /\ n \in DOMAIN list /\ Fill(list, n) /\ Still
PressNew == Waits /\ StartNew /\ Still
SwitchToEdit == Waits /\ FillOr(list, selName, listCurrent) /\ Still
EditName(n) ==
  /\ Waits /\ mode = "new" /\ form' = [form EXCEPT !.name = n] /\ n # form.name /\ dirty' = TRUE
  /\ UNCHANGED <<mode, selName, armed>> /\ Still
EditField(f, v) ==
  /\ Waits /\ form[f] # v /\ (Cleared => v # "") /\ form' = [form EXCEPT ![f] = v] /\ dirty' = TRUE
  /\ UNCHANGED <<mode, selName, armed>> /\ Still
DisarmTimer == armed # None /\ armed' = None /\ UNCHANGED filled /\ Still

-----------------------------------------------------------------------------
\* What is sent. A switch leaves the buttons enabled.
IdTakenNever == FALSE                \* mutant: the name is not looked up
IdTaken == mode = "new" /\ form.name \in DOMAIN list
Send(kind, n, id, sure) ==
  /\ Waits /\ ~busy /\ calls < MaxCalls /\ calls' = calls + 1
  /\ busy' = (kind # "switch") /\ jobs' = jobs \cup {Job(kind, n, id, sure, "post")}
  /\ UNCHANGED <<server, shown, edited, asking, polls>>
Save == form.name # None /\ ~IdTaken /\ Send("save", form.name, 0, FALSE)
SwitchEnv == mode = "edit" /\ form.name # None /\ Send("switch", form.name, 0, FALSE)
Arm == /\ Waits /\ mode = "edit" /\ form.name # None /\ ~busy /\ armed = None /\ armed' = form.name
       /\ UNCHANGED filled /\ Still
Del == mode = "edit" /\ armed # None /\ Send("delete", form.name, 0, FALSE)

\* A draft that is marked asks first.
Other(n) == (Refilled /\ mode = "edit") => form.name # n
AcceptIncoming(d) == d \in incoming /\ Other(d.name) /\ Send("accept", d.name, d.id, d.overwrite)
DismissIncoming(d) == d \in incoming /\ Send("dismiss", d.name, d.id, FALSE)

-----------------------------------------------------------------------------
\* The server. load_envs: a file without environments is filled with the
\* defaults, and these are then what the caller changes.
LoadEnvs == IF DOMAIN envs = {} THEN seed ELSE [envs |-> envs, current |-> current]
SaveEnvs(d) ==
  /\ envs' = d.envs /\ current' = d.current
  /\ seed' = IF DOMAIN envs = {} THEN d ELSE seed
\* An empty context is not written.
AddOrUpdateEnv(d, n, kube, ctx) ==
  LET old == IF n \in DOMAIN d.envs THEN d.envs[n].ctx ELSE "" IN
  [d EXCEPT !.envs = (n :> [kube |-> kube, ctx |-> IF ctx # "" THEN ctx ELSE old]) @@ @]
DeleteEnv(d, n) ==
  LET left == DOMAIN d.envs \ {n} IN
  \E first \in IF left = {} THEN {None} ELSE left :
    SaveEnvs([envs |-> [m \in left |-> d.envs[m]], current |-> IF d.current # n THEN d.current ELSE first])
Overwrites(d) == d[2] \in DOMAIN LoadEnvs.envs
Pending == {[id |-> d[1], name |-> d[2], overwrite |-> Overwrites(d)] : d \in drafts}
\* A call that cannot write says so, and the answer counts as a success.
OrCannot(writes) == writes \/ (~Writes /\ UNCHANGED store)

Push(n) ==
  /\ pushed < MaxDrafts /\ Cardinality(drafts) < MaxItems
  /\ pushed' = pushed + 1 /\ drafts' = drafts \cup {<<pushed + 1, n>>}
  /\ UNCHANGED <<store, shown, edited, busy, asking, jobs, polls, calls>>
\* A draft has a life of thirty minutes.
Prune ==
  /\ \E d \in drafts : (\A o \in drafts : d[1] <= o[1]) /\ drafts' = drafts \ {d}
  /\ UNCHANGED <<store, pushed, shown, edited, busy, asking, jobs, polls, calls>>

-----------------------------------------------------------------------------
\* What comes back. The page does not look at "ok": an answer without an HTTP
\* error is a success.
Goes(j, stage, found) ==
  /\ jobs' = (jobs \ {j}) \cup {[j EXCEPT !.stage = stage, !.found = found]}
  /\ UNCHANGED <<busy, polls, calls>>
Over(j) == jobs' = jobs \ {j} /\ busy' = (busy /\ j.kind \in {"switch", "open"}) /\ UNCHANGED <<polls, calls>>
At(j, kind) == j.kind = kind /\ j.stage = "post" /\ asking = Nobody

Saved(j) ==
  /\ At(j, "save") /\ OrCannot(SaveEnvs(AddOrUpdateEnv(LoadEnvs, j.name, j.form.kube, j.form.ctx)))
  /\ IF j.mode = "new" THEN selName' = j.name /\ mode' = "edit" ELSE UNCHANGED <<selName, mode>>
  /\ armed' = None /\ dirty' = (dirty /\ form # j.form) /\ Goes(j, "list", Nothing)
  /\ UNCHANGED <<drafts, pushed, shown, form, asking>>
Switched(j) ==
  /\ At(j, "switch")
  /\ LET d == LoadEnvs IN OrCannot(SaveEnvs(IF j.name \in DOMAIN d.envs THEN [d EXCEPT !.current = j.name] ELSE d))
  /\ armed' = None /\ Goes(j, "list", Nothing)
  /\ UNCHANGED <<drafts, pushed, shown, filled, asking>>
Deleted(j) ==
  /\ At(j, "delete") /\ OrCannot(DeleteEnv(LoadEnvs, j.name)) /\ armed' = None /\ Goes(j, "list", Nothing)
  /\ UNCHANGED <<drafts, pushed, shown, filled, asking>>
Accepted(j) ==
  LET d == <<j.id, j.name>> IN
  /\ At(j, "accept")
  /\ \/ d \notin drafts /\ Over(j) /\ UNCHANGED <<store, drafts, asking>>
     \/ /\ d \in drafts /\ Overwrites(d) /\ ~j.sure /\ asking' = {j} /\ SaveEnvs(LoadEnvs)
        /\ UNCHANGED <<drafts, jobs, busy, polls, calls>>
     \/ /\ d \in drafts /\ (j.sure \/ ~Overwrites(d)) /\ UNCHANGED asking
        /\ \E ctx \in {"", "c2"} : SaveEnvs(AddOrUpdateEnv(LoadEnvs, j.name, "in", ctx))
        /\ (drafts' = drafts \ {d} /\ Goes(j, "list", Nothing)) \/ (~Writes /\ drafts' = drafts /\ Over(j))
  /\ UNCHANGED <<pushed, shown, edited>>
Confirm(yes) ==
  /\ asking # Nobody /\ asking' = Nobody
  /\ \E j \in asking : IF yes THEN jobs' = (jobs \ {j}) \cup {[j EXCEPT !.sure = TRUE]} /\ UNCHANGED <<busy, polls, calls>> ELSE Over(j)
  /\ UNCHANGED <<server, shown, edited>>
Dismissed(j) ==
  /\ At(j, "dismiss") /\ drafts' = drafts \ {<<j.id, j.name>>}
  /\ IF <<j.id, j.name>> \in drafts THEN Goes(j, "incoming", Nothing) ELSE Over(j)
  /\ UNCHANGED <<store, pushed, shown, edited, asking>>
Fails(j) == j.stage = "post" /\ asking = Nobody /\ Over(j) /\ UNCHANGED <<server, shown, edited, asking>>

\* What a listing reads, and what the window does when it comes. One that
\* fails is empty to who waits for it and leaves the window's list.
ReadEnvs(j) ==
  /\ j.stage = "list" /\ SaveEnvs(LoadEnvs) /\ Goes(j, "listed", LoadEnvs)
  /\ UNCHANGED <<drafts, pushed, shown, edited, asking>>
LoadList(j) ==
  /\ j.stage = "listed"
  /\ list' = j.found.envs /\ listCurrent' = j.found.current
  /\ IF j.kind = "open"
     THEN /\ IF j.found.current = None THEN StartNew ELSE Fill(j.found.envs, j.found.current)
          /\ Over(j)
     ELSE /\ selName' = (IF selName = None THEN j.found.current ELSE selName)
          /\ UNCHANGED <<form, mode, dirty, armed>> /\ Goes(j, "reload", j.found)
  /\ UNCHANGED <<server, incoming, asking>>
ListFails(j) ==
  /\ ~Listed /\ j.stage \in {"list", "listed"}
  /\ IF j.kind = "open" THEN Over(j) ELSE Goes(j, "reload", Nothing)
  /\ UNCHANGED <<server, shown, edited, asking>>
\* After reloadEnvs, which reads the list of the panel and does not fail.
Reloaded(j) ==
  /\ j.stage = "reload"
  /\ CASE j.kind = "delete" -> FillOr(j.found.envs, j.found.current, None)
       [] j.kind = "switch" -> selName' = j.name /\ UNCHANGED <<form, mode, dirty, armed>>
       [] OTHER -> UNCHANGED edited
  /\ IF j.kind = "accept" THEN Goes(j, "incoming", Nothing) ELSE Over(j)
  /\ UNCHANGED <<server, shown, asking>>
\* loadIncoming by a handler, and by the timer, whose answer may come late.
LoadIncoming(j) ==
  /\ j.stage = "incoming" /\ Over(j)
  /\ incoming' = Pending \/ (~Listed /\ UNCHANGED incoming)
  /\ UNCHANGED <<server, list, listCurrent, edited, asking>>
Poll == polls = {} /\ polls' = {Pending} /\ SaveEnvs(LoadEnvs)
        /\ UNCHANGED <<drafts, pushed, shown, edited, busy, asking, jobs, calls>>
Polled == /\ \E p \in polls : incoming' = p
          /\ polls' = {} /\ UNCHANGED <<server, list, listCurrent, edited, busy, asking, jobs, calls>>

User ==
  \/ \E n \in Names : Pick(n) \/ EditName(n)
  \/ PressNew \/ SwitchToEdit \/ Save \/ SwitchEnv \/ Arm \/ Del
  \/ \E v \in {"", "c2"} : EditField("ctx", v)
  \/ \E d \in incoming : AcceptIncoming(d) \/ DismissIncoming(d)
  \/ \E yes \in BOOLEAN : Confirm(yes)
Answers ==
  \E j \in jobs :
    \/ Saved(j) \/ Switched(j) \/ Deleted(j) \/ Accepted(j) \/ Dismissed(j) \/ Fails(j)
    \/ ReadEnvs(j) \/ LoadList(j) \/ ListFails(j) \/ Reloaded(j) \/ LoadIncoming(j)
Outside == DisarmTimer \/ Poll \/ Polled \/ Prune \/ \E n \in Names : Push(n)
Next == User \/ Answers \/ Outside
Spec == Init /\ [][Next]_vars
-----------------------------------------------------------------------------
TypeOK ==
  /\ DOMAIN envs \subseteq Names /\ current \in Names \cup {None} /\ mode \in {"edit", "new"}
  /\ form.name \in Names \cup {None} /\ {selName, armed} \subseteq Names \cup {None}
  /\ {busy, dirty} \subseteq BOOLEAN /\ Cardinality(asking) <= 1 /\ calls \in 0..MaxCalls

(***************************************************************************)
(* Saving is what its button says: an edit changes an environment that is  *)
(* there, a creation never one that is (K8sEnvModal.tsx:148, 442).         *)
(***************************************************************************)
SaveIsWhatItSays ==
  \A j \in jobs : j.kind = "save" /\ j.stage = "post" => (j.mode = "edit" <=> j.name \in DOMAIN envs)

\* What the armed button deletes is what it asked about.
DeletesArmed == armed # None => (armed = form.name /\ mode = "edit")

(***************************************************************************)
(* The form that can be saved is of the entry that is picked, and as long  *)
(* as nobody has typed in it, it shows what the server holds.              *)
(***************************************************************************)
FormIsTrue ==
  mode = "edit" /\ jobs = {} /\ form.name # None =>
    /\ form.name = selName
    /\ ~dirty => form.name \in DOMAIN envs /\ envs[form.name] = [kube |-> form.kube, ctx |-> form.ctx]

=============================================================================
