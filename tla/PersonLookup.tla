----------------------------- MODULE PersonLookup ---------------------------
(***************************************************************************)
(* The look-up of a person in the HCM tab: the ledgers of the chosen       *)
(* server are listed, their metadata is read one after the other, and then *)
(* a name is searched in one of them (HcmObjectBrowser.tsx).               *)
(***************************************************************************)
EXTENDS Integers, FiniteSets

CONSTANTS
  Envs, Names,
  Patient,      \* the user changes server, ledger and name only when nothing is loading
  MaxCalls      \* bound

None == "none"
Models == Envs \X {1, 2}             \* each server has two candidates

VARIABLES
  env, open,    \* targetUrl, personLookupOpen
  models, model,\* the ledgers offered, the chosen one
  name,         \* personLookupName
  results,      \* <<ledger, name>> that the results are of, or none
  loading, listing, \* personLookupLoading, personLookupModelsLoading
  walks,        \* loadPersonLookupModels under way: server, candidates to look at, ledgers so far
  net, sent     \* searches under way; calls so far

form == <<models, model, name, results>>
flags == <<loading, listing>>
vars == <<env, open, form, flags, walks, net, sent>>

Nothing == <<>>

Init ==
  /\ env \in Envs /\ open = FALSE
  /\ models = {} /\ model = Nothing /\ name = None /\ results = Nothing
  /\ loading = FALSE /\ listing = FALSE /\ walks = {} /\ net = {} /\ sent = 0

Idle == ~loading /\ ~listing
MayEdit == open /\ (Patient => Idle)

\* loadPersonLookupModels: not while it runs.
LoadModels(e) ==
  IF listing THEN UNCHANGED <<listing, walks, sent>>
  ELSE /\ listing' = TRUE /\ sent < MaxCalls /\ sent' = sent + 1
       /\ walks' = walks \cup {[env |-> e, left |-> {m \in Models : m[1] = e}, found |-> {}]}

Open ==
  /\ ~open /\ open' = TRUE
  /\ IF models = {} THEN LoadModels(env) ELSE UNCHANGED <<listing, walks, sent>>
  /\ UNCHANGED <<env, form, loading, net>>

Close == open /\ open' = FALSE /\ UNCHANGED <<env, form, flags, walks, net, sent>>

\* Another server: everything is reset and, if it is open, loaded again.
SelectEnv(e) ==
  /\ e # env /\ (Patient => Idle)
  /\ env' = e
  /\ models' = {} /\ model' = Nothing /\ results' = Nothing
  /\ IF open THEN LoadModels(e) ELSE UNCHANGED <<listing, walks, sent>>
  /\ UNCHANGED <<open, name, loading, net>>

EditNameKeeps(x) ==                  \* mutant: the results stay
  /\ MayEdit /\ x # name
  /\ name' = x /\ UNCHANGED <<env, open, models, model, results, flags, walks, net, sent>>

EditName(x) ==
  /\ MayEdit /\ x # name
  /\ name' = x /\ results' = Nothing
  /\ UNCHANGED <<env, open, models, model, flags, walks, net, sent>>

SelectModel(m) ==
  /\ MayEdit /\ m \in models /\ m # model
  /\ model' = m /\ results' = Nothing
  /\ UNCHANGED <<env, open, models, name, flags, walks, net, sent>>

\* The key Enter searches also while the button is disabled.
SearchPerson ==
  /\ open /\ name # None /\ model # Nothing /\ (Patient => Idle)
  /\ sent < MaxCalls /\ sent' = sent + 1
  /\ loading' = TRUE /\ results' = Nothing
  /\ net' = net \cup {[model |-> model, name |-> name]}
  /\ UNCHANGED <<env, open, models, model, name, listing, walks>>

-----------------------------------------------------------------------------
\* One candidate's metadata: a ledger or not.
Look(w) ==
  /\ w \in walks /\ w.left # {}
  /\ \E m \in w.left : \E found \in {w.found, w.found \cup {m}} :
       walks' = (walks \ {w}) \cup {[w EXCEPT !.left = @ \ {m}, !.found = found]}
  /\ UNCHANGED <<env, open, form, flags, net, sent>>

\* All looked at: the choice is kept if it is still there.
GotModels(w) ==
  /\ w \in walks /\ w.left = {} /\ w.found # {}
  /\ models' = w.found
  /\ model' = IF model \in w.found THEN model ELSE CHOOSE m \in w.found : TRUE
  /\ walks' = walks \ {w} /\ listing' = FALSE
  /\ UNCHANGED <<env, open, name, results, loading, net, sent>>

NoModelsWaits(w) ==                  \* mutant: the sign of the walk stays
  /\ w \in walks
  /\ walks' = walks \ {w}
  /\ UNCHANGED <<env, open, form, flags, net, sent>>

\* None is a ledger, or a call failed.
NoModels(w) ==
  /\ w \in walks
  /\ walks' = walks \ {w} /\ listing' = FALSE
  /\ UNCHANGED <<env, open, form, loading, net, sent>>

GotPerson(r, ok) ==
  /\ r \in net /\ net' = net \ {r}
  /\ results' = IF ok THEN <<r.model, r.name>> ELSE results
  /\ loading' = FALSE
  /\ UNCHANGED <<env, open, models, model, name, listing, walks, sent>>

-----------------------------------------------------------------------------
LookupPane ==
  \/ SearchPerson
  \/ \E x \in Names : EditName(x)
  \/ \E m \in models : SelectModel(m)
User == Open \/ Close \/ LookupPane \/ \E e \in Envs : SelectEnv(e)
Answers ==
  \/ \E w \in walks : Look(w) \/ GotModels(w) \/ NoModels(w)
  \/ \E r \in net, ok \in BOOLEAN : GotPerson(r, ok)
Next == User \/ Answers
Spec == Init /\ [][Next]_vars /\ WF_vars(Answers)
-----------------------------------------------------------------------------
TypeOK ==
  /\ env \in Envs /\ open \in BOOLEAN /\ models \subseteq Models /\ model \in Models \cup {Nothing}
  /\ name \in Names \cup {None} /\ results \in {Nothing} \cup (Models \X Names)
  /\ loading \in BOOLEAN /\ listing \in BOOLEAN /\ sent \in 0..MaxCalls

(***************************************************************************)
(* What the look-up says of a person - found, not found, without an        *)
(* appointment - is about the name and the ledger that are in the form,    *)
(* and the ledgers offered are the chosen server's.                        *)
(***************************************************************************)
VerdictIsOfForm ==
  /\ results # Nothing => results = <<model, name>>
  /\ \A m \in models : m[1] = env

\* A look-up that is under way comes to an end.
LookupEnds == (loading \/ listing) ~> Idle
=============================================================================
