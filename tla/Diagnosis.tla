------------------------------ MODULE Diagnosis ------------------------------
(***************************************************************************)
(* The diagnosis of a cloud function's error together with the cluster it  *)
(* runs in: the form and its result (UnifiedDiagnosisPanel.tsx) and what   *)
(* the backend concludes from pods and events (unified_diagnose.py).       *)
(***************************************************************************)
EXTENDS Integers, FiniteSets

CONSTANTS
  Envs, Urls,   \* environments of Kubernetes; gateways
  Settled,      \* the form is filled in once its lists are there, the gateway first and for good
  Patient,      \* the form is not cleared while a diagnosis is under way
  Whole,        \* nothing of the cluster escapes the rules: see Fits
  MaxCalls      \* bound: requests

\* No name.
Blank == ""
Phases == {"Running", "Pending", "Failed"}
Reasons == {"OOMKilling", "NodeNotReady", "Unhealthy"}
\* One pod with its phase and whether it restarts over and over, the warnings, and whether they can be read.
Clusters == [phase : Phases, many : BOOLEAN, events : SUBSET Reasons, read : BOOLEAN, listed : BOOLEAN]
Filters == {Blank, "this", "other"}
None == [n |-> 0]

VARIABLES
  k8sEnv, serverUrl, filter, text,
  envs, alert,        \* the environments that were found; the banner that there are none
  loading, result, section,
  net, sent,
  picked, typed, last \* what the user chose last, "?" before; the diagnosis that may be shown

form == <<k8sEnv, serverUrl, filter, text>>
lists == <<envs, alert>>
diag == <<loading, result>>
calls == <<net, sent>>
said == <<picked, typed>>
vars == <<form, lists, diag, section, calls, said, last>>

\* The requests of the effect that loads both lists.
Both(n, url) == {[n |-> n, kind |-> "envs"], [n |-> n + 1, kind |-> "accounts", url |-> url]}
Init ==
  /\ k8sEnv = Blank /\ serverUrl = Blank /\ filter = Blank /\ text = FALSE /\ envs = {} /\ alert = FALSE
  /\ loading = FALSE /\ result = None /\ section = "summary" /\ sent = 2 /\ picked = "?" /\ typed = "?" /\ last = 0
  /\ net = Both(1, Blank)

-----------------------------------------------------------------------------
(* The effect that loads both lists begins anew whenever the gateway        *)
(* changes: loadCfAccounts depends on it.                                   *)
LoadLists(url) ==
  IF url = serverUrl THEN UNCHANGED calls
  ELSE /\ sent + 2 =< MaxCalls /\ sent' = sent + 2
       /\ net' = net \cup Both(sent + 1, url)
Loads == {r \in net : r.kind # "diagnose"}

PickEnv(e) ==
  /\ e # k8sEnv /\ e \in envs \cup {Blank} /\ (Settled => Loads = {}) /\ k8sEnv' = e /\ picked' = e
  /\ UNCHANGED <<serverUrl, filter, text, lists, diag, section, calls, typed, last>>
EditServer(u) ==
  /\ u # serverUrl /\ (Settled => Loads = {} /\ picked = "?" /\ u # Blank) /\ serverUrl' = u /\ typed' = u /\ LoadLists(u)
  /\ UNCHANGED <<k8sEnv, filter, text, lists, diag, section, picked, last>>
EditFilter(f) ==
  /\ f # filter /\ filter' = f /\ UNCHANGED <<k8sEnv, serverUrl, text, lists, diag, section, calls, said, last>>
EditText == text' = ~text /\ UNCHANGED <<k8sEnv, serverUrl, filter, lists, diag, section, calls, said, last>>
SetSection(s) == result # None /\ s # section /\ section' = s /\ UNCHANGED <<form, lists, diag, calls, said, last>>

DoDiagnose ==
  /\ ~loading /\ text /\ sent < MaxCalls /\ sent' = sent + 1 /\ loading' = TRUE /\ result' = None /\ last' = sent + 1
  /\ net' = net \cup {[n |-> sent + 1, kind |-> "diagnose", env |-> k8sEnv, filter |-> filter]}
  /\ UNCHANGED <<form, lists, section, said>>
\* The user confirms when a result would be lost.
ClearKeeps ==                        \* mutant: the text alone
  /\ (text \/ result # None) /\ (Patient => ~loading) /\ text' = FALSE /\ result' = result /\ last' = 0
  /\ UNCHANGED <<k8sEnv, serverUrl, filter, lists, loading, section, calls, said>>
Clear ==
  /\ (text \/ result # None) /\ (Patient => ~loading) /\ text' = FALSE /\ result' = None /\ last' = 0
  /\ UNCHANGED <<k8sEnv, serverUrl, filter, lists, loading, section, calls, said>>

-----------------------------------------------------------------------------
\* k8s_collect_diagnostics: the pods that are listed as abnormal, and the warnings.
Sick(c) == c.phase \notin {"Running", "Succeeded", Blank} \/ c.many
Abnormal(c, f) == f # "other" /\ (Sick(c) \/ f = "this")
Warnings(c) == IF c.read THEN c.events ELSE {}
\* _build_unified_summary: the first of these that the cluster gives cause for.
InfraStatusFirst(c, f) ==            \* mutant: warnings alone count
  LET w == Warnings(c)
  IN  IF Abnormal(c, f) /\ "OOMKilling" \in w THEN "oom_detected"
      ELSE IF "NodeNotReady" \in w THEN "node_not_ready"
      ELSE IF "Unhealthy" \in w THEN "probe_failure" ELSE "healthy"
InfraStatus(c, f) ==
  LET w == Warnings(c)
  IN  IF Abnormal(c, f) /\ "OOMKilling" \in w THEN "oom_detected"
      ELSE IF Abnormal(c, f) /\ (c.phase = "Failed" \/ c.many) THEN "crash_detected"
      ELSE IF "NodeNotReady" \in w THEN "node_not_ready"
      ELSE IF "Unhealthy" \in w THEN "probe_failure" ELSE "healthy"
Summary(n, env, f, c) ==
  [n |-> n, ill |-> Sick(c), sick |-> Sick(c) \/ c.events # {},
   status |-> IF env = Blank \/ ~c.listed THEN "unknown" ELSE InfraStatus(c, f),
   fine |-> env # Blank /\ c.listed /\ ~Abnormal(c, f)]
\* Warnings can be read, the filter names the pod or nothing, no pod hangs without failing, and memory
\* that runs out shows in a pod as well.
Fits(c, f) == c.read /\ f # "other" /\ c.phase # "Pending" /\ ("OOMKilling" \in c.events => Sick(c))

GotDiagnosis(r) ==
  /\ r.kind = "diagnose" /\ net' = net \ {r} /\ loading' = FALSE
  /\ \E c \in {d \in Clusters : Whole => Fits(d, r.filter)} : result' = Summary(r.n, r.env, r.filter, c)
  /\ UNCHANGED <<form, lists, section, sent, said, last>>
NoDiagnosis(r) ==
  /\ r.kind = "diagnose" /\ net' = net \ {r} /\ loading' = FALSE
  /\ UNCHANGED <<form, lists, result, section, sent, said, last>>
\* The environment becomes the one the server holds for current, or the first, or none.
GotEnvs(r) ==
  /\ r.kind = "envs" /\ net' = net \ {r} /\ UNCHANGED <<serverUrl, filter, text, diag, section, sent, said, last>>
  /\ \E S \in SUBSET Envs : \E e \in IF S = {} THEN {Blank} ELSE S :
       envs' = S /\ alert' = (S = {}) /\ k8sEnv' = e
NoEnvs(r) ==
  /\ r.kind = "envs" /\ net' = net \ {r} /\ alert' = TRUE /\ UNCHANGED <<form, envs, diag, section, sent, said, last>>
\* An account's gateway fills the field that was empty when the request went out.
GotAccounts(r) ==
  /\ r.kind = "accounts" /\ UNCHANGED <<k8sEnv, filter, text, lists, diag, section, said, last>>
  /\ \/ /\ r.url = Blank /\ \E u \in Urls :
             /\ serverUrl' = u
             /\ IF u = serverUrl THEN net' = net \ {r} /\ UNCHANGED sent
                ELSE /\ sent + 2 =< MaxCalls /\ sent' = sent + 2
                     /\ net' = (net \ {r}) \cup Both(sent + 1, u)
     \/ net' = net \ {r} /\ UNCHANGED <<serverUrl, sent>>

User == \/ EditText \/ DoDiagnose \/ Clear
        \/ \E e \in Envs \cup {Blank} : PickEnv(e)
        \/ \E u \in Urls \cup {Blank} : EditServer(u)
        \/ \E f \in Filters : EditFilter(f)
        \/ \E s \in {"summary", "k8s"} : SetSection(s)
Answers == \E r \in net : GotDiagnosis(r) \/ NoDiagnosis(r) \/ GotEnvs(r) \/ NoEnvs(r) \/ GotAccounts(r)
Next == User \/ Answers

Spec == Init /\ [][Next]_vars
-----------------------------------------------------------------------------
TypeOK ==
  /\ k8sEnv \in Envs \cup {Blank} /\ serverUrl \in Urls \cup {Blank} /\ filter \in Filters /\ envs \subseteq Envs
  /\ \A f \in {text, alert, loading} : f \in BOOLEAN
  /\ section \in {"summary", "k8s"} /\ sent \in 2..MaxCalls /\ result.n \in 0..MaxCalls
  /\ \A r \in net : r.n \in 1..sent

\* What the user chose stays chosen until they choose again.
ChoiceStays == /\ picked = "?" \/ k8sEnv = picked
               /\ typed = "?" \/ serverUrl = typed

\* Nothing is under way that would fill in what the user has chosen.
NothingFills == /\ picked # "?" => Loads = {}
                /\ typed # "?" => \A r \in net : r.kind = "accounts" => r.url # Blank
                /\ ChoiceStays

\* The result is that of the last diagnosis asked for, and none after the form was cleared.
ResultIsOfLast == result # None => result.n = last

\* Neither the conclusion nor the list of pods reassures about a cluster in which something is wrong.
HealthyIsTrue ==
  result # None => /\ section = "summary" /\ result.status = "healthy" => ~result.sick
                   /\ section = "k8s" /\ result.fine => ~result.ill

\* One diagnosis at a time, the last, and no result beside it; what it says of the cluster is so.
Reassures == result # None => /\ result.status = "healthy" => ~result.sick
                              /\ result.fine => ~result.ill
OneDiagnosis ==
  /\ \A r \in net : r.kind = "diagnose" =>
       /\ loading /\ result = None /\ r.n = last /\ r.filter \in Filters
       /\ \A q \in net : q.kind = "diagnose" => q = r
  /\ filter \in Filters /\ ResultIsOfLast /\ Reassures
=============================================================================
