---------------------------- MODULE K8sSnapshot -----------------------------
(***************************************************************************)
(* A snapshot of all pods (components/k8s/K8sSnapshot.tsx): the page asks, *)
(* a thread of the server works (api/k8s/routes_k8s_snapshot.py) and tells *)
(* over the event stream; the page believes events while it has a run.     *)
(* What a row opens, its log and its description, is asked for anew; a     *)
(* place is a cluster and a namespace of it.                               *)
(***************************************************************************)
EXTENDS Integers, Sequences, FiniteSets

CONSTANTS
  Calm,         \* the next run is asked for when the one before has ended for good
  Resolves,     \* the environment's kubeconfig is found
  Lossless,     \* the event stream does not break
  Envs, Reachable, Current, \* environments, those with a kubeconfig or an SSH host, the server's
  Steady,       \* the form does not change while a result is there or is worked at
  Default,      \* no namespace is given but the environment's
  Chosen,       \* describing is for results of an environment
  MaxRuns       \* bound

VARIABLES
  env, panelNs, \* target.env, target.namespace of the panel
  kube, ns,     \* kubeconfig and namespace of the form
  selected,     \* run of which a row is selected, or 0
  at,           \* place that each run is to look at
  meta,         \* run of the server's snap_meta, or 0
  running,      \* running, runningRef
  shown,        \* run whose records are shown, or 0
  runs,         \* runs asked for so far
  asking,       \* POST /api/k8s/snapshot is under way
  cancels,      \* POST /api/k8s/cancel is under way
  busy,         \* state.running of the server
  cancelled,    \* state.cancel
  thread,       \* run and step of the server's threads
  events,       \* on their way: <<kind, run>>
  outcome       \* what the runs came to: done, error, refused or unknown

page == <<running, shown, runs, asking>>
form == <<env, panelNs, kube, ns>>
server == <<busy, cancelled, thread, events, outcome, meta>>
vars == <<form, selected, at, page, cancels, server>>

None == ""
Init ==
  /\ env \in Envs \cup {None} /\ kube \in {None, "k"}
  /\ ns \in {None, "n"} /\ panelNs \in {None, "n"} /\ (Default => ns = None /\ panelNs = None)
  /\ selected = 0 /\ at = <<>> /\ meta = 0
  /\ running = FALSE /\ shown = 0 /\ runs = 0 /\ asking = FALSE /\ cancels = FALSE
  /\ busy = FALSE /\ cancelled = FALSE /\ thread = <<>> /\ events = <<>> /\ outcome = <<>>

Quiet == ~asking /\ ~cancels /\ events = <<>> /\ \A r \in DOMAIN thread : thread[r] = "over"

-----------------------------------------------------------------------------
\* Fields of the form and of the panel above it.
Edit(f) ==
  /\ f # form /\ (Default => f[2] = None /\ f[4] = None)
  /\ Steady => shown = 0 /\ selected = 0 /\ ~running
  /\ env' = f[1] /\ panelNs' = f[2] /\ kube' = f[3] /\ ns' = f[4]
  /\ UNCHANGED <<selected, at, page, cancels, server>>

\* The route takes the environment's kubeconfig if there is one, and its
\* namespace if none was given.
EnvNs == "d"
ClusterOf(e) == IF e \in Reachable THEN e ELSE kube
RunAt == <<ClusterOf(env), IF ns # None THEN ns ELSE IF env = None THEN None ELSE EnvNs>>

EnvBlocked == env # None /\ env \notin Reachable /\ kube = None
CanRun == ~EnvBlocked /\ (env # None \/ kube # None)
Run ==
  /\ ~running /\ runs < MaxRuns /\ (Calm => Quiet)
  /\ CanRun
  /\ running' = TRUE /\ shown' = 0 /\ runs' = runs + 1 /\ asking' = TRUE /\ at' = Append(at, RunAt)
  /\ outcome' = Append(outcome, "unknown") /\ thread' = Append(thread, "over")
  /\ UNCHANGED <<form, selected, cancels, busy, cancelled, events, meta>>

Cancel == running /\ ~cancels /\ cancels' = TRUE /\ UNCHANGED <<form, selected, at, page, server>>
CancelArrives == cancels /\ cancels' = FALSE /\ cancelled' = TRUE
  /\ UNCHANGED <<form, selected, at, page, busy, thread, events, outcome, meta>>

\* The route refuses a second run (409), which the page takes as the run's end.
Refuse ==
  /\ asking /\ busy
  /\ asking' = FALSE /\ running' = FALSE /\ outcome' = [outcome EXCEPT ![runs] = "refused"]
  /\ UNCHANGED <<form, selected, at, shown, runs, cancels, busy, cancelled, thread, events, meta>>

\* An environment that cannot be resolved is answered with ok: false and
\* status 200, which the page does not look at.
Accept(resolved) ==
  /\ asking /\ ~busy /\ (Resolves => resolved)
  /\ meta' = IF resolved THEN runs ELSE meta
  /\ asking' = FALSE /\ busy' = resolved /\ cancelled' = FALSE
  /\ thread' = [thread EXCEPT ![runs] = IF resolved THEN "works" ELSE "over"]
  /\ outcome' = [outcome EXCEPT ![runs] = IF resolved THEN "unknown" ELSE "error"]
  /\ UNCHANGED <<form, selected, at, running, shown, runs, cancels, events>>

-----------------------------------------------------------------------------
\* The thread: progress, then the result or an error, then its finally.
Progress(r) ==
  /\ thread[r] = "works" /\ Len(events) < 2
  /\ events' = Append(events, <<"k8s_progress", r>>)
  /\ UNCHANGED <<form, selected, at, page, cancels, busy, cancelled, thread, outcome, meta>>

Works(r, kind) ==
  /\ thread[r] = "works" /\ kind \in {"k8s_done", "k8s_error"}
  /\ thread' = [thread EXCEPT ![r] = "told"]
  /\ events' = Append(events, <<kind, r>>)
  /\ outcome' = [outcome EXCEPT ![r] = IF kind = "k8s_done" THEN "done" ELSE "error"]
  /\ UNCHANGED <<form, selected, at, page, cancels, busy, cancelled, meta>>

Frees(r) ==
  /\ thread[r] = "told" /\ thread' = [thread EXCEPT ![r] = "free"] /\ busy' = FALSE
  /\ UNCHANGED <<form, selected, at, page, cancels, cancelled, events, outcome, meta>>

Finishes(r) ==
  /\ thread[r] = "free" /\ thread' = [thread EXCEPT ![r] = "over"]
  /\ events' = Append(events, <<"k8s_finished", r>>)
  /\ UNCHANGED <<form, selected, at, page, cancels, busy, cancelled, outcome, meta>>

-----------------------------------------------------------------------------
\* The page's handlers; without a run they return at once.
DoneShowsNothing(r) == running' = FALSE /\ UNCHANGED shown \* mutant: the records are dropped
K8sDone(r) == running' = FALSE /\ shown' = r
K8sFinishedWaits == UNCHANGED running                \* mutant: only the result ends a run
K8sFinished == running' = FALSE

\* What is under way when the stream breaks is gone.
HandleEvent(breaks) ==
  /\ events # <<>> /\ (Lossless => ~breaks)
  /\ events' = IF breaks THEN <<>> ELSE Tail(events)
  /\ LET e == Head(events) IN
       CASE breaks -> UNCHANGED <<running, shown>>
         [] ~breaks /\ running /\ e[1] = "k8s_done"     -> K8sDone(e[2])
         [] ~breaks /\ running /\ e[1] = "k8s_finished" -> K8sFinished /\ UNCHANGED shown
         [] OTHER -> UNCHANGED <<running, shown>>
  /\ UNCHANGED <<form, selected, at, runs, asking, cancels, busy, cancelled, thread, outcome, meta>>

-----------------------------------------------------------------------------
\* A row of the result. The selection outlives its result.
SelectPod == shown # 0 /\ selected' = shown /\ UNCHANGED <<form, at, page, cancels, server>>

\* What openFullLog hands over, and the place /api/k8s/log reads: the files of
\* the last snapshot first, whatever the environment, and never the namespace.
NsForLog == IF ns # None THEN ns ELSE panelNs
LastDone == CHOOSE r \in 0..runs : /\ r = 0 \/ outcome[r] = "done"
                                   /\ \A q \in (r + 1)..runs : outcome[q] # "done"
LogOfPanel(e, n, saved) == <<e, EnvNs>> \* mutant: the snapshot is not looked at
LogRead(e, n, saved) ==
  IF saved THEN at[LastDone]
  ELSE IF e \in Reachable THEN <<e, EnvNs>>
  ELSE <<at[meta][1], IF e # None THEN EnvNs ELSE at[meta][2]>>
ReportOffered == shown # 0           \* the link to the report of the last snapshot
\* The button under the rows (K8sDescribeModal.tsx, describe_resource).
Describable == selected # 0
DescribeRead ==
  LET e == IF env = None THEN Current ELSE env IN <<e, IF panelNs # None THEN panelNs ELSE EnvNs>>

-----------------------------------------------------------------------------
Route == Refuse \/ \E resolved \in BOOLEAN : Accept(resolved)
Handles == \E breaks \in BOOLEAN : HandleEvent(breaks)
Ends(r) == (\E kind \in {"k8s_done", "k8s_error"} : Works(r, kind)) \/ Frees(r) \/ Finishes(r)
Threads == \E r \in DOMAIN thread : Ends(r)
Next ==
  \/ \E f \in (Envs \cup {None}) \X {None, "n"} \X {None, "k"} \X {None, "n"} : Edit(f)
  \/ SelectPod \/ Run \/ Cancel \/ CancelArrives \/ Route \/ Handles \/ Threads
  \/ \E r \in DOMAIN thread : Progress(r)
Spec == Init /\ [][Next]_vars /\ WF_vars(Route) /\ WF_vars(Handles) /\ WF_vars(Threads)
-----------------------------------------------------------------------------
TypeOK ==
  /\ {running, asking, cancels, busy, cancelled} \subseteq BOOLEAN
  /\ runs \in 0..MaxRuns /\ {shown, selected, meta} \subseteq 0..runs /\ Len(at) = runs /\ Len(thread) = runs /\ Len(outcome) = runs

(***************************************************************************)
(* One thread works at a time; when all is quiet the page shows the        *)
(* records of its last run, if that run had any, and its report.           *)
(***************************************************************************)
ResultIsShown ==
  /\ \A q, r \in DOMAIN thread : thread[q] = "works" /\ thread[r] = "works" => q = r
  /\ shown \in {0, runs} /\ (ReportOffered => LastDone = shown)
  /\ Quiet /\ runs > 0 => (shown = runs <=> outcome[runs] = "done")

(***************************************************************************)
(* The log that a row opens is of the row's pod, in the cluster and the    *)
(* namespace of the snapshot (the comment at K8sSnapshot.tsx:194).         *)
(***************************************************************************)
LogIsOfRow == shown # 0 => \A saved \in BOOLEAN : LogRead(env, NsForLog, saved) = at[shown]

\* What is described is the pod that was selected.
DescribeIsOfSelected == (Describable /\ (Chosen => kube = None)) => DescribeRead = at[selected]

\* A run ends on the page (not when the environment is not found, not when
\* the stream breaks).
RunEnds == running ~> ~running
=============================================================================
