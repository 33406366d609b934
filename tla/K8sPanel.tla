------------------------------ MODULE K8sPanel ------------------------------
(***************************************************************************)
(* What the views of the Kubernetes panel share (components/k8s): the      *)
(* target - environment and pod - of K8sPanel.tsx, the environments that   *)
(* K8sEnvModal.tsx edits, the terminal of K8sShell.tsx with its sockets,   *)
(* and the lists that K8sEvents.tsx and K8sTop.tsx poll.                   *)
(***************************************************************************)
EXTENDS Integers, Sequences

CONSTANTS
  Envs, PodNames,
  Attached,     \* while a terminal is open its own pod menu is the only one used
  Calm,         \* no terminal is opened before the last one has closed
  Early,        \* the environments are edited while no pod is chosen
  Patient,      \* the environment is not changed while a list is on its way
  MaxSockets, MaxCalls \* bounds

VARIABLES
  current,      \* the server's current environment
  env, pod,     \* target: environment, <<environment it was listed in, name>> or none
  reloading,    \* the modal's reloadEnvs is under way
  socks,        \* sockets: the target of each and its state
  wsRef,        \* the socket that input goes to, or 0
  connected,    \* the sign that enables "disconnect", disables "connect"
  auto,         \* the list is polled
  net, sent,    \* requests for the list: their environment
  rows          \* environment whose rows the list shows, or none

target == <<env, pod>>
shell == <<socks, wsRef, connected>>
list == <<auto, net, sent, rows>>
vars == <<current, target, reloading, shell, list>>

None == "none"
NoPod == <<>>
Pods == {e : e \in Envs} \X PodNames

Init ==
  /\ current \in Envs /\ env = current /\ pod = NoPod /\ reloading = FALSE
  /\ socks = <<>> /\ wsRef = 0 /\ connected = FALSE
  /\ auto = FALSE /\ net = {} /\ sent = 0 /\ rows = None

-----------------------------------------------------------------------------
\* setTarget: another environment takes pod and container away; the polled
\* lists are emptied and, when polling, fetched again.
Emptied(e) ==
  /\ rows' = IF e = env THEN rows ELSE None
  /\ IF auto /\ e # env /\ sent < MaxCalls
     THEN sent' = sent + 1 /\ net' = net \cup {[n |-> sent + 1, env |-> e]}
     ELSE UNCHANGED <<net, sent>>
  /\ UNCHANGED auto
MayChange == (Attached => wsRef = 0) /\ (Patient => net = {})

OnEnvChangeKeepsPod(e) ==            \* mutant: the pod of the old environment stays
  /\ MayChange /\ ~reloading /\ e # env /\ env' = e
  /\ Emptied(e) /\ UNCHANGED <<current, pod, reloading, shell>>
OnEnvChange(e) ==
  /\ MayChange /\ ~reloading /\ e # env
  /\ env' = e /\ pod' = NoPod
  /\ Emptied(e) /\ UNCHANGED <<current, reloading, shell>>

\* K8sEnvModal: save, delete, accept a pushed kubeconfig (the current
\* environment stays) or switch; then the panel reads the environments again.
\* The modal covers the panel meanwhile.
ChangeEnvs(e) ==
  /\ ~reloading /\ reloading' = TRUE
  /\ (Early => pod = NoPod) /\ (Attached => wsRef = 0)
  /\ current' = e
  /\ UNCHANGED <<target, shell, list>>

\* reloadEnvs shows the server's current environment, and keeps the pod.
ReloadEnvs ==
  /\ reloading /\ reloading' = FALSE /\ (Patient => net = {})
  /\ env' = current
  /\ Emptied(current) /\ UNCHANGED <<current, pod, shell>>

-----------------------------------------------------------------------------
Closing(s) == [socks EXCEPT ![s].state = "closing"]

DisconnectLate ==                    \* mutant: the sign waits for onclose, which belongs to no one
  /\ wsRef # 0 /\ socks' = Closing(wsRef) /\ wsRef' = 0 /\ UNCHANGED connected
Disconnect == socks' = Closing(wsRef) /\ wsRef' = 0 /\ connected' = FALSE

\* The terminal's pod menu disconnects; the file panel's menu does not.
OnPodChange(p) ==
  /\ (p # NoPod => p[1] = env) /\ p # pod /\ ~reloading
  /\ pod' = p
  /\ IF wsRef # 0 THEN Disconnect ELSE connected' = FALSE /\ UNCHANGED <<socks, wsRef>>
  /\ UNCHANGED <<current, env, reloading, list>>

FilesPodChange(p) ==
  /\ p # NoPod /\ p[1] = env /\ p # pod /\ ~reloading /\ (Attached => wsRef = 0)
  /\ pod' = p
  /\ UNCHANGED <<current, env, reloading, shell, list>>

\* connect: a socket that is still connecting is closed first.
Connect ==
  /\ ~connected /\ pod # NoPod /\ ~reloading /\ Len(socks) < MaxSockets
  /\ Calm => \A s \in DOMAIN socks : socks[s].state = "closed"
  /\ socks' = Append(IF wsRef = 0 THEN socks ELSE Closing(wsRef),
                     [to |-> target, state |-> "connecting"])
  /\ wsRef' = Len(socks) + 1 /\ connected' = FALSE
  /\ UNCHANGED <<current, target, reloading, list>>

\* "ready" of the server.
Ready(s) ==
  /\ socks[s].state = "connecting"
  /\ socks' = [socks EXCEPT ![s].state = "open"] /\ connected' = TRUE
  /\ UNCHANGED <<current, target, reloading, wsRef, list>>

\* onclose: the server's end, or the answer to close(); of any socket.
OnClose(s) ==
  /\ socks[s].state # "closed"
  /\ socks' = [socks EXCEPT ![s].state = "closed"] /\ connected' = FALSE
  /\ wsRef' = IF wsRef = s THEN 0 ELSE wsRef
  /\ UNCHANGED <<current, target, reloading, list>>

PressDisconnect ==
  /\ connected /\ wsRef # 0 /\ Disconnect
  /\ UNCHANGED <<current, target, reloading, list>>

-----------------------------------------------------------------------------
Load ==
  /\ sent < MaxCalls /\ sent' = sent + 1
  /\ net' = net \cup {[n |-> sent + 1, env |-> env]}
\* The button is disabled while a request is under way, the timer is not.
Refresh == /\ (net = {} \/ auto) /\ Load
           /\ UNCHANGED <<current, target, reloading, shell, auto, rows>>
ToggleAuto == /\ auto' = ~auto /\ (IF auto THEN UNCHANGED <<net, sent>> ELSE Load)
              /\ UNCHANGED <<current, target, reloading, shell, rows>>
GotRows(r, ok) ==
  /\ r \in net /\ net' = net \ {r}
  /\ rows' = IF ok THEN r.env ELSE rows
  /\ UNCHANGED <<current, target, reloading, shell, auto, sent>>

-----------------------------------------------------------------------------
User ==
  \/ \E e \in Envs : OnEnvChange(e) \/ ChangeEnvs(e)
  \/ \E p \in Pods \cup {NoPod} : OnPodChange(p) \/ FilesPodChange(p)
  \/ Connect \/ PressDisconnect \/ Refresh \/ ToggleAuto
Outside ==
  \/ ReloadEnvs
  \/ \E s \in DOMAIN socks : Ready(s) \/ OnClose(s)
  \/ \E r \in net, ok \in BOOLEAN : GotRows(r, ok)
Next == User \/ Outside

Spec == Init /\ [][Next]_vars
-----------------------------------------------------------------------------
TypeOK ==
  /\ {current, env} \subseteq Envs /\ pod \in {NoPod} \cup Pods
  /\ wsRef \in 0..Len(socks) /\ Len(socks) <= MaxSockets /\ sent \in 0..MaxCalls
  /\ rows \in Envs \cup {None}

(***************************************************************************)
(* What is typed goes to the pod that the panel shows.                     *)
(***************************************************************************)
TypesIntoTarget == wsRef # 0 /\ socks[wsRef].state = "open" => socks[wsRef].to = target

\* The sign says whether a terminal is open; only the last one ever is.
SignIsTrue ==
  /\ connected <=> wsRef # 0 /\ socks[wsRef].state = "open"
  /\ \A s \in DOMAIN socks : socks[s].state \in {"connecting", "open"} => s = wsRef

\* The chosen pod is one of the chosen environment.
PodIsOfEnv == pod # NoPod => pod[1] = env

\* Events and usage shown are of the chosen environment.
RowsAreOfEnv == rows \in {None, env}
=============================================================================
