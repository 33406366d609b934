------------------------------- MODULE PodLog --------------------------------
(***************************************************************************)
(* The log page of a pod (LogViewer.tsx): logs that are asked for once, by *)
(* the clock or as a stream, while the pod, its container and the label    *)
(* mode change.                                                            *)
(***************************************************************************)
EXTENDS Integers, FiniteSets

CONSTANTS
  Pods, Containers,  \* the containers of every pod
  Patient,           \* pod and container stay while an answer or a stream is under way
  Settled,           \* the label mode stays once a log is shown
  MaxCalls           \* bound: requests and streams

VARIABLES
  pod, cont, labelMode, \* what the head of the page names; "" for none
  offers,       \* the pod whose containers are offered, or ""
  raw,          \* where the text is from: <<pod, container>>, <<"label">> or <<>>
  isErr, auto,
  streaming, abort, open, \* the box; abortRef (0 for none); streams that are read
  net, sent

target == <<pod, cont, labelMode>>
text == <<raw, isErr>>
stream == <<streaming, abort, open>>
calls == <<net, sent>>
vars == <<target, offers, text, auto, stream, calls>>

\* The page may be opened for a pod or for an environment only.
Init ==
  /\ pod \in Pods \cup {""} /\ cont = "" /\ labelMode = FALSE /\ offers = "" /\ raw = <<>> /\ isErr = FALSE /\ auto = FALSE
  /\ streaming = FALSE /\ abort = 0 /\ open = {}
  /\ sent = 1 /\ net = {[n |-> 1, kind |-> "first", of |-> <<pod>>]}

-----------------------------------------------------------------------------
Send(kind, of) == sent < MaxCalls /\ sent' = sent + 1 /\ net' = net \cup {[n |-> sent + 1, kind |-> kind, of |-> of]}
Still == Patient => net = {} /\ open = {}

\* refresh reads what the page names at this moment; without a pod it only says so.
Source == IF labelMode THEN <<"label">> ELSE <<pod, cont>>
Refresh ==
  /\ ~streaming
  /\ IF pod = "" /\ ~labelMode THEN isErr' = TRUE /\ UNCHANGED calls ELSE isErr' = FALSE /\ Send("log", Source)
  /\ UNCHANGED <<target, offers, raw, auto, stream>>

\* The clock goes on beside a stream: only its menu is off.
SetAuto ==
  /\ ~streaming /\ auto' = ~auto /\ UNCHANGED <<target, offers, text, stream, calls>>
Tick ==
  /\ auto /\ pod # "" /\ Send("log", Source) /\ isErr' = FALSE
  /\ UNCHANGED <<target, offers, raw, auto, stream>>
\* The number of lines or the former run: asked again, unless a stream runs.
SetTail ==
  /\ ~streaming /\ (pod # "" \/ labelMode) /\ Send("log", Source) /\ isErr' = FALSE
  /\ UNCHANGED <<target, offers, raw, auto, stream>>

SwitchPodKeeps(p) ==                 \* mutant: the text stays
  /\ ~labelMode /\ p # pod /\ Still /\ pod' = p /\ cont' = "" /\ raw' = raw
  /\ IF p = "" THEN offers' = "" /\ isErr' = FALSE /\ UNCHANGED calls
     ELSE Send("conts", <<p>>) /\ UNCHANGED <<offers, isErr>>
  /\ UNCHANGED <<labelMode, auto, stream>>
SwitchPod(p) ==
  /\ ~labelMode /\ p # pod /\ Still /\ pod' = p /\ cont' = "" /\ raw' = <<>>
  /\ IF p = "" THEN offers' = "" /\ isErr' = FALSE /\ UNCHANGED calls
     ELSE Send("conts", <<p>>) /\ UNCHANGED <<offers, isErr>>
  /\ UNCHANGED <<labelMode, auto, stream>>
SwitchContainer(c) ==
  /\ offers # "" /\ pod # "" /\ c # cont /\ Still /\ cont' = c /\ isErr' = FALSE
  /\ Send("log", IF labelMode THEN <<"label">> ELSE <<pod, c>>)
  /\ UNCHANGED <<pod, labelMode, offers, raw, auto, stream>>
\* Switching the label mode asks for nothing.
SetLabel ==
  /\ Still /\ (Settled => raw = <<>>) /\ labelMode' = ~labelMode
  /\ UNCHANGED <<pod, cont, offers, text, auto, stream, calls>>

-----------------------------------------------------------------------------
\* The box is ticked before startStream looks for a pod.
StartStream ==
  /\ ~streaming /\ ~labelMode /\ (Patient => net = {}) /\ streaming' = TRUE
  /\ IF pod = "" THEN UNCHANGED <<text, abort, open, calls>>
     ELSE /\ sent < MaxCalls /\ sent' = sent + 1 /\ abort' = sent + 1
          /\ open' = open \cup {[n |-> sent + 1, of |-> <<pod, cont>>]}
          /\ raw' = <<>> /\ isErr' = FALSE /\ UNCHANGED net
  /\ UNCHANGED <<target, offers, auto>>
Chunk(s) == s \in open /\ raw' = s.of /\ UNCHANGED <<target, offers, isErr, auto, stream, calls>>
StreamEnds(s) ==
  /\ s \in open /\ open' = open \ {s} /\ streaming' = FALSE
  /\ UNCHANGED <<target, offers, text, auto, abort, calls>>
\* A broken stream is reported; the box stays ticked.
StreamFails(s) ==
  /\ s \in open /\ open' = open \ {s} /\ isErr' = TRUE
  /\ UNCHANGED <<target, offers, raw, auto, streaming, abort, calls>>
StopStreamOnly ==                    \* mutant: nothing is aborted
  /\ streaming /\ streaming' = FALSE /\ UNCHANGED <<target, offers, text, auto, abort, open, calls>>
StopStream ==
  /\ streaming /\ streaming' = FALSE /\ abort' = 0 /\ open' = {s \in open : s.n # abort}
  /\ UNCHANGED <<target, offers, text, auto, calls>>

-----------------------------------------------------------------------------
\* Behind the containers of a pod comes the log, of what is named by then.
GotContainers(r) ==
  /\ r.kind \in {"first", "conts"} /\ offers' \in {r.of[1], ""}
  /\ IF pod = "" /\ (r.kind = "first" \/ ~labelMode)
     THEN net' = net \ {r} /\ isErr' = (isErr \/ r.kind = "conts") /\ UNCHANGED sent
     ELSE /\ sent < MaxCalls /\ sent' = sent + 1 /\ isErr' = FALSE
          /\ net' = (net \ {r}) \cup {[n |-> sent + 1, kind |-> "log", of |-> Source]}
  /\ UNCHANGED <<target, raw, auto, stream>>
GotLog(r) ==
  /\ r.kind = "log" /\ net' = net \ {r}
  /\ \/ raw' = r.of /\ UNCHANGED isErr
     \/ isErr' = TRUE /\ UNCHANGED raw
  /\ UNCHANGED <<target, offers, auto, stream, sent>>

User == \/ Refresh \/ SetAuto \/ SetTail \/ SetLabel \/ StartStream \/ StopStream
        \/ \E p \in Pods \cup {""} : SwitchPod(p)
        \/ \E c \in Containers \cup {""} : SwitchContainer(c)
Server == \/ Tick
          \/ \E s \in open : Chunk(s) \/ StreamEnds(s) \/ StreamFails(s)
          \/ \E r \in net : GotContainers(r) \/ GotLog(r)
Next == User \/ Server

Spec == Init /\ [][Next]_vars
-----------------------------------------------------------------------------
TypeOK ==
  /\ pod \in Pods \cup {""} /\ cont \in Containers \cup {""} /\ offers \in Pods \cup {""} /\ sent \in 0..MaxCalls /\ abort \in 0..MaxCalls
  /\ \A f \in {labelMode, isErr, auto, streaming} : f \in BOOLEAN

(***************************************************************************)
(* Once the answers are there, the text that may be searched and saved     *)
(* under the name of the pod is of the pod and the container named.        *)
(***************************************************************************)
RawIsOfTarget == net = {} /\ ~isErr => raw \in {<<>>, Source}

(***************************************************************************)
(* A stream is read only while the box is ticked, and it is the one that   *)
(* unticking the box aborts.  (Not the other way round: a box that was     *)
(* ticked without a pod, or whose stream broke off, stays ticked.)         *)
(***************************************************************************)
StreamIsHeld == \A s \in open : streaming /\ s.n = abort
=============================================================================
