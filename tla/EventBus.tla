------------------------------ MODULE EventBus ------------------------------
(***************************************************************************)
(* The server-sent-event bus: api/eventbus.py and the endpoint that        *)
(* streams it, api/routes_events.py.  Worker threads and route handlers    *)
(* broadcast; every browser tab owns one bounded asyncio.Queue; only the   *)
(* main event loop touches the queues, through call_soon_threadsafe.       *)
(*                                                                         *)
(* An item is what the properties can tell apart: its producer, its number *)
(* in the producer's program order, and whether its event is critical      *)
(* (cookie_expired, network_warning).                                      *)
(***************************************************************************)
EXTENDS Integers, Sequences, FiniteSets, SequencesExt

CONSTANTS
  Producers,    \* threads that call broadcast()
  Tabs,         \* clients that may open /api/events
  MaxSize,      \* asyncio.Queue(maxsize=500)
  MaxItems      \* bound: broadcasts per producer

ASSUME MaxSizeAssumption == MaxSize \in Nat \ {0}
ASSUME MaxItemsAssumption == MaxItems \in Nat

VARIABLES
  loopUp,       \* capture_loop() has stored the running loop in _main_loop
  subscribers,  \* _subscribers
  queue,        \* the asyncio.Queue of each tab
  ready,        \* callbacks handed to call_soon_threadsafe, in FIFO order
  sent,         \* broadcasts begun so far by each producer
  casting,      \* per producer: the broadcast in progress and the tabs it owes
  received      \* ghost: what each tab's stream has yielded since it subscribed

vars == <<loopUp, subscribers, queue, ready, sent, casting, received>>

Item == [from: Producers, n: 1..MaxItems, critical: BOOLEAN]
Idle == [busy |-> FALSE]
Casting == {Idle} \cup [busy: {TRUE}, item: Item, todo: SUBSET Tabs]
Call == [tab: Tabs, item: Item]

IsCritical(item) == item.critical

(***************************************************************************)
(* _enqueue: what the full queue q gives up for a critical item: its       *)
(* oldest normal item, or its oldest item when all are critical.           *)
(***************************************************************************)
Normal(q) == {i \in DOMAIN q : ~IsCritical(q[i])}

Spare(q) ==
  IF Normal(q) = {} THEN 1
  ELSE CHOOSE i \in Normal(q) : \A j \in Normal(q) : i <= j

EnqueueDropsArrival(q, item) ==      \* mutant: a full queue refuses the item
  IF Len(q) < MaxSize THEN Append(q, item) ELSE q

EnqueueRotates(q, item) ==           \* mutant: the drained items go back last
  IF Len(q) < MaxSize THEN Append(q, item)
  ELSE <<item>> \o Tail(q)

EnqueueDropsOldest(q, item) ==       \* mutant: the rule for normal items only
  IF Len(q) < MaxSize THEN Append(q, item) ELSE Append(Tail(q), item)

EnqueueUnbounded(q, item) == Append(q, item)    \* mutant: no maxsize

Enqueue(q, item) ==
  IF Len(q) < MaxSize THEN Append(q, item)
  ELSE IF IsCritical(item) THEN Append(RemoveAt(q, Spare(q)), item)
  ELSE Append(Tail(q), item)

-----------------------------------------------------------------------------
Init ==
  /\ loopUp = FALSE
  /\ subscribers = {}
  /\ queue = [t \in Tabs |-> <<>>]
  /\ ready = <<>>
  /\ sent = [p \in Producers |-> 0]
  /\ casting = [p \in Producers |-> Idle]
  /\ received = [t \in Tabs |-> <<>>]

CaptureLoop ==
  /\ ~loopUp
  /\ loopUp' = TRUE
  /\ UNCHANGED <<subscribers, queue, ready, sent, casting, received>>

\* A tab that comes back gets a fresh queue; calls still addressed to its old
\* queue object can no longer be seen, so it reuses the name once they ran.
OldQueueForgotten(t) ==
  /\ \A i \in DOMAIN ready : ready[i].tab # t
  /\ \A p \in Producers : casting[p].busy => t \notin casting[p].todo

\* api_events runs on the loop and registers the queue before it streams.
Subscribe(t) ==
  /\ loopUp
  /\ t \notin subscribers
  /\ OldQueueForgotten(t)
  /\ subscribers' = subscribers \cup {t}
  /\ queue' = [queue EXCEPT ![t] = <<>>]
  /\ received' = [received EXCEPT ![t] = <<>>]
  /\ UNCHANGED <<loopUp, ready, sent, casting>>

\* The stream's finally clause, once the client has gone.
Unsubscribe(t) ==
  /\ t \in subscribers
  /\ subscribers' = subscribers \ {t}
  /\ UNCHANGED <<loopUp, queue, ready, sent, casting, received>>

\* event_stream: q.get() and the yield of what it returned.
Stream(t) ==
  /\ t \in subscribers
  /\ queue[t] # <<>>
  /\ received' = [received EXCEPT ![t] = Append(@, Head(queue[t]))]
  /\ queue' = [queue EXCEPT ![t] = Tail(@)]
  /\ UNCHANGED <<loopUp, subscribers, ready, sent, casting>>

\* broadcast up to the release of _lock: the list of subscribers is a copy.
BroadcastBegin(p, critical) ==
  /\ ~casting[p].busy
  /\ sent[p] < MaxItems
  /\ sent' = [sent EXCEPT ![p] = @ + 1]
  /\ casting' = [casting EXCEPT ![p] =
       [busy |-> TRUE,
        item |-> [from |-> p, n |-> sent[p] + 1, critical |-> critical],
        todo |-> subscribers]]
  /\ UNCHANGED <<loopUp, subscribers, queue, ready, received>>

\* One turn of broadcast's loop.  A subscriber exists only once the loop runs,
\* so the branch that calls _enqueue directly is never taken here.
BroadcastTo(p, t) ==
  /\ casting[p].busy
  /\ t \in casting[p].todo
  /\ casting' = [casting EXCEPT ![p].todo = @ \ {t}]
  /\ ready' = Append(ready, [tab |-> t, item |-> casting[p].item])
  /\ UNCHANGED <<loopUp, subscribers, queue, sent, received>>

BroadcastEnd(p) ==
  /\ casting[p].busy
  /\ casting[p].todo = {}
  /\ casting' = [casting EXCEPT ![p] = Idle]
  /\ UNCHANGED <<loopUp, subscribers, queue, ready, sent, received>>

\* The loop runs its next callback, whether or not the tab is still there.
RunCallback ==
  /\ ready # <<>>
  /\ queue' = [queue EXCEPT ![Head(ready).tab] = Enqueue(@, Head(ready).item)]
  /\ ready' = Tail(ready)
  /\ UNCHANGED <<loopUp, subscribers, sent, casting, received>>

Next ==
  \/ CaptureLoop
  \/ RunCallback
  \/ \E t \in Tabs : Subscribe(t) \/ Unsubscribe(t) \/ Stream(t)
  \/ \E p \in Producers :
       \/ \E critical \in BOOLEAN : BroadcastBegin(p, critical)
       \/ \E t \in Tabs : BroadcastTo(p, t)
       \/ BroadcastEnd(p)

Spec == Init /\ [][Next]_vars

\* A broadcast is straight-line code, and the loop runs what it was handed.
FairSpec ==
  /\ Spec
  /\ WF_vars(RunCallback)
  /\ \A p \in Producers : \A t \in Tabs : WF_vars(BroadcastTo(p, t))

-----------------------------------------------------------------------------
\* Type invariant: no queue outgrows asyncio.Queue(maxsize=500), although
\* _enqueue empties and refills it by hand.
TypeOK ==
  /\ loopUp \in BOOLEAN
  /\ subscribers \subseteq Tabs
  /\ queue \in [Tabs -> Seq(Item)]
  /\ \A t \in Tabs : Len(queue[t]) <= MaxSize
  /\ ready \in Seq(Call)
  /\ sent \in [Producers -> 0..MaxItems]
  /\ casting \in [Producers -> Casting]
  /\ received \in [Tabs -> Seq(Item)]

\* What a tab has shown or is about to show.
Visible(t) == received[t] \o queue[t]

\* Every tab sees the events of one thread in the order that thread sent them
\* and none twice, whatever was displaced and put back in between
\* (broadcast, the callback queue, and _enqueue's drain-and-refill).
ProducerOrder ==
  \A t \in Tabs : \A i, j \in DOMAIN Visible(t) :
    (i < j /\ Visible(t)[i].from = Visible(t)[j].from)
      => Visible(t)[i].n < Visible(t)[j].n

\* The positions of tab t's queue whose item a step discards unseen.
Discarded(t) ==
  {i \in DOMAIN queue[t] :
     /\ t \in subscribers
     /\ queue[t][i] \notin ToSet(queue'[t])
     /\ queue[t][i] \notin ToSet(received'[t])}

\* A step discards at most one item per tab, only from a full queue, and an
\* alarm makes room at the expense of another alarm only when the queue holds
\* nothing else (_enqueue, the branch for critical items).
OverflowDropsOne ==
  [][\A t \in Tabs : \A i \in Discarded(t) :
       /\ Len(queue[t]) = MaxSize
       /\ \A j \in Discarded(t) : j = i
       /\ (ready # <<>> /\ IsCritical(Head(ready).item)
             /\ IsCritical(queue[t][i])) => Normal(queue[t]) = {}]_vars

\* The promise of the comment on _CRITICAL_EVENTS: an alarm is discarded only
\* when the queue is full of alarms, so progress events never push it out.
AlarmOutlivesProgress ==
  [][\A t \in Tabs : \A i \in Discarded(t) :
       IsCritical(queue[t][i]) => Normal(queue[t]) = {}]_vars

\* Every event a thread owes a tab gets into that tab's queue, alarm or not,
\* unless the tab leaves first: overflow costs old events, never the new one.
EveryEventArrives ==
  \A p \in Producers : \A t \in Tabs : \A item \in Item :
    (casting[p].busy /\ casting[p].item = item /\ t \in casting[p].todo)
      ~> (item \in ToSet(Visible(t)) \/ t \notin subscribers)
=============================================================================
