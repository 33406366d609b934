--------------------------- MODULE EventBusProofs ---------------------------
(***************************************************************************)
(* Theorems about EventBus for every set of producers and tabs, every      *)
(* queue bound and every number of broadcasts: types, what an overflow     *)
(* costs, and the order in which a tab sees events.                        *)
(***************************************************************************)
EXTENDS EventBus, SequenceTheorems, WellFoundedInduction, TLAPS

\* RemoveAt takes out exactly one place and keeps the order of the rest.
LEMMA RemoveAtProperties ==
  ASSUME NEW S, NEW q \in Seq(S), NEW i \in 1..Len(q)
  PROVE  /\ RemoveAt(q, i) \in Seq(S)
         /\ Len(RemoveAt(q, i)) = Len(q) - 1
         /\ \A k \in 1..(Len(q) - 1) :
              RemoveAt(q, i)[k] = IF k < i THEN q[k] ELSE q[k + 1]
  <1> DEFINE a == SubSeq(q, 1, i - 1)
             b == SubSeq(q, i + 1, Len(q))
  <1>0. Len(q) \in Nat /\ i \in 1..Len(q)
    BY LenProperties
  <1>1. /\ a \in Seq(S)
        /\ Len(a) = i - 1
        /\ \A k \in 1..(i - 1) : a[k] = q[k]
    BY <1>0, SubSeqProperties
  <1>2. /\ b \in Seq(S)
        /\ Len(b) = Len(q) - i
        /\ \A k \in 1..(Len(q) - i) : b[k] = q[i + k]
    BY <1>0, SubSeqProperties
  <1> HIDE DEF a, b
  <1>3. /\ a \o b \in Seq(S)
        /\ Len(a \o b) = Len(a) + Len(b)
        /\ \A k \in 1..(Len(a) + Len(b)) :
             (a \o b)[k] = IF k <= Len(a) THEN a[k] ELSE b[k - Len(a)]
    BY <1>1, <1>2, ConcatProperties
  <1>4. Len(a) + Len(b) = Len(q) - 1
    BY <1>0, <1>1, <1>2
  <1>5. ASSUME NEW k \in 1..(Len(q) - 1)
        PROVE  (a \o b)[k] = IF k < i THEN q[k] ELSE q[k + 1]
    <2>1. CASE k < i
      BY <2>1, <1>0, <1>1, <1>3, <1>4
    <2>2. CASE ~(k < i)
      <3>1. /\ k - Len(a) \in 1..(Len(q) - i)
            /\ i + (k - Len(a)) = k + 1
            /\ ~(k <= Len(a))
        BY <2>2, <1>0, <1>1
      <3>2. b[k - Len(a)] = q[i + (k - Len(a))]
        BY <1>2, <3>1
      <3> QED
        BY <2>2, <3>1, <3>2, <1>3, <1>4
    <2> QED
      BY <2>1, <2>2
  <1> QED
    BY <1>3, <1>4, <1>5 DEF RemoveAt, a, b

\* A non-empty set of places has a first one, so Spare names a place.
LEMMA SpareIsAPlace ==
  ASSUME NEW q \in Seq(Item), Len(q) > 0
  PROVE  /\ Spare(q) \in 1..Len(q)
         /\ Normal(q) # {} => Spare(q) \in Normal(q)
  <1>1. CASE Normal(q) = {}
    BY <1>1 DEF Spare
  <1>2. CASE Normal(q) # {}
    <2>1. Normal(q) \subseteq 1..Len(q)
      BY DEF Normal
    <2>2. \E i \in Normal(q) : \A j \in Normal(q) : i <= j
      <3> DEFINE R == {ss \in Nat \X Nat : ss[1] < ss[2]}
      <3>1. IsWellFoundedOn(R, Nat)
        BY NatLessThanWellFounded DEF OpToRel
      <3>2. Normal(q) \subseteq Nat
        BY <2>1
      <3>3. \E i \in Normal(q) : \A j \in Normal(q) : <<j, i>> \notin R
        BY <1>2, <3>1, <3>2, WFMin
      <3>4. \A i, j \in Nat : <<j, i>> \notin R => i <= j
        OBVIOUS
      <3> QED
        BY <3>2, <3>3, <3>4
    <2>3. Spare(q) \in Normal(q)
      BY <1>2, <2>2 DEF Spare
    <2> QED
      BY <2>1, <2>3
  <1> QED
    BY <1>1, <1>2

\* Offering an item to a queue within its bound gives such a queue again,
\* which ends in the new item and has given up at most its place Displaced.
Displaced(q, item) == IF IsCritical(item) THEN Spare(q) ELSE 1

LEMMA EnqueueProperties ==
  ASSUME NEW q \in Seq(Item), NEW item \in Item, Len(q) <= MaxSize
  PROVE  /\ Enqueue(q, item) \in Seq(Item)
         /\ Len(Enqueue(q, item)) <= MaxSize
         /\ \A i \in 1..Len(q) :
              \/ q[i] \in ToSet(Enqueue(q, item))
              \/ Len(q) = MaxSize /\ i = Displaced(q, item)
  <1>0. Len(q) \in Nat /\ MaxSize \in Nat \ {0}
    BY MaxSizeAssumption
  <1>1. CASE Len(q) < MaxSize
    <2> DEFINE r == Append(q, item)
    <2>1. /\ r \in Seq(Item)
          /\ Len(r) = Len(q) + 1
          /\ \A i \in 1..Len(q) : r[i] = q[i]
      OBVIOUS
    <2>2. Enqueue(q, item) = r
      BY <1>1 DEF Enqueue
    <2>3. \A i \in 1..Len(q) : q[i] \in ToSet(r)
      BY <2>1, <1>0 DEF ToSet
    <2> QED
      BY <2>1, <2>2, <2>3, <1>0, <1>1
  <1>2. CASE ~(Len(q) < MaxSize)
    <2>0. Len(q) = MaxSize /\ Len(q) > 0
      BY <1>0, <1>2
    <2> DEFINE d == Displaced(q, item)
               k == RemoveAt(q, d)
    <2>1. d \in 1..Len(q)
      BY <2>0, SpareIsAPlace DEF Displaced
    <2>2. /\ k \in Seq(Item)
          /\ Len(k) = Len(q) - 1
          /\ \A i \in 1..(Len(q) - 1) :
               k[i] = IF i < d THEN q[i] ELSE q[i + 1]
      BY <2>1, RemoveAtProperties
    <2>3. ~IsCritical(item) => k = Tail(q)
      <3> SUFFICES ASSUME ~IsCritical(item)
                   PROVE  k = Tail(q)
        OBVIOUS
      <3>1. d = 1 /\ q # <<>>
        BY <2>0 DEF Displaced
      <3>2. /\ Tail(q) \in Seq(Item)
            /\ Len(Tail(q)) = Len(q) - 1
            /\ \A i \in 1..(Len(q) - 1) : Tail(q)[i] = q[i + 1]
        BY <3>1, HeadTailProperties
      <3>3. \A i \in 1..Len(k) : k[i] = Tail(q)[i]
        BY <1>0, <2>1, <2>2, <3>1, <3>2
      <3> QED
        BY <2>2, <3>2, <3>3, SeqEqual
    <2>4. Enqueue(q, item) = Append(k, item)
      BY <1>2, <2>3 DEF Enqueue, Displaced
    <2> HIDE DEF d, k
    <2> DEFINE r == Append(k, item)
    <2>5. /\ r \in Seq(Item)
          /\ Len(r) = Len(k) + 1
          /\ \A i \in 1..Len(k) : r[i] = k[i]
      BY <2>2
    <2>6. \A i \in 1..Len(q) : i # d => q[i] \in ToSet(r)
      <3> SUFFICES ASSUME NEW i \in 1..Len(q), i # d
                   PROVE  q[i] \in ToSet(r)
        OBVIOUS
      <3>1. CASE i < d
        <4>1. i \in 1..(Len(q) - 1) /\ k[i] = q[i]
          BY <2>1, <2>2, <3>1, <2>0
        <4> QED
          BY <4>1, <2>2, <2>5, <2>0 DEF ToSet
      <3>2. CASE i > d
        <4>1. i - 1 \in 1..(Len(q) - 1) /\ k[i - 1] = q[i]
          BY <2>1, <2>2, <3>2, <2>0
        <4> QED
          BY <4>1, <2>2, <2>5, <2>0 DEF ToSet
      <3> QED
        BY <3>1, <3>2, <2>1
    <2> QED
      BY <2>0, <2>2, <2>4, <2>5, <2>6 DEF d
  <1> QED
    BY <1>1, <1>2

-----------------------------------------------------------------------------
\* Every reachable state is well typed, and no queue outgrows its maxsize.
THEOREM TypeCorrect == Spec => []TypeOK
  <1>1. Init => TypeOK
    <2> SUFFICES ASSUME Init
                 PROVE  TypeOK
      OBVIOUS
    <2>1. loopUp \in BOOLEAN /\ subscribers \subseteq Tabs
      BY DEF Init
    <2>2. /\ queue \in [Tabs -> Seq(Item)]
          /\ received \in [Tabs -> Seq(Item)]
          /\ ready \in Seq(Call)
          /\ \A t \in Tabs : Len(queue[t]) <= MaxSize
      BY EmptySeq, MaxSizeAssumption DEF Init
    <2>3. sent \in [Producers -> 0..MaxItems]
      BY MaxItemsAssumption DEF Init
    <2>4. casting \in [Producers -> Casting]
      BY DEF Init, Casting
    <2> QED
      BY <2>1, <2>2, <2>3, <2>4 DEF TypeOK
  <1>2. TypeOK /\ [Next]_vars => TypeOK'
    <2> SUFFICES ASSUME TypeOK, [Next]_vars
                 PROVE  TypeOK'
      OBVIOUS
    <2> USE DEF TypeOK
    <2>1. CASE CaptureLoop
      BY <2>1 DEF CaptureLoop
    <2>2. CASE RunCallback
      <3> DEFINE call == Head(ready)
      <3>1. call \in Call /\ Tail(ready) \in Seq(Call)
        BY <2>2, HeadTailProperties DEF RunCallback
      <3>2. /\ Enqueue(queue[call.tab], call.item) \in Seq(Item)
            /\ Len(Enqueue(queue[call.tab], call.item)) <= MaxSize
        BY <3>1, EnqueueProperties DEF Call
      <3> QED
        BY <2>2, <3>1, <3>2 DEF RunCallback, Call
    <2>3. ASSUME NEW t \in Tabs, Subscribe(t)
          PROVE  TypeOK'
      BY <2>3, MaxSizeAssumption DEF Subscribe
    <2>4. ASSUME NEW t \in Tabs, Unsubscribe(t)
          PROVE  TypeOK'
      BY <2>4 DEF Unsubscribe
    <2>5. ASSUME NEW t \in Tabs, Stream(t)
          PROVE  TypeOK'
      <3>1. /\ Head(queue[t]) \in Item
            /\ Tail(queue[t]) \in Seq(Item)
            /\ Len(Tail(queue[t])) <= MaxSize
        BY <2>5, HeadTailProperties, LenProperties, MaxSizeAssumption
        DEF Stream
      <3> QED
        BY <2>5, <3>1 DEF Stream
    <2>6. ASSUME NEW p \in Producers, NEW critical \in BOOLEAN,
                 BroadcastBegin(p, critical)
          PROVE  TypeOK'
      <3> DEFINE item == [from |-> p, n |-> sent[p] + 1, critical |-> critical]
      <3>1. sent[p] + 1 \in 1..MaxItems
        BY <2>6, MaxItemsAssumption DEF BroadcastBegin
      <3>2. item \in Item
        BY <3>1 DEF Item
      <3>3. [busy |-> TRUE, item |-> item, todo |-> subscribers] \in Casting
        BY <3>2 DEF Casting
      <3>4. sent' \in [Producers -> 0..MaxItems]
        BY <2>6, <3>1, MaxItemsAssumption DEF BroadcastBegin
      <3>5. casting' \in [Producers -> Casting]
        BY <2>6, <3>3 DEF BroadcastBegin
      <3> QED
        BY <2>6, <3>4, <3>5 DEF BroadcastBegin
    <2>7. ASSUME NEW p \in Producers, NEW t \in Tabs, BroadcastTo(p, t)
          PROVE  TypeOK'
      <3>1. casting[p] \in [busy: {TRUE}, item: Item, todo: SUBSET Tabs]
        <4>1. casting[p] \in Casting /\ casting[p].busy
          BY <2>7 DEF BroadcastTo
        <4>2. casting[p] # Idle
          BY <4>1 DEF Idle
        <4> QED
          BY <4>1, <4>2 DEF Casting
      <3>2. [casting[p] EXCEPT !.todo = @ \ {t}] \in Casting
        BY <3>1 DEF Casting
      <3>3. [tab |-> t, item |-> casting[p].item] \in Call
        BY <3>1 DEF Call
      <3> QED
        BY <2>7, <3>2, <3>3 DEF BroadcastTo
    <2>8. ASSUME NEW p \in Producers, BroadcastEnd(p)
          PROVE  TypeOK'
      BY <2>8 DEF BroadcastEnd, Casting
    <2>9. CASE UNCHANGED vars
      BY <2>9 DEF vars
    <2> QED
      BY <2>1, <2>2, <2>3, <2>4, <2>5, <2>6, <2>7, <2>8, <2>9 DEF Next
  <1> QED
    BY <1>1, <1>2, PTL DEF Spec

\* Whatever the bound, a step discards at most one item per tab, only from a
\* full queue, and an arriving alarm discards an alarm only among alarms.
THEOREM OverflowIsSelective == Spec => OverflowDropsOne
  <1> DEFINE Selective ==
        \A t \in Tabs : \A i \in Discarded(t) :
          /\ Len(queue[t]) = MaxSize
          /\ \A j \in Discarded(t) : j = i
          /\ (ready # <<>> /\ IsCritical(Head(ready).item)
                /\ IsCritical(queue[t][i])) => Normal(queue[t]) = {}
  <1>1. TypeOK /\ [Next]_vars => [Selective]_vars
    <2> SUFFICES ASSUME TypeOK, Next, NEW t \in Tabs,
                        NEW i \in Discarded(t), NEW j \in Discarded(t)
                 PROVE  /\ Len(queue[t]) = MaxSize
                        /\ j = i
                        /\ (ready # <<>> /\ IsCritical(Head(ready).item)
                              /\ IsCritical(queue[t][i]))
                             => Normal(queue[t]) = {}
      OBVIOUS
    <2> DEFINE q == queue[t]
    <2>1. /\ q \in Seq(Item)
          /\ Len(q) \in Nat
          /\ DOMAIN q = 1..Len(q)
          /\ i \in 1..Len(q) /\ j \in 1..Len(q)
          /\ Len(q) <= MaxSize
          /\ t \in subscribers
          /\ q[i] \notin ToSet(queue'[t]) /\ q[i] \notin ToSet(received'[t])
          /\ q[j] \notin ToSet(queue'[t])
      BY LenProperties DEF TypeOK, Discarded
    <2>2. q[i] \in ToSet(q)
      BY <2>1 DEF ToSet
    <2>3. queue'[t] # queue[t]
      BY <2>1, <2>2
    <2>4. CASE RunCallback
      <3> DEFINE call == Head(ready)
      <3>1. call \in Call
        BY <2>4, HeadTailProperties DEF RunCallback, TypeOK
      <3>2. t = call.tab /\ queue'[t] = Enqueue(q, call.item)
        BY <2>3, <2>4, <3>1 DEF RunCallback, TypeOK, Call
      <3>3. /\ Len(q) = MaxSize
            /\ i = Displaced(q, call.item)
            /\ j = Displaced(q, call.item)
        BY <2>1, <3>1, <3>2, EnqueueProperties DEF Call
      <3>4. IsCritical(call.item) /\ IsCritical(q[i]) => Normal(q) = {}
        <4> SUFFICES ASSUME IsCritical(call.item), IsCritical(q[i])
                     PROVE  Normal(q) = {}
          OBVIOUS
        <4>1. i = Spare(q)
          BY <3>3 DEF Displaced
        <4>2. Len(q) > 0
          BY <2>1
        <4> QED
          BY <2>1, <4>1, <4>2, SpareIsAPlace DEF Normal
      <3> QED
        BY <3>3, <3>4
    <2>5. ASSUME NEW u \in Tabs, Stream(u)
          PROVE  FALSE
      <3>1. /\ u = t
            /\ q # <<>>
            /\ queue'[t] = Tail(q)
            /\ received'[t] = Append(received[t], Head(q))
        BY <2>3, <2>5 DEF Stream, TypeOK
      <3>2. CASE i = 1
        <4>1. Head(q) = q[i]
          BY <3>1, <3>2, <2>1
        <4>2. received[t] \in Seq(Item) /\ q[i] \in Item
          BY <2>1, ElementOfSeq DEF TypeOK
        <4>3. LET r == Append(received[t], q[i]) IN
                /\ DOMAIN r = 1..(Len(received[t]) + 1)
                /\ r[Len(received[t]) + 1] = q[i]
                /\ Len(received[t]) + 1 \in 1..(Len(received[t]) + 1)
          BY <4>2
        <4>4. q[i] \in ToSet(Append(received[t], q[i]))
          BY <4>3 DEF ToSet
        <4> QED
          BY <4>1, <4>4, <3>1, <2>1
      <3>3. CASE i # 1
        <4>1. /\ i - 1 \in 1..(Len(q) - 1)
              /\ Len(Tail(q)) = Len(q) - 1
              /\ Tail(q)[i - 1] = q[i]
              /\ DOMAIN Tail(q) = 1..Len(Tail(q))
          BY <3>1, <3>3, <2>1, HeadTailProperties, LenProperties
        <4> QED
          BY <4>1, <3>1, <2>1 DEF ToSet
      <3> QED
        BY <3>2, <3>3
    <2>6. ASSUME NEW u \in Tabs, Subscribe(u)
          PROVE  FALSE
      BY <2>1, <2>3, <2>6 DEF Subscribe, TypeOK
    <2>7. ASSUME CaptureLoop \/ (\E u \in Tabs : Unsubscribe(u))
          PROVE  FALSE
      BY <2>3, <2>7 DEF CaptureLoop, Unsubscribe
    <2>8. ASSUME NEW p \in Producers,
                 \/ \E critical \in BOOLEAN : BroadcastBegin(p, critical)
                 \/ \E u \in Tabs : BroadcastTo(p, u)
                 \/ BroadcastEnd(p)
          PROVE  FALSE
      BY <2>3, <2>8 DEF BroadcastBegin, BroadcastTo, BroadcastEnd
    <2> QED
      BY <2>4, <2>5, <2>6, <2>7, <2>8 DEF Next
  <1>2. Spec => [][Selective]_vars
    BY <1>1, TypeCorrect, PTL DEF Spec
  <1> QED
    BY <1>2 DEF OverflowDropsOne
-----------------------------------------------------------------------------
(* The order of events.  Everything that is on its way to a tab stands in   *)
(* line behind what the tab has seen: what waits in its queue, the calls    *)
(* handed to the loop, and the broadcast in progress.                       *)

Precedes(a, b) == a.from = b.from => a.n < b.n
Ordered(s) == \A i, j \in DOMAIN s : i < j => Precedes(s[i], s[j])
Before(s, item) == \A i \in DOMAIN s : Precedes(s[i], item)

CallsInLine ==
  /\ \A k \in DOMAIN ready : Before(Visible(ready[k].tab), ready[k].item)
  /\ \A k, l \in DOMAIN ready : k < l /\ ready[k].tab = ready[l].tab
                                  => Precedes(ready[k].item, ready[l].item)

CastsInLine ==
  \A p \in Producers : casting[p].busy =>
    /\ casting[p].item.from = p /\ casting[p].item.n <= sent[p]
    /\ \A t \in casting[p].todo : Before(Visible(t), casting[p].item)
    /\ \A k \in DOMAIN ready : ready[k].tab \in casting[p].todo
                                 => Precedes(ready[k].item, casting[p].item)

Counted(item) == item.n <= sent[item.from]
AllCounted ==
  /\ \A t \in Tabs : \A i \in DOMAIN Visible(t) : Counted(Visible(t)[i])
  /\ \A k \in DOMAIN ready : Counted(ready[k].item)

LineInv ==
  /\ \A t \in Tabs : Ordered(Visible(t))
  /\ CallsInLine /\ CastsInLine /\ AllCounted

-----------------------------------------------------------------------------
\* What a queue keeps when an item is offered to it: all but at most place d,
\* in the order it was in.
Shift(i, d) == IF i < d THEN i ELSE i + 1

Thinned(k, q) ==
  \E d \in 1..(Len(q) + 1) :
    /\ Len(k) = IF d <= Len(q) THEN Len(q) - 1 ELSE Len(q)
    /\ \A i \in 1..Len(k) : k[i] = q[Shift(i, d)]

LEMMA EnqueueThins ==
  ASSUME NEW q \in Seq(Item), NEW item \in Item, Len(q) <= MaxSize
  PROVE  \E k \in Seq(Item) : Enqueue(q, item) = Append(k, item) /\ Thinned(k, q)
<1>0. Len(q) \in Nat /\ MaxSize \in Nat \ {0}
  BY MaxSizeAssumption
<1>1. CASE Len(q) < MaxSize
  <2>1. Enqueue(q, item) = Append(q, item)
    BY <1>1 DEF Enqueue
  <2>2. Thinned(q, q)
    <3>1. Len(q) + 1 \in 1..(Len(q) + 1)
      BY <1>0
    <3>2. \A i \in 1..Len(q) : q[i] = q[Shift(i, Len(q) + 1)]
      BY <1>0 DEF Shift
    <3>3. Len(q) = IF Len(q) + 1 <= Len(q) THEN Len(q) - 1 ELSE Len(q)
      BY <1>0
    <3> QED
      BY <3>1, <3>2, <3>3 DEF Thinned
  <2> QED
    BY <2>1, <2>2
<1>2. CASE ~(Len(q) < MaxSize)
  <2>0. Len(q) = MaxSize /\ Len(q) > 0
    BY <1>0, <1>2
  <2> DEFINE d == Displaced(q, item)
             k == RemoveAt(q, d)
  <2>1. d \in 1..Len(q)
    BY <2>0, SpareIsAPlace DEF Displaced
  <2>2. /\ k \in Seq(Item)
        /\ Len(k) = Len(q) - 1
        /\ \A i \in 1..(Len(q) - 1) : k[i] = IF i < d THEN q[i] ELSE q[i + 1]
    BY <2>1, RemoveAtProperties
  <2>3. Enqueue(q, item) = Append(k, item)
    <3>1. CASE IsCritical(item)
      BY <3>1, <1>2 DEF Enqueue, Displaced
    <3>2. CASE ~IsCritical(item)
      <4>1. d = 1 /\ q # <<>>
        BY <2>0, <3>2 DEF Displaced
      <4>2. /\ Tail(q) \in Seq(Item)
            /\ Len(Tail(q)) = Len(q) - 1
            /\ \A i \in 1..(Len(q) - 1) : Tail(q)[i] = q[i + 1]
        BY <4>1, HeadTailProperties
      <4>3. \A i \in 1..Len(k) : k[i] = Tail(q)[i]
        BY <1>0, <2>1, <2>2, <4>1, <4>2
      <4>4. k = Tail(q)
        BY <2>2, <4>2, <4>3, SeqEqual
      <4> QED
        BY <1>2, <3>2, <4>4 DEF Enqueue
    <3> QED
      BY <3>1, <3>2
  <2> HIDE DEF d, k
  <2>4. Thinned(k, q)
    <3>1. d \in 1..(Len(q) + 1) /\ d <= Len(q)
      BY <1>0, <2>1
    <3>2. \A i \in 1..Len(k) : k[i] = q[Shift(i, d)]
      BY <2>2 DEF Shift
    <3> QED
      BY <2>2, <3>1, <3>2 DEF Thinned
  <2> QED
    BY <2>2, <2>3, <2>4
<1> QED
  BY <1>1, <1>2

\* The same of all a tab has seen and has waiting, with an item added.
Follows(w, v, item) ==
  \E m \in Nat, D \in Nat :
    /\ DOMAIN w = 1..(m + 1) /\ w[m + 1] = item
    /\ \A i \in 1..m : Shift(i, D) \in 1..Len(v) /\ w[i] = v[Shift(i, D)]

LEMMA VisibleThins ==
  ASSUME NEW r \in Seq(Item), NEW q \in Seq(Item), NEW k \in Seq(Item),
         NEW item \in Item, Thinned(k, q)
  PROVE  /\ Len(r \o q) \in Nat
         /\ DOMAIN (r \o q) = 1..Len(r \o q)
         /\ Follows(r \o Append(k, item), r \o q, item)
<1> DEFINE a == Append(k, item)
           v == r \o q
           w == r \o a
<1>1. Len(r) \in Nat /\ Len(q) \in Nat /\ Len(k) \in Nat
  BY LenProperties
<1>2. /\ a \in Seq(Item) /\ Len(a) = Len(k) + 1
      /\ a[Len(k) + 1] = item
      /\ \A i \in 1..Len(k) : a[i] = k[i]
  BY AppendProperties, <1>1
<1>3. PICK d \in 1..(Len(q) + 1) :
        /\ Len(k) = IF d <= Len(q) THEN Len(q) - 1 ELSE Len(q)
        /\ \A i \in 1..Len(k) : k[i] = q[Shift(i, d)]
  BY DEF Thinned
<1>4. /\ v \in Seq(Item) /\ Len(v) = Len(r) + Len(q)
      /\ \A i \in 1..(Len(r) + Len(q)) :
           v[i] = IF i <= Len(r) THEN r[i] ELSE q[i - Len(r)]
  BY ConcatProperties
<1> HIDE DEF a
<1>5. /\ w \in Seq(Item) /\ Len(w) = Len(r) + Len(a)
      /\ \A i \in 1..(Len(r) + Len(a)) :
           w[i] = IF i <= Len(r) THEN r[i] ELSE a[i - Len(r)]
  BY <1>2, ConcatProperties
<1> HIDE DEF v, w
<1> DEFINE m == Len(r) + Len(k)
           D == Len(r) + d
<1>6. m \in Nat /\ D \in Nat /\ DOMAIN w = 1..(m + 1) /\ DOMAIN v = 1..Len(v)
  BY <1>1, <1>2, <1>3, <1>4, <1>5, LenProperties
<1>7. w[m + 1] = item
  <2>1. m + 1 \in 1..(Len(r) + Len(a)) /\ ~(m + 1 <= Len(r))
        /\ (m + 1) - Len(r) = Len(k) + 1
    BY <1>1, <1>2
  <2> QED
    BY <1>2, <1>5, <2>1
<1>8. ASSUME NEW i \in 1..m
      PROVE  Shift(i, D) \in 1..Len(v) /\ w[i] = v[Shift(i, D)]
  <2>0. i \in 1..(Len(r) + Len(a)) /\ i \in Int
    BY <1>1, <1>2
  <2>1. CASE i <= Len(r)
    <3>1. Shift(i, D) = i /\ i \in 1..(Len(r) + Len(q))
      BY <1>1, <1>3, <2>0, <2>1 DEF Shift
    <3> QED
      BY <1>4, <1>5, <2>0, <2>1, <3>1
  <2>2. CASE ~(i <= Len(r))
    <3> DEFINE j == i - Len(r)
    <3>1. j \in 1..Len(k) /\ i = Len(r) + j
      BY <1>1, <2>0, <2>2
    <3>2. Shift(i, D) = Len(r) + Shift(j, d)
      BY <1>1, <1>3, <3>1 DEF Shift
    <3>3. Shift(j, d) \in 1..Len(q)
      BY <1>1, <1>3, <3>1 DEF Shift
    <3>4. w[i] = q[Shift(j, d)]
      <4>1. w[i] = a[j]
        BY <1>5, <2>0, <2>2
      <4>2. a[j] = k[j] /\ k[j] = q[Shift(j, d)]
        BY <1>2, <1>3, <3>1
      <4> QED
        BY <4>1, <4>2
    <3>5. v[Len(r) + Shift(j, d)] = q[Shift(j, d)]
      <4> DEFINE e == Shift(j, d)
      <4>1. e \in 1..Len(q)
        BY <3>3
      <4> HIDE DEF e
      <4>2. /\ Len(r) + e \in 1..(Len(r) + Len(q)) /\ ~(Len(r) + e <= Len(r))
            /\ (Len(r) + e) - Len(r) = e
        BY <1>1, <4>1
      <4>3. v[Len(r) + e] = q[e]
        BY <1>4, <4>2
      <4> QED
        BY <4>3 DEF e
    <3> HIDE DEF j
    <3>6. Len(r) + Shift(j, d) \in 1..Len(v)
      BY <1>1, <1>4, <3>3
    <3> QED
      BY <3>2, <3>4, <3>5, <3>6
  <2> QED
    BY <2>1, <2>2
<1>9. Len(v) \in Nat
  BY <1>1, <1>4
<1> HIDE DEF m, D
<1>10. Follows(w, v, item)
  BY <1>6, <1>7, <1>8 DEF Follows
<1> QED
  BY <1>6, <1>9, <1>10 DEF v, w, a

\* An item that comes after all a tab has seen keeps its order, and all of it
\* stays before what is yet to come.
LEMMA EnqueueKeepsOrder ==
  ASSUME NEW r \in Seq(Item), NEW q \in Seq(Item), NEW item \in Item,
         Len(q) <= MaxSize, Ordered(r \o q), Before(r \o q, item)
  PROVE  /\ Ordered(r \o Enqueue(q, item))
         /\ \A later \in Item :
              Before(r \o q, later) /\ Precedes(item, later)
                => Before(r \o Enqueue(q, item), later)
         /\ (\A i \in DOMAIN (r \o q) : Counted((r \o q)[i])) /\ Counted(item)
              => \A i \in DOMAIN (r \o Enqueue(q, item)) :
                   Counted((r \o Enqueue(q, item))[i])
<1>1. PICK k \in Seq(Item) : Enqueue(q, item) = Append(k, item) /\ Thinned(k, q)
  BY EnqueueThins
<1> DEFINE v == r \o q
           w == r \o Append(k, item)
<1>a. Thinned(k, q)
  BY <1>1
<1>2. /\ Len(v) \in Nat
      /\ DOMAIN v = 1..Len(v)
      /\ Follows(w, v, item)
  BY <1>a, VisibleThins
<1> HIDE DEF v, w
<1>3. PICK m \in Nat, D \in Nat :
        /\ DOMAIN w = 1..(m + 1) /\ w[m + 1] = item
        /\ \A i \in 1..m : Shift(i, D) \in 1..Len(v) /\ w[i] = v[Shift(i, D)]
  BY <1>2 DEF Follows
<1>4. Ordered(v) /\ Before(v, item)
  BY DEF v
<1>5. Ordered(w)
  <2> SUFFICES ASSUME NEW i \in 1..(m + 1), NEW j \in 1..(m + 1), i < j
               PROVE  Precedes(w[i], w[j])
    BY <1>3 DEF Ordered
  <2>1. i \in 1..m /\ Shift(i, D) \in 1..Len(v) /\ w[i] = v[Shift(i, D)]
    BY <1>3
  <2>2. CASE j = m + 1
    BY <2>1, <2>2, <1>2, <1>3, <1>4 DEF Before
  <2>3. CASE j \in 1..m
    <3>1. Shift(j, D) \in 1..Len(v) /\ w[j] = v[Shift(j, D)]
      BY <1>3, <2>3
    <3>2. Shift(i, D) < Shift(j, D)
      BY DEF Shift
    <3> QED
      BY <1>2, <1>4, <2>1, <3>1, <3>2 DEF Ordered
  <2> QED
    BY <2>2, <2>3
<1>6. \A later \in Item :
        Before(v, later) /\ Precedes(item, later) => Before(w, later)
  <2> SUFFICES ASSUME NEW later \in Item, Before(v, later), Precedes(item, later),
                      NEW i \in 1..(m + 1)
               PROVE  Precedes(w[i], later)
    BY <1>3 DEF Before
  <2>1. CASE i = m + 1
    BY <2>1, <1>3
  <2>2. CASE i \in 1..m
    BY <2>2, <1>2, <1>3 DEF Before
  <2> QED
    BY <2>1, <2>2
<1>7. (\A i \in DOMAIN v : Counted(v[i])) /\ Counted(item)
        => \A i \in DOMAIN w : Counted(w[i])
  <2> SUFFICES ASSUME \A i \in DOMAIN v : Counted(v[i]), Counted(item),
                      NEW i \in 1..(m + 1)
               PROVE  Counted(w[i])
    BY <1>3
  <2>1. CASE i = m + 1
    BY <2>1, <1>3
  <2>2. CASE i \in 1..m
    <3>1. Shift(i, D) \in DOMAIN v /\ w[i] = v[Shift(i, D)]
      BY <2>2, <1>2, <1>3
    <3> QED
      BY <3>1
  <2> QED
    BY <2>1, <2>2
<1> QED
  BY <1>1, <1>5, <1>6, <1>7 DEF v, w

\* What the stream yields was the next to be seen.
LEMMA StreamShowsTheNext ==
  ASSUME NEW r \in Seq(Item), NEW q \in Seq(Item), q # <<>>
  PROVE  Append(r, Head(q)) \o Tail(q) = r \o q
<1>1. /\ Len(r) \in Nat /\ Len(q) \in Nat /\ Len(q) >= 1 /\ Head(q) = q[1]
      /\ Head(q) \in Item
      /\ Tail(q) \in Seq(Item) /\ Len(Tail(q)) = Len(q) - 1
      /\ \A i \in 1..Len(Tail(q)) : Tail(q)[i] = q[i + 1]
  BY HeadTailProperties, LenProperties
<1> DEFINE a == Append(r, Head(q))
<1>2. /\ a \in Seq(Item) /\ Len(a) = Len(r) + 1
      /\ a[Len(r) + 1] = q[1]
      /\ \A i \in 1..Len(r) : a[i] = r[i]
  BY <1>1, AppendProperties
<1> HIDE DEF a
<1>3. /\ a \o Tail(q) \in Seq(Item) /\ Len(a \o Tail(q)) = Len(r) + Len(q)
      /\ \A i \in 1..(Len(r) + Len(q)) :
           (a \o Tail(q))[i] = IF i <= Len(r) + 1 THEN a[i] ELSE Tail(q)[i - (Len(r) + 1)]
  <2>1. Len(a) + Len(Tail(q)) = Len(r) + Len(q)
    BY <1>1, <1>2
  <2>2. /\ a \o Tail(q) \in Seq(Item)
        /\ Len(a \o Tail(q)) = Len(a) + Len(Tail(q))
        /\ \A i \in 1..(Len(a) + Len(Tail(q))) :
             (a \o Tail(q))[i] = IF i <= Len(a) THEN a[i] ELSE Tail(q)[i - Len(a)]
    BY <1>1, <1>2, ConcatProperties
  <2> QED
    BY <1>2, <2>1, <2>2
<1>4. /\ r \o q \in Seq(Item) /\ Len(r \o q) = Len(r) + Len(q)
      /\ \A i \in 1..(Len(r) + Len(q)) :
           (r \o q)[i] = IF i <= Len(r) THEN r[i] ELSE q[i - Len(r)]
  BY ConcatProperties
<1>5. ASSUME NEW i \in 1..(Len(r) + Len(q))
      PROVE  (a \o Tail(q))[i] = (r \o q)[i]
  <2>1. CASE i <= Len(r)
    BY <2>1, <1>1, <1>2, <1>3, <1>4
  <2>2. CASE i = Len(r) + 1
    BY <2>2, <1>1, <1>2, <1>3, <1>4
  <2>3. CASE i > Len(r) + 1
    <3>1. /\ i - (Len(r) + 1) \in 1..Len(Tail(q))
          /\ (i - (Len(r) + 1)) + 1 = i - Len(r)
      BY <2>3, <1>1
    <3>2. Tail(q)[i - (Len(r) + 1)] = q[i - Len(r)]
      BY <1>1, <3>1
    <3> QED
      BY <2>3, <3>2, <1>1, <1>3, <1>4
  <2>4. i <= Len(r) \/ i = Len(r) + 1 \/ i > Len(r) + 1
    BY <1>1
  <2> QED
    BY <2>1, <2>2, <2>3, <2>4
<1> QED
  BY <1>3, <1>4, <1>5, SeqEqual DEF a

-----------------------------------------------------------------------------
\* Items carry numbers, and a busy producer has one in hand.
LEMMA InHand ==
  ASSUME TypeOK
  PROVE  /\ \A item \in Item : item.n \in Nat /\ item.from \in Producers
         /\ \A t \in Tabs : Visible(t) \in Seq(Item)
         /\ \A k \in DOMAIN ready : /\ ready[k] \in Call /\ ready[k].tab \in Tabs
                                    /\ ready[k].item \in Item
         /\ \A p \in Producers : casting[p].busy =>
              casting[p] \in [busy: {TRUE}, item: Item, todo: SUBSET Tabs]
<1>1. \A item \in Item : item.n \in Nat /\ item.from \in Producers
  BY MaxItemsAssumption DEF Item
<1>2. \A t \in Tabs : Visible(t) \in Seq(Item)
  BY ConcatProperties DEF Visible, TypeOK
<1>3. \A k \in DOMAIN ready : ready[k] \in Call
  BY ElementOfSeq, LenProperties DEF TypeOK
<1>4. ASSUME NEW p \in Producers, casting[p].busy
      PROVE  casting[p] \in [busy: {TRUE}, item: Item, todo: SUBSET Tabs]
  <2>1. casting[p] \in Casting /\ casting[p] # Idle
    BY <1>4 DEF TypeOK, Idle
  <2> QED
    BY <2>1 DEF Casting
<1> QED
  BY <1>1, <1>2, <1>3, <1>4 DEF Call

LEMMA RunCallbackKeepsLine ==
  ASSUME TypeOK, LineInv, RunCallback
  PROVE  LineInv'
<1> DEFINE After(t) == received'[t] \o queue'[t]
<1>1. /\ ready \in Seq(Call) /\ ready # <<>> /\ Len(ready) \in Nat
      /\ Head(ready) = ready[1] /\ 1 \in DOMAIN ready
      /\ DOMAIN ready = 1..Len(ready)
      /\ ready' \in Seq(Call) /\ DOMAIN ready' = 1..(Len(ready) - 1)
      /\ \A k \in 1..(Len(ready) - 1) : ready'[k] = ready[k + 1]
  BY HeadTailProperties, LenProperties DEF RunCallback, TypeOK
<1>2. PICK u \in Tabs, item \in Item : ready[1].tab = u /\ ready[1].item = item
  BY <1>1, InHand
<1>3. /\ queue' = [queue EXCEPT ![u] = Enqueue(queue[u], item)]
      /\ UNCHANGED <<sent, casting, received>>
  BY <1>1, <1>2 DEF RunCallback
<1>4. /\ queue[u] \in Seq(Item) /\ received[u] \in Seq(Item)
      /\ Len(queue[u]) <= MaxSize
  BY DEF TypeOK
<1>5. Ordered(Visible(u)) /\ Before(Visible(u), item)
  BY <1>1, <1>2 DEF LineInv, CallsInLine
<1>6. /\ After(u) = received[u] \o Enqueue(queue[u], item)
      /\ \A t \in Tabs : t # u => After(t) = Visible(t)
  BY <1>3 DEF Visible, TypeOK
<1>a. \A t \in Tabs : Visible(t)' = After(t)
  BY DEF Visible
<1> HIDE DEF After
<1>7. /\ Ordered(After(u))
      /\ \A later \in Item : Before(Visible(u), later) /\ Precedes(item, later)
                               => Before(After(u), later)
      /\ (\A i \in DOMAIN Visible(u) : Counted(Visible(u)[i])) /\ Counted(item)
           => \A i \in DOMAIN After(u) : Counted(After(u)[i])
  BY <1>4, <1>5, <1>6, EnqueueKeepsOrder DEF Visible
<1>8. \A k \in DOMAIN ready' : /\ k + 1 \in DOMAIN ready /\ k + 1 > 1
                               /\ ready'[k] = ready[k + 1]
  BY <1>1
<1>9. \A k \in DOMAIN ready : k > 1 /\ ready[k].tab = u => Precedes(item, ready[k].item)
  BY <1>1, <1>2 DEF LineInv, CallsInLine
<1>10. CallsInLine'
  <2>1. ASSUME NEW k \in DOMAIN ready'
        PROVE  Before(After(ready'[k].tab), ready'[k].item)
    <3>1. PICK l \in DOMAIN ready : l > 1 /\ ready'[k] = ready[l]
      BY <1>8
    <3>2. Before(Visible(ready[l].tab), ready[l].item) /\ ready[l].tab \in Tabs
          /\ ready[l].item \in Item
      BY InHand DEF LineInv, CallsInLine
    <3>3. CASE ready[l].tab = u
      BY <1>7, <1>9, <3>1, <3>2, <3>3
    <3>4. CASE ready[l].tab # u
      BY <1>6, <3>1, <3>2, <3>4
    <3> QED
      BY <3>3, <3>4
  <2>2. \A k, l \in DOMAIN ready' : k < l /\ ready'[k].tab = ready'[l].tab
                                      => Precedes(ready'[k].item, ready'[l].item)
    BY <1>1, <1>8 DEF LineInv, CallsInLine
  <2> QED
    BY <2>1, <2>2 DEF CallsInLine, Visible, After
<1>11. CastsInLine'
  <2> SUFFICES ASSUME NEW p \in Producers, casting[p].busy
               PROVE  /\ casting[p].item.from = p /\ casting[p].item.n <= sent[p]
                      /\ \A t \in casting[p].todo : Before(After(t), casting[p].item)
                      /\ \A k \in DOMAIN ready' : ready'[k].tab \in casting[p].todo
                            => Precedes(ready'[k].item, casting[p].item)
    BY <1>3 DEF CastsInLine, Visible, After
  <2>1. /\ casting[p].item.from = p /\ casting[p].item.n <= sent[p]
        /\ \A t \in casting[p].todo : Before(Visible(t), casting[p].item)
        /\ \A k \in DOMAIN ready : ready[k].tab \in casting[p].todo
              => Precedes(ready[k].item, casting[p].item)
        /\ casting[p].item \in Item /\ casting[p].todo \subseteq Tabs
    BY InHand DEF LineInv, CastsInLine
  <2>2. \A t \in casting[p].todo : Before(After(t), casting[p].item)
    <3>1. u \in casting[p].todo => Precedes(item, casting[p].item)
      BY <1>1, <1>2, <2>1
    <3> QED
      BY <1>6, <1>7, <2>1, <3>1
  <2> QED
    BY <1>8, <2>1, <2>2
<1>12. AllCounted'
  <2>1. Counted(item)
    BY <1>1, <1>2 DEF LineInv, AllCounted
  <2>2. \A t \in Tabs : \A i \in DOMAIN After(t) : Counted(After(t)[i])
    BY <1>6, <1>7, <2>1 DEF LineInv, AllCounted
  <2>3. \A k \in DOMAIN ready' : Counted(ready'[k].item)
    BY <1>8 DEF LineInv, AllCounted
  <2> QED
    BY <1>3, <2>2, <2>3 DEF AllCounted, Counted, Visible, After
<1>13. \A t \in Tabs : Ordered(After(t))
  BY <1>6, <1>7 DEF LineInv
<1> QED
  BY <1>10, <1>11, <1>12, <1>13, <1>a DEF LineInv, Ordered

\* What stays as it is for every tab keeps the line.
LEMMA SameLine ==
  ASSUME LineInv, \A t \in Tabs : Visible(t)' = Visible(t),
         TypeOK, UNCHANGED <<ready, sent, casting>>
  PROVE  LineInv'
<1>1. \A k \in DOMAIN ready : ready[k].tab \in Tabs
  BY InHand
<1>2. \A p \in Producers : casting[p].busy => casting[p].todo \subseteq Tabs
  BY InHand
<1>3. CallsInLine'
  BY <1>1 DEF LineInv, CallsInLine
<1>4. CastsInLine'
  BY <1>2 DEF LineInv, CastsInLine
<1>5. AllCounted'
  BY DEF LineInv, AllCounted, Counted
<1> QED
  BY <1>3, <1>4, <1>5 DEF LineInv

LEMMA SubscribeKeepsLine ==
  ASSUME TypeOK, LineInv, NEW t \in Tabs, Subscribe(t)
  PROVE  LineInv'
<1>1. /\ Visible(t)' = <<>> \o <<>>
      /\ \A x \in Tabs : x # t => Visible(x)' = Visible(x)
      /\ UNCHANGED <<ready, sent, casting>>
  BY DEF Subscribe, Visible, TypeOK
<1>2. DOMAIN Visible(t)' = {}
  BY <1>1
<1>3. \A k \in DOMAIN ready : ready[k].tab \in Tabs
  BY InHand
<1>4. \A p \in Producers : casting[p].busy => casting[p].todo \subseteq Tabs
  BY InHand
<1>5. CallsInLine'
  <2>1. \A k \in DOMAIN ready : Before(Visible(ready[k].tab)', ready[k].item)
    BY <1>1, <1>2, <1>3 DEF LineInv, CallsInLine, Before
  <2> QED
    BY <1>1, <2>1 DEF LineInv, CallsInLine
<1>6. CastsInLine'
  <2>1. \A p \in Producers : casting[p].busy =>
          \A x \in casting[p].todo : Before(Visible(x)', casting[p].item)
    BY <1>1, <1>2, <1>4 DEF LineInv, CastsInLine, Before
  <2> QED
    BY <1>1, <2>1 DEF LineInv, CastsInLine
<1>7. AllCounted'
  BY <1>1, <1>2 DEF LineInv, AllCounted, Counted
<1>8. \A x \in Tabs : Ordered(Visible(x)')
  BY <1>1, <1>2 DEF LineInv, Ordered
<1> QED
  BY <1>5, <1>6, <1>7, <1>8 DEF LineInv

\* A new broadcast has the highest number its producer ever gave.
LEMMA BroadcastBeginKeepsLine ==
  ASSUME TypeOK, LineInv, NEW p \in Producers, NEW critical \in BOOLEAN,
         BroadcastBegin(p, critical)
  PROVE  LineInv'
<1> DEFINE item == [from |-> p, n |-> sent[p] + 1, critical |-> critical]
           cast == [busy |-> TRUE, item |-> item, todo |-> subscribers]
<1>1. /\ sent' = [sent EXCEPT ![p] = sent[p] + 1]
      /\ casting' = [casting EXCEPT ![p] = cast]
      /\ UNCHANGED <<subscribers, queue, ready, received>>
  BY DEF BroadcastBegin
<1>2. item.from = p /\ item.n = sent[p] + 1 /\ cast.item = item
      /\ cast.todo = subscribers
  OBVIOUS
<1> HIDE DEF item, cast
<1>3. /\ sent \in [Producers -> Nat] /\ subscribers \subseteq Tabs
      /\ sent'[p] = sent[p] + 1 /\ casting'[p] = cast
      /\ \A q \in Producers : q # p => sent'[q] = sent[q] /\ casting'[q] = casting[q]
      /\ \A t \in Tabs : Visible(t)' = Visible(t)
  BY <1>1 DEF TypeOK, Visible
<1>4. \A x \in Item : Counted(x) => Precedes(x, item) /\ x.n <= sent'[x.from]
  <2> SUFFICES ASSUME NEW x \in Item, Counted(x)
               PROVE  Precedes(x, item) /\ x.n <= sent'[x.from]
    OBVIOUS
  <2>1. x.n \in Nat /\ x.from \in Producers /\ x.n <= sent[x.from]
    BY InHand DEF Counted
  <2>2. Precedes(x, item)
    BY <1>2, <1>3, <2>1 DEF Precedes
  <2>3. x.n <= sent'[x.from]
    BY <1>3, <2>1
  <2> QED
    BY <2>2, <2>3
<1>5. \A t \in Tabs :
        /\ Before(Visible(t), item)
        /\ \A i \in DOMAIN Visible(t) :
             Visible(t)[i].n <= sent'[Visible(t)[i].from]
  <2> SUFFICES ASSUME NEW t \in Tabs, NEW i \in DOMAIN Visible(t)
               PROVE  /\ Precedes(Visible(t)[i], item)
                      /\ Visible(t)[i].n <= sent'[Visible(t)[i].from]
    BY DEF Before
  <2>1. Visible(t)[i] \in Item /\ Counted(Visible(t)[i])
    BY InHand, ElementOfSeq, LenProperties DEF LineInv, AllCounted
  <2> QED
    BY <1>4, <2>1
<1>6. \A k \in DOMAIN ready : /\ Precedes(ready[k].item, item)
                               /\ ready[k].item.n <= sent'[ready[k].item.from]
  BY <1>4, InHand DEF LineInv, AllCounted
<1>7. CallsInLine' /\ \A t \in Tabs : Ordered(Visible(t)')
  <2>1. \A k \in DOMAIN ready : ready[k].tab \in Tabs
    BY InHand
  <2> QED
    BY <1>1, <1>3, <2>1 DEF LineInv, CallsInLine
<1>8. CastsInLine'
  <2> SUFFICES ASSUME NEW q \in Producers, casting'[q].busy
               PROVE  /\ casting'[q].item.from = q /\ casting'[q].item.n <= sent'[q]
                      /\ \A t \in casting'[q].todo : Before(Visible(t)', casting'[q].item)
                      /\ \A k \in DOMAIN ready : ready[k].tab \in casting'[q].todo
                            => Precedes(ready[k].item, casting'[q].item)
    BY <1>1 DEF CastsInLine
  <2>1. CASE q = p
    <3>1. casting'[q].item = item /\ casting'[q].todo = subscribers
      BY <1>2, <1>3, <2>1
    <3>2. item.n <= sent'[q]
      BY <1>2, <1>3, <2>1
    <3>3. \A t \in subscribers : Before(Visible(t)', item)
      BY <1>3, <1>5
    <3> QED
      BY <1>2, <1>6, <2>1, <3>1, <3>2, <3>3
  <2>2. CASE q # p
    <3>1. casting'[q] = casting[q] /\ sent'[q] = sent[q] /\ casting[q].busy
      BY <1>3, <2>2
    <3>2. casting[q].todo \subseteq Tabs
      BY <3>1, InHand
    <3> QED
      BY <1>3, <3>1, <3>2 DEF LineInv, CastsInLine
  <2> QED
    BY <2>1, <2>2
<1>9. AllCounted'
  <2>1. \A t \in Tabs : \A i \in DOMAIN Visible(t)' :
          Visible(t)'[i].n <= sent'[Visible(t)'[i].from]
    BY <1>3, <1>5
  <2>2. \A k \in DOMAIN ready' : ready'[k].item.n <= sent'[ready'[k].item.from]
    BY <1>1, <1>6
  <2> QED
    BY <2>1, <2>2 DEF AllCounted, Counted, Visible
<1> QED
  BY <1>7, <1>8, <1>9 DEF LineInv, Ordered

\* A broadcast hands its item over to the loop, behind all it handed before.
LEMMA BroadcastToKeepsLine ==
  ASSUME TypeOK, LineInv, NEW p \in Producers, NEW t \in Tabs, BroadcastTo(p, t)
  PROVE  LineInv'
<1> DEFINE item == casting[p].item
           call == [tab |-> t, item |-> item]
<1>1. /\ casting[p].busy /\ t \in casting[p].todo
      /\ casting' = [casting EXCEPT ![p].todo = casting[p].todo \ {t}]
      /\ ready' = Append(ready, call)
      /\ UNCHANGED <<queue, sent, received>>
  BY DEF BroadcastTo
<1>2. /\ casting[p] \in [busy: {TRUE}, item: Item, todo: SUBSET Tabs]
      /\ item.from = p /\ item.n <= sent[p]
      /\ \A x \in casting[p].todo : Before(Visible(x), item)
      /\ \A k \in DOMAIN ready : ready[k].tab \in casting[p].todo
                                   => Precedes(ready[k].item, item)
  BY <1>1, InHand DEF LineInv, CastsInLine
<1>3. /\ casting'[p].item = item
      /\ casting'[p].todo = casting[p].todo \ {t}
      /\ \A q \in Producers : q # p => casting'[q] = casting[q]
  BY <1>1, <1>2 DEF TypeOK
<1>4. item \in Item /\ call \in Call /\ call.tab = t /\ call.item = item
  BY <1>2 DEF Call
<1> HIDE DEF item, call
<1>5. /\ ready \in Seq(Call) /\ Len(ready) \in Nat /\ DOMAIN ready = 1..Len(ready)
      /\ DOMAIN ready' = 1..(Len(ready) + 1)
      /\ ready'[Len(ready) + 1] = call
      /\ \A k \in 1..Len(ready) : ready'[k] = ready[k]
  BY <1>1, <1>4, AppendProperties, LenProperties DEF TypeOK
<1>6. \A x \in Tabs : Visible(x)' = Visible(x)
  BY <1>1 DEF Visible
<1>7. \A k \in DOMAIN ready' :
        \/ k \in DOMAIN ready /\ ready'[k] = ready[k]
        \/ k = Len(ready) + 1 /\ ready'[k] = call
  <2> SUFFICES ASSUME NEW k \in DOMAIN ready'
               PROVE  \/ k \in DOMAIN ready /\ ready'[k] = ready[k]
                      \/ k = Len(ready) + 1 /\ ready'[k] = call
    OBVIOUS
  <2>0. k \in 1..(Len(ready) + 1)
    BY <1>5
  <2>1. k \in 1..Len(ready) \/ k = Len(ready) + 1
    BY <1>5, <2>0
  <2> QED
    BY <1>5, <2>1
<1>8. CallsInLine'
  <2> DEFINE After(x) == received'[x] \o queue'[x]
  <2>a. \A x \in Tabs : After(x) = Visible(x)
    BY <1>6 DEF Visible
  <2> HIDE DEF After
  <2>1. \A k \in DOMAIN ready' : Before(After(ready'[k].tab), ready'[k].item)
    <3> SUFFICES ASSUME NEW k \in DOMAIN ready'
                 PROVE  Before(After(ready'[k].tab), ready'[k].item)
      OBVIOUS
    <3>1. CASE k \in DOMAIN ready /\ ready'[k] = ready[k]
      <4>1. ready[k].tab \in Tabs /\ Before(Visible(ready[k].tab), ready[k].item)
        BY <3>1, InHand DEF LineInv, CallsInLine
      <4> QED
        BY <2>a, <3>1, <4>1
    <3>2. CASE ready'[k] = call
      BY <1>1, <1>2, <1>4, <2>a, <3>2
    <3> QED
      BY <1>7, <3>1, <3>2
  <2>2. ASSUME NEW k \in DOMAIN ready', NEW l \in DOMAIN ready', k < l,
               ready'[k].tab = ready'[l].tab
        PROVE  Precedes(ready'[k].item, ready'[l].item)
    <3>1. k \in DOMAIN ready /\ ready'[k] = ready[k]
      BY <1>5, <2>2
    <3>2. CASE l = Len(ready) + 1
      BY <1>1, <1>2, <1>4, <1>5, <2>2, <3>1, <3>2
    <3>3. CASE l \in DOMAIN ready /\ ready'[l] = ready[l]
      BY <2>2, <3>1, <3>3 DEF LineInv, CallsInLine
    <3> QED
      BY <1>7, <3>2, <3>3
  <2> QED
    BY <2>1, <2>2 DEF CallsInLine, Visible, After
<1>9. CastsInLine'
  <2> SUFFICES ASSUME NEW q \in Producers, casting'[q].busy
               PROVE  /\ casting'[q].item.from = q /\ casting'[q].item.n <= sent[q]
                      /\ \A x \in casting'[q].todo : Before(Visible(x)', casting'[q].item)
                      /\ \A k \in DOMAIN ready' : ready'[k].tab \in casting'[q].todo
                            => Precedes(ready'[k].item, casting'[q].item)
    BY <1>1 DEF CastsInLine
  <2>1. CASE q = p
    <3>1. \A x \in casting'[q].todo : x # t /\ x \in casting[p].todo /\ x \in Tabs
      BY <1>2, <1>3, <2>1
    <3> QED
      BY <1>2, <1>3, <1>4, <1>6, <1>7, <2>1, <3>1
  <2>2. CASE q # p
    <3>1. casting'[q] = casting[q] /\ casting[q].busy
      BY <1>3, <2>2
    <3>2. /\ casting[q].todo \subseteq Tabs /\ casting[q].item.from = q
          /\ casting[q].item.n <= sent[q]
          /\ \A x \in casting[q].todo : Before(Visible(x), casting[q].item)
          /\ \A k \in DOMAIN ready : ready[k].tab \in casting[q].todo
                => Precedes(ready[k].item, casting[q].item)
      BY <3>1, InHand DEF LineInv, CastsInLine
    <3>3. Precedes(item, casting[q].item)
      BY <1>2, <2>2, <3>2 DEF Precedes
    <3> QED
      BY <1>4, <1>6, <1>7, <3>1, <3>2, <3>3
  <2> QED
    BY <2>1, <2>2
<1>10. AllCounted'
  <2>1. Counted(item)
    BY <1>2 DEF Counted
  <2>2. \A k \in DOMAIN ready' : Counted(ready'[k].item)
    BY <1>4, <1>7, <2>1 DEF LineInv, AllCounted
  <2> QED
    BY <1>1, <1>6, <2>2 DEF LineInv, AllCounted, Counted
<1> QED
  BY <1>6, <1>8, <1>9, <1>10 DEF LineInv, Ordered

LEMMA BroadcastEndKeepsLine ==
  ASSUME TypeOK, LineInv, NEW p \in Producers, BroadcastEnd(p)
  PROVE  LineInv'
<1>1. /\ UNCHANGED <<queue, ready, sent, received>>
      /\ ~casting'[p].busy
      /\ \A q \in Producers : q # p => casting'[q] = casting[q]
  BY DEF BroadcastEnd, Idle, TypeOK
<1>2. \A x \in Tabs : Visible(x)' = Visible(x)
  BY <1>1 DEF Visible
<1>3. CallsInLine'
  BY <1>1 DEF LineInv, CallsInLine, Visible
<1>4. CastsInLine'
  BY <1>1 DEF LineInv, CastsInLine, Visible
<1>5. AllCounted'
  BY <1>1, <1>2 DEF LineInv, AllCounted, Counted
<1> QED
  BY <1>2, <1>3, <1>4, <1>5 DEF LineInv

LEMMA NextKeepsLine == TypeOK /\ LineInv /\ [Next]_vars => LineInv'
<1> SUFFICES ASSUME TypeOK, LineInv, [Next]_vars
             PROVE  LineInv'
  OBVIOUS
<1>u. ASSUME UNCHANGED <<queue, received, ready, sent, casting>>
      PROVE  LineInv'
  <2>1. \A t \in Tabs : Visible(t)' = Visible(t)
    BY <1>u DEF Visible
  <2> QED
    BY <1>u, <2>1, SameLine
<1>1. CASE CaptureLoop
  BY <1>1, <1>u DEF CaptureLoop
<1>2. CASE RunCallback
  BY <1>2, RunCallbackKeepsLine
<1>3. ASSUME NEW t \in Tabs, Subscribe(t)
      PROVE  LineInv'
  BY <1>3, SubscribeKeepsLine
<1>4. ASSUME NEW t \in Tabs, Unsubscribe(t)
      PROVE  LineInv'
  BY <1>4, <1>u DEF Unsubscribe
<1>5. ASSUME NEW t \in Tabs, Stream(t)
      PROVE  LineInv'
  <2>1. /\ queue[t] \in Seq(Item) /\ received[t] \in Seq(Item) /\ queue[t] # <<>>
        /\ received'[t] = Append(received[t], Head(queue[t]))
        /\ queue'[t] = Tail(queue[t])
        /\ \A x \in Tabs : x # t => received'[x] = received[x] /\ queue'[x] = queue[x]
        /\ UNCHANGED <<ready, sent, casting>>
    BY <1>5 DEF Stream, TypeOK
  <2>2. Visible(t)' = Visible(t)
    BY <2>1, StreamShowsTheNext DEF Visible
  <2>3. \A x \in Tabs : Visible(x)' = Visible(x)
    BY <2>1, <2>2 DEF Visible
  <2> QED
    BY <2>1, <2>3, SameLine
<1>6. ASSUME NEW p \in Producers, NEW critical \in BOOLEAN,
             BroadcastBegin(p, critical)
      PROVE  LineInv'
  BY <1>6, BroadcastBeginKeepsLine
<1>7. ASSUME NEW p \in Producers, NEW t \in Tabs, BroadcastTo(p, t)
      PROVE  LineInv'
  BY <1>7, BroadcastToKeepsLine
<1>8. ASSUME NEW p \in Producers, BroadcastEnd(p)
      PROVE  LineInv'
  BY <1>8, BroadcastEndKeepsLine
<1>9. CASE UNCHANGED vars
  BY <1>9, <1>u DEF vars
<1> QED
  BY <1>1, <1>2, <1>3, <1>4, <1>5, <1>6, <1>7, <1>8, <1>9 DEF Next

\* Every tab sees the events of one thread in the order that thread sent them,
\* none of them twice, however many threads broadcast and queues overflow
\* (broadcast, call_soon_threadsafe, and _enqueue's drain-and-refill).
THEOREM EachInItsOrder == Spec => []ProducerOrder
<1>1. Init => LineInv
  <2> SUFFICES ASSUME Init
               PROVE  LineInv
    OBVIOUS
  <2>1. /\ ready = <<>>
        /\ \A t \in Tabs : Visible(t) = <<>>
        /\ \A p \in Producers : casting[p].busy = FALSE
    BY DEF Init, Visible, Idle
  <2>2. DOMAIN ready = {} /\ \A t \in Tabs : DOMAIN Visible(t) = {}
    BY <2>1
  <2> QED
    BY <2>1, <2>2
    DEF LineInv, CallsInLine, CastsInLine, AllCounted, Ordered
<1>2. LineInv => ProducerOrder
  BY DEF LineInv, ProducerOrder, Ordered, Precedes
<1> QED
  BY <1>1, <1>2, NextKeepsLine, TypeCorrect, PTL DEF Spec
=============================================================================
