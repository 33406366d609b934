---------------------------- MODULE MergeBatchProofs ----------------------------
(***************************************************************************)
(* For any batch of files, any number of writers and any size of the       *)
(* semaphore and of the queue: the counts of the pipeline are exact, its   *)
(* memory is bounded, and it implements BatchPromise, whichever checks     *)
(* raise and whichever fetches and writes fail.                            *)
(***************************************************************************)
EXTENDS MergeBatch, FiniteSetTheorems, SequenceTheorems, TLAPS

USE SizesAssumption, FiniteAssumption, UnreadableAssumption, MarksAssumption

\* Where an item is once its fetch task has put it into the queue.
Working == {"check", "write", "base"}
InPipe(i) == \E k \in 1..Len(pipe) : pipe[k] = i
With(w, i) == writer[w].at \in Working /\ writer[w].item = i

FetchOK ==
  /\ Cardinality(Fetching) <= FetchWorkers
  /\ \A i \in Items : i \notin Put => results[i] = Undecided

\* The queue is bounded and holds an item once, which nobody has decided on.
PipeOK ==
  /\ Len(pipe) <= PipeSize
  /\ \A k \in 1..Len(pipe) : pipe[k] \in Items =>
       /\ pipe[k] \in Put /\ results[pipe[k]] = Undecided
       /\ \A w \in Writers : ~With(w, pipe[k])
       /\ \A l \in 1..Len(pipe) : pipe[l] = pipe[k] => l = k

\* An item is with one writer, and a writer only dies of an unreadable one.
WriterOK ==
  /\ \A w \in Busy : /\ writer[w].item \in Put
                     /\ results[writer[w].item] = Undecided
                     /\ \A x \in Busy : writer[x].item = writer[w].item => x = w
  /\ \A w \in Writers : writer[w].at = "died" => writer[w].item \in Unreadable

\* No item is lost: it waits, or somebody has it, or it killed its writer.
NotLost ==
  \A i \in Put : results[i] = Undecided =>
    \/ InPipe(i)
    \/ \E w \in Writers : With(w, i)
    \/ \E w \in Writers : writer[w].at = "died" /\ writer[w].item = i

\* Behind the join nothing is left to do.
HandlerOK ==
  /\ handler # "fetching" => Put = Items
  /\ handler \in {"stopping", "answered"} =>
       Busy = {} /\ \A k \in 1..Len(pipe) : pipe[k] = Stop

\* Each result is counted once.
DoneCounts == done = Cardinality({i \in Items : results[i] # Undecided})

IInv ==
  /\ TypeOK /\ UnfinishedCounts /\ DoneCounts
  /\ FetchOK /\ PipeOK /\ WriterOK /\ NotLost /\ HandlerOK

-----------------------------------------------------------------------------
\* A set that a finite one covers is no larger.
LEMMA Covered ==
  ASSUME NEW S, IsFiniteSet(S), NEW T, NEW f, \A y \in T : \E x \in S : f[x] = y
  PROVE  IsFiniteSet(T) /\ Cardinality(T) <= Cardinality(S)
<1> DEFINE S0 == {x \in S : f[x] \in T}
           g == [x \in S0 |-> f[x]]
<1>1. /\ IsFiniteSet(S0) /\ Cardinality(S0) \in Nat /\ Cardinality(S) \in Nat
      /\ Cardinality(S0) <= Cardinality(S)
  BY FS_Subset, FS_CardinalityType
<1>2. g \in Surjection(S0, T)
  BY DEF Surjection
<1>3. IsFiniteSet(T) /\ Cardinality(T) <= Cardinality(S0)
  BY <1>1, <1>2, FS_Surjection
<1>4. Cardinality(T) \in Nat
  BY <1>3, FS_CardinalityType
<1> QED
  BY <1>1, <1>3, <1>4

\* What the sets of the module are.
LEMMA Finiteness ==
  /\ IsFiniteSet(Busy) /\ Cardinality(Busy) \in Nat
  /\ IsFiniteSet(Fetching) /\ Cardinality(Fetching) \in Nat
  /\ Cardinality(Writers) \in Nat
<1>1. Busy \subseteq Writers /\ Fetching \subseteq Items
  BY DEF Busy, Fetching
<1> QED
  BY <1>1, FS_Subset, FS_CardinalityType

\* How the number of busy writers changes when one of them moves.
LEMMA BusyMoves ==
  ASSUME TypeOK, NEW w \in Writers, NEW r \in Writer,
         writer' = [writer EXCEPT ![w] = r]
  PROVE  /\ writer' \in [Writers -> Writer] /\ writer'[w] = r
         /\ \A x \in Writers : x # w => writer'[x] = writer[x]
         /\ Cardinality(Busy') \in Nat
         /\ (writer[w].at \in Working) = (r.at \in Working)
              => Busy' = Busy /\ Cardinality(Busy') = Cardinality(Busy)
         /\ writer[w].at \notin Working /\ r.at \in Working
              => Cardinality(Busy') = Cardinality(Busy) + 1
         /\ writer[w].at \in Working /\ r.at \notin Working
              => Cardinality(Busy') = Cardinality(Busy) - 1
<1>1. /\ writer' \in [Writers -> Writer] /\ writer'[w] = r
      /\ \A x \in Writers : x # w => writer'[x] = writer[x]
  BY DEF TypeOK
<1>2. \A x \in Writers : x \in Busy <=> writer[x].at \in Working
  BY DEF Busy, Working
<1>3. \A x \in Writers : x \in Busy' <=> writer'[x].at \in Working
  BY DEF Busy, Working
<1>4. Busy \subseteq Writers /\ Busy' \subseteq Writers
  BY DEF Busy
<1>5. IsFiniteSet(Busy') /\ Cardinality(Busy') \in Nat
  BY <1>4, FS_Subset, FS_CardinalityType
<1>6. CASE (writer[w].at \in Working) = (r.at \in Working)
  <2>1. Busy' = Busy
    BY <1>1, <1>2, <1>3, <1>4, <1>6
  <2> QED
    BY <1>1, <1>5, <1>6, <2>1
<1>7. CASE writer[w].at \notin Working /\ r.at \in Working
  <2>1. Busy' = Busy \cup {w} /\ w \notin Busy
    BY <1>1, <1>2, <1>3, <1>4, <1>7
  <2>2. Cardinality(Busy') = Cardinality(Busy) + 1
    BY <2>1, Finiteness, FS_AddElement
  <2> QED
    BY <1>1, <1>5, <1>7, <2>2
<1>8. CASE writer[w].at \in Working /\ r.at \notin Working
  <2>1. Busy' = Busy \ {w} /\ w \in Busy
    BY <1>1, <1>2, <1>3, <1>4, <1>8
  <2>2. Cardinality(Busy') = Cardinality(Busy) - 1
    BY <2>1, Finiteness, FS_RemoveElement
  <2> QED
    BY <1>1, <1>5, <1>8, <2>2
<1> QED
  BY <1>6, <1>7, <1>8

\* The end of the queue that is read.
LEMMA PipeFront ==
  ASSUME TypeOK, pipe # <<>>
  PROVE  /\ Len(pipe) \in Nat \ {0} /\ Head(pipe) = pipe[1]
         /\ Tail(pipe) \in Seq(Items \cup {Stop})
         /\ Len(Tail(pipe)) = Len(pipe) - 1
         /\ \A k \in 1..(Len(pipe) - 1) : Tail(pipe)[k] = pipe[k + 1]
BY HeadTailProperties, LenProperties DEF TypeOK

\* The end that is written.
LEMMA PipeBack ==
  ASSUME TypeOK, NEW x \in Items \cup {Stop}, Puts(x)
  PROVE  /\ Len(pipe) \in Nat /\ pipe' \in Seq(Items \cup {Stop})
         /\ Len(pipe') = Len(pipe) + 1 /\ Len(pipe') <= PipeSize
         /\ pipe'[Len(pipe) + 1] = x
         /\ \A k \in 1..Len(pipe) : pipe'[k] = pipe[k]
<1>1. pipe' = Append(pipe, x) /\ Len(pipe) < PipeSize /\ Len(pipe) \in Nat
  BY LenProperties DEF Puts, TypeOK
<1>2. /\ Append(pipe, x) \in Seq(Items \cup {Stop})
      /\ Len(Append(pipe, x)) = Len(pipe) + 1
      /\ Append(pipe, x)[Len(pipe) + 1] = x
      /\ \A k \in 1..Len(pipe) : Append(pipe, x)[k] = pipe[k]
  BY AppendProperties DEF TypeOK
<1> QED
  BY <1>1, <1>2

\* One more item is decided.
LEMMA OneMoreDone ==
  ASSUME TypeOK, DoneCounts, NEW i \in Items, NEW v \in Verdicts,
         results[i] = Undecided, results' = [results EXCEPT ![i] = v],
         done' = done + 1
  PROVE  DoneCounts' /\ done' \in 0..Cardinality(Items)
<1> DEFINE Decided == {j \in Items : results[j] # Undecided}
<1>1. IsFiniteSet(Decided)
  BY FS_Subset
<1>2. {j \in Items : results'[j] # Undecided} = Decided \cup {i} /\ i \notin Decided
  BY DEF TypeOK
<1>3. Cardinality(Decided \cup {i}) = Cardinality(Decided) + 1
  BY <1>1, <1>2, FS_AddElement
<1>4. done = Cardinality(Decided) /\ done \in Nat
  BY <1>1, FS_CardinalityType DEF DoneCounts
<1>5. done' = Cardinality({j \in Items : results'[j] # Undecided})
  BY <1>2, <1>3, <1>4
<1>6. Cardinality(Decided \cup {i}) <= Cardinality(Items) /\ Cardinality(Items) \in Nat
  BY FS_Subset, FS_CardinalityType
<1> QED
  BY <1>3, <1>4, <1>5, <1>6 DEF DoneCounts

-----------------------------------------------------------------------------
LEMMA InitIInv == Init => IInv
<1> SUFFICES ASSUME Init PROVE IInv
  OBVIOUS
<1>1. Cardinality(Writers) \in Nat /\ Cardinality(Items) \in Nat
  BY FS_CardinalityType
<1>2. TypeOK
  BY <1>1, EmptySeq DEF Init, TypeOK, FetchSteps, Writer, WriterSteps, Idle
<1>3. Busy = {} /\ Fetching = {} /\ Put = {} /\ Len(pipe) = 0
  BY DEF Init, Busy, Fetching, Put, Idle
<1>4. UnfinishedCounts
  BY <1>3, FS_EmptySet DEF Init, UnfinishedCounts
<1>5. DoneCounts
  <2>1. {i \in Items : results[i] # Undecided} = {}
    BY DEF Init
  <2> QED
    BY <2>1, FS_EmptySet DEF Init, DoneCounts
<1>6. FetchOK /\ PipeOK /\ NotLost /\ HandlerOK
  BY <1>3, FS_EmptySet DEF Init, FetchOK, PipeOK, NotLost, HandlerOK
<1>7. WriterOK
  BY <1>3 DEF Init, WriterOK, Idle
<1> QED
  BY <1>2, <1>4, <1>5, <1>6, <1>7 DEF IInv

\* A fetch that goes on before the queue.
LEMMA FetchingKeepsIInv ==
  ASSUME IInv, NEW i \in Items, StartFetch(i) \/ FetchEnds(i)
  PROVE  IInv'
<1>1. PICK s \in {"fetching", "got", "error"} : fetch' = [fetch EXCEPT ![i] = s]
  BY DEF StartFetch, FetchEnds
<1>2. /\ fetch[i] \in {"waiting", "fetching"}
      /\ UNCHANGED <<pipe, unfinished, writer, results, done, handler, stops>>
  BY DEF StartFetch, FetchEnds
<1>3. TypeOK'
  BY <1>1, <1>2 DEF IInv, TypeOK, FetchSteps
<1>4. Put' = Put
  BY <1>1, <1>2 DEF IInv, TypeOK, Put
<1>5. Cardinality(Fetching') <= FetchWorkers
  <2>1. CASE StartFetch(i)
    <3>1. /\ Fetching' = Fetching \cup {i} /\ i \notin Fetching
          /\ Cardinality(Fetching) < FetchWorkers
      BY <1>1, <2>1 DEF StartFetch, IInv, TypeOK, Fetching
    <3>2. Cardinality(Fetching') = Cardinality(Fetching) + 1
      BY <3>1, Finiteness, FS_AddElement
    <3>3. Cardinality(Fetching) \in Nat /\ FetchWorkers \in Nat
      BY Finiteness, SizesAssumption
    <3> QED
      BY <3>1, <3>2, <3>3
  <2>2. CASE FetchEnds(i)
    <3>1. Fetching' = Fetching
      BY <1>1, <2>2 DEF FetchEnds, IInv, TypeOK, Fetching
    <3> QED
      BY <3>1 DEF IInv, FetchOK
  <2> QED
    BY <2>1, <2>2
<1>6. UnfinishedCounts' /\ DoneCounts'
  BY <1>2 DEF IInv, UnfinishedCounts, DoneCounts, Busy
<1>7. FetchOK'
  BY <1>2, <1>4, <1>5 DEF IInv, FetchOK
<1>8. PipeOK' /\ WriterOK' /\ NotLost' /\ HandlerOK'
  BY <1>2, <1>4 DEF IInv, PipeOK, WriterOK, NotLost, HandlerOK, With, InPipe, Busy
<1> QED
  BY <1>3, <1>6, <1>7, <1>8 DEF IInv

\* A fetched item goes into the queue.
LEMMA PutItemKeepsIInv ==
  ASSUME IInv, NEW i \in Items, PutItem(i)
  PROVE  IInv'
<1>0. TypeOK
  BY DEF IInv
<1>1. /\ Puts(i) /\ fetch[i] \in {"got", "error"}
      /\ UNCHANGED <<writer, results, done, handler, stops>>
  BY DEF PutItem
<1>2. PICK s \in {"put", "put_error"} : fetch' = [fetch EXCEPT ![i] = s]
  BY DEF PutItem
<1>3. /\ Len(pipe) \in Nat /\ pipe' \in Seq(Items \cup {Stop})
      /\ Len(pipe') = Len(pipe) + 1 /\ Len(pipe') <= PipeSize
      /\ pipe'[Len(pipe) + 1] = i
      /\ \A k \in 1..Len(pipe) : pipe'[k] = pipe[k]
  BY <1>0, <1>1, PipeBack
<1>4. i \notin Put /\ Put' = Put \cup {i} /\ results[i] = Undecided
  BY <1>0, <1>1, <1>2 DEF TypeOK, Put, IInv, FetchOK
<1>5. unfinished' = unfinished + 1
  BY <1>1 DEF Puts
<1>6. TypeOK'
  <2>1. fetch' \in [Items -> FetchSteps]
    BY <1>0, <1>2 DEF TypeOK, FetchSteps
  <2>2. unfinished' \in Nat
    BY <1>0, <1>5 DEF TypeOK
  <2> QED
    BY <1>0, <1>1, <1>3, <2>1, <2>2 DEF TypeOK
<1>7. UnfinishedCounts' /\ DoneCounts'
  <2>1. Busy' = Busy
    BY <1>1 DEF Busy
  <2>2. unfinished = Len(pipe) + Cardinality(Busy) /\ Cardinality(Busy) \in Nat
    BY Finiteness DEF IInv, UnfinishedCounts
  <2>3. unfinished' = Len(pipe') + Cardinality(Busy)
    BY <1>3, <1>5, <2>2
  <2> QED
    BY <1>1, <2>1, <2>3 DEF IInv, UnfinishedCounts, DoneCounts
<1>8. FetchOK'
  <2>1. Fetching' \subseteq Fetching
    BY <1>0, <1>1, <1>2 DEF TypeOK, Fetching
  <2>2. Cardinality(Fetching') <= Cardinality(Fetching) /\ Cardinality(Fetching') \in Nat
    BY <2>1, Finiteness, FS_Subset, FS_CardinalityType
  <2>3. Cardinality(Fetching) <= FetchWorkers /\ Cardinality(Fetching) \in Nat
        /\ FetchWorkers \in Nat
    BY Finiteness, SizesAssumption DEF IInv, FetchOK
  <2>4. Cardinality(Fetching') <= FetchWorkers
    BY <2>2, <2>3
  <2> QED
    BY <1>1, <1>4, <2>4 DEF IInv, FetchOK
<1>9. \A k \in 1..Len(pipe) : pipe[k] # i
  BY <1>4 DEF IInv, PipeOK
<1>10. \A w \in Writers : ~With(w, i)
  BY <1>4 DEF IInv, WriterOK, With, Busy, Working
<1>11. \A k \in 1..Len(pipe') :
         \/ k \in 1..Len(pipe) /\ pipe'[k] = pipe[k]
         \/ k = Len(pipe) + 1 /\ pipe'[k] = i
  <2>1. \A k \in 1..Len(pipe') : k \in 1..Len(pipe) \/ k = Len(pipe) + 1
    BY <1>3
  <2> QED
    BY <1>3, <2>1
<1>16. /\ Len(pipe) + 1 \in 1..Len(pipe')
       /\ \A k \in 1..Len(pipe) : k \in 1..Len(pipe')
  BY <1>3
<1>12. PipeOK'
  <2> SUFFICES ASSUME NEW k \in 1..Len(pipe'), pipe'[k] \in Items
               PROVE  /\ pipe'[k] \in Put' /\ results[pipe'[k]] = Undecided
                      /\ \A w \in Writers : ~With(w, pipe'[k])
                      /\ \A l \in 1..Len(pipe') : pipe'[l] = pipe'[k] => l = k
    BY <1>1, <1>3 DEF PipeOK, With
  <2>1. CASE k \in 1..Len(pipe) /\ pipe'[k] = pipe[k]
    <3>1. /\ pipe[k] \in Put /\ results[pipe[k]] = Undecided
          /\ \A w \in Writers : ~With(w, pipe[k])
          /\ \A l \in 1..Len(pipe) : pipe[l] = pipe[k] => l = k
      BY <2>1 DEF IInv, PipeOK
    <3>2. \A l \in 1..Len(pipe') : pipe'[l] = pipe[k] => l = k
      BY <1>9, <1>11, <2>1, <3>1
    <3> QED
      BY <1>4, <2>1, <3>1, <3>2
  <2>2. CASE k = Len(pipe) + 1 /\ pipe'[k] = i
    <3>1. \A l \in 1..Len(pipe') : pipe'[l] = i => l = k
      BY <1>9, <1>11, <2>2
    <3> QED
      BY <1>4, <1>10, <2>2, <3>1
  <2> QED
    BY <1>11, <2>1, <2>2
<1>13. WriterOK'
  BY <1>1, <1>4 DEF IInv, WriterOK, Busy
<1>14. NotLost'
  <2> SUFFICES ASSUME NEW j \in Put', results[j] = Undecided
               PROVE  \/ \E k \in 1..Len(pipe') : pipe'[k] = j
                      \/ \E w \in Writers : With(w, j)
                      \/ \E w \in Writers : writer[w].at = "died" /\ writer[w].item = j
    BY <1>1 DEF NotLost, InPipe, With
  <2>1. CASE j = i
    BY <1>3, <1>16, <2>1
  <2>2. CASE j \in Put
    <3>1. CASE InPipe(j)
      BY <1>3, <1>16, <3>1 DEF InPipe
    <3>2. CASE ~InPipe(j)
      BY <2>2, <3>2 DEF IInv, NotLost
    <3> QED
      BY <3>1, <3>2
  <2> QED
    BY <1>4, <2>1, <2>2
<1>15. HandlerOK'
  <2>1. handler = "fetching"
    BY <1>4 DEF IInv, HandlerOK
  <2> QED
    BY <1>1, <2>1 DEF HandlerOK
<1> QED
  BY <1>6, <1>7, <1>8, <1>12, <1>13, <1>14, <1>15 DEF IInv

-----------------------------------------------------------------------------
\* A writer moves on with the item it has.
LEMMA PassingKeepsIInv ==
  ASSUME IInv, NEW w \in Writers, NEW i \in Items, NEW step \in Working,
         writer[w].at \in Working, writer[w].item = i, Await(w, step, i),
         UNCHANGED <<fetch, pipe, unfinished, results, done, handler, stops>>
  PROVE  IInv'
<1> DEFINE r == [at |-> step, item |-> i]
<1>0. TypeOK
  BY DEF IInv
<1>1. r \in Writer /\ r.at \in Working /\ writer' = [writer EXCEPT ![w] = r]
  BY DEF Writer, WriterSteps, Working, Await
<1>2. /\ writer' \in [Writers -> Writer] /\ writer'[w] = r
      /\ \A x \in Writers : x # w => writer'[x] = writer[x]
      /\ Busy' = Busy
  BY <1>0, <1>1, BusyMoves
<1>3. \A x \in Writers : /\ writer'[x].item = writer[x].item
                         /\ writer'[x].at \in Working <=> writer[x].at \in Working
                         /\ writer'[x].at = "died" <=> writer[x].at = "died"
  BY <1>2 DEF Working
<1>4. Put' = Put /\ Fetching' = Fetching
  BY DEF Put, Fetching
<1>5. TypeOK'
  BY <1>0, <1>2 DEF TypeOK
<1>6. UnfinishedCounts' /\ DoneCounts'
  BY <1>2 DEF IInv, UnfinishedCounts, DoneCounts
<1>7. FetchOK'
  BY <1>4 DEF IInv, FetchOK
<1>8. \A x \in Writers, j \in Items : With(x, j)' <=> With(x, j)
  BY <1>3 DEF With
<1>9. PipeOK'
  BY <1>4, <1>8 DEF IInv, PipeOK
<1>10. WriterOK'
  <2>1. Busy \subseteq Writers
    BY DEF Busy
  <2> QED
    BY <1>2, <1>3, <1>4, <2>1 DEF IInv, WriterOK
<1>11. NotLost'
  <2>1. Put \subseteq Items
    BY DEF Put
  <2> QED
    BY <1>3, <1>4, <1>8, <2>1 DEF IInv, NotLost, InPipe
<1>12. HandlerOK'
  BY <1>2, <1>4 DEF IInv, HandlerOK
<1> QED
  BY <1>5, <1>6, <1>7, <1>9, <1>10, <1>11, <1>12 DEF IInv

\* A writer leaves its item: decided, or undecided behind it when it dies.
LEMMA LeavingKeepsIInv ==
  ASSUME IInv, NEW w \in Writers, NEW i \in Items, NEW r \in Writer,
         writer[w].at \in Working, writer[w].item = i, r.at \notin Working,
         writer' = [writer EXCEPT ![w] = r], TaskDone,
         \/ /\ r.at # "died" /\ done' = done + 1
            /\ \E v \in Verdicts : results' = [results EXCEPT ![i] = v]
         \/ /\ r.at = "died" /\ r.item = i /\ i \in Unreadable
            /\ UNCHANGED <<done, results>>,
         UNCHANGED <<fetch, pipe, handler, stops>>
  PROVE  IInv'
<1>0. TypeOK /\ w \in Busy
  BY DEF IInv, Busy, Working
<1>1. /\ writer' \in [Writers -> Writer] /\ writer'[w] = r
      /\ \A x \in Writers : x # w => writer'[x] = writer[x]
      /\ Cardinality(Busy') = Cardinality(Busy) - 1 /\ Cardinality(Busy') \in Nat
  BY <1>0, BusyMoves
<1>2. Put' = Put /\ Fetching' = Fetching
  BY DEF Put, Fetching
<1>3. /\ i \in Put /\ results[i] = Undecided
      /\ \A x \in Busy : writer[x].item = i => x = w
  BY <1>0 DEF IInv, WriterOK
<1>4. /\ results' \in [Items -> Verdicts \cup {Undecided}]
      /\ \A j \in Items : j # i => results'[j] = results[j]
      /\ results'[i] # Undecided => r.at # "died"
      /\ results'[i] = Undecided => r.at = "died" /\ r.item = i
  BY <1>0, <1>3 DEF TypeOK
<1>5. DoneCounts' /\ done' \in 0..Cardinality(Items)
  BY <1>0, <1>3, OneMoreDone DEF IInv, DoneCounts, TypeOK
<1>6. UnfinishedCounts' /\ unfinished' \in Nat
  <2>1. unfinished = Len(pipe) + Cardinality(Busy) /\ unfinished' = unfinished - 1
    BY DEF IInv, UnfinishedCounts, TaskDone
  <2>2. Len(pipe) \in Nat
    BY <1>0, LenProperties DEF TypeOK
  <2>3. unfinished' = Len(pipe) + Cardinality(Busy')
    BY <1>1, <2>1, <2>2, Finiteness
  <2> QED
    BY <1>1, <2>2, <2>3 DEF UnfinishedCounts
<1>7. TypeOK'
  BY <1>0, <1>1, <1>4, <1>5, <1>6 DEF TypeOK
<1>8. FetchOK'
  BY <1>2, <1>3, <1>4 DEF IInv, FetchOK
<1>9. \A x \in Writers, j \in Items :
        /\ With(x, j)' => With(x, j) /\ x # w
        /\ With(x, j) /\ x # w => With(x, j)'
  BY <1>1 DEF With
<1>10. With(w, i)
  BY DEF With
<1>11. PipeOK'
  <2>1. \A k \in 1..Len(pipe) : pipe[k] # i
    BY <1>10 DEF IInv, PipeOK
  <2> QED
    BY <1>2, <1>4, <1>9, <2>1 DEF IInv, PipeOK
<1>12. \A x \in Busy' : x \in Busy /\ x # w /\ writer'[x] = writer[x]
  BY <1>1 DEF Busy, Working
<1>13. WriterOK'
  <2>1. \A x \in Busy : x # w => writer[x].item # i
    BY <1>3
  <2>2. \A x \in Busy : writer[x].item \in Items
    BY DEF IInv, WriterOK, Put
  <2>3. \A x \in Writers : writer'[x].at = "died" => writer'[x].item \in Unreadable
    BY <1>1 DEF IInv, WriterOK
  <2> QED
    BY <1>2, <1>4, <1>12, <2>1, <2>2, <2>3 DEF IInv, WriterOK
<1>14. NotLost'
  <2> SUFFICES ASSUME NEW j \in Put, results'[j] = Undecided
               PROVE  \/ InPipe(j)
                      \/ \E x \in Writers : With(x, j)'
                      \/ \E x \in Writers : writer'[x].at = "died" /\ writer'[x].item = j
    BY <1>2 DEF NotLost, InPipe
  <2>1. CASE j = i
    BY <1>1, <1>4, <2>1
  <2>2. CASE j # i
    <3>1. j \in Items /\ results[j] = Undecided
      BY <1>4, <2>2 DEF Put
    <3>2. CASE \E x \in Writers : With(x, j)
      BY <1>9, <2>2, <3>1, <3>2 DEF With
    <3>3. CASE \E x \in Writers : writer[x].at = "died" /\ writer[x].item = j
      BY <1>1, <3>3 DEF Working
    <3> QED
      BY <3>1, <3>2, <3>3 DEF IInv, NotLost
  <2> QED
    BY <2>1, <2>2
<1>15. HandlerOK'
  <2>1. handler \notin {"stopping", "answered"}
    BY <1>0 DEF IInv, HandlerOK
  <2> QED
    BY <1>2, <2>1 DEF IInv, HandlerOK
<1> QED
  BY <1>5, <1>6, <1>7, <1>8, <1>11, <1>13, <1>14, <1>15 DEF IInv

-----------------------------------------------------------------------------
\* What is left in the queue when its first place is taken.
LEMMA PipeShift ==
  ASSUME TypeOK, pipe # <<>>, pipe' = Tail(pipe)
  PROVE  /\ pipe' \in Seq(Items \cup {Stop}) /\ Len(pipe') = Len(pipe) - 1
         /\ Len(pipe) \in Nat \ {0} /\ Head(pipe) = pipe[1]
         /\ \A k \in 1..Len(pipe') : /\ k + 1 \in 1..Len(pipe)
                                     /\ k + 1 # 1
                                     /\ pipe'[k] = pipe[k + 1]
         /\ \A l \in 1..Len(pipe) : l # 1 => /\ l - 1 \in 1..Len(pipe')
                                             /\ pipe'[l - 1] = pipe[l]
<1>1. /\ Len(pipe) \in Nat \ {0} /\ Head(pipe) = pipe[1]
      /\ pipe' \in Seq(Items \cup {Stop}) /\ Len(pipe') = Len(pipe) - 1
      /\ \A k \in 1..(Len(pipe) - 1) : pipe'[k] = pipe[k + 1]
  BY PipeFront
<1> DEFINE n == Len(pipe)
<1> HIDE DEF n
<1>2. n \in Nat \ {0} /\ Len(pipe') = n - 1
      /\ \A k \in 1..(n - 1) : pipe'[k] = pipe[k + 1]
  BY <1>1 DEF n
<1>3. \A k \in 1..(n - 1) : /\ k + 1 \in 1..n
                            /\ k + 1 # 1
                            /\ pipe'[k] = pipe[k + 1]
  BY <1>2
<1>4. ASSUME NEW l \in 1..n, l # 1
      PROVE  l - 1 \in 1..(n - 1) /\ pipe'[l - 1] = pipe[l]
  <2>1. l - 1 \in 1..(n - 1) /\ (l - 1) + 1 = l
    BY <1>2, <1>4
  <2> QED
    BY <1>2, <2>1
<1> QED
  BY <1>1, <1>2, <1>3, <1>4 DEF n

\* A writer stops at a sentinel.
LEMMA TakeSentinelKeepsIInv ==
  ASSUME IInv, NEW w \in Writers, TakeSentinel(w)
  PROVE  IInv'
<1> DEFINE r == [at |-> "stopped", item |-> Stop]
<1>0. /\ TypeOK /\ writer[w].at = "get" /\ pipe # <<>> /\ Head(pipe) = Stop
      /\ pipe' = Tail(pipe) /\ writer' = [writer EXCEPT ![w] = r]
      /\ unfinished' = unfinished - 1
      /\ UNCHANGED <<fetch, results, done, handler, stops>>
  BY DEF IInv, TakeSentinel, Await, TaskDone
<1>1. r \in Writer /\ r.at \notin Working
  BY DEF Writer, WriterSteps, Working
<1>f. (writer[w].at \in Working) = (r.at \in Working)
  BY <1>0, <1>1 DEF Working
<1> HIDE DEF r
<1>2. /\ writer' \in [Writers -> Writer] /\ writer'[w] = r
      /\ \A x \in Writers : x # w => writer'[x] = writer[x]
      /\ Busy' = Busy
  BY <1>0, <1>1, <1>f, BusyMoves
<1>3. /\ pipe' \in Seq(Items \cup {Stop}) /\ Len(pipe') = Len(pipe) - 1
      /\ Len(pipe) \in Nat \ {0} /\ Head(pipe) = pipe[1]
      /\ \A k \in 1..Len(pipe') : /\ k + 1 \in 1..Len(pipe)
                                  /\ k + 1 # 1
                                  /\ pipe'[k] = pipe[k + 1]
      /\ \A l \in 1..Len(pipe) : l # 1 => /\ l - 1 \in 1..Len(pipe')
                                          /\ pipe'[l - 1] = pipe[l]
  BY <1>0, PipeShift
<1>4. Put' = Put /\ Fetching' = Fetching /\ Put \subseteq Items
  BY <1>0 DEF Put, Fetching
<1>5. UnfinishedCounts' /\ unfinished' \in Nat
  BY <1>0, <1>2, <1>3, Finiteness DEF IInv, UnfinishedCounts
<1>6. TypeOK' /\ DoneCounts'
  BY <1>0, <1>2, <1>3, <1>5 DEF IInv, TypeOK, DoneCounts
<1>7. FetchOK'
  BY <1>0, <1>4 DEF IInv, FetchOK
<1>8. \A x \in Writers, j \in Items : With(x, j)' <=> With(x, j)
  BY <1>0, <1>1, <1>2 DEF With, Working
<1>9. PipeOK'
  <2>1. Len(pipe') <= PipeSize
    BY <1>3 DEF IInv, PipeOK
  <2>2. ASSUME NEW k \in 1..Len(pipe'), pipe'[k] \in Items
        PROVE  /\ pipe'[k] \in Put /\ results[pipe'[k]] = Undecided
               /\ \A x \in Writers : ~With(x, pipe'[k])
               /\ \A l \in 1..Len(pipe') : pipe'[l] = pipe'[k] => l = k
    <3>1. k + 1 \in 1..Len(pipe) /\ pipe'[k] = pipe[k + 1]
      BY <1>3
    <3>2. /\ pipe'[k] \in Put /\ results[pipe'[k]] = Undecided
          /\ \A x \in Writers : ~With(x, pipe'[k])
          /\ \A l \in 1..Len(pipe) : pipe[l] = pipe'[k] => l = k + 1
      BY <2>2, <3>1 DEF IInv, PipeOK
    <3>3. ASSUME NEW l \in 1..Len(pipe'), pipe'[l] = pipe'[k]
          PROVE  l = k
      <4>1. l + 1 \in 1..Len(pipe) /\ pipe[l + 1] = pipe'[k]
        BY <1>3, <3>3
      <4>2. l + 1 = k + 1
        BY <3>2, <4>1
      <4> QED
        BY <4>2
    <3> QED
      BY <3>2, <3>3
  <2>3. \A k \in 1..Len(pipe') : pipe'[k] \in Items =>
          \A x \in Writers : ~(writer'[x].at \in Working /\ writer'[x].item = pipe'[k])
    BY <1>8, <2>2 DEF With
  <2> QED
    BY <1>0, <1>4, <2>1, <2>2, <2>3 DEF PipeOK, With
<1>10. WriterOK'
  <2>1. Busy \subseteq Writers \ {w}
    BY <1>0 DEF Busy
  <2>2. \A x \in Busy : writer'[x] = writer[x]
    BY <1>2, <2>1
  <2>3. \A x \in Busy : /\ writer'[x].item \in Put
                        /\ results[writer'[x].item] = Undecided
                        /\ \A y \in Busy : writer'[y].item = writer'[x].item => y = x
    BY <2>2 DEF IInv, WriterOK
  <2>4. writer'[w].at # "died"
    BY <1>2 DEF r
  <2>5. \A x \in Writers : writer'[x].at = "died" => writer'[x].item \in Unreadable
    BY <1>2, <2>4 DEF IInv, WriterOK
  <2> QED
    BY <1>0, <1>2, <1>4, <2>3, <2>5 DEF WriterOK
<1>11. NotLost'
  <2> SUFFICES ASSUME NEW j \in Put, results[j] = Undecided
               PROVE  \/ \E k \in 1..Len(pipe') : pipe'[k] = j
                      \/ \E x \in Writers : With(x, j)'
                      \/ \E x \in Writers : writer'[x].at = "died" /\ writer'[x].item = j
    BY <1>0, <1>4 DEF NotLost, InPipe
  <2>1. CASE InPipe(j)
    <3>1. PICK l \in 1..Len(pipe) : pipe[l] = j
      BY <2>1 DEF InPipe
    <3>2. l # 1
      BY <1>0, <1>3, <1>4, <3>1
    <3> QED
      BY <1>3, <3>1, <3>2
  <2>2. CASE \E x \in Writers : With(x, j)
    BY <1>4, <1>8, <2>2
  <2>3. CASE \E x \in Writers : writer[x].at = "died" /\ writer[x].item = j
    BY <1>0, <1>2, <2>3
  <2> QED
    BY <2>1, <2>2, <2>3 DEF IInv, NotLost
<1>12. HandlerOK'
  BY <1>0, <1>2, <1>3, <1>4 DEF IInv, HandlerOK
<1> QED
  BY <1>5, <1>6, <1>7, <1>9, <1>10, <1>11, <1>12 DEF IInv

\* A writer takes a fetched item.
LEMMA TakeItemKeepsIInv ==
  ASSUME IInv, NEW w \in Writers, TakeItem(w)
  PROVE  IInv'
<1>a. PICK i \in Items : i = Head(pipe)
  BY DEF TakeItem
<1> DEFINE r == [at |-> "check", item |-> i]
<1>0. /\ TypeOK /\ writer[w].at = "get" /\ pipe # <<>> /\ Head(pipe) = i
      /\ pipe' = Tail(pipe) /\ writer' = [writer EXCEPT ![w] = r]
      /\ UNCHANGED <<fetch, unfinished, results, done, handler, stops>>
  BY <1>a DEF IInv, TakeItem, Await
<1>1. r \in Writer /\ r.at \in Working /\ r.item = i
  BY DEF Writer, WriterSteps, Working
<1>2. /\ writer' \in [Writers -> Writer] /\ writer'[w] = r
      /\ \A x \in Writers : x # w => writer'[x] = writer[x]
      /\ Cardinality(Busy') = Cardinality(Busy) + 1 /\ Cardinality(Busy') \in Nat
  BY <1>0, <1>1, BusyMoves DEF Working
<1>3. /\ pipe' \in Seq(Items \cup {Stop}) /\ Len(pipe') = Len(pipe) - 1
      /\ Len(pipe) \in Nat \ {0} /\ Head(pipe) = pipe[1]
      /\ \A k \in 1..Len(pipe') : /\ k + 1 \in 1..Len(pipe)
                                  /\ k + 1 # 1
                                  /\ pipe'[k] = pipe[k + 1]
      /\ \A l \in 1..Len(pipe) : l # 1 => /\ l - 1 \in 1..Len(pipe')
                                          /\ pipe'[l - 1] = pipe[l]
  BY <1>0, PipeShift
<1>4. Put' = Put /\ Fetching' = Fetching /\ Put \subseteq Items
  BY <1>0 DEF Put, Fetching
<1>b. /\ i \in Put /\ results[i] = Undecided
      /\ \A x \in Writers : ~With(x, i)
      /\ \A l \in 1..Len(pipe) : pipe[l] = i => l = 1
  BY <1>0, <1>3 DEF IInv, PipeOK
<1>5. UnfinishedCounts'
  BY <1>0, <1>2, <1>3, Finiteness DEF IInv, UnfinishedCounts
<1>6. TypeOK' /\ DoneCounts'
  BY <1>0, <1>2, <1>3 DEF IInv, TypeOK, DoneCounts
<1>7. FetchOK'
  BY <1>0, <1>4 DEF IInv, FetchOK
<1> HIDE DEF r
<1>8. \A x \in Writers, j \in Items :
        With(x, j)' <=> With(x, j) \/ (x = w /\ j = i)
  BY <1>0, <1>1, <1>2 DEF With, Working
<1>9. PipeOK'
  <2>1. Len(pipe') <= PipeSize
    BY <1>3 DEF IInv, PipeOK
  <2>2. ASSUME NEW k \in 1..Len(pipe'), pipe'[k] \in Items
        PROVE  /\ pipe'[k] \in Put /\ results[pipe'[k]] = Undecided
               /\ \A x \in Writers : ~With(x, pipe'[k])
               /\ \A l \in 1..Len(pipe') : pipe'[l] = pipe'[k] => l = k
               /\ pipe'[k] # i
    BY <1>3, <1>b, <2>2 DEF IInv, PipeOK
  <2>3. \A k \in 1..Len(pipe') : pipe'[k] \in Items =>
          \A x \in Writers : ~(writer'[x].at \in Working /\ writer'[x].item = pipe'[k])
    BY <1>8, <2>2 DEF With
  <2> QED
    BY <1>0, <1>4, <2>1, <2>2, <2>3 DEF PipeOK, With
<1>10. WriterOK'
  <2>1. /\ Busy' = Busy \cup {w} /\ w \notin Busy
        /\ \A x \in Busy : x \in Writers /\ writer'[x] = writer[x] /\ writer[x].item # i
    BY <1>0, <1>1, <1>2, <1>b DEF Busy, With, Working
  <2>2. \A x \in Busy' : /\ writer'[x].item \in Put
                         /\ results[writer'[x].item] = Undecided
                         /\ \A y \in Busy' : writer'[y].item = writer'[x].item => y = x
    BY <1>1, <1>2, <1>b, <2>1 DEF IInv, WriterOK
  <2>3. \A x \in Writers : writer'[x].at = "died" => writer'[x].item \in Unreadable
    BY <1>1, <1>2 DEF IInv, WriterOK, Working
  <2> QED
    BY <1>0, <1>4, <2>2, <2>3 DEF WriterOK
<1>11. NotLost'
  <2> SUFFICES ASSUME NEW j \in Put, results[j] = Undecided
               PROVE  \/ \E k \in 1..Len(pipe') : pipe'[k] = j
                      \/ \E x \in Writers : With(x, j)'
                      \/ \E x \in Writers : writer'[x].at = "died" /\ writer'[x].item = j
    BY <1>0, <1>4 DEF NotLost, InPipe
  <2>1. CASE InPipe(j)
    <3>1. PICK l \in 1..Len(pipe) : pipe[l] = j
      BY <2>1 DEF InPipe
    <3>2. CASE l = 1
      BY <1>0, <1>3, <1>8, <3>1, <3>2
    <3>3. CASE l # 1
      BY <1>3, <3>1, <3>3
    <3> QED
      BY <3>2, <3>3
  <2>2. CASE \E x \in Writers : With(x, j)
    BY <1>4, <1>8, <2>2
  <2>3. CASE \E x \in Writers : writer[x].at = "died" /\ writer[x].item = j
    BY <1>0, <1>2, <2>3
  <2> QED
    BY <2>1, <2>2, <2>3 DEF IInv, NotLost
<1>12. HandlerOK'
  <2>1. handler \notin {"stopping", "answered"}
    BY <1>0, <1>3 DEF IInv, HandlerOK
  <2> QED
    BY <1>0, <1>4, <2>1 DEF IInv, HandlerOK
<1> QED
  BY <1>5, <1>6, <1>7, <1>9, <1>10, <1>11, <1>12 DEF IInv

\* A writer gives up an item that was not fetched.
LEMMA TakeErrorKeepsIInv ==
  ASSUME IInv, NEW w \in Writers, TakeError(w)
  PROVE  IInv'
<1>a. PICK i \in Items : i = Head(pipe)
  BY DEF TakeError
<1> DEFINE r == [at |-> "get", item |-> i]
<1>0. /\ TypeOK /\ writer[w].at = "get" /\ pipe # <<>> /\ Head(pipe) = i
      /\ pipe' = Tail(pipe) /\ writer' = [writer EXCEPT ![w] = r]
      /\ results' = [results EXCEPT ![i] = "failed"]
      /\ done' = done + 1 /\ unfinished' = unfinished - 1
      /\ UNCHANGED <<fetch, handler, stops>>
  BY <1>a DEF IInv, TakeError, Conclude, Await, TaskDone
<1>1. r \in Writer /\ r.at = "get"
  BY DEF Writer, WriterSteps
<1> HIDE DEF r
<1>2. /\ writer' \in [Writers -> Writer] /\ writer'[w] = r
      /\ \A x \in Writers : x # w => writer'[x] = writer[x]
      /\ Busy' = Busy
  BY <1>0, <1>1, BusyMoves DEF Working
<1>3. /\ pipe' \in Seq(Items \cup {Stop}) /\ Len(pipe') = Len(pipe) - 1
      /\ Len(pipe) \in Nat \ {0} /\ Head(pipe) = pipe[1]
      /\ \A k \in 1..Len(pipe') : /\ k + 1 \in 1..Len(pipe)
                                  /\ k + 1 # 1
                                  /\ pipe'[k] = pipe[k + 1]
      /\ \A l \in 1..Len(pipe) : l # 1 => /\ l - 1 \in 1..Len(pipe')
                                          /\ pipe'[l - 1] = pipe[l]
  BY <1>0, PipeShift
<1>4. Put' = Put /\ Fetching' = Fetching /\ Put \subseteq Items
  BY <1>0 DEF Put, Fetching
<1>b. /\ i \in Put /\ results[i] = Undecided
      /\ \A x \in Writers : ~With(x, i)
      /\ \A l \in 1..Len(pipe) : pipe[l] = i => l = 1
  BY <1>0, <1>3 DEF IInv, PipeOK
<1>c. "failed" \in Verdicts
  BY DEF Verdicts
<1>d. /\ results' \in [Items -> Verdicts \cup {Undecided}]
      /\ results'[i] # Undecided
      /\ \A j \in Items : j # i => results'[j] = results[j]
  BY <1>0, <1>c DEF TypeOK
<1>e. DoneCounts' /\ done' \in 0..Cardinality(Items)
  BY <1>0, <1>b, <1>c, OneMoreDone DEF IInv
<1>5. UnfinishedCounts' /\ unfinished' \in Nat
  BY <1>0, <1>2, <1>3, Finiteness DEF IInv, UnfinishedCounts
<1>6. TypeOK'
  BY <1>0, <1>2, <1>3, <1>5, <1>d, <1>e DEF TypeOK
<1>7. FetchOK'
  BY <1>4, <1>b, <1>d DEF IInv, FetchOK
<1>8. \A x \in Writers, j \in Items : With(x, j)' <=> With(x, j)
  BY <1>0, <1>1, <1>2 DEF With, Working
<1>9. PipeOK'
  <2>1. Len(pipe') <= PipeSize
    BY <1>3 DEF IInv, PipeOK
  <2>2. ASSUME NEW k \in 1..Len(pipe'), pipe'[k] \in Items
        PROVE  /\ pipe'[k] \in Put /\ results[pipe'[k]] = Undecided
               /\ \A x \in Writers : ~With(x, pipe'[k])
               /\ \A l \in 1..Len(pipe') : pipe'[l] = pipe'[k] => l = k
               /\ pipe'[k] # i
    BY <1>3, <1>b, <2>2 DEF IInv, PipeOK
  <2>3. \A k \in 1..Len(pipe') : pipe'[k] \in Items =>
          /\ results'[pipe'[k]] = Undecided
          /\ \A x \in Writers : ~(writer'[x].at \in Working /\ writer'[x].item = pipe'[k])
    BY <1>8, <1>d, <2>2 DEF With
  <2> QED
    BY <1>4, <2>1, <2>2, <2>3 DEF PipeOK, With
<1>10. WriterOK'
  <2>1. \A x \in Busy : x \in Writers \ {w} /\ writer[x].item # i
    BY <1>0, <1>b DEF Busy, With, Working
  <2>2. \A x \in Busy : writer[x].item \in Items
    BY <1>4 DEF IInv, WriterOK
  <2>3. \A x \in Writers : writer'[x].at = "died" => writer'[x].item \in Unreadable
    BY <1>1, <1>2 DEF IInv, WriterOK
  <2> QED
    BY <1>2, <1>4, <1>d, <2>1, <2>2, <2>3 DEF IInv, WriterOK
<1>11. NotLost'
  <2> SUFFICES ASSUME NEW j \in Put, results'[j] = Undecided
               PROVE  \/ \E k \in 1..Len(pipe') : pipe'[k] = j
                      \/ \E x \in Writers : With(x, j)'
                      \/ \E x \in Writers : writer'[x].at = "died" /\ writer'[x].item = j
    BY <1>4 DEF NotLost, InPipe
  <2>0. j \in Items /\ j # i /\ results[j] = Undecided
    BY <1>4, <1>d
  <2>1. CASE InPipe(j)
    <3>1. PICK l \in 1..Len(pipe) : pipe[l] = j
      BY <2>1 DEF InPipe
    <3>2. l # 1
      BY <1>0, <1>3, <2>0, <3>1
    <3> QED
      BY <1>3, <3>1, <3>2
  <2>2. CASE \E x \in Writers : With(x, j)
    BY <1>8, <2>0, <2>2
  <2>3. CASE \E x \in Writers : writer[x].at = "died" /\ writer[x].item = j
    BY <1>0, <1>2, <2>3
  <2> QED
    BY <2>0, <2>1, <2>2, <2>3 DEF IInv, NotLost
<1>12. HandlerOK'
  <2>1. handler \notin {"stopping", "answered"}
    BY <1>0, <1>3 DEF IInv, HandlerOK
  <2> QED
    BY <1>0, <1>4, <2>1 DEF IInv, HandlerOK
<1> QED
  BY <1>5, <1>6, <1>7, <1>9, <1>10, <1>11, <1>12, <1>e DEF IInv

-----------------------------------------------------------------------------
\* The rest of a writer's steps: it leaves its item or moves on with it.
LEMMA WriterKeepsIInv ==
  ASSUME IInv, NEW w \in Writers, WriterTask(w)
  PROVE  IInv'
<1>1. ASSUME NEW i \in Items, NEW v \in Verdicts, writer[w].at \in Working,
             writer[w].item = i, Conclude(w, i, v),
             UNCHANGED <<fetch, pipe, handler, stops>>
      PROVE  IInv'
  <2> DEFINE r == [at |-> "get", item |-> i]
  <2>1. r \in Writer /\ r.at \notin Working /\ r.at # "died"
    BY DEF Writer, WriterSteps, Working
  <2>2. /\ writer' = [writer EXCEPT ![w] = r] /\ TaskDone /\ done' = done + 1
        /\ \E u \in Verdicts : results' = [results EXCEPT ![i] = u]
    BY <1>1 DEF Conclude, Await
  <2> HIDE DEF r
  <2> QED
    BY <1>1, <2>1, <2>2, LeavingKeepsIInv
<1>2. CASE TakeSentinel(w)
  BY <1>2, TakeSentinelKeepsIInv
<1>3. CASE TakeItem(w)
  BY <1>3, TakeItemKeepsIInv
<1>4. CASE TakeError(w)
  BY <1>4, TakeErrorKeepsIInv
<1>5. ASSUME NEW i \in Items, FindConflict(w, i) \/ WriteFails(w, i) \/ SaveBase(w, i)
      PROVE  IInv'
  <2>1. writer[w].at \in Working /\ writer[w].item = i
    BY <1>5 DEF FindConflict, Checked, WriteFails, SaveBase, Working
  <2>2. \E v \in Verdicts : Conclude(w, i, v)
    BY <1>5 DEF FindConflict, WriteFails, SaveBase, Verdicts
  <2>3. UNCHANGED <<fetch, pipe, handler, stops>>
    BY <1>5 DEF FindConflict, WriteFails, SaveBase
  <2> QED
    BY <1>1, <2>1, <2>2, <2>3
<1>6. ASSUME NEW i \in Items, FindNoConflict(w, i) \/ WriteEnds(w, i)
      PROVE  IInv'
  <2>1. writer[w].at \in Working /\ writer[w].item = i
    BY <1>6 DEF FindNoConflict, Checked, WriteEnds, Working
  <2>2. /\ \E step \in Working : Await(w, step, i)
        /\ UNCHANGED <<fetch, pipe, unfinished, results, done, handler, stops>>
    BY <1>6 DEF FindNoConflict, WriteEnds, Working
  <2> QED
    BY <2>1, <2>2, PassingKeepsIInv
<1>7. ASSUME NEW i \in Items, CheckRaises(w, i)
      PROVE  IInv'
  <2> DEFINE r == [at |-> "died", item |-> i]
  <2>1. r \in Writer /\ r.at \notin Working /\ r.at = "died" /\ r.item = i
    BY DEF Writer, WriterSteps, Working
  <2>2. /\ writer[w].at \in Working /\ writer[w].item = i /\ i \in Unreadable
        /\ writer' = [writer EXCEPT ![w] = r] /\ TaskDone
        /\ UNCHANGED <<fetch, pipe, results, done, handler, stops>>
    BY <1>7 DEF CheckRaises, Await, Working
  <2> HIDE DEF r
  <2> QED
    BY <2>1, <2>2, LeavingKeepsIInv
<1> QED
  BY <1>2, <1>3, <1>4, <1>5, <1>6, <1>7 DEF WriterTask

-----------------------------------------------------------------------------
\* The join ends when the queue and the writers are empty.
LEMMA JoinedIsEmpty ==
  ASSUME TypeOK, UnfinishedCounts, unfinished = 0
  PROVE  Len(pipe) = 0 /\ Busy = {}
<1>1. Len(pipe) \in Nat /\ Cardinality(Busy) \in Nat /\ IsFiniteSet(Busy)
  BY LenProperties, Finiteness DEF TypeOK
<1>2. 0 = Len(pipe) + Cardinality(Busy)
  BY DEF UnfinishedCounts
<1>3. Len(pipe) = 0 /\ Cardinality(Busy) = 0
  BY <1>1, <1>2
<1> QED
  BY <1>1, <1>3, FS_EmptySet

\* The handler puts a sentinel into the queue.
LEMMA PutSentinelKeepsIInv ==
  ASSUME IInv, PutSentinel
  PROVE  IInv'
<1>0. TypeOK /\ Puts(Stop) /\ handler = "stopping" /\ stops < Cardinality(Writers)
      /\ stops' = stops + 1 /\ unfinished' = unfinished + 1
      /\ UNCHANGED <<fetch, writer, results, done, handler>>
  BY DEF IInv, PutSentinel, Puts
<1>1. /\ Len(pipe) \in Nat /\ pipe' \in Seq(Items \cup {Stop})
      /\ Len(pipe') = Len(pipe) + 1 /\ Len(pipe') <= PipeSize
      /\ pipe'[Len(pipe) + 1] = Stop
      /\ \A k \in 1..Len(pipe) : pipe'[k] = pipe[k]
  BY <1>0, PipeBack
<1>2. Busy = {} /\ \A k \in 1..Len(pipe) : pipe[k] = Stop
  BY <1>0 DEF IInv, HandlerOK
<1>3. \A k \in 1..Len(pipe') : k \in 1..Len(pipe) \/ k = Len(pipe) + 1
  BY <1>1
<1>4. \A k \in 1..Len(pipe') : pipe'[k] = Stop
  BY <1>1, <1>2, <1>3
<1>5. Busy' = Busy /\ Put' = Put /\ Fetching' = Fetching
  BY <1>0 DEF Busy, Put, Fetching
<1>6. TypeOK'
  <2>1. unfinished' \in Nat
    BY <1>0 DEF TypeOK
  <2>2. stops' \in 0..Cardinality(Writers)
    BY <1>0, Finiteness DEF TypeOK
  <2> QED
    BY <1>0, <1>1, <2>1, <2>2 DEF TypeOK
<1>7. UnfinishedCounts' /\ DoneCounts'
  <2>1. unfinished = Len(pipe) + Cardinality(Busy) /\ Cardinality(Busy) \in Nat
    BY Finiteness DEF IInv, UnfinishedCounts
  <2>2. unfinished' = Len(pipe') + Cardinality(Busy)
    BY <1>0, <1>1, <2>1
  <2> QED
    BY <1>0, <1>5, <2>2 DEF IInv, UnfinishedCounts, DoneCounts
<1>8. FetchOK'
  BY <1>0, <1>5 DEF IInv, FetchOK
<1>9. PipeOK'
  BY <1>1, <1>4 DEF PipeOK
<1>10. WriterOK'
  BY <1>0, <1>5 DEF IInv, WriterOK
<1>11. NotLost'
  <2>1. \A j \in Put : ~InPipe(j)
    BY <1>2 DEF InPipe, Put
  <2>2. \A x \in Writers, j \in Items : With(x, j)' <=> With(x, j)
    BY <1>0 DEF With
  <2>3. Put \subseteq Items
    BY DEF Put
  <2> QED
    BY <1>0, <1>5, <2>1, <2>2, <2>3 DEF IInv, NotLost
<1>12. HandlerOK'
  BY <1>0, <1>2, <1>4, <1>5 DEF IInv, HandlerOK
<1> QED
  BY <1>6, <1>7, <1>8, <1>9, <1>10, <1>11, <1>12 DEF IInv

LEMMA HandlerKeepsIInv ==
  ASSUME IInv, Handler
  PROVE  IInv'
<1>1. CASE PutSentinel
  BY <1>1, PutSentinelKeepsIInv
<1>2. CASE GatherFetches \/ Join \/ Answer
  <2>1. UNCHANGED <<fetch, pipe, unfinished, writer, results, done, stops>>
    BY <1>2 DEF GatherFetches, Join, Answer
  <2>2. Busy' = Busy /\ Put' = Put /\ Fetching' = Fetching
    BY <2>1 DEF Busy, Put, Fetching
  <2>3. HandlerOK' /\ handler' \in {"fetching", "joining", "stopping", "answered"}
    <3>1. CASE GatherFetches
      BY <2>1, <2>2, <3>1 DEF GatherFetches, HandlerOK
    <3>2. CASE Join
      <4>1. Len(pipe) = 0 /\ Busy = {}
        BY <3>2, JoinedIsEmpty DEF Join, IInv
      <4>2. Put = Items
        BY <3>2 DEF Join, IInv, HandlerOK
      <4> QED
        BY <2>1, <2>2, <3>2, <4>1, <4>2 DEF Join, HandlerOK
    <3>3. CASE Answer
      BY <2>1, <2>2, <3>3 DEF Answer, IInv, HandlerOK
    <3> QED
      BY <1>2, <3>1, <3>2, <3>3
  <2>4. TypeOK'
    BY <2>1, <2>3 DEF IInv, TypeOK
  <2>5. UnfinishedCounts' /\ DoneCounts'
    BY <2>1, <2>2 DEF IInv, UnfinishedCounts, DoneCounts
  <2>6. FetchOK' /\ PipeOK' /\ WriterOK' /\ NotLost'
    BY <2>1, <2>2 DEF IInv, FetchOK, PipeOK, WriterOK, NotLost, With, InPipe
  <2> QED
    BY <2>3, <2>4, <2>5, <2>6 DEF IInv
<1> QED
  BY <1>1, <1>2 DEF Handler

LEMMA NextIInv == IInv /\ [Next]_vars => IInv'
<1> SUFFICES ASSUME IInv, [Next]_vars PROVE IInv'
  OBVIOUS
<1>1. ASSUME NEW i \in Items, FetchTask(i)
      PROVE  IInv'
  BY <1>1, FetchingKeepsIInv, PutItemKeepsIInv DEF FetchTask
<1>2. ASSUME NEW w \in Writers, WriterTask(w)
      PROVE  IInv'
  BY <1>2, WriterKeepsIInv
<1>3. CASE UNCHANGED vars
  <2>1. UNCHANGED <<fetch, pipe, unfinished, writer, results, done, handler, stops>>
    BY <1>3 DEF vars
  <2>2. Busy' = Busy /\ Put' = Put /\ Fetching' = Fetching
    BY <2>1 DEF Busy, Put, Fetching
  <2>3. TypeOK' /\ UnfinishedCounts' /\ DoneCounts' /\ FetchOK' /\ HandlerOK'
    BY <2>1, <2>2 DEF IInv, TypeOK, UnfinishedCounts, DoneCounts, FetchOK, HandlerOK
  <2>4. PipeOK' /\ WriterOK' /\ NotLost'
    BY <2>1, <2>2 DEF IInv, PipeOK, WriterOK, NotLost, With, InPipe
  <2> QED
    BY <2>3, <2>4 DEF IInv
<1> QED
  BY <1>1, <1>2, <1>3, HandlerKeepsIInv DEF Next

LEMMA Inductive == Spec => []IInv
<1> QED
  BY InitIInv, NextIInv, PTL DEF Spec

-----------------------------------------------------------------------------
\* Every variable keeps its type.
THEOREM TypeCorrect == Spec => []TypeOK
<1>1. IInv => TypeOK
  BY DEF IInv
<1> QED
  BY <1>1, Inductive, PTL

\* The queue's count of unfinished tasks is what lies in it and what the
\* writers work on: task_done is called once for each item that was put,
\* whatever ends the iteration, and the join neither returns early nor hangs
\* (_writer's finally, routes_diff.py).
THEOREM CountIsExact == Spec => []UnfinishedCounts
<1>1. IInv => UnfinishedCounts
  BY DEF IInv
<1> QED
  BY <1>1, Inductive, PTL

\* The union of two sets has at most as many members as both.
LEMMA UnionBound ==
  ASSUME NEW S, IsFiniteSet(S), NEW T, IsFiniteSet(T),
         NEW m \in Nat, NEW n \in Nat, Cardinality(S) <= m, Cardinality(T) <= n
  PROVE  IsFiniteSet(S \cup T) /\ Cardinality(S \cup T) <= m + n
<1>1. /\ IsFiniteSet(S \cup T)
      /\ Cardinality(S \cup T) = Cardinality(S) + Cardinality(T) - Cardinality(S \cap T)
  BY FS_Union
<1>2. Cardinality(S) \in Nat /\ Cardinality(T) \in Nat /\ Cardinality(S \cap T) \in Nat
  BY FS_Intersection, FS_CardinalityType
<1> QED
  BY <1>1, <1>2

\* Everything held in memory is with a fetch, in the queue, with a writer or in
\* the entry of a conflict.
LEMMA IInvBoundsMemory == IInv => MemoryIsBounded
<1> SUFFICES ASSUME IInv PROVE MemoryIsBounded
  OBVIOUS
<1> DEFINE Queued == {i \in Items : InPipe(i)}
           Taken == {i \in Items : \E w \in Writers : writer[w].item = i}
<1>1. TypeOK /\ Len(pipe) \in Nat /\ Len(pipe) <= PipeSize
  BY LenProperties DEF IInv, PipeOK, TypeOK
<1>2. IsFiniteSet(Queued) /\ Cardinality(Queued) <= PipeSize
  <2>1. \A i \in Queued : \E k \in 1..Len(pipe) : pipe[k] = i
    BY DEF InPipe
  <2>2. IsFiniteSet(1..Len(pipe)) /\ Cardinality(1..Len(pipe)) = Len(pipe)
    <3>1. /\ 1 \in Int /\ Len(pipe) \in Int
      BY <1>1
    <3>2. /\ IsFiniteSet(1..Len(pipe))
          /\ Cardinality(1..Len(pipe)) = IF 1 > Len(pipe) THEN 0 ELSE Len(pipe) - 1 + 1
      BY <3>1, FS_Interval
    <3> QED
      BY <1>1, <3>2
  <2> HIDE DEF Queued
  <2>3. IsFiniteSet(Queued) /\ Cardinality(Queued) <= Len(pipe)
    BY <2>1, <2>2, Covered
  <2>4. Cardinality(Queued) \in Nat
    BY <2>3, FS_CardinalityType
  <2> QED
    BY <1>1, <2>3, <2>4, SizesAssumption
<1>3. IsFiniteSet(Taken) /\ Cardinality(Taken) <= Cardinality(Writers)
  <2> DEFINE f == [w \in Writers |-> writer[w].item]
  <2>1. \A i \in Taken : \E w \in Writers : f[w] = i
    OBVIOUS
  <2> HIDE DEF Taken, f
  <2> QED
    BY <2>1, FiniteAssumption, Covered
<1>4. Held \subseteq ((Fetching \cup Queued) \cup Taken) \cup Conflicts
  <2> SUFFICES ASSUME NEW i \in Held, i \notin Fetching, i \notin Conflicts
               PROVE  InPipe(i) \/ \E w \in Writers : writer[w].item = i
    BY DEF Held
  <2>1. i \in Put
    BY <1>1 DEF Held, Fetching, Put
  <2>2. CASE results[i] = Undecided
    BY <2>1, <2>2 DEF IInv, NotLost, With
  <2>3. CASE results[i] # Undecided
    BY <2>3 DEF Held, Conflicts
  <2> QED
    BY <2>2, <2>3
<1>5. /\ PipeSize \in Nat /\ FetchWorkers \in Nat /\ Cardinality(Writers) \in Nat
      /\ IsFiniteSet(Fetching) /\ Cardinality(Fetching) <= FetchWorkers
  BY Finiteness, SizesAssumption DEF IInv, FetchOK
<1>6. IsFiniteSet(Conflicts) /\ Cardinality(Conflicts) \in Nat
  <2>1. Conflicts \subseteq Items
    BY DEF Conflicts
  <2> QED
    BY <2>1, FS_Subset, FS_CardinalityType
<1>n. /\ FetchWorkers + PipeSize \in Nat
      /\ (FetchWorkers + PipeSize) + Cardinality(Writers) \in Nat
  BY <1>5
<1> HIDE DEF Queued, Taken
<1> DEFINE A == Fetching \cup Queued
           B == A \cup Taken
           C == B \cup Conflicts
<1>7. IsFiniteSet(A) /\ Cardinality(A) <= FetchWorkers + PipeSize
  BY <1>2, <1>5, UnionBound
<1>8. IsFiniteSet(B) /\ Cardinality(B) <= (FetchWorkers + PipeSize) + Cardinality(Writers)
  <2> HIDE DEF A
  <2> QED
    BY <1>3, <1>5, <1>7, <1>n, UnionBound
<1>9. /\ IsFiniteSet(C)
      /\ Cardinality(C)
           <= ((FetchWorkers + PipeSize) + Cardinality(Writers)) + Cardinality(Conflicts)
  <2> HIDE DEF B
  <2>1. Cardinality(Conflicts) <= Cardinality(Conflicts)
    BY <1>6
  <2> QED
    BY <1>6, <1>8, <1>n, <2>1, UnionBound
<1>10. /\ Cardinality(Held) \in Nat /\ Cardinality(C) \in Nat
       /\ Cardinality(Held) <= Cardinality(C)
  <2>1. Held \subseteq C
    BY <1>4
  <2> HIDE DEF C
  <2> QED
    BY <1>9, <2>1, FS_Subset, FS_CardinalityType
<1> HIDE DEF C
<1> QED
  BY <1>5, <1>6, <1>9, <1>10 DEF MemoryIsBounded

\* A batch of any size holds no more contents in memory than the semaphore,
\* the queue and the writers have places (FETCH_WORKERS, maxsize,
\* WRITE_WORKERS in routes_diff.py) and conflicts wait for the answer.
THEOREM MemoryBounded == Spec => []MemoryIsBounded
<1> QED
  BY IInvBoundsMemory, Inductive, PTL

-----------------------------------------------------------------------------
\* The initial states of the pipeline are initial states of the promise.
LEMMA PromiseInit == Init => Promise!Init
<1> SUFFICES ASSUME Init PROVE Promise!Init
  OBVIOUS
<1>1. [i \in Items \ Unreadable |-> results[i]] = [i \in Items \ Unreadable |-> Undecided]
  BY DEF Init
<1>2. (handler = "answered") = FALSE
  BY DEF Init
<1> QED
  BY <1>1, <1>2 DEF Promise!Init

\* Whoever decides on an item is the first to do so.
LEMMA ConcludeKeepsPromise ==
  ASSUME IInv, NEW w \in Writers, NEW i \in Items, NEW v \in Verdicts,
         results[i] = Undecided, Conclude(w, i, v), handler' = handler
  PROVE  [Promise!Next]_(Promise!promise)
<1> DEFINE V == [j \in Items \ Unreadable |-> results[j]]
           W == [j \in Items \ Unreadable |-> results'[j]]
<1>1. results' = [results EXCEPT ![i] = v] /\ results \in [Items -> Verdicts \cup {Undecided}]
  BY DEF Conclude, IInv, TypeOK
<1>2. (handler' = "answered") = (handler = "answered")
  OBVIOUS
<1>3. CASE i \in Unreadable
  <2>1. W = V
    BY <1>1, <1>3
  <2> QED
    BY <1>2, <2>1 DEF Promise!promise
<1>4. CASE i \notin Unreadable
  <2>1. W = [V EXCEPT ![i] = v] /\ V[i] = Undecided /\ i \in Items \ Unreadable
    BY <1>1, <1>4
  <2>2. Promise!Decide(i)
    BY <1>2, <2>1 DEF Promise!Decide
  <2> QED
    BY <2>1, <2>2 DEF Promise!Next
<1> QED
  BY <1>3, <1>4

\* The answer comes when every readable file is decided.
LEMMA AnswerKeepsPromise ==
  ASSUME IInv, Answer
  PROVE  Promise!Next
<1>1. /\ handler = "stopping" /\ handler' = "answered" /\ results' = results
  BY DEF Answer
<1>2. Put = Items /\ Busy = {} /\ \A k \in 1..Len(pipe) : pipe[k] = Stop
  BY <1>1 DEF IInv, HandlerOK
<1>3. \A i \in Items \ Unreadable : results[i] # Undecided
  <2> SUFFICES ASSUME NEW i \in Items \ Unreadable, results[i] = Undecided
               PROVE  FALSE
    OBVIOUS
  <2>1. ~InPipe(i)
    BY <1>2 DEF InPipe
  <2>2. \A w \in Writers : ~With(w, i)
    BY <1>2 DEF With, Busy, Working
  <2>3. \A w \in Writers : ~(writer[w].at = "died" /\ writer[w].item = i)
    BY DEF IInv, WriterOK
  <2> QED
    BY <1>2, <2>1, <2>2, <2>3 DEF IInv, NotLost
<1>4. Promise!Answer
  BY <1>1, <1>3 DEF Promise!Answer
<1> QED
  BY <1>4 DEF Promise!Next

LEMMA PromiseNext == IInv /\ [Next]_vars => [Promise!Next]_(Promise!promise)
<1> SUFFICES ASSUME IInv, [Next]_vars PROVE [Promise!Next]_(Promise!promise)
  OBVIOUS
<1>1. ASSUME results' = results, (handler' = "answered") = (handler = "answered")
      PROVE  UNCHANGED Promise!promise
  BY <1>1 DEF Promise!promise
<1>2. CASE UNCHANGED vars
  BY <1>1, <1>2 DEF vars
<1>3. CASE GatherFetches \/ Join \/ PutSentinel
  BY <1>1, <1>3 DEF GatherFetches, Join, PutSentinel
<1>4. CASE Answer
  BY <1>4, AnswerKeepsPromise
<1>5. ASSUME NEW i \in Items, FetchTask(i)
      PROVE  UNCHANGED Promise!promise
  BY <1>1, <1>5 DEF FetchTask, StartFetch, FetchEnds, PutItem
<1>6. ASSUME NEW w \in Writers, WriterTask(w)
      PROVE  [Promise!Next]_(Promise!promise)
  <2>1. CASE TakeSentinel(w) \/ TakeItem(w)
    BY <1>1, <2>1 DEF TakeSentinel, TakeItem
  <2>2. CASE TakeError(w)
    <3>1. pipe # <<>> /\ Head(pipe) \in Items /\ handler' = handler
          /\ Conclude(w, Head(pipe), "failed") /\ "failed" \in Verdicts
      BY <2>2 DEF TakeError, Verdicts
    <3>2. Len(pipe) \in Nat \ {0} /\ Head(pipe) = pipe[1]
      BY <3>1, PipeFront DEF IInv
    <3>3. 1 \in 1..Len(pipe)
      BY <3>2
    <3>4. results[Head(pipe)] = Undecided
      BY <3>1, <3>2, <3>3 DEF IInv, PipeOK
    <3> QED
      BY <3>1, <3>4, ConcludeKeepsPromise
  <2>3. ASSUME NEW i \in Items, FindConflict(w, i) \/ WriteFails(w, i) \/ SaveBase(w, i)
        PROVE  [Promise!Next]_(Promise!promise)
    <3>1. w \in Busy /\ writer[w].item = i /\ handler' = handler
      BY <2>3 DEF FindConflict, Checked, WriteFails, SaveBase, Busy
    <3>2. \E v \in Verdicts : Conclude(w, i, v)
      BY <2>3 DEF FindConflict, WriteFails, SaveBase, Verdicts
    <3>3. results[i] = Undecided
      BY <3>1 DEF IInv, WriterOK
    <3> QED
      BY <3>1, <3>2, <3>3, ConcludeKeepsPromise
  <2>4. ASSUME NEW i \in Items, FindNoConflict(w, i) \/ WriteEnds(w, i) \/ CheckRaises(w, i)
        PROVE  [Promise!Next]_(Promise!promise)
    BY <1>1, <2>4 DEF FindNoConflict, WriteEnds, CheckRaises
  <2> QED
    BY <1>6, <2>1, <2>2, <2>3, <2>4 DEF WriterTask
<1> QED
  BY <1>2, <1>3, <1>4, <1>5, <1>6 DEF Next, Handler

\* The pipeline implements what the endpoint promises for every file whose
\* conflict check does not raise: it is decided once and for good, and the
\* answer comes after all of them, however many writers died of the others
\* (api_diff_merge_batch, routes_diff.py).
THEOREM KeepsThePromise == Spec => KeepsPromise
<1> QED
  BY PromiseInit, PromiseNext, Inductive, PTL DEF Spec, KeepsPromise, Promise!Spec
=============================================================================
