--------------------------- MODULE RemoteScanProofs ---------------------------
(***************************************************************************)
(* For any tree, any number of threads and of repositories, and whatever   *)
(* listings fail: a scan that has ended has left out no directory it had   *)
(* heard of, the last progress it reports is 100 %, and a fast scan never  *)
(* mixes repositories.                                                     *)
(***************************************************************************)
EXTENDS RemoteScan, FiniteSetTheorems, TLAPS

USE RootAssumption, KidsAssumption, FiniteAssumption, FailingAssumption,
    ModesAssumption,
    BoundsAssumption, NoneAssumption

FlyingSteps == {"list", "files", "enqueue"}
HoldingSteps == FlyingSteps \cup {"got"}
Flying == {w \in Workers : worker[w].at \in FlyingSteps}

CountOK == inflight = Cardinality(Flying)

\* A thread past the queue has a directory, and its file before it goes on to the
\* subdirectories; without a scan there is none.
HoldOK ==
  \A w \in Workers :
    /\ worker[w].at \in HoldingSteps => worker[w].dir \in Dirs
    /\ worker[w].at = "enqueue" => result[worker[w].dir] # None
RestOK == target = None => \A w \in Workers : worker[w].at = "gone"

\* The last thread to leave has seen the queue empty, and nobody fills it then.
AwakeOK == queue # {} => \E w \in Workers : worker[w].at # "gone"

\* Where a directory the scan has heard of can be.
Tracked(d) ==
  \/ d \in queue
  \/ \E w \in Workers : worker[w].at \in HoldingSteps /\ worker[w].dir = d
  \/ result[d] # None
  \/ d \in failed

Announced(d) ==
  \/ \E w \in Workers : worker[w].at = "enqueue" /\ worker[w].dir = d
  \/ \A k \in Kids[d] : Tracked(k)

TrackOK ==
  scans > 0 => /\ Tracked(Root)
               /\ \A d \in Dirs : result[d] # None => Announced(d)

\* A thread that has something to collect listed it for the scan's own snapshot.
MixOK ==
  /\ FastTreesDoNotMix
  /\ target # None => snapshot \in {None, target}
  /\ \A w \in Workers : worker[w].at = "files" => snapshot # None

IInv ==
  /\ TypeOK /\ CountOK /\ HoldOK /\ RestOK /\ AwakeOK /\ TrackOK
  /\ MixOK

-----------------------------------------------------------------------------
\* The threads in flight are finitely many.
LEMMA FlyingFinite == IsFiniteSet(Flying) /\ Cardinality(Flying) \in Nat
<1>1. Flying \subseteq Workers BY DEF Flying
<1> QED BY <1>1, FS_Subset, FS_CardinalityType

\* A directory names finitely many others.
LEMMA KidsFinite ==
  ASSUME NEW d \in Dirs
  PROVE  Kids[d] \subseteq Dirs /\ Cardinality(Kids[d]) \in Nat
<1>1. Kids[d] \subseteq Dirs OBVIOUS
<1> QED BY <1>1, FS_Subset, FS_CardinalityType

\* How the count changes when a single thread moves.
LEMMA CountMoves ==
  ASSUME TypeOK, CountOK, NEW w \in Workers, NEW step \in Steps,
         NEW d \in Dirs \cup {None}, Go(w, step, d)
  PROVE  /\ Cardinality(Flying') \in Nat
         /\ worker[w].at \in FlyingSteps /\ step \in FlyingSteps
              => Cardinality(Flying') = inflight
         /\ worker[w].at \notin FlyingSteps /\ step \notin FlyingSteps
              => Cardinality(Flying') = inflight
         /\ worker[w].at \notin FlyingSteps /\ step \in FlyingSteps
              => Cardinality(Flying') = inflight + 1
         /\ worker[w].at \in FlyingSteps /\ step \notin FlyingSteps
              => Cardinality(Flying') = inflight - 1
<1>1. /\ worker'[w].at = step
      /\ \A x \in Workers : x # w => worker'[x] = worker[x]
  BY DEF Go, TypeOK
<1>2. CASE worker[w].at \in FlyingSteps /\ step \in FlyingSteps
  <2>1. Flying' = Flying BY <1>1, <1>2 DEF Flying
  <2> QED BY <2>1, <1>2, FlyingFinite DEF CountOK
<1>3. CASE worker[w].at \notin FlyingSteps /\ step \notin FlyingSteps
  <2>1. Flying' = Flying BY <1>1, <1>3 DEF Flying
  <2> QED BY <2>1, <1>3, FlyingFinite DEF CountOK
<1>4. CASE worker[w].at \notin FlyingSteps /\ step \in FlyingSteps
  <2>1. Flying' = Flying \cup {w} /\ w \notin Flying BY <1>1, <1>4 DEF Flying
  <2>2. Cardinality(Flying') = Cardinality(Flying) + 1
    BY <2>1, FlyingFinite, FS_AddElement
  <2> QED BY <2>2, <1>4, FlyingFinite DEF CountOK
<1>5. CASE worker[w].at \in FlyingSteps /\ step \notin FlyingSteps
  <2>1. Flying' = Flying \ {w} /\ w \in Flying BY <1>1, <1>5 DEF Flying
  <2>2. /\ Cardinality(Flying') = Cardinality(Flying) - 1
        /\ IsFiniteSet(Flying')
    BY <2>1, FlyingFinite, FS_RemoveElement
  <2> QED BY <2>2, <1>5, FlyingFinite, FS_CardinalityType DEF CountOK
<1> QED BY <1>2, <1>3, <1>4, <1>5

\* A scan that has ended has nothing in the queue and nobody at work.
LEMMA CompleteFromIInv == IInv => ScanComplete
<1> SUFFICES ASSUME IInv, scans > 0, target = None,
                    NEW d \in Reached
             PROVE  d \in Collected \cup failed
  BY DEF ScanComplete
<1>1. \A w \in Workers : worker[w].at = "gone" BY DEF IInv, RestOK
<1>2. queue = {} BY <1>1 DEF IInv, AwakeOK
<1>3. \A x \in Dirs : Tracked(x) => x \in Collected \cup failed
  BY <1>1, <1>2 DEF Tracked, HoldingSteps, FlyingSteps, Collected
<1>4. CASE d = Root BY <1>3, <1>4 DEF IInv, TrackOK
<1>5. CASE \E c \in Collected : d \in Kids[c]
  <2>1. PICK c \in Collected : d \in Kids[c] BY <1>5
  <2>2. c \in Dirs /\ result[c] # None BY <2>1 DEF Collected
  <2>3. Tracked(d) BY <1>1, <2>1, <2>2 DEF IInv, TrackOK, Announced
  <2>4. d \in Dirs BY <2>1, <2>2, KidsFinite
  <2> QED BY <2>3, <2>4, <1>3
<1> QED BY <1>4, <1>5 DEF Reached

-----------------------------------------------------------------------------
\* IInv holds before any scan.
LEMMA InitIInv == Init => IInv
<1> SUFFICES ASSUME Init PROVE IInv
  OBVIOUS
<1> USE DEF Init, Resting
<1>1. TypeOK
  <2>1. fast_hash \in BOOLEAN OBVIOUS
  <2>2. cache \in [Keys -> Tree \cup {None}] OBVIOUS
  <2> QED BY <2>1, <2>2 DEF TypeOK, Steps, Tree, NoTree
<1>2. CountOK
  <2>1. Flying = {} BY DEF Flying, FlyingSteps
  <2> QED BY <2>1, FS_EmptySet DEF CountOK
<1>3. HoldOK /\ RestOK /\ AwakeOK /\ TrackOK
  BY DEF HoldOK, RestOK, AwakeOK, TrackOK, HoldingSteps, FlyingSteps
<1>4. MixOK BY DEF MixOK, FastTreesDoNotMix, OfOne, NoTree, Keys
<1> QED BY <1>1, <1>2, <1>3, <1>4 DEF IInv

\* Another tab selects a repository.
LEMMA SetRepoKeepsIInv ==
  ASSUME IInv, NEW r \in Repos, SetRepo(r)
  PROVE  IInv'
<1> USE DEF SetRepo, IInv, counters, request
<1>1. TypeOK' BY DEF TypeOK
<1>2. CountOK' BY DEF CountOK, Flying
<1>3. HoldOK' /\ RestOK' /\ AwakeOK' BY DEF HoldOK, RestOK, AwakeOK
<1>4. TrackOK' BY DEF TrackOK, Tracked, Announced
<1>5. MixOK' BY DEF MixOK, FastTreesDoNotMix, OfOne
<1> QED BY <1>1, <1>2, <1>3, <1>4, <1>5

\* A cached tree is dropped.
LEMMA CacheExpiresKeepsIInv ==
  ASSUME IInv, NEW k \in Keys, CacheExpires(k)
  PROVE  IInv'
<1> USE DEF CacheExpires, IInv, counters, request
<1>1. TypeOK' BY DEF TypeOK
<1>2. CountOK' BY DEF CountOK, Flying
<1>3. HoldOK' /\ RestOK' /\ AwakeOK' BY DEF HoldOK, RestOK, AwakeOK
<1>4. TrackOK' BY DEF TrackOK, Tracked, Announced
<1>5. MixOK' BY DEF MixOK, FastTreesDoNotMix, OfOne, TypeOK, Keys
<1> QED BY <1>1, <1>2, <1>3, <1>4, <1>5

\* A scan starts with its root in the queue.
LEMMA StartScanKeepsIInv ==
  ASSUME IInv, NEW r \in Repos, NEW fast \in FastModes, NEW cached \in CacheModes,
         StartScan(r, fast, cached)
  PROVE  IInv'
<1> USE DEF StartScan, IInv
<1>1. TypeOK' BY DEF TypeOK, Steps, Tree, NoTree
<1>2. CountOK'
  <2>1. Flying' = {} BY DEF Flying, FlyingSteps
  <2> QED BY <2>1, FS_EmptySet DEF CountOK
<1>3. HoldOK' BY DEF HoldOK, HoldingSteps, FlyingSteps
<1>4. RestOK' BY DEF RestOK
<1>5. AwakeOK'
  <2>1. PICK w \in Workers : TRUE OBVIOUS
  <2> QED BY <2>1 DEF AwakeOK
<1>6. TrackOK' BY DEF TrackOK, Tracked, NoTree
<1>7. MixOK' BY DEF MixOK, FastTreesDoNotMix, OfOne, NoTree
<1> QED BY <1>1, <1>2, <1>3, <1>4, <1>5, <1>6, <1>7

\* A scan ends, and its tree goes into the cache.
LEMMA EndScanKeepsIInv ==
  ASSUME IInv, EndScan
  PROVE  IInv'
<1> USE DEF EndScan, AllGone, Keep, Over, IInv, counters
<1>1. TypeOK' BY DEF TypeOK
<1>2. CountOK' BY DEF CountOK, Flying
<1>3. HoldOK' /\ RestOK' /\ AwakeOK' BY DEF HoldOK, RestOK, AwakeOK
<1>4. TrackOK' BY DEF TrackOK, Tracked, Announced
<1>5. MixOK' BY DEF MixOK, FastTreesDoNotMix, OfOne, TypeOK, Keys
<1> QED BY <1>1, <1>2, <1>3, <1>4, <1>5

-----------------------------------------------------------------------------
\* What every step of a thread changes and leaves alone among the threads.
LEMMA OneMoves ==
  ASSUME TypeOK, NEW w \in Workers, NEW step \in Steps,
         NEW d \in Dirs \cup {None}, Go(w, step, d)
  PROVE  /\ worker' \in [Workers -> [at: Steps, dir: Dirs \cup {None}]]
         /\ worker'[w].at = step /\ worker'[w].dir = d
         /\ \A x \in Workers : x # w => worker'[x] = worker[x]
BY DEF Go, TypeOK

\* A thread at the queue looks again, waits, or leaves an empty queue.
LEMMA WaitingKeepsIInv ==
  ASSUME IInv, NEW w \in Workers, NEW step \in {"get", "empty", "idle", "gone"},
         worker[w].at \in {"get", "empty", "idle"},
         Go(w, step, None), step = "gone" => queue = {},
         UNCHANGED <<selected, request, queue, counters, result, cache, failed,
                     scans, switches>>
  PROVE  IInv'
<1> USE DEF IInv, counters, request
<1>1. step \in Steps BY DEF Steps
<1>2. /\ worker' \in [Workers -> [at: Steps, dir: Dirs \cup {None}]]
      /\ worker'[w].at = step
      /\ \A x \in Workers : x # w => worker'[x] = worker[x]
  BY <1>1, OneMoves
<1>3. TypeOK' BY <1>2 DEF TypeOK
<1>4. CountOK'
  <2>1. Cardinality(Flying') = inflight
    BY <1>1, CountMoves DEF FlyingSteps
  <2> QED BY <2>1 DEF CountOK
<1>5. HoldOK' BY <1>2 DEF HoldOK, HoldingSteps, FlyingSteps
<1>6. RestOK' BY DEF RestOK
<1>7. AwakeOK' BY <1>2 DEF AwakeOK
<1>8. TrackOK'
  <2>1. \A x \in Dirs : Tracked(x) => Tracked(x)'
    BY <1>2 DEF Tracked, HoldingSteps, FlyingSteps
  <2>2. \A x \in Dirs : Announced(x) => Announced(x)'
    BY <1>2, <2>1, KidsFinite DEF Announced
  <2> QED BY <2>1, <2>2 DEF TrackOK
<1>9. MixOK' BY <1>2 DEF MixOK, FastTreesDoNotMix, OfOne
<1> QED BY <1>3, <1>4, <1>5, <1>6, <1>7, <1>8, <1>9

\* A thread takes a directory.
LEMMA GetKeepsIInv ==
  ASSUME IInv, NEW w \in Workers, Get(w)
  PROVE  IInv'
<1> USE DEF IInv, counters, request
<1>1. PICK d \in queue : Go(w, "got", d) /\ queue' = queue \ {d} BY DEF Get
<1>2. UNCHANGED <<selected, request, counters, result, cache, failed, scans,
                  switches>> /\ worker[w].at = "get"
  BY DEF Get
<1>3. d \in Dirs /\ "got" \in Steps BY DEF TypeOK, Steps
<1>4. /\ worker' \in [Workers -> [at: Steps, dir: Dirs \cup {None}]]
      /\ worker'[w].at = "got" /\ worker'[w].dir = d
      /\ \A x \in Workers : x # w => worker'[x] = worker[x]
  BY <1>1, <1>3, OneMoves
<1>5. TypeOK' BY <1>1, <1>2, <1>4 DEF TypeOK
<1>6. CountOK'
  <2>1. Cardinality(Flying') = inflight
    BY <1>1, <1>2, <1>3, CountMoves DEF FlyingSteps
  <2> QED BY <2>1, <1>2 DEF CountOK
<1>7. HoldOK' BY <1>2, <1>3, <1>4 DEF HoldOK, HoldingSteps, FlyingSteps
<1>8. RestOK' /\ AwakeOK' BY <1>1, <1>2, <1>4 DEF RestOK, AwakeOK
<1>9. TrackOK'
  <2>1. \A x \in Dirs : Tracked(x) => Tracked(x)'
    <3> SUFFICES ASSUME NEW x \in Dirs, Tracked(x) PROVE Tracked(x)'
      OBVIOUS
    <3>1. CASE x \in queue
      <4>1. CASE x = d BY <4>1, <1>4 DEF Tracked, HoldingSteps, FlyingSteps
      <4>2. CASE x # d BY <3>1, <4>2, <1>1 DEF Tracked
      <4> QED BY <4>1, <4>2
    <3>2. CASE \E y \in Workers : worker[y].at \in HoldingSteps /\ worker[y].dir = x
      <4>1. PICK y \in Workers : worker[y].at \in HoldingSteps /\ worker[y].dir = x
        BY <3>2
      <4>2. y # w BY <4>1, <1>2 DEF HoldingSteps, FlyingSteps
      <4> QED BY <4>1, <4>2, <1>4 DEF Tracked
    <3>3. CASE result[x] # None \/ x \in failed BY <3>3, <1>2 DEF Tracked
    <3> QED BY <3>1, <3>2, <3>3 DEF Tracked
  <2>2. \A x \in Dirs : Announced(x) => Announced(x)'
    BY <1>2, <1>4, <2>1, KidsFinite DEF Announced
  <2> QED BY <1>2, <2>1, <2>2 DEF TrackOK
<1>10. MixOK' BY <1>2, <1>4 DEF MixOK, FastTreesDoNotMix, OfOne
<1> QED BY <1>5, <1>6, <1>7, <1>8, <1>9, <1>10

\* It is counted as in flight, and then it lists the directory.
LEMMA EnterKeepsIInv ==
  ASSUME IInv, NEW w \in Workers, Enter(w)
  PROVE  IInv'
<1> USE DEF Enter, IInv, request
<1>1. worker[w].dir \in Dirs BY DEF HoldOK, HoldingSteps
<1>2. "list" \in Steps BY DEF Steps
<1>3. /\ worker' \in [Workers -> [at: Steps, dir: Dirs \cup {None}]]
      /\ worker'[w].at = "list" /\ worker'[w].dir = worker[w].dir
      /\ \A x \in Workers : x # w => worker'[x] = worker[x]
  BY <1>1, <1>2, OneMoves
<1>4. TypeOK' BY <1>3 DEF TypeOK
<1>5. CountOK'
  <2>1. Cardinality(Flying') = inflight + 1
    BY <1>1, <1>2, CountMoves DEF FlyingSteps
  <2> QED BY <2>1 DEF CountOK
<1>6. HoldOK' BY <1>1, <1>3 DEF HoldOK
<1>7. RestOK' /\ AwakeOK' BY <1>3 DEF RestOK, AwakeOK
<1>8. TrackOK'
  <2>1. \A x \in Dirs : Tracked(x) => Tracked(x)'
    BY <1>3 DEF Tracked, HoldingSteps, FlyingSteps
  <2>2. \A x \in Dirs : Announced(x) => Announced(x)'
    BY <1>3, <2>1, KidsFinite DEF Announced
  <2> QED BY <2>1, <2>2 DEF TrackOK
<1>9. MixOK' BY <1>3 DEF MixOK, FastTreesDoNotMix, OfOne
<1> QED BY <1>4, <1>5, <1>6, <1>7, <1>8, <1>9

LEMMA ListKeepsIInv ==
  ASSUME IInv, NEW w \in Workers, List(w)
  PROVE  IInv'
<1> USE DEF List, IInv, counters, request
<1>1. worker[w].dir \in Dirs BY DEF HoldOK, HoldingSteps, FlyingSteps
<1>2. "files" \in Steps BY DEF Steps
<1>3. /\ worker' \in [Workers -> [at: Steps, dir: Dirs \cup {None}]]
      /\ worker'[w].at = "files" /\ worker'[w].dir = worker[w].dir
      /\ \A x \in Workers : x # w => worker'[x] = worker[x]
  BY <1>1, <1>2, OneMoves
<1>4. TypeOK' BY <1>3 DEF TypeOK
<1>5. CountOK'
  <2>1. Cardinality(Flying') = inflight
    BY <1>1, <1>2, CountMoves DEF FlyingSteps
  <2> QED BY <2>1 DEF CountOK
<1>6. HoldOK' BY <1>1, <1>3 DEF HoldOK
<1>7. RestOK' /\ AwakeOK' BY <1>3 DEF RestOK, AwakeOK
<1>8. TrackOK'
  <2>1. \A x \in Dirs : Tracked(x) => Tracked(x)'
    BY <1>3 DEF Tracked, HoldingSteps, FlyingSteps
  <2>2. \A x \in Dirs : Announced(x) => Announced(x)'
    BY <1>3, <2>1, KidsFinite DEF Announced
  <2> QED BY <2>1, <2>2 DEF TrackOK
<1>9. MixOK' BY DEF MixOK, FastTreesDoNotMix, OfOne
<1> QED BY <1>4, <1>5, <1>6, <1>7, <1>8, <1>9

\* A listing fails: the directory is given up.
LEMMA ListFailsKeepsIInv ==
  ASSUME IInv, NEW w \in Workers, ListFails(w)
  PROVE  IInv'
<1> USE DEF ListFails, Unlisted, IInv, request
<1>1. worker[w].dir \in Dirs BY DEF HoldOK, HoldingSteps, FlyingSteps
<1>2. "get" \in Steps BY DEF Steps
<1>3. /\ worker' \in [Workers -> [at: Steps, dir: Dirs \cup {None}]]
      /\ worker'[w].at = "get"
      /\ \A x \in Workers : x # w => worker'[x] = worker[x]
  BY <1>2, OneMoves
<1>4. Cardinality(Flying') = inflight - 1 /\ Cardinality(Flying') \in Nat
  BY <1>2, CountMoves DEF FlyingSteps
<1>5. TypeOK' BY <1>1, <1>3, <1>4 DEF TypeOK
<1>6. CountOK' BY <1>4 DEF CountOK
<1>7. HoldOK' BY <1>3 DEF HoldOK, HoldingSteps, FlyingSteps
<1>8. RestOK' /\ AwakeOK' BY <1>3 DEF RestOK, AwakeOK
<1>9. TrackOK'
  <2>1. \A x \in Dirs : Tracked(x) => Tracked(x)'
    BY <1>3 DEF Tracked, HoldingSteps, FlyingSteps
  <2>2. \A x \in Dirs : Announced(x) => Announced(x)'
    BY <1>3, <2>1, KidsFinite DEF Announced
  <2> QED BY <2>1, <2>2 DEF TrackOK
<1>10. MixOK' BY <1>3 DEF MixOK, FastTreesDoNotMix, OfOne
<1> QED BY <1>5, <1>6, <1>7, <1>8, <1>9, <1>10

\* A directory's file is collected, before its subdirectories are announced.
LEMMA CollectFilesKeepsIInv ==
  ASSUME IInv, NEW w \in Workers, CollectFiles(w)
  PROVE  IInv'
<1> USE DEF CollectFiles, IInv, counters, request
<1>1. worker[w].dir \in Dirs BY DEF HoldOK, HoldingSteps, FlyingSteps
<1>2. "enqueue" \in Steps BY DEF Steps
<1>3. /\ worker' \in [Workers -> [at: Steps, dir: Dirs \cup {None}]]
      /\ worker'[w].at = "enqueue" /\ worker'[w].dir = worker[w].dir
      /\ \A x \in Workers : x # w => worker'[x] = worker[x]
  BY <1>1, <1>2, OneMoves
<1>4. target \in Repos /\ snapshot = target BY DEF RestOK, TypeOK, MixOK
<1>a. PICK r \in {snapshot} \cup (IF fast_hash THEN {} ELSE {selected}) :
        result' = [result EXCEPT ![worker[w].dir] = r]
  OBVIOUS
<1>5. /\ result' \in Tree /\ result'[worker[w].dir] \in Repos
      /\ \A x \in Dirs : x # worker[w].dir => result'[x] = result[x]
      /\ fast_hash => result'[worker[w].dir] = target
  BY <1>1, <1>4, <1>a DEF TypeOK, Tree
<1>6. TypeOK' BY <1>3, <1>5 DEF TypeOK
<1>7. CountOK'
  <2>1. Cardinality(Flying') = inflight
    BY <1>1, <1>2, CountMoves DEF FlyingSteps
  <2> QED BY <2>1 DEF CountOK
<1>8. HoldOK' BY <1>1, <1>3, <1>5 DEF HoldOK, HoldingSteps, FlyingSteps
<1>9. RestOK' /\ AwakeOK' BY <1>3 DEF RestOK, AwakeOK
<1>10. TrackOK'
  <2>1. \A x \in Dirs : Tracked(x) => Tracked(x)'
    <3> SUFFICES ASSUME NEW x \in Dirs, Tracked(x) PROVE Tracked(x)'
      OBVIOUS
    <3>1. CASE x = worker[w].dir
      BY <3>1, <1>3 DEF Tracked, HoldingSteps, FlyingSteps
    <3>2. CASE x # worker[w].dir BY <3>2, <1>3, <1>5 DEF Tracked
    <3> QED BY <3>1, <3>2
  <2>2. \A x \in Dirs : Announced(x) => Announced(x)'
    BY <1>3, <2>1, KidsFinite DEF Announced
  <2>3. \A x \in Dirs : x = worker[w].dir => Announced(x)' BY <1>3 DEF Announced
  <2>4. SUFFICES ASSUME scans > 0
                 PROVE  /\ Tracked(Root)'
                        /\ \A d \in Dirs : result'[d] # None => Announced(d)'
    BY DEF TrackOK
  <2>5. Tracked(Root)' BY <2>1, <2>4 DEF TrackOK
  <2>6. ASSUME NEW d \in Dirs, result'[d] # None
        PROVE  Announced(d)'
    <3>1. CASE d = worker[w].dir BY <3>1, <2>3
    <3>2. CASE d # worker[w].dir
      <4>1. Announced(d) BY <3>2, <2>4, <2>6, <1>5 DEF TrackOK
      <4> QED BY <4>1, <2>2
    <3> QED BY <3>1, <3>2
  <2> QED BY <2>5, <2>6
<1>11. MixOK' BY <1>1, <1>3, <1>5 DEF MixOK, FastTreesDoNotMix, OfOne
<1> QED BY <1>6, <1>7, <1>8, <1>9, <1>10, <1>11

\* Its subdirectories go into the queue.
LEMMA EnqueueKeepsIInv ==
  ASSUME IInv, NEW w \in Workers, Enqueue(w)
  PROVE  IInv'
<1> USE DEF Enqueue, IInv, request
<1>1. worker[w].dir \in Dirs BY DEF HoldOK, HoldingSteps, FlyingSteps
<1>2. "get" \in Steps BY DEF Steps
<1>3. /\ worker' \in [Workers -> [at: Steps, dir: Dirs \cup {None}]]
      /\ worker'[w].at = "get"
      /\ \A x \in Workers : x # w => worker'[x] = worker[x]
  BY <1>2, OneMoves
<1>4. Cardinality(Flying') = inflight - 1 /\ Cardinality(Flying') \in Nat
  BY <1>2, CountMoves DEF FlyingSteps
<1>5. TypeOK' BY <1>1, <1>3, <1>4, KidsFinite DEF TypeOK
<1>6. CountOK' BY <1>4 DEF CountOK
<1>7. HoldOK' BY <1>3 DEF HoldOK, HoldingSteps, FlyingSteps
<1>8. RestOK' /\ AwakeOK' BY <1>3 DEF RestOK, AwakeOK
<1>9. TrackOK'
  <2>1. result[worker[w].dir] # None BY DEF HoldOK
  <2>2. \A x \in Dirs : Tracked(x) => Tracked(x)'
    BY <2>1, <1>3 DEF Tracked, HoldingSteps, FlyingSteps
  <2>3. \A x \in Kids[worker[w].dir] : Tracked(x)' BY DEF Tracked
  <2>4. \A x \in Dirs : Announced(x) => Announced(x)'
    BY <1>3, <2>2, <2>3, KidsFinite DEF Announced
  <2> QED BY <2>2, <2>4 DEF TrackOK
<1>10. MixOK' BY <1>3 DEF MixOK, FastTreesDoNotMix, OfOne
<1> QED BY <1>5, <1>6, <1>7, <1>8, <1>9, <1>10

-----------------------------------------------------------------------------
\* Every step keeps IInv.
LEMMA NextIInv == IInv /\ [Next]_vars => IInv'
<1> SUFFICES ASSUME IInv, [Next]_vars PROVE IInv'
  OBVIOUS
<1>1. ASSUME NEW r \in Repos, SetRepo(r) PROVE IInv'
  BY <1>1, SetRepoKeepsIInv
<1>2. ASSUME NEW k \in Keys, CacheExpires(k) PROVE IInv'
  BY <1>2, CacheExpiresKeepsIInv
<1>3. ASSUME NEW r \in Repos, NEW fast \in FastModes, NEW cached \in CacheModes,
             StartScan(r, fast, cached)
      PROVE  IInv'
  BY <1>3, StartScanKeepsIInv
<1>4. CASE EndScan BY <1>4, EndScanKeepsIInv
<1>5. ASSUME NEW w \in Workers, Consume(w) PROVE IInv'
  <2>1. CASE Get(w) BY <2>1, GetKeepsIInv
  <2>2. CASE GetTimesOut(w)
    BY <2>2, WaitingKeepsIInv DEF GetTimesOut
  <2>3. CASE ReadInflight(w)
    <3>1. CASE inflight = 0
      <4>1. Go(w, "idle", None) BY <2>3, <3>1 DEF ReadInflight
      <4> QED BY <4>1, <2>3, WaitingKeepsIInv DEF ReadInflight
    <3>2. CASE inflight # 0
      <4>1. Go(w, "get", None) BY <2>3, <3>2 DEF ReadInflight
      <4> QED BY <4>1, <2>3, WaitingKeepsIInv DEF ReadInflight
    <3> QED BY <3>1, <3>2
  <2>4. CASE LookAgain(w)
    <3>1. CASE queue = {}
      <4>1. Go(w, "gone", None) BY <2>4, <3>1 DEF LookAgain
      <4> QED BY <4>1, <2>4, <3>1, WaitingKeepsIInv DEF LookAgain
    <3>2. CASE queue # {}
      <4>1. Go(w, "get", None) BY <2>4, <3>2 DEF LookAgain
      <4> QED BY <4>1, <2>4, WaitingKeepsIInv DEF LookAgain
    <3> QED BY <3>1, <3>2
  <2>5. CASE Enter(w) BY <2>5, EnterKeepsIInv
  <2>6. CASE List(w) BY <2>6, ListKeepsIInv
  <2>7. CASE ListFails(w) BY <2>7, ListFailsKeepsIInv
  <2>8. CASE CollectFiles(w) BY <2>8, CollectFilesKeepsIInv
  <2>9. CASE Enqueue(w) BY <2>9, EnqueueKeepsIInv
  <2> QED BY <1>5, <2>1, <2>2, <2>3, <2>4, <2>5, <2>6, <2>7, <2>8, <2>9
          DEF Consume
<1>6. CASE UNCHANGED vars
  <2> USE <1>6 DEF vars, counters, request, IInv
  <2>1. TypeOK' BY DEF TypeOK
  <2>2. CountOK' BY DEF CountOK, Flying
  <2>3. HoldOK' /\ RestOK' /\ AwakeOK' BY DEF HoldOK, RestOK, AwakeOK
  <2>4. TrackOK' BY DEF TrackOK, Tracked, Announced
  <2>5. MixOK' BY DEF MixOK, FastTreesDoNotMix, OfOne
  <2> QED BY <2>1, <2>2, <2>3, <2>4, <2>5
<1> QED BY <1>1, <1>2, <1>3, <1>4, <1>5, <1>6 DEF Next

\* The invariant all three theorems rest on.
LEMMA Inductive == Spec => []IInv
BY InitIInv, NextIInv, PTL DEF Spec

\* The scan's variables keep their types; the count of directories in flight
\* never falls below zero (scan_remote.py, state["inflight"]).
THEOREM TypeCorrect == Spec => []TypeOK
<1>1. IInv => TypeOK BY DEF IInv
<1> QED BY <1>1, Inductive, PTL

\* A scan whose threads all left on their own has listed, or failed to list,
\* every directory it had heard of (_consumer's exit against _process).
THEOREM NothingLeftOut == Spec => []ScanComplete
BY CompleteFromIInv, Inductive, PTL

\* Whatever precise scans read and keep beside it, a fast scan and the tree that
\* fast scans find in the cache are of their own repository, although other tabs
\* select repositories meanwhile (the snapshot of api_diff_scan, the key of
\* scan_remote_cached).
THEOREM FastScansDoNotMix == Spec => []FastTreesDoNotMix
<1>1. IInv => FastTreesDoNotMix BY DEF IInv, MixOK
<1> QED BY <1>1, Inductive, PTL

-----------------------------------------------------------------------------
(* The progress.  Every directory the scan has heard of is in one place: in *)
(* the queue, with one thread, or behind it; so the two counters count what *)
(* they say, and they agree once the threads have left an empty queue.      *)

Holds(w, d) == worker[w].at \in HoldingSteps /\ worker[w].dir = d
Held == {d \in Dirs : \E w \in Workers : Holds(w, d)}

\* Its listing is behind it, and its subdirectories are announced.
Opened == {d \in Dirs : result[d] # None /\ d \notin Held}
Closed == failed \cup Opened
Known == queue \cup Held \cup Closed

AloneOK ==
  /\ \A d \in Dirs, w, x \in Workers : Holds(w, d) /\ Holds(x, d) => w = x
  /\ queue \cap Held = {} /\ (queue \cup Held) \cap Closed = {}

ParentOK == \A d \in Known : d = Root \/ \E e \in Opened : d \in Kids[e]

TallyOK == discovered = Cardinality(Known) /\ done = Cardinality(Closed)

PInv == AloneOK /\ ParentOK /\ TallyOK

\* The places are finite sets of directories.
LEMMA PlacesFinite ==
  ASSUME TypeOK
  PROVE  /\ Known \subseteq Dirs /\ Closed \subseteq Dirs
         /\ IsFiniteSet(Known) /\ IsFiniteSet(Closed)
<1>1. Known \subseteq Dirs /\ Closed \subseteq Dirs
  BY DEF TypeOK, Known, Closed, Held, Opened
<1> QED BY <1>1, FS_Subset

\* A step that moves no directory keeps the progress.
LEMMA PInvUnmoved ==
  ASSUME PInv, Held' = Held, Opened' = Opened,
         \A d \in Dirs, w, x \in Workers : Holds(w, d)' /\ Holds(x, d)' => w = x,
         UNCHANGED <<queue, discovered, done, failed>>
  PROVE  PInv'
<1>1. Closed' = Closed /\ Known' = Known
  BY DEF Closed, Known
<1>2. AloneOK' BY <1>1 DEF PInv, AloneOK
<1>3. ParentOK' BY <1>1 DEF PInv, ParentOK
<1>4. TallyOK' BY <1>1 DEF PInv, TallyOK
<1> QED BY <1>2, <1>3, <1>4 DEF PInv

\* Nor does one that moves no thread past the queue, or keeps its directory.
LEMMA PInvStays ==
  ASSUME TypeOK, PInv, NEW w \in Workers,
         \A x \in Workers : x # w => worker'[x] = worker[x],
         worker[w].at \in HoldingSteps <=> worker'[w].at \in HoldingSteps,
         worker[w].at \in HoldingSteps => worker'[w].dir = worker[w].dir,
         UNCHANGED <<queue, discovered, done, failed, result>>
  PROVE  PInv'
<1>1. \A x \in Workers, d \in Dirs : Holds(x, d)' <=> Holds(x, d)
  BY DEF Holds
<1>2. Held' = Held BY <1>1 DEF Held
<1>3. Opened' = Opened BY <1>2 DEF Opened
<1>4. \A d \in Dirs, x, y \in Workers : Holds(x, d)' /\ Holds(y, d)' => x = y
  BY <1>1 DEF PInv, AloneOK
<1> QED BY <1>2, <1>3, <1>4, PInvUnmoved

\* A scan starts: its root is known and waits.
LEMMA StartScanKeepsPInv ==
  ASSUME TypeOK, TypeOK', NEW r \in Repos, NEW fast \in FastModes,
         NEW cached \in CacheModes, StartScan(r, fast, cached)
  PROVE  PInv'
<1>1. /\ queue' = {Root} /\ discovered' = 1 /\ done' = 0 /\ failed' = {}
      /\ \A d \in Dirs : result'[d] = None
      /\ \A x \in Workers : worker'[x].at = "get"
  BY DEF StartScan, NoTree
<1>2. \A x \in Workers, d \in Dirs : ~Holds(x, d)'
  BY <1>1 DEF Holds, HoldingSteps, FlyingSteps
<1>3. Held' = {} /\ Opened' = {}
  BY <1>1, <1>2 DEF Held, Opened
<1>4. Closed' = {} /\ Known' = {Root}
  BY <1>1, <1>3 DEF Closed, Known
<1>5. AloneOK' BY <1>1, <1>2, <1>3, <1>4 DEF AloneOK
<1>6. ParentOK' BY <1>4 DEF ParentOK
<1>7. TallyOK' BY <1>1, <1>4, FS_EmptySet, FS_Singleton DEF TallyOK
<1> QED BY <1>5, <1>6, <1>7 DEF PInv

\* A thread takes a directory: it was in the queue and with nobody.
LEMMA GetKeepsPInv ==
  ASSUME TypeOK, PInv, NEW w \in Workers, Get(w)
  PROVE  PInv'
<1>1. PICK d \in queue : Go(w, "got", d) /\ queue' = queue \ {d} BY DEF Get
<1>2. /\ worker[w].at = "get"
      /\ UNCHANGED <<discovered, done, result, failed>>
  BY DEF Get, counters
<1>3. d \in Dirs /\ "got" \in Steps BY DEF TypeOK, Steps
<1>4. /\ worker'[w].at = "got" /\ worker'[w].dir = d
      /\ \A x \in Workers : x # w => worker'[x] = worker[x]
  BY <1>1, <1>3, OneMoves
<1>5. \A e \in Dirs : /\ ~Holds(w, e)
                      /\ Holds(w, e)' <=> e = d
                      /\ \A x \in Workers : x # w => (Holds(x, e)' <=> Holds(x, e))
  BY <1>2, <1>4 DEF Holds, HoldingSteps, FlyingSteps
<1>6. d \notin Held /\ d \notin Closed
  BY DEF PInv, AloneOK
<1>7. Held' = Held \cup {d}
  BY <1>3, <1>5 DEF Held
<1>8. Opened' = Opened
  BY <1>2, <1>3, <1>6, <1>7 DEF Opened, Closed
<1>9. Closed' = Closed /\ Known' = Known
  BY <1>1, <1>2, <1>7, <1>8 DEF Closed, Known
<1>10. AloneOK'
  <2>1. \A e \in Dirs, x, y \in Workers : Holds(x, e)' /\ Holds(y, e)' => x = y
    <3> SUFFICES ASSUME NEW e \in Dirs, NEW x \in Workers, NEW y \in Workers,
                        Holds(x, e)', Holds(y, e)', x # y
                 PROVE  FALSE
      OBVIOUS
    <3>1. CASE e = d
      <4>1. \E z \in Workers : Holds(z, d) BY <3>1, <1>5
      <4> QED BY <4>1, <1>3, <1>6 DEF Held
    <3>2. CASE e # d
      BY <3>2, <1>5 DEF PInv, AloneOK
    <3> QED BY <3>1, <3>2
  <2>2. queue' \cap Held' = {} /\ (queue' \cup Held') \cap Closed' = {}
    BY <1>1, <1>6, <1>7, <1>9 DEF PInv, AloneOK
  <2> QED BY <2>1, <2>2 DEF AloneOK
<1>11. ParentOK' BY <1>8, <1>9 DEF PInv, ParentOK
<1>12. TallyOK' BY <1>2, <1>9 DEF PInv, TallyOK
<1> QED BY <1>10, <1>11, <1>12 DEF PInv

\* A thread is done with its directory: nobody else held it.
LEMMA Released ==
  ASSUME TypeOK, PInv, NEW w \in Workers, worker[w].at \in HoldingSteps,
         worker[w].dir \in Dirs, Go(w, "get", None)
  PROVE  /\ Held' = Held \ {worker[w].dir}
         /\ worker[w].dir \in Held
         /\ \A d \in Dirs, x, y \in Workers : Holds(x, d)' /\ Holds(y, d)' => x = y
<1>1. "get" \in Steps BY DEF Steps
<1>2. /\ worker'[w].at = "get"
      /\ \A x \in Workers : x # w => worker'[x] = worker[x]
  BY <1>1, OneMoves
<1>3. \A e \in Dirs : /\ Holds(w, e) <=> e = worker[w].dir
                      /\ ~Holds(w, e)'
                      /\ \A x \in Workers : x # w => (Holds(x, e)' <=> Holds(x, e))
  BY <1>2 DEF Holds, HoldingSteps, FlyingSteps
<1>4. worker[w].dir \in Held
  BY <1>3 DEF Held
<1>5. \A x \in Workers : x # w => ~Holds(x, worker[w].dir)
  BY <1>3 DEF PInv, AloneOK
<1>6. Held' = Held \ {worker[w].dir}
  BY <1>3, <1>5 DEF Held
<1>7. \A d \in Dirs, x, y \in Workers : Holds(x, d)' /\ Holds(y, d)' => x = y
  BY <1>3 DEF PInv, AloneOK
<1> QED BY <1>4, <1>6, <1>7

\* A directory that could not be listed counts as done.
LEMMA ListFailsKeepsPInv ==
  ASSUME IInv, PInv, NEW w \in Workers, ListFails(w)
  PROVE  PInv'
<1> DEFINE d == worker[w].dir
<1>1. /\ worker[w].at = "list" /\ Go(w, "get", None)
      /\ done' = done + 1 /\ failed' = failed \cup {d}
      /\ UNCHANGED <<queue, discovered, result>>
  BY DEF ListFails, Unlisted
<1>2. TypeOK /\ worker[w].at \in HoldingSteps /\ d \in Dirs
  BY <1>1 DEF IInv, HoldOK, HoldingSteps, FlyingSteps
<1>3. /\ Held' = Held \ {d} /\ d \in Held
      /\ \A e \in Dirs, x, y \in Workers : Holds(x, e)' /\ Holds(y, e)' => x = y
  BY <1>1, <1>2, Released
<1> HIDE DEF d
<1>4. d \notin queue /\ d \notin Closed
  BY <1>3 DEF PInv, AloneOK
<1>5. Opened \subseteq Opened' /\ Opened' \subseteq Opened \cup {d}
  BY <1>1, <1>3 DEF Opened
<1>6. Closed' = Closed \cup {d} /\ Known' = Known
  BY <1>1, <1>3, <1>5 DEF Closed, Known
<1>7. AloneOK'
  BY <1>1, <1>3, <1>4, <1>6 DEF PInv, AloneOK
<1>8. ParentOK'
  BY <1>5, <1>6 DEF PInv, ParentOK
<1>9. TallyOK'
  <2>1. Cardinality(Closed') = Cardinality(Closed) + 1
    BY <1>2, <1>4, <1>6, PlacesFinite, FS_AddElement
  <2> QED BY <1>1, <1>6, <2>1 DEF PInv, TallyOK
<1> QED BY <1>7, <1>8, <1>9 DEF PInv

\* A directory whose file is collected is not yet behind its thread.
LEMMA CollectFilesKeepsPInv ==
  ASSUME IInv, PInv, NEW w \in Workers, CollectFiles(w)
  PROVE  PInv'
<1> DEFINE d == worker[w].dir
<1>1. /\ worker[w].at = "files" /\ Go(w, "enqueue", d)
      /\ UNCHANGED <<queue, discovered, done, failed>>
  BY DEF CollectFiles, counters
<1>2. TypeOK /\ d \in Dirs /\ "enqueue" \in Steps
  BY <1>1 DEF IInv, HoldOK, HoldingSteps, FlyingSteps, Steps
<1>3. /\ worker'[w].at = "enqueue" /\ worker'[w].dir = d
      /\ \A x \in Workers : x # w => worker'[x] = worker[x]
  BY <1>1, <1>2, OneMoves
<1>4. \A x \in Workers, e \in Dirs : Holds(x, e)' <=> Holds(x, e)
  BY <1>1, <1>3 DEF Holds, HoldingSteps, FlyingSteps
<1>5. Held' = Held /\ d \in Held
  <2>1. Holds(w, d) BY <1>1 DEF Holds, HoldingSteps, FlyingSteps
  <2> QED BY <1>2, <1>4, <2>1 DEF Held
<1>6. \A e \in Dirs : e # d => result'[e] = result[e]
  BY <1>2 DEF CollectFiles, TypeOK, Tree
<1>7. Opened' = Opened
  BY <1>5, <1>6 DEF Opened
<1>8. \A e \in Dirs, x, y \in Workers : Holds(x, e)' /\ Holds(y, e)' => x = y
  BY <1>4 DEF PInv, AloneOK
<1> QED BY <1>1, <1>5, <1>7, <1>8, PInvUnmoved

\* The subdirectories a thread announces are news to the scan.
LEMMA EnqueueKeepsPInv ==
  ASSUME IInv, PInv, NEW w \in Workers, Enqueue(w)
  PROVE  PInv'
<1> DEFINE d == worker[w].dir
           new == Kids[d]
<1>1. /\ worker[w].at = "enqueue" /\ Go(w, "get", None)
      /\ queue' = queue \cup new
      /\ discovered' = discovered + Cardinality(new) /\ done' = done + 1
      /\ UNCHANGED <<failed, result>>
  BY DEF Enqueue
<1>2. TypeOK /\ worker[w].at \in HoldingSteps /\ d \in Dirs /\ result[d] # None
  BY <1>1 DEF IInv, HoldOK, HoldingSteps, FlyingSteps
<1>3. /\ Held' = Held \ {d} /\ d \in Held
      /\ \A e \in Dirs, x, y \in Workers : Holds(x, e)' /\ Holds(y, e)' => x = y
  BY <1>1, <1>2, Released
<1>4. /\ new \subseteq Dirs /\ Root \notin new
      /\ \A e \in Dirs : e # d => new \cap Kids[e] = {}
  BY <1>2, KidsFinite, TreeAssumption
<1>n. IsFiniteSet(new) BY <1>4, FS_Subset
<1> HIDE DEF d, new
<1>5. d \notin queue /\ d \notin Closed /\ d \in Known
  BY <1>3 DEF PInv, AloneOK, Known
<1>6. Opened' = Opened \cup {d}
  BY <1>1, <1>2, <1>3 DEF Opened
<1>7. Closed' = Closed \cup {d} /\ Known' = Known \cup new
  BY <1>1, <1>3, <1>6 DEF Closed, Known
<1>8. new \cap Known = {}
  <2> SUFFICES ASSUME NEW k \in new, k \in Known PROVE FALSE
    OBVIOUS
  <2>1. k # Root BY <1>4
  <2>2. PICK e \in Opened : k \in Kids[e]
    BY <2>1 DEF PInv, ParentOK
  <2>3. e # d /\ e \in Dirs BY <1>3, <2>2 DEF Opened
  <2> QED BY <1>4, <2>2, <2>3
<1>9. AloneOK'
  <2>1. queue' \cap Held' = {} /\ (queue' \cup Held') \cap Closed' = {}
    BY <1>1, <1>3, <1>5, <1>7, <1>8 DEF PInv, AloneOK, Known
  <2> QED BY <1>3, <2>1 DEF AloneOK
<1>10. ParentOK'
  <2> SUFFICES ASSUME NEW k \in Known'
               PROVE  k = Root \/ \E e \in Opened' : k \in Kids[e]
    BY DEF ParentOK
  <2>1. CASE k \in Known BY <2>1, <1>6 DEF PInv, ParentOK
  <2>2. CASE k \in new BY <2>2, <1>6 DEF new
  <2> QED BY <1>7, <2>1, <2>2
<1>11. TallyOK'
  <2>1. IsFiniteSet(Known) /\ IsFiniteSet(Closed)
    BY <1>2, PlacesFinite
  <2>2. Cardinality(Closed') = Cardinality(Closed) + 1
    BY <1>5, <1>7, <2>1, FS_AddElement
  <2>3. Cardinality(Known \cap new) = 0
    BY <1>8, FS_EmptySet
  <2>4. Cardinality(Known') =
          Cardinality(Known) + Cardinality(new) - Cardinality(Known \cap new)
    BY <1>n, <1>7, <2>1, FS_Union
  <2>5. Cardinality(Known) \in Nat /\ Cardinality(new) \in Nat
    BY <1>n, <2>1, FS_CardinalityType
  <2> QED BY <1>1, <2>2, <2>3, <2>4, <2>5 DEF PInv, TallyOK
<1> QED BY <1>9, <1>10, <1>11 DEF PInv

\* Every step keeps the progress.
LEMMA NextPInv == IInv /\ IInv' /\ PInv /\ [Next]_vars => PInv'
<1> SUFFICES ASSUME IInv, IInv', PInv, [Next]_vars PROVE PInv'
  OBVIOUS
<1>t. TypeOK /\ TypeOK' BY DEF IInv
<1>u. ASSUME UNCHANGED <<queue, discovered, done, failed, result, worker>>
      PROVE  PInv'
  <2>1. \A x \in Workers, d \in Dirs : Holds(x, d)' <=> Holds(x, d)
    BY <1>u DEF Holds
  <2>2. Held' = Held BY <2>1 DEF Held
  <2>3. Opened' = Opened BY <1>u, <2>2 DEF Opened
  <2>4. \A d \in Dirs, x, y \in Workers : Holds(x, d)' /\ Holds(y, d)' => x = y
    BY <2>1 DEF PInv, AloneOK
  <2> QED BY <1>u, <2>2, <2>3, <2>4, PInvUnmoved
\* A thread at the queue.
<1>w. ASSUME NEW w \in Workers, NEW step \in {"get", "empty", "idle", "gone"},
             worker[w].at \in {"get", "empty", "idle"}, Go(w, step, None),
             UNCHANGED <<queue, discovered, done, failed, result>>
      PROVE  PInv'
  <2>1. step \in Steps BY DEF Steps
  <2>2. /\ worker'[w].at = step
        /\ \A x \in Workers : x # w => worker'[x] = worker[x]
    BY <1>t, <1>w, <2>1, OneMoves
  <2> QED BY <1>t, <1>w, <2>2, PInvStays DEF HoldingSteps, FlyingSteps
\* A thread that goes on with its directory.
<1>h. ASSUME NEW w \in Workers, NEW step \in FlyingSteps,
             worker[w].at \in HoldingSteps, Go(w, step, worker[w].dir),
             UNCHANGED <<queue, discovered, done, failed, result>>
      PROVE  PInv'
  <2>1. step \in Steps BY DEF Steps, FlyingSteps
  <2>2. worker[w].dir \in Dirs BY <1>h DEF IInv, HoldOK
  <2>3. /\ worker'[w].at = step /\ worker'[w].dir = worker[w].dir
        /\ \A x \in Workers : x # w => worker'[x] = worker[x]
    BY <1>t, <1>h, <2>1, <2>2, OneMoves
  <2>4. step \in HoldingSteps BY DEF HoldingSteps
  <2> QED BY <1>t, <1>h, <2>3, <2>4, PInvStays
<1>0. ASSUME NEW r \in Repos, SetRepo(r) PROVE PInv'
  BY <1>0, <1>u DEF SetRepo, counters
<1>1. ASSUME NEW k \in Keys, CacheExpires(k) PROVE PInv'
  BY <1>1, <1>u DEF CacheExpires, counters
<1>2. ASSUME NEW r \in Repos, NEW fast \in FastModes, NEW cached \in CacheModes,
             StartScan(r, fast, cached)
      PROVE  PInv'
  BY <1>t, <1>2, StartScanKeepsPInv
<1>3. CASE EndScan BY <1>3, <1>u DEF EndScan, counters
<1>4. ASSUME NEW w \in Workers, Consume(w) PROVE PInv'
  <2>1. CASE Get(w) BY <1>t, <2>1, GetKeepsPInv
  <2>2. CASE GetTimesOut(w) BY <2>2, <1>w DEF GetTimesOut, counters
  <2>3. CASE ReadInflight(w)
    <3>1. PICK step \in {"idle", "get"} : Go(w, step, None)
      BY <2>3 DEF ReadInflight
    <3> QED BY <2>3, <3>1, <1>w DEF ReadInflight, counters
  <2>4. CASE LookAgain(w)
    <3>1. PICK step \in {"gone", "get"} : Go(w, step, None)
      BY <2>4 DEF LookAgain
    <3> QED BY <2>4, <3>1, <1>w DEF LookAgain, counters
  <2>5. CASE Enter(w)
    BY <2>5, <1>h DEF Enter, HoldingSteps, FlyingSteps
  <2>6. CASE List(w)
    BY <2>6, <1>h DEF List, counters, HoldingSteps, FlyingSteps
  <2>7. CASE ListFails(w) BY <2>7, ListFailsKeepsPInv
  <2>8. CASE CollectFiles(w) BY <2>8, CollectFilesKeepsPInv
  <2>9. CASE Enqueue(w) BY <2>9, EnqueueKeepsPInv
  <2> QED BY <1>4, <2>1, <2>2, <2>3, <2>4, <2>5, <2>6, <2>7, <2>8, <2>9
          DEF Consume
<1>5. CASE UNCHANGED vars BY <1>5, <1>u DEF vars, counters
<1> QED BY <1>0, <1>1, <1>2, <1>3, <1>4, <1>5 DEF Next

\* The last progress event of every scan says 100 %, for every tree, whatever
\* listings failed and however the threads left (scan_remote.py:247).
THEOREM EndsAtHundredPercent == Spec => []FinalProgress
<1>1. Init => PInv
  <2> SUFFICES ASSUME Init PROVE PInv
    OBVIOUS
  <2>1. /\ queue = {} /\ failed = {} /\ discovered = 0 /\ done = 0
        /\ \A d \in Dirs : result[d] = None
        /\ \A w \in Workers, d \in Dirs : ~Holds(w, d)
    BY DEF Init, NoTree, Resting, Holds, HoldingSteps, FlyingSteps
  <2>2. Held = {} /\ Opened = {} BY <2>1 DEF Held, Opened
  <2>3. Closed = {} /\ Known = {} BY <2>1, <2>2 DEF Closed, Known
  <2> QED BY <2>1, <2>2, <2>3, FS_EmptySet DEF PInv, AloneOK, ParentOK, TallyOK
<1>2. IInv /\ PInv => FinalProgress
  <2> SUFFICES ASSUME IInv, PInv, AllGone PROVE done = discovered
    BY DEF FinalProgress
  <2>1. queue = {} BY DEF AllGone, IInv, AwakeOK
  <2>2. Held = {}
    BY DEF AllGone, Held, Holds, HoldingSteps, FlyingSteps
  <2> QED BY <2>1, <2>2 DEF PInv, TallyOK, Known
<1> QED BY <1>1, <1>2, NextPInv, Inductive, PTL DEF Spec
=============================================================================
