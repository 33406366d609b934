------------------------------ MODULE RemoteScan ------------------------------
(***************************************************************************)
(* Scanning the directory tree of a remote repository with several         *)
(* threads: scan_remote_cached and scan_remote_parallel in                 *)
(* core/diff/scan_remote.py, as api_diff_scan calls them.                  *)
(*                                                                         *)
(* One scan runs at a time; what the other tabs do meanwhile is that they  *)
(* select another repository.  A directory holds one file.  Nothing        *)
(* cancels a scan: api_diff_scan's event is never set, and no request is   *)
(* given the watchdog that could abort it.                                 *)
(***************************************************************************)
EXTENDS Integers, FiniteSets

CONSTANTS
  Dirs, Root,    \* the directories of the tree
  Kids,          \* the subdirectories of each
  Repos,         \* the repositories, which have the same tree
  Failing,       \* directories whose listing may fail
  FastModes,     \* fast_hash of the requests: precise scans download each file
  CacheModes,    \* use_cache of the requests
  Workers,       \* max_workers threads
  MaxScans, MaxSwitches,
  None

ASSUME RootAssumption == Root \in Dirs
ASSUME KidsAssumption == Kids \in [Dirs -> SUBSET Dirs]
ASSUME TreeAssumption ==          \* the path of a directory names its parent
  \A d, e \in Dirs : Root \notin Kids[d] /\ (d # e => Kids[d] \cap Kids[e] = {})
ASSUME FiniteAssumption ==                       \* n = max(1, max_workers)
  IsFiniteSet(Dirs) /\ IsFiniteSet(Workers) /\ Workers # {}
ASSUME FailingAssumption == Failing \subseteq Dirs
ASSUME ModesAssumption == FastModes \subseteq BOOLEAN /\ CacheModes \subseteq BOOLEAN
ASSUME BoundsAssumption == MaxScans \in Nat /\ MaxSwitches \in Nat
ASSUME NoneAssumption == None \notin Repos \cup Dirs

VARIABLES
  selected,    \* client.repo_id
  target,      \* scan_repo_id and namespace of the running scan, or None
  snapshot,    \* repo_id as the threads were given it
  fast_hash,
  queue,       \* dir_q: its order does not matter
  inflight, discovered, done,
  worker,      \* per thread: where it is, and with which directory
  result,      \* per directory: the repository its file was read from
  cache,       \* per namespace and mode: the tree kept for an hour
  failed,      \* ghost: directories whose listing failed in this scan
  scans, switches

counters == <<inflight, discovered, done>>
request == <<target, snapshot, fast_hash>>
vars == <<selected, request, queue, counters, worker, result, cache, failed,
          scans, switches>>

Steps == {"get", "empty", "idle", "got", "list", "files", "enqueue", "gone"}
Keys == Repos \X BOOLEAN
Tree == [Dirs -> Repos \cup {None}]
NoTree == [d \in Dirs |-> None]
Resting == [at |-> "gone", dir |-> None]

Init ==
  /\ selected \in Repos
  /\ target = None /\ snapshot = None /\ fast_hash = FALSE
  /\ queue = {} /\ inflight = 0 /\ discovered = 0 /\ done = 0
  /\ worker = [w \in Workers |-> Resting]
  /\ result = NoTree
  /\ cache = [k \in Keys |-> None]
  /\ failed = {}
  /\ scans = 0 /\ switches = 0

-----------------------------------------------------------------------------
(* The handler.                                                            *)

\* Another tab selects a repository: client.set_repo.
SetRepo(r) ==
  /\ switches < MaxSwitches /\ r # selected
  /\ selected' = r
  /\ switches' = switches + 1
  /\ UNCHANGED <<request, queue, counters, worker, result, cache, failed, scans>>

\* After an hour, or by the user who clears the caches.
CacheExpires(k) ==
  /\ cache[k] # None
  /\ cache' = [cache EXCEPT ![k] = None]
  /\ UNCHANGED <<selected, request, queue, counters, worker, result, failed,
                 scans, switches>>

\* api_diff_scan selects its repository and takes the snapshot of it.  With the
\* cache it finds nothing there (a hit answers at once and changes nothing) and
\* hands the snapshot on; without it scan_remote_cached passes none.
StartScan(r, fast, cached) ==
  /\ target = None /\ scans < MaxScans
  /\ cached => cache[<<r, fast>>] = None
  /\ selected' = r /\ target' = r
  /\ snapshot' = IF cached THEN r ELSE None
  /\ fast_hash' = fast
  /\ queue' = {Root}
  /\ inflight' = 0 /\ discovered' = 1 /\ done' = 0
  /\ worker' = [w \in Workers |-> [at |-> "get", dir |-> None]]
  /\ result' = NoTree /\ failed' = {}
  /\ scans' = scans + 1
  /\ UNCHANGED <<cache, switches>>

AllGone == target # None /\ \A w \in Workers : worker[w].at = "gone"
SomeGone == target # None /\ \E w \in Workers : worker[w].at = "gone"

KeepByRepo ==                        \* mutant: the mode is not part of the key
  cache' = IF snapshot = None \/ result = NoTree THEN cache
           ELSE [cache EXCEPT ![<<target, TRUE>>] = result,
                              ![<<target, FALSE>>] = result]

\* A tree is kept by a scan that uses the cache and found something.
Keep == cache' = IF snapshot = None \/ result = NoTree THEN cache
                 ELSE [cache EXCEPT ![<<target, fast_hash>>] = result]

Over == target' = None /\ UNCHANGED <<snapshot, fast_hash>>

EndScanEarly ==                      \* mutant: the first thread to leave ends it
  /\ SomeGone
  /\ Keep /\ Over
  /\ worker' = [w \in Workers |-> Resting]
  /\ UNCHANGED <<selected, queue, counters, result, failed, scans, switches>>

EndScan ==
  /\ AllGone
  /\ Keep /\ Over
  /\ UNCHANGED <<selected, queue, counters, worker, result, failed, scans,
                 switches>>

-----------------------------------------------------------------------------
(* _consumer.                                                              *)

Go(w, step, d) == worker' = [worker EXCEPT ![w] = [at |-> step, dir |-> d]]

Get(w) ==
  /\ worker[w].at = "get"
  /\ \E d \in queue : Go(w, "got", d) /\ queue' = queue \ {d}
  /\ UNCHANGED <<selected, request, counters, result, cache, failed, scans,
                 switches>>

\* Half a second without a directory.
GetTimesOut(w) ==
  /\ worker[w].at = "get" /\ queue = {}
  /\ Go(w, "empty", None)
  /\ UNCHANGED <<selected, request, queue, counters, result, cache, failed,
                 scans, switches>>

ReadInflight(w) ==
  /\ worker[w].at = "empty"
  /\ Go(w, IF inflight = 0 THEN "idle" ELSE "get", None)
  /\ UNCHANGED <<selected, request, queue, counters, result, cache, failed,
                 scans, switches>>

LookAgain(w) ==
  /\ worker[w].at = "idle"
  /\ Go(w, IF queue = {} THEN "gone" ELSE "get", None)
  /\ UNCHANGED <<selected, request, queue, counters, result, cache, failed,
                 scans, switches>>

EnterUncounted(w) ==                 \* mutant: inflight is not raised
  /\ worker[w].at = "got"
  /\ Go(w, "list", worker[w].dir)
  /\ UNCHANGED <<selected, request, queue, counters, result, cache, failed,
                 scans, switches>>

Enter(w) ==
  /\ worker[w].at = "got"
  /\ Go(w, "list", worker[w].dir)
  /\ inflight' = inflight + 1
  /\ UNCHANGED <<selected, request, queue, discovered, done, result, cache,
                 failed, scans, switches>>

-----------------------------------------------------------------------------
(* _process.                                                               *)

\* What list_level names is listed for the snapshot alone.
List(w) ==
  /\ worker[w].at = "list" /\ snapshot # None
  /\ Go(w, "files", worker[w].dir)
  /\ UNCHANGED <<selected, request, queue, counters, result, cache, failed,
                 scans, switches>>

\* Without a snapshot there is no branch to resolve.
Unlisted(w) ==
  /\ worker[w].at = "list"
  /\ worker[w].dir \in Failing \/ snapshot = None

ListFailsInFlight(w) ==              \* mutant: inflight is not lowered again
  /\ Unlisted(w)
  /\ Go(w, "get", None)
  /\ done' = done + 1
  /\ failed' = failed \cup {worker[w].dir}
  /\ UNCHANGED <<selected, request, queue, inflight, discovered, result, cache,
                 scans, switches>>

ListFailsUncounted(w) ==             \* mutant: the progress never learns of it
  /\ Unlisted(w)
  /\ Go(w, "get", None)
  /\ inflight' = inflight - 1
  /\ failed' = failed \cup {worker[w].dir}
  /\ UNCHANGED <<selected, request, queue, discovered, done, result, cache,
                 scans, switches>>

\* list_level raises, or drops the error of list_level_ex and returns []: the
\* directory is done and was empty.
ListFails(w) ==
  /\ Unlisted(w)
  /\ Go(w, "get", None)
  /\ inflight' = inflight - 1 /\ done' = done + 1
  /\ failed' = failed \cup {worker[w].dir}
  /\ UNCHANGED <<selected, request, queue, discovered, result, cache, scans,
                 switches>>

CollectFilesLive(w) ==               \* mutant: fast scans lose the snapshot too
  /\ worker[w].at = "files"
  /\ \E r \in {snapshot, selected} : result' = [result EXCEPT ![worker[w].dir] = r]
  /\ Go(w, "enqueue", worker[w].dir)
  /\ UNCHANGED <<selected, request, queue, counters, cache, failed, scans,
                 switches>>

\* _collect_file.  The size is that of the snapshot's listing; the content that
\* a precise scan hashes, when get_file brings it, is of the repository that is
\* selected now.
CollectFiles(w) ==
  /\ worker[w].at = "files"
  /\ \E r \in {snapshot} \cup (IF fast_hash THEN {} ELSE {selected}) :
       result' = [result EXCEPT ![worker[w].dir] = r]
  /\ Go(w, "enqueue", worker[w].dir)
  /\ UNCHANGED <<selected, request, queue, counters, cache, failed, scans,
                 switches>>

Enqueue(w) ==
  /\ worker[w].at = "enqueue"
  /\ LET new == Kids[worker[w].dir] IN
     /\ queue' = queue \cup new
     /\ discovered' = discovered + Cardinality(new)
  /\ done' = done + 1 /\ inflight' = inflight - 1
  /\ Go(w, "get", None)
  /\ UNCHANGED <<selected, request, result, cache, failed, scans, switches>>

Consume(w) ==
  \/ Get(w) \/ GetTimesOut(w) \/ ReadInflight(w) \/ LookAgain(w) \/ Enter(w)
  \/ List(w) \/ ListFails(w) \/ CollectFiles(w) \/ Enqueue(w)

Next ==
  \/ \E r \in Repos : SetRepo(r)
  \/ \E k \in Keys : CacheExpires(k)
  \/ \E r \in Repos, fast \in FastModes, cached \in CacheModes :
       StartScan(r, fast, cached)
  \/ EndScan
  \/ \E w \in Workers : Consume(w)

Spec == Init /\ [][Next]_vars

(* Threads run, and a request returns or fails after its retries.          *)
FairSpec == Spec /\ WF_vars(EndScan) /\ \A w \in Workers : WF_vars(Consume(w))

-----------------------------------------------------------------------------
(* Properties.                                                             *)

TypeOK ==
  /\ selected \in Repos
  /\ target \in Repos \cup {None} /\ snapshot \in Repos \cup {None}
  /\ fast_hash \in BOOLEAN
  /\ queue \subseteq Dirs
  /\ inflight \in Nat /\ discovered \in Nat /\ done \in Nat
  /\ worker \in [Workers -> [at: Steps, dir: Dirs \cup {None}]]
  /\ result \in Tree
  /\ cache \in [Keys -> Tree \cup {None}]
  /\ failed \subseteq Dirs
  /\ scans \in 0..MaxScans /\ switches \in 0..MaxSwitches

Collected == {d \in Dirs : result[d] # None}
Reached == {Root} \cup UNION {Kids[d] : d \in Collected}

\* Threads that see an empty queue leave on their own, at a moment when another
\* one may be about to fill it.  Still, when the scan returns no directory that
\* a listing named has been left out, other than by a failure of its own.
ScanComplete == scans > 0 /\ target = None => Reached \subseteq Collected \cup failed

\* The last progress event, sent when every thread has left, says 100 %
\* (scan_remote.py:247).
FinalProgress == AllGone => done = discovered

\* The comment on `state': the queue is empty and nothing is in flight exactly
\* when every discovered directory is done (scan_remote.py:131-132).
EmptyMeansDone == queue = {} /\ inflight = 0 => done = discovered

\* What the cache gives out for an hour as the remote tree is all of that tree.
CachedTreeIsWhole ==
  \A k \in Keys : cache[k] # None => \A d \in Dirs : cache[k][d] # None

OfOne(tree, r) == \A d \in Dirs : tree[d] \in {None, r}

\* A fast scan that another tab disturbs reads its own repository only, and the
\* tree that later fast scans find in the cache is all of theirs, although the
\* precise scans of the same repository may keep a mixed one beside it
\* (routes_diff.py:143-149, scan_remote.py:307-314).
FastTreesDoNotMix ==
  /\ target # None /\ fast_hash => OfOne(result, target)
  /\ \A r \in Repos :
       cache[<<r, TRUE>>] # None => OfOne(cache[<<r, TRUE>>], r)

\* No tree mixes repositories, nor does one lie in the cache under the name of
\* another: ``the scan only ever goes by this value'' (scan_remote.py:27-29, 97-98).
OneRepository ==
  /\ target # None => OfOne(result, target)
  /\ \A k \in Keys : cache[k] # None => OfOne(cache[k], k[1])

\* A scan that no listing of the server failed has found the tree, whether or
\* not it was to use the cache (scan_remote.py:290; routes_diff.py:78).
FindsTheTree ==
  scans > 0 /\ target = None /\ Failing = {} => \A d \in Dirs : result[d] # None

\* Every scan comes to its end.
ScanEnds == target # None ~> target = None

-----------------------------------------------------------------------------
\* For instances: directories 1, 2, ... as a tree in which d has the two kids
\* 2 * d and 2 * d + 1, as far as they are there.
BinaryTree == [d \in Dirs |-> {2 * d, 2 * d + 1} \cap Dirs]
=============================================================================
