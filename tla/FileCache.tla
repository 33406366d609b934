------------------------------- MODULE FileCache -------------------------------
(***************************************************************************)
(* Remote file contents through the JSON cache on disk: get_file_cached of *)
(* core/diff/scan_remote.py over core/cache.py, with the three things that *)
(* delete cache files behind its back (api/routes_cache.py, the eviction   *)
(* loop of api/server.py, /api/diff/invalidate) and with set_repo.         *)
(*                                                                         *)
(* Files are modelled the way the file system has them: a name refers to   *)
(* an inode, open("w") empties it, os.replace moves the name, and whoever  *)
(* has it open goes on writing to it wherever it is.                       *)
(***************************************************************************)
EXTENDS Integers, FiniteSets, TLC

CONSTANTS
  Repos, Paths,
  Slots,        \* names of cache files within a namespace
  SlotOf,       \* _cache_path: the slot of a path, "/" "\" and ":" become "_"
  Threads,      \* threads that read remote files
  Inodes,       \* as many as can be in use
  MaxPushes, MaxSwitches, MaxCrashes,
  RacySwitch,   \* may the user select another repository during a read?
  Clears,       \* how the user may clear the caches
  None, Torn    \* no file; what json.load cannot parse

ASSUME SlotAssumption == SlotOf \in [Paths -> Slots]
ASSUME SwitchAssumption == RacySwitch \in BOOLEAN /\ Clears \subseteq {"namespace", "diff"}
ASSUME BoundsAssumption ==
  MaxPushes \in Nat /\ MaxSwitches \in Nat /\ MaxCrashes \in Nat

VARIABLES
  selected,  \* client.repo_id
  remote,    \* the version of each file in each repository
  file,      \* <slot>.json
  tmp,       \* <slot>.json.tmp
  data,      \* what an inode holds
  reader,    \* per thread: its call of get_file_cached
  floor,     \* ghost: the version of a file when its cache was last cleared
  strayed,   \* ghost: the names for which another repository was asked
  switches, crashes

vars == <<selected, remote, file, tmp, data, reader, floor, strayed, switches, crashes>>

Keys == [repo: Repos, path: Paths]
Versions == 0..MaxPushes
Content == [key: Keys, version: Versions]
Data == Content \cup {Torn}
Names == [repo: Repos, slot: Slots]

\* Each name can hold a file and a temporary file, each thread an open one.
ASSUME InodesAssumption ==
  /\ IsFiniteSet(Names) /\ IsFiniteSet(Threads) /\ IsFiniteSet(Inodes)
  /\ Cardinality(Inodes) >= 2 * Cardinality(Names) + Cardinality(Threads)
ASSUME MarksAssumption ==
  /\ None \notin Inodes /\ None \notin Keys /\ None \notin Content
  /\ Torn \notin Content

NameShared(k) == [repo |-> CHOOSE r \in Repos : TRUE, slot |-> SlotOf[k.path]]
                                     \* mutant: one namespace for all
Name(k) == [repo |-> k.repo, slot |-> SlotOf[k.path]]

Steps == {"idle", "get", "fetch", "open", "write", "replace", "done"}
Reader == [at: Steps, key: Keys \cup {None}, got: Content \cup {None},
           fd: Inodes \cup {None}, floor: Versions]
IdleReader == [at |-> "idle", key |-> None, got |-> None, fd |-> None, floor |-> 0]

Init ==
  /\ selected \in Repos
  /\ remote = [k \in Keys |-> 0]
  /\ file = [n \in Names |-> None]
  /\ tmp = [n \in Names |-> None]
  /\ data = [i \in Inodes |-> Torn]
  /\ reader = [t \in Threads |-> IdleReader]
  /\ floor = [k \in Keys |-> 0]
  /\ strayed = {}
  /\ switches = 0 /\ crashes = 0

-----------------------------------------------------------------------------
(* The remote, the user, the process.                                      *)

Push(k) ==
  /\ remote[k] < MaxPushes
  /\ remote' = [remote EXCEPT ![k] = @ + 1]
  /\ UNCHANGED <<selected, file, tmp, data, reader, floor, strayed, switches, crashes>>

SetRepo(r) ==
  /\ r # selected /\ switches < MaxSwitches
  /\ RacySwitch \/ \A t \in Threads : reader[t].at \in {"idle", "done"}
  /\ selected' = r
  /\ switches' = switches + 1
  /\ UNCHANGED <<remote, file, tmp, data, reader, floor, strayed, crashes>>

\* Locks and open files go with the process, names and inodes stay.
Crash ==
  /\ crashes < MaxCrashes
  /\ crashes' = crashes + 1
  /\ reader' = [t \in Threads |-> IdleReader]
  /\ UNCHANGED <<selected, remote, file, tmp, data, floor, strayed, switches>>

\* evict_expired and the time to live in get: no lock is taken.
Unlink(n) ==
  /\ file[n] # None
  /\ file' = [file EXCEPT ![n] = None]
  /\ UNCHANGED <<selected, remote, tmp, data, reader, floor, strayed, switches, crashes>>

\* evict_expired also takes every *.tmp for the remains of a crash.
UnlinkTmp(n) ==
  /\ tmp[n] # None
  /\ tmp' = [tmp EXCEPT ![n] = None]
  /\ UNCHANGED <<selected, remote, file, data, reader, floor, strayed, switches, crashes>>

\* Who clears the caches expects a fresh read from then on, of the files that
\* nobody is reading at that moment.
Refreshed(r) ==
  {k \in Keys : /\ k.repo = r
                /\ \A t \in Threads : reader[t].key = k => reader[t].at = "done"}
Expect(r) ==
  floor' = [k \in Keys |-> IF k \in Refreshed(r) THEN remote[k] ELSE floor[k]]

ClearOfNothing(r) ==                 \* mutant: the name without its prefix
  /\ "namespace" \in Clears
  /\ Expect(r)
  /\ UNCHANGED <<selected, remote, file, tmp, data, reader, strayed, switches, crashes>>

\* DELETE /api/cache of a namespace.
Clear(r) ==
  /\ "namespace" \in Clears
  /\ file' = [n \in Names |-> IF n.repo = r THEN None ELSE file[n]]
  /\ Expect(r)
  /\ UNCHANGED <<selected, remote, tmp, data, reader, strayed, switches, crashes>>

\* POST /api/diff/invalidate clears the namespace str(repo_id), in which
\* nothing lies: contents are kept under file:<repo_id>.
DiffInvalidate ==
  /\ "diff" \in Clears
  /\ Expect(selected)
  /\ UNCHANGED <<selected, remote, file, tmp, data, reader, strayed, switches, crashes>>

-----------------------------------------------------------------------------
(* get_file_cached.                                                        *)

Step(t, r) == reader' = [reader EXCEPT ![t] = r]
Return(t, c) ==
  Step(t, [reader[t] EXCEPT !.at = "done", !.got = c, !.fd = None])

\* A handler takes the namespace from the selected repository, and gives the
\* rest to a thread.
Start(t, p) ==
  /\ reader[t].at \in {"idle", "done"}
  /\ LET k == [repo |-> selected, path |-> p] IN
     Step(t, [IdleReader EXCEPT !.at = "get", !.key = k, !.floor = floor[k]])
  /\ UNCHANGED <<selected, remote, file, tmp, data, floor, strayed, switches, crashes>>

\* Nobody holds the lock of this key: from open to os.replace.
LockIsFree(k) ==
  \A t \in Threads : reader[t].at \in {"write", "replace"} => reader[t].key # k

\* cache.get: a missing or torn file is a miss.
Get(t) ==
  /\ reader[t].at = "get" /\ LockIsFree(reader[t].key)
  /\ LET n == Name(reader[t].key) IN
     IF file[n] # None /\ data[file[n]] # Torn
     THEN Return(t, data[file[n]])
     ELSE Step(t, [reader[t] EXCEPT !.at = "fetch"])
  /\ UNCHANGED <<selected, remote, file, tmp, data, floor, strayed, switches, crashes>>

\* client.get_file asks for the repository that is selected now, which need
\* not be the one of the namespace any more.
Fetch(t) ==
  /\ reader[t].at = "fetch"
  /\ LET k == [reader[t].key EXCEPT !.repo = selected] IN
     /\ Step(t, [reader[t] EXCEPT !.at = "open",
                   !.got = [key |-> k, version |-> remote[k]]])
     /\ strayed' = IF k = reader[t].key THEN strayed
                   ELSE strayed \cup {Name(reader[t].key)}
  /\ UNCHANGED <<selected, remote, file, tmp, data, floor, switches, crashes>>

FetchFailsIntoCache(t) ==            \* mutant: the failure is stored
  /\ reader[t].at = "fetch"
  /\ Step(t, [reader[t] EXCEPT !.at = "open"])
  /\ UNCHANGED <<selected, remote, file, tmp, data, floor, strayed, switches, crashes>>

FetchFails(t) ==
  /\ reader[t].at = "fetch"
  /\ Return(t, None)
  /\ UNCHANGED <<selected, remote, file, tmp, data, floor, strayed, switches, crashes>>

-----------------------------------------------------------------------------
(* cache.set.                                                              *)

FreeInodes ==
  {i \in Inodes : /\ \A n \in Names : file[n] # i /\ tmp[n] # i
                  /\ \A t \in Threads : reader[t].fd # i}

NewInode == {CHOOSE i \in FreeInodes : TRUE}

OpenUnlocked(t) ==                   \* mutant: set without the key's lock
  /\ reader[t].at = "open"
  /\ LET n == Name(reader[t].key) IN
     \E i \in IF tmp[n] = None THEN NewInode ELSE {tmp[n]} :
       /\ tmp' = [tmp EXCEPT ![n] = i]
       /\ data' = [data EXCEPT ![i] = Torn]
       /\ Step(t, [reader[t] EXCEPT !.at = "write", !.fd = i])
  /\ UNCHANGED <<selected, remote, file, floor, strayed, switches, crashes>>

Open(t) ==
  /\ reader[t].at = "open" /\ LockIsFree(reader[t].key)
  /\ LET n == Name(reader[t].key) IN
     \E i \in IF tmp[n] = None THEN NewInode ELSE {tmp[n]} :
       /\ tmp' = [tmp EXCEPT ![n] = i]
       /\ data' = [data EXCEPT ![i] = Torn]
       /\ Step(t, [reader[t] EXCEPT !.at = "write", !.fd = i])
  /\ UNCHANGED <<selected, remote, file, floor, strayed, switches, crashes>>

\* Over what another thread has written there in the meantime, the longer of
\* the two leaves its tail.
Write(t) ==
  /\ reader[t].at = "write"
  /\ LET i == reader[t].fd IN
     \E d \in IF data[i] = Torn THEN {reader[t].got} ELSE {reader[t].got, Torn} :
       data' = [data EXCEPT ![i] = d]
  /\ Step(t, [reader[t] EXCEPT !.at = "replace"])
  /\ UNCHANGED <<selected, remote, file, tmp, floor, strayed, switches, crashes>>

\* A full disk, or a content that JSON cannot hold: the temporary file stays
\* behind as it is, and the content is answered all the same.
WriteFails(t) ==
  /\ reader[t].at = "write"
  /\ Return(t, reader[t].got)
  /\ UNCHANGED <<selected, remote, file, tmp, data, floor, strayed, switches, crashes>>

\* os.replace; without the temporary file it fails and the old file stays.
Replace(t) ==
  /\ reader[t].at = "replace"
  /\ LET n == Name(reader[t].key) IN
     /\ file' = IF tmp[n] = None THEN file ELSE [file EXCEPT ![n] = tmp[n]]
     /\ tmp' = [tmp EXCEPT ![n] = None]
  /\ Return(t, reader[t].got)
  /\ UNCHANGED <<selected, remote, data, floor, strayed, switches, crashes>>

-----------------------------------------------------------------------------
Read(t) ==
  \/ Get(t) \/ Fetch(t) \/ FetchFails(t)
  \/ Open(t) \/ Write(t) \/ WriteFails(t) \/ Replace(t)

Next ==
  \/ \E k \in Keys : Push(k)
  \/ \E r \in Repos : SetRepo(r) \/ Clear(r)
  \/ Crash \/ DiffInvalidate
  \/ \E n \in Names : Unlink(n) \/ UnlinkTmp(n)
  \/ \E t \in Threads, p \in Paths : Start(t, p)
  \/ \E t \in Threads : Read(t)

Spec == Init /\ [][Next]_vars

-----------------------------------------------------------------------------
(* Properties.                                                             *)

TypeOK ==
  /\ selected \in Repos
  /\ remote \in [Keys -> Versions]
  /\ file \in [Names -> Inodes \cup {None}]
  /\ tmp \in [Names -> Inodes \cup {None}]
  /\ data \in [Inodes -> Data]
  /\ reader \in [Threads -> Reader]
  /\ floor \in [Keys -> Versions]
  /\ strayed \subseteq Names
  /\ switches \in 0..MaxSwitches /\ crashes \in 0..MaxCrashes

\* A reader sees the old file or the complete new one, never a half-written
\* one, whoever writes, evicts or dies meanwhile (cache.set's docstring).  It
\* takes a slot for every path: the locks are those of the keys.
NeverTorn == \A n \in Names : file[n] # None => data[file[n]] # Torn

\* What a cached file holds was fetched for a path of that slot, and for the
\* repository of the namespace; for another one only where a switch of
\* repositories has come between a call and its fetch.
Belongs(c, n) == /\ SlotOf[c.key.path] = n.slot
                 /\ c.key.repo = n.repo \/ n \in strayed

\* Whatever the cache is made to go through, a read answers nothing that was
\* not fetched for the slot and the namespace it was asked for.  Repositories
\* are mixed up under a name where a switch has overtaken a read of it, and
\* nowhere else.
AnswersBelong ==
  \A t \in Threads : reader[t].at = "done" /\ reader[t].got # None
                       => Belongs(reader[t].got, Name(reader[t].key))

\* What a read answers is the file it was asked for, of the repository that
\* was selected when it was asked: "used to isolate the caches of different
\* repositories" (get_file_cached's docstring on the namespace).  A switch
\* between the call and client.get_file breaks it.
AnswersOwnFile ==
  \A t \in Threads : reader[t].at = "done" /\ reader[t].got # None
                       => reader[t].got.key = reader[t].key

\* A read that starts after the cache was cleared does not bring back what was
\* in the remote before, unless another read of the file was under way: "forces
\* a new pull next time" (api_diff_invalidate's docstring).  Clearing the
\* namespace of the contents does that, api_diff_invalidate clears another one.
FreshAfterClear ==
  \A t \in Threads : reader[t].at = "done" /\ reader[t].got # None
                       => reader[t].got.version >= reader[t].floor

-----------------------------------------------------------------------------
(***************************************************************************)
(* For instances: every path has a slot of its own, or all share one (the  *)
(* paths "a/b" and "a_b"); threads, repositories and paths are             *)
(* interchangeable; floor decides nothing that is done.                    *)
(***************************************************************************)
OwnSlot == [p \in Paths |-> p]
SharedSlot == [p \in Paths |-> CHOOSE s \in Slots : TRUE]
Symmetry == Permutations(Threads) \cup Permutations(Repos) \cup Permutations(Paths)
WithoutFloor ==
  <<selected, remote, file, tmp, data, strayed, switches, crashes,
    [t \in Threads |-> [reader[t] EXCEPT !.floor = 0]]>>
=============================================================================
