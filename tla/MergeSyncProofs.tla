-------------------------- MODULE MergeSyncProofs --------------------------
(***************************************************************************)
(* What TLAPS proves of MergeSync, for any files, tabs and contents, any   *)
(* failures, any interleaving and any number of crashes: types, that every *)
(* snapshot in the manifest has its base on disk unless a base could not   *)
(* be written, where an empty file can come from, and that a write that    *)
(* broke off is not taken for done; and, for an undisturbed use, that a    *)
(* merge asks before it overwrites and that the conflicts it reports are   *)
(* real.                                                                   *)
(***************************************************************************)
EXTENDS MergeSync, TLAPS

\* While a fetched content is carried through a request it is there.
Carrying == {"check", "judge", "open", "fill", "record", "base"}

GotKnown ==
  \A t \in Tabs, f \in Files :
    job[t].stage[f] \in Carrying => job[t].got[f] \in Content

\* A content still to be written is there.
SavingFull ==
  saving # None /\ saving.step \in {"open", "fill"} => saving.content \in Content

\* A batch's manifest in memory is ahead of the bases only while a thread is
\* still writing the base of the file recorded last.
MemBased ==
  "base" \notin Failures =>
    \A t \in Tabs, f \in Files :
      job[t].mem[f] # None /\ job[t].mem[f].remote # None =>
        \/ job[t].mem[f].remote \in bases
        \/ /\ job[t].stage[f] = "base"
           /\ job[t].mem[f].remote = job[t].got[f]

\* The record about to be saved has its base, or writes it first.
SavingBased ==
  "base" \notin Failures =>
    (saving # None /\ saving.rec.remote # None =>
       \/ saving.rec.remote \in bases
       \/ saving.step # "manifest" /\ saving.base = saving.rec.remote)

DiskBased == "base" \notin Failures => BaseBeforeSnapshot

IInv ==
  TypeOK /\ GotKnown /\ SavingFull /\ MemBased /\ SavingBased /\ DiskBased

-----------------------------------------------------------------------------
(* What the three ways of writing into a job do to it.                     *)

SameJobBut(t, f) ==
  \A u \in Tabs : 
    /\ job'[u].kind = job[u].kind
    /\ \A g \in Files : <<u, g>> # <<t, f>> =>
         /\ job'[u].stage[g] = job[u].stage[g]
         /\ job'[u].got[g] = job[u].got[g]
         /\ job'[u].mem[g] = job[u].mem[g]

LEMMA JobFields ==
  ASSUME job \in [Tabs -> Job], NEW t \in Tabs
  PROVE  /\ job[t] \in Job
         /\ job[t].mem \in Manifest
         /\ job[t].stage \in [Files -> Stages]
         /\ job[t].got \in [Files -> Maybe(Content)]
         /\ job[t].kind \in {"idle", "single", "batch"}
         /\ job[t].cached \in BOOLEAN
  BY DEF Job

LEMMA StageUpdate ==
  ASSUME job \in [Tabs -> Job], NEW t \in Tabs, NEW f \in Files,
         NEW s \in Stages, job' = [job EXCEPT ![t].stage[f] = s]
  PROVE  /\ job' \in [Tabs -> Job]
         /\ SameJobBut(t, f)
         /\ job'[t].stage[f] = s
         /\ job'[t].got = job[t].got
         /\ job'[t].mem = job[t].mem
<1> DEFINE R == [job[t] EXCEPT !.stage[f] = s]
<1>1. job[t] \in Job /\ job[t].stage \in [Files -> Stages]
  BY JobFields
<1>2. job' = [job EXCEPT ![t] = R]
  OBVIOUS
<1>3. [job[t].stage EXCEPT ![f] = s] \in [Files -> Stages]
  BY <1>1
<1>4. R \in Job
  BY <1>1, <1>3 DEF Job
<1>5. /\ R.stage = [job[t].stage EXCEPT ![f] = s]
      /\ R.kind = job[t].kind /\ R.got = job[t].got /\ R.mem = job[t].mem
  BY <1>1 DEF Job
<1> HIDE DEF R
<1>6. job' \in [Tabs -> Job] /\ job'[t] = R /\ \A u \in Tabs : u # t => job'[u] = job[u]
  BY <1>2, <1>4
<1>7. SameJobBut(t, f)
  BY <1>1, <1>5, <1>6 DEF SameJobBut
<1> QED
  BY <1>1, <1>5, <1>6, <1>7

LEMMA GotUpdate ==
  ASSUME job \in [Tabs -> Job], NEW t \in Tabs, NEW f \in Files,
         NEW s \in Stages, NEW c \in Maybe(Content),
         job' = [job EXCEPT ![t].stage[f] = s, ![t].got[f] = c]
  PROVE  /\ job' \in [Tabs -> Job]
         /\ SameJobBut(t, f)
         /\ job'[t].stage[f] = s
         /\ job'[t].got[f] = c
         /\ job'[t].mem = job[t].mem
<1> DEFINE R == [job[t] EXCEPT !.stage[f] = s, !.got[f] = c]
<1>1. job[t] \in Job /\ job[t].stage \in [Files -> Stages]
      /\ job[t].got \in [Files -> Maybe(Content)]
  BY JobFields
<1>2. job' = [job EXCEPT ![t] = R]
  OBVIOUS
<1>3. /\ [job[t].stage EXCEPT ![f] = s] \in [Files -> Stages]
      /\ [job[t].got EXCEPT ![f] = c] \in [Files -> Maybe(Content)]
  BY <1>1
<1>4. R \in Job
  BY <1>1, <1>3 DEF Job
<1>5. /\ R.stage = [job[t].stage EXCEPT ![f] = s]
      /\ R.got = [job[t].got EXCEPT ![f] = c]
      /\ R.kind = job[t].kind /\ R.mem = job[t].mem
  BY <1>1 DEF Job
<1> HIDE DEF R
<1>6. job' \in [Tabs -> Job] /\ job'[t] = R /\ \A u \in Tabs : u # t => job'[u] = job[u]
  BY <1>2, <1>4
<1>7. SameJobBut(t, f)
  BY <1>1, <1>5, <1>6 DEF SameJobBut
<1> QED
  BY <1>1, <1>5, <1>6, <1>7

LEMMA MemUpdate ==
  ASSUME job \in [Tabs -> Job], NEW t \in Tabs, NEW f \in Files,
         NEW s \in Stages, NEW r \in Rec,
         job' = [job EXCEPT ![t].mem[f] = r, ![t].stage[f] = s]
  PROVE  /\ job' \in [Tabs -> Job]
         /\ SameJobBut(t, f)
         /\ job'[t].stage[f] = s
         /\ job'[t].mem[f] = r
         /\ job'[t].got = job[t].got
<1> DEFINE R == [job[t] EXCEPT !.mem[f] = r, !.stage[f] = s]
<1>1. job[t] \in Job /\ job[t].stage \in [Files -> Stages] /\ job[t].mem \in Manifest
  BY JobFields
<1>2. job' = [job EXCEPT ![t] = R]
  OBVIOUS
<1>3. /\ [job[t].stage EXCEPT ![f] = s] \in [Files -> Stages]
      /\ [job[t].mem EXCEPT ![f] = r] \in Manifest
  BY <1>1 DEF Manifest, Maybe
<1>4. R \in Job
  BY <1>1, <1>3 DEF Job
<1>5. /\ R.stage = [job[t].stage EXCEPT ![f] = s]
      /\ R.mem = [job[t].mem EXCEPT ![f] = r]
      /\ R.kind = job[t].kind /\ R.got = job[t].got
  BY <1>1 DEF Job
<1> HIDE DEF R
<1>6. job' \in [Tabs -> Job] /\ job'[t] = R /\ \A u \in Tabs : u # t => job'[u] = job[u]
  BY <1>2, <1>4
<1>7. SameJobBut(t, f)
  BY <1>1, <1>5, <1>6 DEF SameJobBut, Manifest
<1> QED
  BY <1>1, <1>5, <1>6, <1>7 DEF Manifest

\* A tab whose request is over carries nothing.
LEMMA IdleUpdate ==
  ASSUME job \in [Tabs -> Job], NEW t \in Tabs,
         job' = [job EXCEPT ![t] = IdleJob]
  PROVE  /\ job' \in [Tabs -> Job]
         /\ \A u \in Tabs : u # t => job'[u] = job[u]
         /\ \A f \in Files : job'[t].stage[f] = "none" /\ job'[t].mem[f] = None
<1>1. IdleJob \in Job
  BY DEF IdleJob, Job, NoManifest, Manifest, Maybe, Stages
<1>2. \A f \in Files : IdleJob.stage[f] = "none" /\ IdleJob.mem[f] = None
  BY DEF IdleJob, NoManifest
<1> QED
  BY <1>1, <1>2

-----------------------------------------------------------------------------
(* What these updates keep of the invariant.                               *)

LEMMA StageKeeps ==
  ASSUME IInv, NEW t \in Tabs, NEW f \in Files, NEW s \in Stages,
         SetStage(t, f, s),
         s \in Carrying => job[t].got[f] \in Content,
         bases \subseteq bases',
         "base" \notin Failures /\ job[t].stage[f] = "base" =>
           job[t].got[f] \in bases'
  PROVE  job' \in [Tabs -> Job] /\ GotKnown' /\ MemBased'
<1>1. job \in [Tabs -> Job] /\ GotKnown /\ MemBased
  BY DEF IInv, TypeOK
<1>2. /\ job' \in [Tabs -> Job]
      /\ SameJobBut(t, f)
      /\ job'[t].stage[f] = s
      /\ job'[t].got = job[t].got
      /\ job'[t].mem = job[t].mem
  BY <1>1, StageUpdate DEF SetStage
<1>3. GotKnown'
  BY <1>1, <1>2 DEF GotKnown, SameJobBut
<1>4. MemBased'
  BY <1>1, <1>2 DEF MemBased, SameJobBut
<1> QED
  BY <1>2, <1>3, <1>4

LEMMA FinishKeeps ==
  ASSUME IInv, NEW t \in Tabs, Finish(t), bases \subseteq bases'
  PROVE  job' \in [Tabs -> Job] /\ GotKnown' /\ MemBased'
<1>1. job \in [Tabs -> Job] /\ GotKnown /\ MemBased
  BY DEF IInv, TypeOK
<1>2. /\ job' \in [Tabs -> Job]
      /\ \A u \in Tabs : u # t => job'[u] = job[u]
      /\ \A f \in Files : job'[t].stage[f] = "none" /\ job'[t].mem[f] = None
  BY <1>1, IdleUpdate DEF Finish
<1>3. GotKnown'
  BY <1>1, <1>2 DEF GotKnown, Carrying
<1>4. MemBased'
  BY <1>1, <1>2 DEF MemBased
<1> QED
  BY <1>2, <1>3, <1>4

LEMMA SameJobKeeps ==
  ASSUME IInv, UNCHANGED job, bases \subseteq bases'
  PROVE  job' \in [Tabs -> Job] /\ GotKnown' /\ MemBased'
  BY DEF IInv, TypeOK, GotKnown, MemBased

\* Nothing that concerns the manifest on disk or its bases has moved.
LEMMA DiskKeeps ==
  ASSUME IInv, UNCHANGED disk, bases \subseteq bases'
  PROVE  disk' \in Manifest /\ DiskBased'
  BY DEF IInv, TypeOK, DiskBased, BaseBeforeSnapshot

LEMMA SavingKeeps ==
  ASSUME IInv, saving' \in {saving, None}, bases \subseteq bases'
  PROVE  saving' \in Maybe(Saving) /\ SavingFull' /\ SavingBased'
  BY DEF IInv, TypeOK, SavingFull, SavingBased, Maybe

LEMMA SpendKeeps ==
  ASSUME TypeOK, NEW what \in {"edits", "pushes", "merges", "crashes"},
         Spend(what)
  PROVE  budget' \in [edits: Nat, pushes: Nat, merges: Nat, crashes: Nat]
  BY DEF TypeOK, Spend

LEMMA HelperTypes ==
  /\ EmptyContent \in Content
  /\ Broken \in Rec
  /\ \A c \in Maybe(Content) : Synced(c) \in Rec
  /\ \A c \in Content : ReadText(c) \in Content
  /\ \A m \in Content, r \in Maybe(Rec) : Kept(r, m) \in Rec
  /\ \A c : IsEmpty(c) \in BOOLEAN
<1>1. EmptyContent \in Content
  BY EmptyAssumption DEF EmptyContent, Content
<1>2. Broken \in Rec /\ \A c \in Maybe(Content) : Synced(c) \in Rec
  BY DEF Broken, Synced, Rec, Maybe
<1>3. \A c \in Content : ReadText(c) \in Content
  BY EmptyAssumption DEF ReadText, Content
<1>6. \A m \in Content, r \in Maybe(Rec) : Kept(r, m) \in Rec
  BY DEF Kept, Rec, Maybe
<1>7. \A c : IsEmpty(c) \in BOOLEAN
  BY DEF IsEmpty
<1> QED
  BY <1>1, <1>2, <1>3, <1>6, <1>7

-----------------------------------------------------------------------------
LEMMA InitIInv == Init => IInv
<1> SUFFICES ASSUME Init PROVE IInv
  OBVIOUS
<1> USE DEF Init
<1>1. NoManifest \in Manifest
  BY DEF NoManifest, Manifest, Maybe
<1>2. IdleJob \in Job
  BY <1>1 DEF IdleJob, Job, Maybe, Stages
<1>3. hadEmpty \in [Files -> BOOLEAN]
  BY HelperTypes
<1>4. TypeOK
  BY <1>1, <1>2, <1>3, BudgetAssumption DEF TypeOK, Maybe
<1>5. GotKnown
  BY DEF GotKnown, Carrying, IdleJob
<1>6. MemBased
  BY DEF MemBased, IdleJob, NoManifest
<1>7. SavingFull /\ SavingBased
  BY DEF SavingFull, SavingBased
<1>8. DiskBased
  BY DEF DiskBased, BaseBeforeSnapshot, NoManifest
<1> QED
  BY <1>4, <1>5, <1>6, <1>7, <1>8 DEF IInv

-----------------------------------------------------------------------------
(* The steps of the user, the remote and the cache, and a crash.           *)

\* The steps that leave requests, manifest and bases alone.
LEMMA QuietStep ==
  ASSUME IInv, UNCHANGED <<disk, bases, job>>, saving' \in {saving, None}, TypeOK'
  PROVE  IInv'
<1>1. bases \subseteq bases'
  OBVIOUS
<1>2. GotKnown' /\ MemBased'
  BY <1>1, SameJobKeeps
<1>3. DiskBased' /\ SavingFull' /\ SavingBased'
  BY <1>1, DiskKeeps, SavingKeeps
<1> QED
  BY <1>2, <1>3 DEF IInv

LEMMA EnvironmentStep == IInv /\ Environment => IInv'
<1> SUFFICES ASSUME IInv, Environment PROVE IInv'
  OBVIOUS
<1>0. TypeOK
  BY DEF IInv
<1>1. CASE \E f \in Files : CacheExpires(f)
  <2> PICK f \in Files : CacheExpires(f)
    BY <1>1
  <2>1. cache' \in [Files -> Maybe(Content)]
    BY <1>0 DEF TypeOK, CacheExpires, Maybe
  <2>2. TypeOK'
    BY <1>0, <2>1 DEF TypeOK, CacheExpires
  <2> QED
    BY <2>2, QuietStep DEF CacheExpires
<1>2. CASE \E f \in Files, c \in Maybe(Content) : Edit(f, c)
  <2> PICK f \in Files, c \in Maybe(Content) : Edit(f, c)
    BY <1>2
  <2>1. /\ local' \in [Files -> Maybe(Content)] /\ hadEmpty' \in [Files -> BOOLEAN]
        /\ cut' \in [Files -> BOOLEAN]
    BY <1>0, HelperTypes DEF TypeOK, Edit, Put
  <2>2. budget' \in [edits: Nat, pushes: Nat, merges: Nat, crashes: Nat]
    BY <1>0, SpendKeeps DEF Edit
  <2>3. TypeOK'
    BY <1>0, <2>1, <2>2 DEF TypeOK, Edit
  <2> QED
    BY <2>3, QuietStep DEF Edit
<1>3. CASE \E f \in Files, c \in Content : Push(f, c)
  <2> PICK f \in Files, c \in Content : Push(f, c)
    BY <1>3
  <2>1. remote' \in [Files -> Content] /\ hadEmpty' \in [Files -> BOOLEAN]
    BY <1>0, HelperTypes DEF TypeOK, Push
  <2>2. budget' \in [edits: Nat, pushes: Nat, merges: Nat, crashes: Nat]
    BY <1>0, SpendKeeps DEF Push
  <2>3. TypeOK'
    BY <1>0, <2>1, <2>2 DEF TypeOK, Push
  <2> QED
    BY <2>3, QuietStep DEF Push
<1>4. CASE Crash
  <2>1. IdleJob \in Job
    BY DEF IdleJob, Job, NoManifest, Manifest, Maybe, Stages
  <2>2. budget' \in [edits: Nat, pushes: Nat, merges: Nat, crashes: Nat]
    BY <1>0, <1>4, SpendKeeps DEF Crash
  <2>3. TypeOK'
    BY <1>0, <1>4, <2>1, <2>2 DEF TypeOK, Crash, Maybe
  <2>4. GotKnown' /\ MemBased'
    BY <1>4 DEF Crash, GotKnown, MemBased, IdleJob, NoManifest, Carrying
  <2>5. SavingFull' /\ SavingBased'
    BY <1>4 DEF Crash, SavingFull, SavingBased
  <2>6. DiskBased'
    BY <1>4 DEF Crash, DiskBased, BaseBeforeSnapshot, IInv
  <2> QED
    BY <2>3, <2>4, <2>5, <2>6 DEF IInv
<1> QED
  BY <1>1, <1>2, <1>3, <1>4 DEF Environment

-----------------------------------------------------------------------------
(* The synchronous tail of a handler.                                      *)

LEMMA TailUpdate ==
  ASSUME TypeOK, NEW step \in {"open", "fill", "base", "manifest"},
         Tailing(step), NEW next \in {"open", "fill", "base", "manifest"},
         TailNext(next)
  PROVE  /\ saving \in Saving /\ saving.step = step
         /\ saving' \in Saving /\ saving' # None
         /\ saving'.step = next /\ saving'.file = saving.file
         /\ saving'.rec = saving.rec /\ saving'.base = saving.base
         /\ saving'.content = saving.content /\ saving'.theirs = saving.theirs
         /\ saving'.asked = saving.asked
<1>1. saving \in Saving /\ saving.step = step
  BY DEF TypeOK, Tailing, Maybe
<1>2. saving' \in Saving
  BY <1>1 DEF TailNext, Saving
<1>3. saving' # None
  BY <1>2, RecordsAssumption
<1> QED
  BY <1>1, <1>2, <1>3 DEF TailNext, Saving

\* The steps of the tail that leave bases and manifest alone.
LEMMA TailQuietStep ==
  ASSUME IInv, NEW step \in {"open", "fill", "base", "manifest"}, Tailing(step),
         NEW next \in {"fill", "base"}, TailNext(next), step # "manifest",
         next = "fill" => step = "open",
         UNCHANGED <<disk, bases, job>>, saving' \in Saving => TypeOK'
  PROVE  IInv'
<1>0. TypeOK /\ SavingFull /\ SavingBased
  BY DEF IInv
<1>1. /\ saving \in Saving /\ saving.step = step
      /\ saving' \in Saving /\ saving' # None
      /\ saving'.step = next /\ saving'.file = saving.file
      /\ saving'.rec = saving.rec /\ saving'.base = saving.base
      /\ saving'.content = saving.content /\ saving'.theirs = saving.theirs
      /\ saving'.asked = saving.asked
  BY <1>0, TailUpdate
<1>2. SavingFull' /\ SavingBased'
  BY <1>0, <1>1 DEF SavingFull, SavingBased, Tailing
<1>3. GotKnown' /\ MemBased' /\ DiskBased'
  BY SameJobKeeps, DiskKeeps
<1> QED
  BY <1>1, <1>2, <1>3 DEF IInv

LEMMA AgreeType ==
  ASSUME TypeOK, NEW f \in Files, NEW ours \in Maybe(Content),
         NEW theirs \in Content, Agree(f, ours, theirs)
  PROVE  agreed' \in [Files -> Maybe(Agreement)]
<1>1. [ours |-> ours, theirs |-> theirs] \in Agreement
  BY DEF Agreement
<1> QED
  BY <1>1 DEF Agree, TypeOK, Maybe

LEMMA FileTypes ==
  ASSUME TypeOK, NEW f \in Files
  PROVE  /\ Truncate(f) => local' \in [Files -> Maybe(Content)]
                           /\ cut' \in [Files -> BOOLEAN]
         /\ \A c \in Maybe(Content) : Put(f, c) =>
              local' \in [Files -> Maybe(Content)] /\ cut' \in [Files -> BOOLEAN]
<1>1. /\ local \in [Files -> Maybe(Content)] /\ cut \in [Files -> BOOLEAN]
      /\ EmptyContent \in Maybe(Content)
  BY HelperTypes DEF TypeOK, Maybe
<1> QED
  BY <1>1 DEF Truncate, Put

LEMMA TailStep == IInv /\ Tail => IInv'
<1> SUFFICES ASSUME IInv, Tail PROVE IInv'
  OBVIOUS
<1>0. TypeOK /\ SavingFull /\ SavingBased /\ DiskBased
  BY DEF IInv
<1>a. saving \in Saving /\ saving.file \in Files /\ saving.theirs \in Content
  BY <1>0 DEF TypeOK, Tail, LeaveFile, OpenFile, FillFile, WriteFileFails,
              SaveBase, SaveBaseFails, SaveManifest, SaveManifestFails, Tailing,
              Maybe, Saving
<1>1. CASE SaveBase
  <2>1. saving.base \in Maybe(Content)
    BY <1>a DEF Saving
  <2>2. /\ saving' \in Saving /\ saving'.rec = saving.rec
        /\ saving'.step = "manifest"
    BY <1>0, <1>1, TailUpdate DEF SaveBase
  <2>3. bases \subseteq bases' /\ bases' \subseteq Content
    BY <1>0, <1>1, <2>1 DEF SaveBase, TypeOK, Maybe
  <2>4. job' \in [Tabs -> Job] /\ GotKnown' /\ MemBased'
    BY <1>1, <2>3, SameJobKeeps DEF SaveBase
  <2>5. disk' \in Manifest /\ DiskBased'
    BY <1>1, <2>3, DiskKeeps DEF SaveBase
  <2>6. "base" \notin Failures /\ saving.rec.remote # None =>
          saving.rec.remote \in bases'
    BY <1>0, <1>1, <2>3 DEF SaveBase, SavingBased, Tailing
  <2>7. SavingFull' /\ SavingBased'
    BY <2>2, <2>6 DEF SavingFull, SavingBased
  <2>8. TypeOK'
    BY <1>0, <1>1, <2>2, <2>3, <2>4, <2>5 DEF TypeOK, SaveBase, Maybe
  <2> QED
    BY <2>4, <2>5, <2>7, <2>8 DEF IInv
<1>2. CASE SaveManifest
  <2>1. saving.rec \in Rec
    BY <1>a DEF Saving
  <2>2. bases' = bases /\ job' = job /\ saving' = None
    BY <1>2 DEF SaveManifest
  <2>3. job' \in [Tabs -> Job] /\ GotKnown' /\ MemBased'
    BY <2>2, SameJobKeeps
  <2>4. disk' \in Manifest
    BY <1>0, <1>2, <1>a, <2>1 DEF SaveManifest, TypeOK, Manifest, Maybe
  <2>5. "base" \notin Failures /\ saving.rec.remote # None =>
          saving.rec.remote \in bases
    BY <1>0, <1>2 DEF SaveManifest, SavingBased, Tailing
  <2>6. DiskBased'
    BY <1>0, <1>2, <1>a, <2>1, <2>2, <2>5
    DEF SaveManifest, DiskBased, BaseBeforeSnapshot, TypeOK, Manifest
  <2>7. SavingFull' /\ SavingBased'
    BY <2>2 DEF SavingFull, SavingBased
  <2>8. TypeOK'
    BY <1>0, <1>2, <2>3, <2>4 DEF TypeOK, SaveManifest, Maybe
  <2> QED
    BY <2>3, <2>6, <2>7, <2>8 DEF IInv
<1>3. CASE LeaveFile
  <2>1. agreed' \in [Files -> Maybe(Agreement)]
    <3>1. local[saving.file] \in Maybe(Content)
      BY <1>0, <1>a DEF TypeOK
    <3> QED
      BY <1>0, <1>3, <1>a, <3>1, AgreeType DEF LeaveFile
  <2>2. saving' \in Saving => TypeOK'
    BY <1>0, <1>3, <2>1 DEF LeaveFile, TypeOK, Maybe
  <2> QED
    BY <1>3, <2>2, TailQuietStep DEF LeaveFile
<1>4. CASE OpenFile
  <2>1. local' \in [Files -> Maybe(Content)] /\ cut' \in [Files -> BOOLEAN]
    BY <1>0, <1>4, <1>a, FileTypes DEF OpenFile
  <2>2. saving' \in Saving => TypeOK'
    BY <1>0, <1>4, <2>1 DEF OpenFile, TypeOK, Maybe
  <2> QED
    BY <1>4, <2>2, TailQuietStep DEF OpenFile
<1>5. CASE FillFile
  <2>1. saving.content \in Content /\ saving.content \in Maybe(Content)
    BY <1>0, <1>5 DEF FillFile, Tailing, SavingFull, Maybe
  <2>2. /\ local' \in [Files -> Maybe(Content)] /\ cut' \in [Files -> BOOLEAN]
        /\ agreed' \in [Files -> Maybe(Agreement)]
    BY <1>0, <1>5, <1>a, <2>1, FileTypes, AgreeType DEF FillFile
  <2>3. saving' \in Saving => TypeOK'
    BY <1>0, <1>5, <2>2 DEF FillFile, TypeOK, Maybe
  <2> QED
    BY <1>5, <2>3, TailQuietStep DEF FillFile
<1>6. CASE WriteFileFails
  <2>1. TypeOK'
    BY <1>0, <1>6 DEF WriteFileFails, TypeOK, Maybe
  <2> QED
    BY <1>6, <2>1, QuietStep DEF WriteFileFails
<1>7. CASE SaveManifestFails
  <2>1. TypeOK'
    BY <1>0, <1>7 DEF SaveManifestFails, TypeOK, Maybe
  <2> QED
    BY <1>7, <2>1, QuietStep DEF SaveManifestFails
<1>8. CASE SaveBaseFails
  <2>1. saving' \in Saving /\ saving'.step = "manifest"
    BY <1>0, <1>8, TailUpdate DEF SaveBaseFails
  <2>2. SavingFull' /\ SavingBased'
    BY <1>8, <2>1 DEF SavingFull, SavingBased, SaveBaseFails
  <2>3. GotKnown' /\ MemBased' /\ DiskBased'
    BY <1>8, SameJobKeeps, DiskKeeps DEF SaveBaseFails
  <2>4. TypeOK'
    BY <1>0, <1>8, <2>1 DEF SaveBaseFails, TypeOK, Maybe
  <2> QED
    BY <2>2, <2>3, <2>4 DEF IInv
<1> QED
  BY <1>1, <1>2, <1>3, <1>4, <1>5, <1>6, <1>7, <1>8 DEF Tail

-----------------------------------------------------------------------------
(* The steps of a request.                                                 *)

\* The steps that move one file of a request from one stage to the next.
LEMMA StageStep ==
  ASSUME IInv, NEW t \in Tabs, NEW f \in Files, NEW s \in Stages,
         SetStage(t, f, s),
         s \in Carrying => job[t].got[f] \in Content,
         bases \subseteq bases',
         "base" \notin Failures /\ job[t].stage[f] = "base" =>
           job[t].got[f] \in bases',
         UNCHANGED <<disk, saving>>,
         job' \in [Tabs -> Job] => TypeOK'
  PROVE  IInv'
<1>1. job' \in [Tabs -> Job] /\ GotKnown' /\ MemBased'
  BY StageKeeps
<1>2. DiskBased' /\ SavingFull' /\ SavingBased'
  BY DiskKeeps, SavingKeeps
<1> QED
  BY <1>1, <1>2 DEF IInv

\* The steps that only end a request.
LEMMA FinishStep ==
  ASSUME IInv, NEW t \in Tabs, Finish(t), UNCHANGED <<disk, bases, saving>>,
         job' \in [Tabs -> Job] => TypeOK'
  PROVE  IInv'
<1>1. job' \in [Tabs -> Job] /\ GotKnown' /\ MemBased'
  BY FinishKeeps
<1>2. DiskBased' /\ SavingFull' /\ SavingBased'
  BY DiskKeeps, SavingKeeps
<1> QED
  BY <1>1, <1>2 DEF IInv

LEMMA FetchStep ==
  ASSUME IInv, NEW t \in Tabs, NEW f \in Files, Fetch(t, f)
  PROVE  IInv'
<1>0. TypeOK /\ GotKnown /\ MemBased
  BY DEF IInv
<1>1. Fetched(t, f) \in Content
  BY <1>0 DEF Fetched, TypeOK, Maybe
<1>2. Fetched(t, f) \in Maybe(Content) /\ "check" \in Stages
  BY <1>1 DEF Maybe, Stages
<1>3. job \in [Tabs -> Job]
      /\ job' = [job EXCEPT ![t].stage[f] = "check", ![t].got[f] = Fetched(t, f)]
  BY <1>0 DEF Fetch, TypeOK
<1>4. /\ job' \in [Tabs -> Job]
      /\ SameJobBut(t, f)
      /\ job'[t].stage[f] = "check"
      /\ job'[t].got[f] = Fetched(t, f)
      /\ job'[t].mem = job[t].mem
  BY <1>2, <1>3, GotUpdate
<1>5. GotKnown'
  BY <1>0, <1>1, <1>4 DEF GotKnown, SameJobBut
<1>6. MemBased'
  BY <1>0, <1>4 DEF MemBased, SameJobBut, Fetch, At
<1>7. DiskBased' /\ SavingFull' /\ SavingBased'
  BY DiskKeeps, SavingKeeps DEF Fetch
<1>8. cache' \in [Files -> Maybe(Content)]
  BY <1>0, <1>2 DEF Fetch, TypeOK
<1>9. TypeOK'
  BY <1>0, <1>4, <1>8 DEF TypeOK, Fetch
<1> QED
  BY <1>5, <1>6, <1>7, <1>9 DEF IInv

LEMMA BeginSingleStep ==
  ASSUME IInv, NEW t \in Tabs, NEW f \in Files, BeginSingle(t, f)
  PROVE  IInv'
<1> DEFINE c == job[t].got[f]
<1>0. TypeOK /\ GotKnown
  BY DEF IInv
<1>1. c \in Content
  BY <1>0 DEF GotKnown, BeginSingle, Checks, At, Carrying
<1>2. /\ saving' = [file |-> f, content |-> c, theirs |-> c, rec |-> Synced(c),
                    base |-> c, asked |-> FALSE, step |-> "open"]
      /\ Finish(t)
      /\ UNCHANGED <<local, remote, cache, disk, bases, panel, budget, agreed,
                     hadEmpty, cut>>
  BY DEF BeginSingle
<1>3. c \in Maybe(Content) /\ Synced(c) \in Rec
  BY <1>1, HelperTypes DEF Maybe
<1> HIDE DEF c
<1>4. saving' \in Saving
  BY <1>1, <1>2, <1>3 DEF Saving
<1>5. SavingFull' /\ SavingBased'
  BY <1>1, <1>2 DEF SavingFull, SavingBased, Synced
<1>6. job' \in [Tabs -> Job] /\ GotKnown' /\ MemBased'
  BY <1>2, FinishKeeps
<1>7. DiskBased'
  BY <1>2, DiskKeeps
<1>8. TypeOK'
  BY <1>0, <1>2, <1>4, <1>6 DEF TypeOK, Maybe
<1> QED
  BY <1>5, <1>6, <1>7, <1>8 DEF IInv

\* The steps of a batch's write.
LEMMA WriteStep ==
  ASSUME IInv, NEW t \in Tabs, NEW f \in Files,
         Judge(t, f) \/ Leave(t, f) \/ Open(t, f) \/ Fill(t, f)
  PROVE  IInv'
<1>0. TypeOK /\ GotKnown
  BY DEF IInv
<1>1. /\ job[t].stage[f] \in {"judge", "open", "fill"}
      /\ UNCHANGED <<remote, cache, disk, bases, saving, panel, budget, hadEmpty>>
      /\ \E s \in {"open", "fill", "record"} : SetStage(t, f, s)
  BY DEF Judge, Leave, Open, Fill, At
<1>2. job[t].got[f] \in Content /\ local[f] \in Maybe(Content)
  BY <1>0, <1>1 DEF GotKnown, TypeOK, Carrying
<1>3. local' \in [Files -> Maybe(Content)] /\ cut' \in [Files -> BOOLEAN]
  <2>1. CASE Judge(t, f) \/ Leave(t, f)
    BY <1>0, <2>1 DEF Judge, Leave, TypeOK
  <2>2. CASE Open(t, f)
    BY <1>0, <2>2, FileTypes DEF Open
  <2>3. CASE Fill(t, f)
    BY <1>0, <1>2, <2>3, FileTypes DEF Fill, Maybe
  <2> QED
    BY <2>1, <2>2, <2>3
<1>4. agreed' \in [Files -> Maybe(Agreement)]
  <2>1. CASE Judge(t, f) \/ Open(t, f)
    BY <1>0, <2>1 DEF Judge, Open, TypeOK
  <2>2. CASE Leave(t, f)
    BY <1>0, <1>2, <2>2, AgreeType DEF Leave
  <2>3. CASE Fill(t, f)
    BY <1>0, <1>2, <2>3, AgreeType DEF Fill, Maybe
  <2> QED
    BY <2>1, <2>2, <2>3
<1>5. job' \in [Tabs -> Job] => TypeOK'
  BY <1>0, <1>1, <1>3, <1>4 DEF TypeOK
<1>6. PICK s \in {"open", "fill", "record"} : SetStage(t, f, s)
  BY <1>1
<1>7. s \in Stages
  BY DEF Stages
<1> QED
  BY <1>1, <1>2, <1>5, <1>6, <1>7, StageStep

LEMMA RecordOkStep ==
  ASSUME IInv, NEW t \in Tabs, NEW f \in Files, RecordOk(t, f)
  PROVE  IInv'
<1>0. TypeOK /\ GotKnown /\ MemBased
  BY DEF IInv
<1>1. job[t].got[f] \in Content
  BY <1>0 DEF GotKnown, RecordOk, At, Carrying
<1>2. Synced(job[t].got[f]) \in Rec /\ "base" \in Stages
  BY <1>1, HelperTypes DEF Maybe, Stages
<1>3. /\ job \in [Tabs -> Job]
      /\ job' = [job EXCEPT ![t].mem[f] = Synced(job[t].got[f]),
                            ![t].stage[f] = "base"]
      /\ UNCHANGED <<local, remote, cache, disk, bases, saving, panel, budget,
                     agreed, hadEmpty, cut>>
  BY <1>0 DEF RecordOk, TypeOK
<1>4. /\ job' \in [Tabs -> Job]
      /\ SameJobBut(t, f)
      /\ job'[t].stage[f] = "base"
      /\ job'[t].mem[f] = Synced(job[t].got[f])
      /\ job'[t].got = job[t].got
  BY <1>2, <1>3, MemUpdate
<1>5. GotKnown'
  BY <1>0, <1>1, <1>4 DEF GotKnown, SameJobBut
<1>6. MemBased'
  <2>1. job'[t].mem[f].remote = job'[t].got[f]
    BY <1>4 DEF Synced
  <2>2. SUFFICES ASSUME NEW u \in Tabs, NEW g \in Files,
                        "base" \notin Failures,
                        job'[u].mem[g] # None, job'[u].mem[g].remote # None
                 PROVE  \/ job'[u].mem[g].remote \in bases
                        \/ /\ job'[u].stage[g] = "base"
                           /\ job'[u].mem[g].remote = job'[u].got[g]
    BY <1>3 DEF MemBased
  <2>3. CASE u = t /\ g = f
    BY <1>4, <2>1, <2>3
  <2>4. CASE ~(u = t /\ g = f)
    <3>1. /\ job'[u].stage[g] = job[u].stage[g]
          /\ job'[u].got[g] = job[u].got[g]
          /\ job'[u].mem[g] = job[u].mem[g]
      BY <1>4, <2>4 DEF SameJobBut
    <3> QED
      BY <1>0, <2>2, <3>1 DEF MemBased
  <2> QED
    BY <2>3, <2>4
<1>7. DiskBased' /\ SavingFull' /\ SavingBased'
  BY <1>3, DiskKeeps, SavingKeeps
<1>8. TypeOK'
  BY <1>0, <1>3, <1>4 DEF TypeOK
<1> QED
  BY <1>5, <1>6, <1>7, <1>8 DEF IInv

LEMMA RecordFailureStep ==
  ASSUME IInv, NEW t \in Tabs, NEW f \in Files, RecordFailure(t, f)
  PROVE  IInv'
<1>0. TypeOK /\ GotKnown /\ MemBased
  BY DEF IInv
<1>1. Broken \in Rec /\ "failed" \in Stages
  BY HelperTypes DEF Stages
<1>2. /\ job \in [Tabs -> Job]
      /\ job' = [job EXCEPT ![t].mem[f] = Broken, ![t].stage[f] = "failed"]
      /\ UNCHANGED <<local, remote, cache, disk, bases, saving, panel, budget,
                     agreed, hadEmpty, cut>>
  BY <1>0 DEF RecordFailure, TypeOK
<1>3. /\ job' \in [Tabs -> Job]
      /\ SameJobBut(t, f)
      /\ job'[t].stage[f] = "failed"
      /\ job'[t].mem[f] = Broken
      /\ job'[t].got = job[t].got
  BY <1>1, <1>2, MemUpdate
<1>4. GotKnown'
  BY <1>0, <1>3 DEF GotKnown, SameJobBut, Carrying
<1>5. MemBased'
  <2>1. Broken.remote = None
    BY DEF Broken
  <2> QED
    BY <1>0, <1>2, <1>3, <2>1 DEF MemBased, SameJobBut
<1>6. DiskBased' /\ SavingFull' /\ SavingBased'
  BY <1>2, DiskKeeps, SavingKeeps
<1>7. TypeOK'
  BY <1>0, <1>2, <1>3 DEF TypeOK
<1> QED
  BY <1>4, <1>5, <1>6, <1>7 DEF IInv

LEMMA FileStepKeeps ==
  ASSUME IInv, NEW t \in Tabs, NEW f \in Files, FileStep(t, f)
  PROVE  IInv'
<1>0. TypeOK /\ GotKnown
  BY DEF IInv
<1>1. CASE FetchFails(t, f)
  <2>1. job' \in [Tabs -> Job] => TypeOK'
    BY <1>0, <1>1 DEF FetchFails, TypeOK
  <2>2. "broken" \in Stages /\ "broken" \notin Carrying
    BY DEF Stages, Carrying
  <2> QED
    BY <1>1, <2>1, <2>2, StageStep DEF FetchFails, At
<1>2. CASE RefuseSingle(t, f)
  <2>1. job' \in [Tabs -> Job] => TypeOK'
    BY <1>0, <1>2 DEF RefuseSingle, TypeOK
  <2> QED
    BY <1>2, <2>1, FinishStep DEF RefuseSingle
<1>3. CASE ConflictSingle(t, f)
  <2>1. job[t].got[f] \in Content
    BY <1>0, <1>3 DEF GotKnown, ConflictSingle, Checks, At, Carrying
  <2>2. [NoManifest EXCEPT ![f] = job[t].got[f]] \in [Files -> Maybe(Content)]
    BY <2>1 DEF NoManifest, Maybe
  <2>3. panel' \in [Tabs -> [Files -> Maybe(Content)]]
    BY <1>0, <1>3, <2>2 DEF ConflictSingle, TypeOK
  <2>4. job' \in [Tabs -> Job] => TypeOK'
    BY <1>0, <1>3, <2>3 DEF ConflictSingle, TypeOK
  <2> QED
    BY <1>3, <2>4, FinishStep DEF ConflictSingle
<1>4. CASE SkipSingle(t, f)
  <2>1. job' \in [Tabs -> Job] => TypeOK'
    BY <1>0, <1>4 DEF SkipSingle, TypeOK
  <2> QED
    BY <1>4, <2>1, FinishStep DEF SkipSingle
<1>6. CASE Check(t, f)
  <2> DEFINE s == IF DetectConflict(local[f], job[t].got[f], job[t].mem[f])
                  THEN "conflict" ELSE "judge"
  <2>1. job' \in [Tabs -> Job] => TypeOK'
    BY <1>0, <1>6 DEF Check, TypeOK
  <2>2. s \in Stages /\ job[t].stage[f] # "base" /\ job[t].got[f] \in Content
    BY <1>0, <1>6 DEF Stages, Check, At, GotKnown, Carrying
  <2>3. SetStage(t, f, s) /\ UNCHANGED <<disk, saving>> /\ bases \subseteq bases'
    BY <1>6 DEF Check
  <2> HIDE DEF s
  <2> QED
    BY <2>1, <2>2, <2>3, StageStep
<1>7. CASE WriteFails(t, f)
  <2>1. job' \in [Tabs -> Job] => TypeOK'
    BY <1>0, <1>7 DEF WriteFails, TypeOK
  <2>2. "broken" \in Stages /\ "broken" \notin Carrying
    BY DEF Stages, Carrying
  <2> QED
    BY <1>7, <2>1, <2>2, StageStep DEF WriteFails, At
<1>8. CASE BatchBase(t, f)
  <2>1. job[t].got[f] \in Content
    BY <1>0, <1>8 DEF GotKnown, BatchBase, At, Carrying
  <2>2. bases \subseteq bases' /\ job[t].got[f] \in bases'
    BY <1>8 DEF BatchBase
  <2>3. job' \in [Tabs -> Job] => TypeOK'
    BY <1>0, <1>8, <2>1 DEF BatchBase, TypeOK
  <2>4. "ok" \in Stages /\ "ok" \notin Carrying
    BY DEF Stages, Carrying
  <2> QED
    BY <1>8, <2>2, <2>3, <2>4, StageStep DEF BatchBase
<1>9. CASE BatchBaseFails(t, f)
  <2>1. job' \in [Tabs -> Job] => TypeOK'
    BY <1>0, <1>9 DEF BatchBaseFails, TypeOK
  <2>2. "ok" \in Stages /\ "ok" \notin Carrying
    BY DEF Stages, Carrying
  <2> QED
    BY <1>9, <2>1, <2>2, StageStep DEF BatchBaseFails
<1> QED
  BY <1>1, <1>2, <1>3, <1>4, <1>6, <1>7, <1>8, <1>9, FetchStep,
     BeginSingleStep, WriteStep, RecordOkStep, RecordFailureStep DEF FileStep

\* pipe.join() has waited for the bases, so the manifest that reaches the disk
\* only names bases that are there.
LEMMA EndBatchStep ==
  ASSUME IInv, NEW t \in Tabs, EndBatch(t)
  PROVE  IInv'
<1>0. TypeOK /\ MemBased /\ DiskBased
  BY DEF IInv
<1>1. /\ disk' \in {disk, job[t].mem}
      /\ Finish(t)
      /\ UNCHANGED <<local, remote, cache, bases, saving, budget, agreed,
                     hadEmpty, cut>>
      /\ \A f \in Files : job[t].stage[f] \in Settled
  BY DEF EndBatch
<1>2. job[t].mem \in Manifest /\ job[t].got \in [Files -> Maybe(Content)]
  BY <1>0, JobFields DEF TypeOK
<1>3. job' \in [Tabs -> Job] /\ GotKnown' /\ MemBased'
  BY <1>1, FinishKeeps
<1>4. DiskBased'
  BY <1>0, <1>1 DEF DiskBased, BaseBeforeSnapshot, MemBased, Settled
<1>5. SavingFull' /\ SavingBased'
  BY <1>1, SavingKeeps
<1>6. panel' \in [Tabs -> [Files -> Maybe(Content)]]
  <2>1. [f \in Files |-> IF At(t, f, "conflict") THEN job[t].got[f] ELSE None]
          \in [Files -> Maybe(Content)]
    BY <1>2 DEF Maybe
  <2> QED
    BY <1>0, <2>1 DEF EndBatch, TypeOK
<1>7. TypeOK'
  BY <1>0, <1>1, <1>2, <1>3, <1>6 DEF TypeOK
<1> QED
  BY <1>3, <1>4, <1>5, <1>7 DEF IInv

-----------------------------------------------------------------------------
(* The requests of a tab.                                                  *)

LEMMA StartSingleStep ==
  ASSUME IInv, NEW t \in Tabs, NEW f \in Files, NEW cached \in UseCache,
         StartSingle(t, f, cached)
  PROVE  IInv'
<1> DEFINE R == [IdleJob EXCEPT !.kind = "single", !.cached = cached,
                                !.stage[f] = "fetch"]
<1>0. TypeOK /\ GotKnown /\ MemBased
  BY DEF IInv
<1>1. /\ R.mem = NoManifest /\ R.kind = "single" /\ R.cached = cached
      /\ R.got = [g \in Files |-> None]
      /\ R.stage = [g \in Files |-> IF g = f THEN "fetch" ELSE "none"]
  BY DEF IdleJob
<1>2. R \in Job
  BY UseCacheAssumption DEF IdleJob, Job, NoManifest, Manifest, Maybe, Stages
<1>3. job' = [job EXCEPT ![t] = R]
      /\ UNCHANGED <<local, remote, cache, disk, bases, saving, panel, agreed,
                     hadEmpty, cut>>
  BY DEF StartSingle
<1> HIDE DEF R
<1>4. job' \in [Tabs -> Job]
  BY <1>0, <1>2, <1>3 DEF TypeOK
<1>5. GotKnown' /\ MemBased'
  <2>1. \A g \in Files : R.mem[g] = None /\ R.stage[g] \notin Carrying
    BY <1>1 DEF NoManifest, Carrying
  <2>2. job'[t] = R /\ \A u \in Tabs : u # t => job'[u] = job[u]
    BY <1>0, <1>3 DEF TypeOK
  <2>3. GotKnown'
    BY <1>0, <2>1, <2>2 DEF GotKnown
  <2>4. MemBased'
    BY <1>0, <1>3, <2>1, <2>2 DEF MemBased
  <2> QED
    BY <2>3, <2>4
<1>6. DiskBased' /\ SavingFull' /\ SavingBased'
  BY <1>3, DiskKeeps, SavingKeeps
<1>7. budget' \in [edits: Nat, pushes: Nat, merges: Nat, crashes: Nat]
  BY <1>0, SpendKeeps DEF StartSingle
<1>8. TypeOK'
  BY <1>0, <1>3, <1>4, <1>7 DEF TypeOK
<1> QED
  BY <1>5, <1>6, <1>8 DEF IInv

LEMMA StartBatchStep ==
  ASSUME IInv, NEW t \in Tabs, NEW F \in SUBSET Files, NEW cached \in UseCache,
         StartBatch(t, F, cached)
  PROVE  IInv'
<1> DEFINE stages == [f \in Files |->
                        IF f \notin F THEN "none"
                        ELSE IF cached /\ IsAlreadyMerged(local[f], disk[f])
                             THEN "skipped" ELSE "fetch"]
           R == [kind |-> "batch", cached |-> cached, mem |-> disk,
                 stage |-> stages, got |-> [f \in Files |-> None]]
<1>0. TypeOK /\ GotKnown /\ MemBased /\ DiskBased
  BY DEF IInv
<1>1. stages \in [Files -> Stages]
      /\ \A f \in Files : stages[f] \notin Carrying
  BY DEF Stages, Carrying
<1>2. job' = [job EXCEPT ![t] = R]
      /\ UNCHANGED <<local, remote, cache, disk, bases, saving, panel, agreed,
                     hadEmpty, cut>>
  BY DEF StartBatch
<1> HIDE DEF stages
<1>3. R \in Job
  BY <1>0, <1>1, UseCacheAssumption DEF Job, Maybe, TypeOK
<1>4. R.mem = disk /\ R.stage = stages
  OBVIOUS
<1> HIDE DEF R
<1>5. job' \in [Tabs -> Job]
  BY <1>0, <1>2, <1>3 DEF TypeOK
<1>6. GotKnown'
  BY <1>0, <1>1, <1>2, <1>4 DEF GotKnown, TypeOK
<1>7. MemBased'
  BY <1>0, <1>2, <1>4 DEF MemBased, TypeOK, DiskBased, BaseBeforeSnapshot
<1>8. DiskBased' /\ SavingFull' /\ SavingBased'
  BY <1>2, DiskKeeps, SavingKeeps
<1>9. budget' \in [edits: Nat, pushes: Nat, merges: Nat, crashes: Nat]
  BY <1>0, SpendKeeps DEF StartBatch
<1>10. TypeOK'
  BY <1>0, <1>2, <1>5, <1>9 DEF TypeOK
<1> QED
  BY <1>6, <1>7, <1>8, <1>10 DEF IInv

\* A decision on a conflict: the record it leaves to the tail of the handler
\* names the base it brings along or the one of the old record.
LEMMA ResolveStep ==
  ASSUME IInv, NEW t \in Tabs, NEW f \in Files, NEW choice,
         NEW content \in Maybe(Content), NEW rec \in Rec,
         NEW base \in Maybe(Content), NEW step \in {"open", "base"},
         panel[t][f] \in Content,
         step = "open" => content \in Content,
         "base" \notin Failures /\ rec.remote # None =>
           rec.remote \in bases \/ base = rec.remote,
         Resolve(t, f, choice, content, rec, base, step),
         hadEmpty' \in [Files -> BOOLEAN],
         agreed' \in [Files -> Maybe(Agreement)]
  PROVE  IInv'
<1>0. TypeOK
  BY DEF IInv
<1>1. /\ saving' = [file |-> f, content |-> content, theirs |-> panel[t][f],
                    rec |-> rec, base |-> base, asked |-> TRUE, step |-> step]
      /\ panel' = [panel EXCEPT ![t][f] = None]
      /\ UNCHANGED <<local, remote, cache, disk, bases, job, budget, cut>>
  BY DEF Resolve
<1>2. saving' \in Saving
  BY <1>1 DEF Saving
<1>3. SavingFull' /\ SavingBased'
  BY <1>1 DEF SavingFull, SavingBased
<1>4. panel' \in [Tabs -> [Files -> Maybe(Content)]]
  BY <1>0, <1>1 DEF TypeOK, Maybe
<1>5. job' \in [Tabs -> Job] /\ GotKnown' /\ MemBased'
  BY <1>1, SameJobKeeps
<1>6. DiskBased'
  BY <1>1, DiskKeeps
<1>7. TypeOK'
  BY <1>0, <1>1, <1>2, <1>4, <1>5 DEF TypeOK, Maybe
<1> QED
  BY <1>3, <1>5, <1>6, <1>7 DEF IInv

LEMMA KeptIsBased ==
  ASSUME IInv, NEW f \in Files, NEW m \in Content
  PROVE  /\ Kept(disk[f], m) \in Rec
         /\ "base" \notin Failures /\ Kept(disk[f], m).remote # None =>
              Kept(disk[f], m).remote \in bases
<1>1. disk[f] \in Maybe(Rec)
  BY DEF IInv, TypeOK, Manifest
<1>2. Kept(disk[f], m).remote = IF disk[f] = None THEN None ELSE disk[f].remote
  BY DEF Kept
<1> QED
  BY <1>1, <1>2, HelperTypes DEF IInv, DiskBased, BaseBeforeSnapshot

LEMMA ResolveOursStep ==
  ASSUME IInv, NEW t \in Tabs, NEW f \in Files, ResolveOurs(t, f)
  PROVE  IInv'
<1> DEFINE m == IF local[f] = None THEN EmptyContent ELSE ReadText(local[f])
<1>0. /\ TypeOK /\ local[f] \in Maybe(Content) /\ panel[t][f] \in Content
      /\ hadEmpty' \in [Files -> BOOLEAN]
  BY DEF IInv, TypeOK, Maybe, ResolveOurs
<1>1. m \in Content
  BY <1>0, HelperTypes DEF Maybe
<1>2. Resolve(t, f, "ours", None, Kept(disk[f], m), None, "base")
  BY DEF ResolveOurs
<1>3. agreed' \in [Files -> Maybe(Agreement)]
  BY <1>0, AgreeType DEF ResolveOurs
<1> HIDE DEF m
<1>4. None \in Maybe(Content)
  BY DEF Maybe
<1> QED
  BY <1>0, <1>1, <1>2, <1>3, <1>4, KeptIsBased, ResolveStep

LEMMA ResolveTheirsStep ==
  ASSUME IInv, NEW t \in Tabs, NEW f \in Files, ResolveTheirs(t, f)
  PROVE  IInv'
<1> DEFINE c == panel[t][f]
<1>0. /\ c \in Content
      /\ hadEmpty' \in [Files -> BOOLEAN] /\ agreed' \in [Files -> Maybe(Agreement)]
  BY DEF IInv, TypeOK, Maybe, ResolveTheirs
<1>1. Resolve(t, f, "theirs", c, Synced(c), c, "open")
  BY DEF ResolveTheirs
<1>2. c \in Maybe(Content) /\ Synced(c) \in Rec
  BY <1>0, HelperTypes DEF Maybe
<1>3. Synced(c).remote = c
  BY DEF Synced
<1> QED
  BY <1>0, <1>1, <1>2, <1>3, ResolveStep

LEMMA ResolveMergedStep ==
  ASSUME IInv, NEW t \in Tabs, NEW f \in Files, NEW c \in Content,
         ResolveMerged(t, f, c)
  PROVE  IInv'
<1>0. panel[t][f] \in Content /\ agreed' \in [Files -> Maybe(Agreement)]
  BY DEF IInv, TypeOK, Maybe, ResolveMerged
<1>1. hadEmpty' \in [Files -> BOOLEAN]
  BY HelperTypes DEF IInv, TypeOK, ResolveMerged
<1>2. Resolve(t, f, "merged", c, Kept(disk[f], c), None, "open")
  BY DEF ResolveMerged
<1>3. c \in Maybe(Content) /\ None \in Maybe(Content)
  BY DEF Maybe
<1> QED
  BY <1>0, <1>1, <1>2, <1>3, KeptIsBased, ResolveStep

LEMMA ClosePanelStep ==
  ASSUME IInv, NEW t \in Tabs, ClosePanel(t)
  PROVE  IInv'
<1>1. NoManifest \in [Files -> Maybe(Content)]
  BY DEF NoManifest, Maybe
<1>2. panel' \in [Tabs -> [Files -> Maybe(Content)]]
  BY <1>1 DEF IInv, TypeOK, ClosePanel
<1>3. TypeOK'
  BY <1>2 DEF IInv, TypeOK, ClosePanel
<1> QED
  BY <1>3, QuietStep DEF ClosePanel

-----------------------------------------------------------------------------
LEMMA NextStep == IInv /\ [Next]_vars => IInv'
<1> SUFFICES ASSUME IInv, [Next]_vars PROVE IInv'
  OBVIOUS
<1>1. CASE Tail
  BY <1>1, TailStep
<1>2. CASE Environment
  BY <1>2, EnvironmentStep
<1>3. CASE \E t \in Tabs : Progress(t)
  BY <1>3, EndBatchStep, FileStepKeeps DEF Progress
<1>4. CASE \E t \in Tabs : Request(t)
  <2> PICK t \in Tabs : Request(t)
    BY <1>4
  <2> QED
    BY StartSingleStep, StartBatchStep, ResolveOursStep, ResolveTheirsStep,
       ResolveMergedStep, ClosePanelStep DEF Request
<1>5. CASE UNCHANGED vars
  <2>1. TypeOK'
    BY <1>5 DEF vars, IInv, TypeOK
  <2> QED
    BY <1>5, <2>1, QuietStep DEF vars
<1> QED
  BY <1>1, <1>2, <1>3, <1>4, <1>5 DEF Next

LEMMA Inductive == Spec => []IInv
  BY InitIInv, NextStep, PTL DEF Spec

\* Every reachable state is well typed, for any files, tabs and contents.
THEOREM TypeCorrect == Spec => []TypeOK
<1>1. IInv => TypeOK
  BY DEF IInv
<1> QED
  BY <1>1, Inductive, PTL

\* Whatever interleaves, fails or crashes, as long as the bases can be written:
\* a snapshot in manifest.json has its base in bases/.  The order in which the
\* handlers of api/routes_diff.py call save_base and save_manifest is enough.
THEOREM BasesComplete ==
  ASSUME "base" \notin Failures
  PROVE  Spec => []BaseBeforeSnapshot
<1>1. IInv => BaseBeforeSnapshot
  BY DEF IInv, DiskBased
<1> QED
  BY <1>1, Inductive, PTL
-----------------------------------------------------------------------------
(* Where an empty file can come from.  Contents only travel: from the      *)
(* remote through cache, request and panel into the file.  So whatever     *)
(* holds an empty content of a file, its user or its remote emptied it, or *)
(* it is the file itself, opened for a write that has not come about.      *)

Emptied(f, c) == IsEmpty(c) => hadEmpty[f]

EmptyKnown ==
  /\ \A f \in Files :
       /\ cut[f] \/ Emptied(f, local[f])
       /\ Emptied(f, remote[f]) /\ Emptied(f, cache[f])
       /\ \A t \in Tabs : Emptied(f, job[t].got[f]) /\ Emptied(f, panel[t][f])
  /\ saving # None => Emptied(saving.file, saving.content)

\* The requests carry what they carried, or nothing.
GotStays ==
  \A t \in Tabs, f \in Files : job'[t].got[f] \in {job[t].got[f], None}

LEMMA NoneIsNotEmpty == ~IsEmpty(None)
  BY DEF IsEmpty

LEMMA GotStaysBy ==
  ASSUME TypeOK, NEW t \in Tabs
  PROVE  /\ \A f \in Files, s \in Stages : SetStage(t, f, s) => GotStays
         /\ Finish(t) => GotStays
         /\ UNCHANGED job => GotStays
<1>0. job \in [Tabs -> Job]
  BY DEF TypeOK
<1>1. ASSUME NEW f \in Files, NEW s \in Stages, SetStage(t, f, s)
      PROVE  GotStays
  <2>1. SameJobBut(t, f) /\ job'[t].got = job[t].got
    BY <1>0, <1>1, StageUpdate DEF SetStage
  <2> QED
    BY <2>1 DEF GotStays, SameJobBut
<1>2. ASSUME Finish(t) PROVE GotStays
  <2>1. \A f \in Files : IdleJob.got[f] = None
    BY DEF IdleJob
  <2>2. job'[t] = IdleJob /\ \A u \in Tabs : u # t => job'[u] = job[u]
    BY <1>0, <1>2 DEF Finish
  <2> QED
    BY <2>1, <2>2 DEF GotStays
<1>3. UNCHANGED job => GotStays
  BY DEF GotStays
<1> QED
  BY <1>1, <1>2, <1>3

\* A step that moves contents about but makes none.
LEMMA NothingIsMade ==
  ASSUME EmptyKnown, UNCHANGED <<remote, hadEmpty>>,
         \A f \in Files : cache'[f] \in {cache[f], remote[f], None},
         \A t \in Tabs, f \in Files :
           job'[t].got[f] \in {job[t].got[f], cache[f], remote[f], None},
         \A t \in Tabs, f \in Files :
           panel'[t][f] \in {panel[t][f], job[t].got[f], None},
         \A f \in Files :
           \/ local'[f] = local[f] /\ cut'[f] = cut[f]
           \/ cut'[f]
           \/ \E t \in Tabs : local'[f] = job[t].got[f]
           \/ saving # None /\ saving.file = f /\ local'[f] = saving.content,
         saving' # None =>
           \/ /\ saving # None /\ saving'.file = saving.file
              /\ saving'.content = saving.content
           \/ saving'.content = None
           \/ /\ saving'.file \in Files
              /\ \E t \in Tabs :
                   saving'.content \in {job[t].got[saving'.file],
                                        panel[t][saving'.file]}
  PROVE  EmptyKnown'
<1>0. /\ \A f \in Files :
           /\ cut[f] \/ Emptied(f, local[f])
           /\ Emptied(f, remote[f]) /\ Emptied(f, cache[f])
           /\ \A t \in Tabs : Emptied(f, job[t].got[f]) /\ Emptied(f, panel[t][f])
      /\ saving # None => Emptied(saving.file, saving.content)
  BY DEF EmptyKnown
<1>1. ASSUME NEW f \in Files
      PROVE  /\ (cut[f] \/ Emptied(f, local[f]))'
             /\ Emptied(f, remote[f])' /\ Emptied(f, cache[f])'
             /\ \A t \in Tabs : Emptied(f, job[t].got[f])' /\ Emptied(f, panel[t][f])'
  <2>1. Emptied(f, remote[f])' /\ Emptied(f, cache[f])'
    BY <1>0, NoneIsNotEmpty DEF Emptied
  <2>2. (cut[f] \/ Emptied(f, local[f]))'
    BY <1>0 DEF Emptied
  <2>3. ASSUME NEW t \in Tabs
        PROVE  Emptied(f, job[t].got[f])' /\ Emptied(f, panel[t][f])'
    <3>1. job'[t].got[f] \in {job[t].got[f], cache[f], remote[f], None}
      OBVIOUS
    <3>2. panel'[t][f] \in {panel[t][f], job[t].got[f], None}
      OBVIOUS
    <3> QED
      BY <1>0, <3>1, <3>2, NoneIsNotEmpty DEF Emptied
  <2> QED
    BY <2>1, <2>2, <2>3
<1>2. saving' # None => Emptied(saving.file, saving.content)'
  BY <1>0, NoneIsNotEmpty DEF Emptied
<1> QED
  BY <1>1, <1>2 DEF EmptyKnown

\* Only these steps empty a file, and they note it.
LEMMA EditKnows ==
  ASSUME TypeOK, EmptyKnown, NEW f \in Files, NEW c, Edit(f, c)
  PROVE  EmptyKnown'
<1>1. /\ local' = [local EXCEPT ![f] = c] /\ cut' = [cut EXCEPT ![f] = FALSE]
      /\ hadEmpty' = [hadEmpty EXCEPT ![f] = hadEmpty[f] \/ IsEmpty(c)]
      /\ UNCHANGED <<remote, cache, job, panel, saving>>
  BY DEF Edit, Put
<1>2. /\ \A g \in Files : local'[g] = IF g = f THEN c ELSE local[g]
      /\ \A g \in Files : g # f => cut'[g] = cut[g]
      /\ \A g \in Files : hadEmpty[g] => hadEmpty'[g]
      /\ IsEmpty(c) => hadEmpty'[f]
  BY <1>1 DEF TypeOK
<1>3. saving # None => saving.file \in Files
  BY DEF TypeOK, Maybe, Saving
<1> QED
  BY <1>1, <1>2, <1>3 DEF EmptyKnown, Emptied

LEMMA PushKnows ==
  ASSUME TypeOK, EmptyKnown, NEW f \in Files, NEW c, Push(f, c)
  PROVE  EmptyKnown'
<1>1. /\ remote' = [remote EXCEPT ![f] = c]
      /\ hadEmpty' = [hadEmpty EXCEPT ![f] = hadEmpty[f] \/ IsEmpty(c)]
      /\ UNCHANGED <<local, cache, job, panel, saving, cut>>
  BY DEF Push
<1>2. /\ \A g \in Files : remote'[g] = IF g = f THEN c ELSE remote[g]
      /\ \A g \in Files : hadEmpty[g] => hadEmpty'[g]
      /\ IsEmpty(c) => hadEmpty'[f]
  BY <1>1 DEF TypeOK
<1>3. saving # None => saving.file \in Files
  BY DEF TypeOK, Maybe, Saving
<1> QED
  BY <1>1, <1>2, <1>3 DEF EmptyKnown, Emptied

LEMMA ResolveMergedKnows ==
  ASSUME TypeOK, EmptyKnown, NEW t \in Tabs, NEW f \in Files,
         NEW c \in Content, ResolveMerged(t, f, c)
  PROVE  EmptyKnown'
<1>1. /\ hadEmpty' = [hadEmpty EXCEPT ![f] = hadEmpty[f] \/ IsEmpty(c)]
      /\ panel' = [panel EXCEPT ![t][f] = None]
      /\ saving'.file = f /\ saving'.content = c
      /\ UNCHANGED <<local, remote, cache, job, cut>>
  BY DEF ResolveMerged, Resolve
<1>2. /\ \A g \in Files : hadEmpty[g] => hadEmpty'[g]
      /\ IsEmpty(c) => hadEmpty'[f]
      /\ \A u \in Tabs, g \in Files : panel'[u][g] \in {panel[u][g], None}
  BY <1>1 DEF TypeOK
<1> QED
  BY <1>1, <1>2, NoneIsNotEmpty DEF EmptyKnown, Emptied

LEMMA FetchKnows ==
  ASSUME TypeOK, EmptyKnown, NEW t \in Tabs, NEW f \in Files, Fetch(t, f)
  PROVE  EmptyKnown'
<1>1. Fetched(t, f) \in {cache[f], remote[f]}
  BY DEF Fetched
<1>2. Fetched(t, f) \in Maybe(Content) /\ "check" \in Stages
  BY DEF Fetched, TypeOK, Maybe, Stages
<1>3. job \in [Tabs -> Job]
      /\ job' = [job EXCEPT ![t].stage[f] = "check", ![t].got[f] = Fetched(t, f)]
  BY DEF Fetch, TypeOK
<1>4. /\ job' \in [Tabs -> Job]
      /\ SameJobBut(t, f)
      /\ job'[t].stage[f] = "check"
      /\ job'[t].got[f] = Fetched(t, f)
      /\ job'[t].mem = job[t].mem
  BY <1>2, <1>3, GotUpdate
<1>5. \A u \in Tabs, g \in Files :
        job'[u].got[g] \in {job[u].got[g], cache[g], remote[g], None}
  BY <1>1, <1>4 DEF SameJobBut
<1>6. \A g \in Files : cache'[g] \in {cache[g], remote[g], None}
  BY <1>1 DEF Fetch, TypeOK
<1> QED
  BY <1>5, <1>6, NothingIsMade DEF Fetch

\* What is recorded for a file goes into the manifest, not into a content.
LEMMA RecordKnows ==
  ASSUME TypeOK, EmptyKnown, NEW t \in Tabs, NEW f \in Files,
         RecordOk(t, f) \/ RecordFailure(t, f)
  PROVE  EmptyKnown'
<1>1. job \in [Tabs -> Job] /\ job[t].got[f] \in Maybe(Content)
  BY JobFields DEF TypeOK
<1>2. SameJobBut(t, f) /\ job'[t].got = job[t].got
  <2>1. CASE RecordOk(t, f)
    <3>1. Synced(job[t].got[f]) \in Rec /\ "base" \in Stages
      BY <1>1, HelperTypes DEF Stages
    <3>2. job' = [job EXCEPT ![t].mem[f] = Synced(job[t].got[f]),
                             ![t].stage[f] = "base"]
      BY <2>1 DEF RecordOk
    <3>3. /\ job' \in [Tabs -> Job]
          /\ SameJobBut(t, f)
          /\ job'[t].stage[f] = "base"
          /\ job'[t].mem[f] = Synced(job[t].got[f])
          /\ job'[t].got = job[t].got
      BY <1>1, <3>1, <3>2, MemUpdate
    <3> QED
      BY <3>3
  <2>2. CASE RecordFailure(t, f)
    <3>1. Broken \in Rec /\ "failed" \in Stages
      BY HelperTypes DEF Stages
    <3>2. job' = [job EXCEPT ![t].mem[f] = Broken, ![t].stage[f] = "failed"]
      BY <2>2 DEF RecordFailure
    <3>3. /\ job' \in [Tabs -> Job]
          /\ SameJobBut(t, f)
          /\ job'[t].stage[f] = "failed"
          /\ job'[t].mem[f] = Broken
          /\ job'[t].got = job[t].got
      BY <1>1, <3>1, <3>2, MemUpdate
    <3> QED
      BY <3>3
  <2> QED
    BY <2>1, <2>2
<1>3. \A u \in Tabs, g \in Files : job'[u].got[g] = job[u].got[g]
  BY <1>2 DEF SameJobBut
<1> QED
  BY <1>3, NothingIsMade DEF RecordOk, RecordFailure

\* The steps of a request that leave files, cache, panels and the tail alone.
LEMMA StageKnows ==
  ASSUME TypeOK, EmptyKnown, NEW t \in Tabs, NEW f \in Files,
         Finish(t) \/ \E s \in Stages : SetStage(t, f, s),
         UNCHANGED <<local, remote, cache, saving, panel, hadEmpty, cut>>
  PROVE  EmptyKnown'
<1>1. GotStays
  BY GotStaysBy
<1> QED
  BY <1>1, NothingIsMade DEF GotStays

LEMMA FileStepKnows ==
  ASSUME TypeOK, EmptyKnown, NEW t \in Tabs, NEW f \in Files, FileStep(t, f)
  PROVE  EmptyKnown'
<1>1. CASE \/ FetchFails(t, f) \/ RefuseSingle(t, f) \/ SkipSingle(t, f)
           \/ Check(t, f) \/ Judge(t, f) \/ Leave(t, f) \/ WriteFails(t, f)
           \/ BatchBase(t, f) \/ BatchBaseFails(t, f)
  <2>1. /\ Finish(t) \/ \E s \in {"broken", "conflict", "judge", "open", "record", "ok"} :
                          SetStage(t, f, s)
        /\ UNCHANGED <<local, remote, cache, saving, panel, hadEmpty, cut>>
    BY <1>1 DEF FetchFails, RefuseSingle, SkipSingle, Check, Judge, Leave,
                WriteFails, BatchBase, BatchBaseFails
  <2>2. {"broken", "conflict", "judge", "open", "record", "ok"} \subseteq Stages
    BY DEF Stages
  <2> QED
    BY <2>1, <2>2, StageKnows
<1>2. CASE ConflictSingle(t, f)
  <2>1. \A u \in Tabs, g \in Files :
          panel'[u][g] \in {panel[u][g], job[u].got[g], None}
    BY <1>2 DEF ConflictSingle, NoManifest, TypeOK
  <2> QED
    BY <1>2, <2>1, GotStaysBy, NothingIsMade DEF ConflictSingle, GotStays
<1>3. CASE BeginSingle(t, f)
  <2>1. /\ saving'.file = f /\ saving'.content = job[t].got[f]
        /\ UNCHANGED <<local, remote, cache, panel, hadEmpty, cut>> /\ GotStays
    BY <1>3, GotStaysBy DEF BeginSingle
  <2> QED
    BY <2>1, NothingIsMade DEF GotStays
<1>4. CASE Open(t, f) \/ Fill(t, f)
  <2>1. \A g \in Files : \/ local'[g] = local[g] /\ cut'[g] = cut[g]
                         \/ cut'[g] \/ local'[g] = job[t].got[g]
    BY <1>4 DEF Open, Fill, Truncate, Put, TypeOK
  <2>2. GotStays /\ UNCHANGED <<remote, cache, saving, panel, hadEmpty>>
    BY <1>4, GotStaysBy DEF Open, Fill, Stages
  <2> QED
    BY <2>1, <2>2, NothingIsMade DEF GotStays
<1> QED
  BY <1>1, <1>2, <1>3, <1>4, FetchKnows, RecordKnows DEF FileStep

LEMMA TailKnows ==
  ASSUME TypeOK, EmptyKnown, Tail
  PROVE  EmptyKnown'
<1>1. saving # None
  BY DEF Tail, LeaveFile, OpenFile, FillFile, WriteFileFails, SaveBase,
         SaveBaseFails, SaveManifest, SaveManifestFails, Tailing
<1>2. UNCHANGED <<remote, cache, job, panel, hadEmpty>>
  BY DEF Tail, LeaveFile, OpenFile, FillFile, WriteFileFails, SaveBase,
         SaveBaseFails, SaveManifest, SaveManifestFails
<1>3. saving' = None \/ (saving'.file = saving.file /\ saving'.content = saving.content)
  <2>1. saving \in Saving
    BY <1>1 DEF TypeOK, Maybe
  <2>2. saving' = None \/ \E step \in {"fill", "base", "manifest"} : TailNext(step)
    BY DEF Tail, LeaveFile, OpenFile, FillFile, WriteFileFails, SaveBase,
           SaveBaseFails, SaveManifest, SaveManifestFails
  <2> QED
    BY <2>1, <2>2 DEF TailNext, Saving
<1>4. \A f \in Files : \/ local'[f] = local[f] /\ cut'[f] = cut[f]
                       \/ cut'[f]
                       \/ saving.file = f /\ local'[f] = saving.content
  <2>1. CASE OpenFile \/ FillFile
    BY <2>1 DEF OpenFile, FillFile, Truncate, Put, TypeOK
  <2>2. CASE ~(OpenFile \/ FillFile)
    BY <2>2 DEF Tail, LeaveFile, WriteFileFails, SaveBase, SaveBaseFails,
                SaveManifest, SaveManifestFails
  <2> QED
    BY <2>1, <2>2
<1> QED
  BY <1>1, <1>2, <1>3, <1>4, NothingIsMade

LEMMA RequestKnows ==
  ASSUME TypeOK, EmptyKnown, NEW t \in Tabs, Request(t)
  PROVE  EmptyKnown'
<1>0. job \in [Tabs -> Job]
  BY DEF TypeOK
<1>1. ASSUME NEW f \in Files, NEW cached \in UseCache, StartSingle(t, f, cached)
      PROVE  EmptyKnown'
  <2>1. \A u \in Tabs, g \in Files : job'[u].got[g] \in {job[u].got[g], None}
    BY <1>0, <1>1 DEF StartSingle, IdleJob
  <2> QED
    BY <1>1, <2>1, NothingIsMade DEF StartSingle
<1>2. ASSUME NEW F \in SUBSET Files, NEW cached \in UseCache,
             StartBatch(t, F, cached)
      PROVE  EmptyKnown'
  <2>1. \A u \in Tabs, g \in Files : job'[u].got[g] \in {job[u].got[g], None}
    BY <1>0, <1>2 DEF StartBatch
  <2> QED
    BY <1>2, <2>1, NothingIsMade DEF StartBatch
<1>3. ASSUME NEW f \in Files, ResolveOurs(t, f) \/ ResolveTheirs(t, f)
      PROVE  EmptyKnown'
  <2>1. /\ panel' = [panel EXCEPT ![t][f] = None]
        /\ saving'.file = f /\ saving'.content \in {None, panel[t][f]}
        /\ UNCHANGED <<local, remote, cache, job, hadEmpty, cut>>
    BY <1>3 DEF ResolveOurs, ResolveTheirs, Resolve
  <2>2. \A u \in Tabs, g \in Files : panel'[u][g] \in {panel[u][g], None}
    BY <2>1 DEF TypeOK
  <2> QED
    BY <2>1, <2>2, NothingIsMade
<1>4. ASSUME ClosePanel(t)
      PROVE  EmptyKnown'
  <2>1. \A u \in Tabs, g \in Files : panel'[u][g] \in {panel[u][g], None}
    BY <1>4 DEF ClosePanel, NoManifest, TypeOK
  <2> QED
    BY <1>4, <2>1, NothingIsMade DEF ClosePanel
<1> QED
  BY <1>1, <1>2, <1>3, <1>4, ResolveMergedKnows DEF Request

LEMMA NextKnows == IInv /\ EmptyKnown /\ [Next]_vars => EmptyKnown'
<1> SUFFICES ASSUME IInv, EmptyKnown, [Next]_vars PROVE EmptyKnown'
  OBVIOUS
<1>0. TypeOK
  BY DEF IInv
<1>2. CASE Environment
  <2>1. ASSUME NEW f \in Files, CacheExpires(f) PROVE EmptyKnown'
    <3>1. \A g \in Files : cache'[g] \in {cache[g], None}
      BY <1>0, <2>1 DEF CacheExpires, TypeOK
    <3> QED
      BY <2>1, <3>1, NothingIsMade DEF CacheExpires
  <2>2. CASE Crash
    <3>1. \A u \in Tabs, g \in Files : job'[u].got[g] = None
      BY <2>2 DEF Crash, IdleJob
    <3> QED
      BY <2>2, <3>1, NothingIsMade DEF Crash
  <2> QED
    BY <1>0, <1>2, <2>1, <2>2, EditKnows, PushKnows DEF Environment
<1>3. ASSUME NEW t \in Tabs, EndBatch(t) PROVE EmptyKnown'
  <2>1. \A u \in Tabs, g \in Files :
          panel'[u][g] \in {panel[u][g], job[u].got[g], None}
    BY <1>0, <1>3 DEF EndBatch, TypeOK
  <2> QED
    BY <1>0, <1>3, <2>1, GotStaysBy, NothingIsMade DEF EndBatch, GotStays
<1>4. ASSUME NEW t \in Tabs, Request(t) PROVE EmptyKnown'
  BY <1>0, <1>4, RequestKnows
<1>5. CASE UNCHANGED vars
  BY <1>5, NothingIsMade DEF vars
<1> QED
  BY <1>0, <1>2, <1>3, <1>4, <1>5, TailKnows, FileStepKnows DEF Next, Progress

\* Where an empty file comes from, for any failures, crashes, edits, cached
\* contents and decisions on conflicts: its user or its remote once emptied it,
\* or a write of something else was broken off after open(target, "w")
\* (merge_file.py:93).  The None of a failed fetch is refused, never merged
\* (routes_diff.py:301, 422).
THEOREM EmptyIsExplained == Spec => []NeverTruncated
<1>1. Init => EmptyKnown
  <2> SUFFICES ASSUME Init PROVE EmptyKnown
    OBVIOUS
  <2>1. \A t \in Tabs, f \in Files : job[t].got[f] = None /\ panel[t][f] = None
    BY DEF Init, IdleJob
  <2>2. /\ saving = None
        /\ \A f \in Files :
             /\ cache[f] = None
             /\ hadEmpty[f] = (IsEmpty(local[f]) \/ IsEmpty(remote[f]))
    BY DEF Init
  <2> QED
    BY <2>1, <2>2, NoneIsNotEmpty DEF EmptyKnown, Emptied
<1>2. EmptyKnown => NeverTruncated
  BY DEF EmptyKnown, Emptied, NeverTruncated
<1>3. IInv /\ EmptyKnown /\ [Next]_vars => EmptyKnown'
  BY NextKnows
<1> QED
  BY <1>1, <1>2, <1>3, Inductive, PTL DEF Spec
-----------------------------------------------------------------------------
(* What a file that is cut can be taken for.  Records name contents that   *)
(* were fetched, so an empty snapshot comes from an emptied file too.      *)

KnownRec(f, r) == r # None => Emptied(f, r.remote)

RecordsKnown ==
  /\ \A f \in Files :
       /\ cut[f] => IsEmpty(local[f])
       /\ KnownRec(f, disk[f])
       /\ \A t \in Tabs : KnownRec(f, job[t].mem[f])
  /\ saving # None => KnownRec(saving.file, saving.rec)

\* A step that records nothing but what it has fetched, or that it failed.
LEMMA RecordsStay ==
  ASSUME TypeOK, RecordsKnown, EmptyKnown,
         \A f \in Files : hadEmpty[f] => hadEmpty'[f],
         \A f \in Files : cut'[f] => \/ cut[f] /\ local'[f] = local[f]
                                     \/ IsEmpty(local'[f]),
         \A f \in Files :
           \/ disk'[f] = disk[f] \/ \E t \in Tabs : disk'[f] = job[t].mem[f]
           \/ saving # None /\ saving.file = f /\ disk'[f] = saving.rec,
         \A t \in Tabs, f \in Files :
           job'[t].mem[f] \in {None, job[t].mem[f], disk[f], Broken,
                               Synced(job[t].got[f])},
         saving' # None =>
           \/ /\ saving # None /\ saving'.file = saving.file
              /\ saving'.rec = saving.rec
           \/ /\ saving'.file \in Files
              /\ \/ \E t \in Tabs :
                      saving'.rec \in {Synced(job[t].got[saving'.file]),
                                       Synced(panel[t][saving'.file])}
                 \/ \E m : saving'.rec = Kept(disk[saving'.file], m)
  PROVE  RecordsKnown'
<1>1. \A c : Synced(c).remote = c
  BY DEF Synced
<1>2. Broken.remote = None /\ ~IsEmpty(None)
  BY NoneIsNotEmpty DEF Broken
<1>3. \A r, m : Kept(r, m).remote = IF r = None THEN None ELSE r.remote
  BY DEF Kept
<1>4. \A f \in Files, t \in Tabs :
        Emptied(f, job[t].got[f]) /\ Emptied(f, panel[t][f])
  BY DEF EmptyKnown
<1>5. ASSUME NEW f \in Files
      PROVE  /\ cut'[f] => IsEmpty(local'[f])
             /\ KnownRec(f, disk[f])'
             /\ \A t \in Tabs : KnownRec(f, job[t].mem[f])'
  <2>1. cut'[f] => IsEmpty(local'[f])
    BY DEF RecordsKnown
  <2>2. KnownRec(f, disk[f])'
    BY DEF RecordsKnown, KnownRec, Emptied
  <2>3. ASSUME NEW t \in Tabs PROVE KnownRec(f, job[t].mem[f])'
    <3>1. job'[t].mem[f] \in {None, job[t].mem[f], disk[f], Broken,
                              Synced(job[t].got[f])}
      OBVIOUS
    <3> QED
      BY <1>1, <1>2, <1>4, <3>1 DEF RecordsKnown, KnownRec, Emptied
  <2> QED
    BY <2>1, <2>2, <2>3
<1>6. saving' # None => KnownRec(saving.file, saving.rec)'
  <2> SUFFICES ASSUME saving' # None PROVE KnownRec(saving.file, saving.rec)'
    OBVIOUS
  <2>1. CASE /\ saving # None /\ saving'.file = saving.file
             /\ saving'.rec = saving.rec
    <3>1. saving.file \in Files
      BY <2>1 DEF TypeOK, Maybe, Saving
    <3> QED
      BY <2>1, <3>1 DEF RecordsKnown, KnownRec, Emptied
  <2>2. CASE /\ saving'.file \in Files
             /\ \E t \in Tabs : saving'.rec \in {Synced(job[t].got[saving'.file]),
                                                 Synced(panel[t][saving'.file])}
    BY <1>1, <1>4, <2>2 DEF KnownRec, Emptied
  <2>3. CASE saving'.file \in Files /\ \E m : saving'.rec = Kept(disk[saving'.file], m)
    BY <1>2, <1>3, <2>3 DEF RecordsKnown, KnownRec, Emptied
  <2> QED
    BY <2>1, <2>2, <2>3
<1> QED
  BY <1>5, <1>6 DEF RecordsKnown

\* The manifests in memory keep what they said, or are dropped.
MemStays ==
  \A t \in Tabs, f \in Files : job'[t].mem[f] \in {job[t].mem[f], None}

LEMMA MemStaysBy ==
  ASSUME TypeOK, NEW t \in Tabs
  PROVE  /\ \A f \in Files, s \in Stages : SetStage(t, f, s) => MemStays
         /\ Finish(t) => MemStays
         /\ \A f \in Files : Fetch(t, f) => MemStays
<1>0. job \in [Tabs -> Job]
  BY DEF TypeOK
<1>1. ASSUME NEW f \in Files, NEW s \in Stages, SetStage(t, f, s)
      PROVE  MemStays
  <2>1. SameJobBut(t, f) /\ job'[t].mem = job[t].mem
    BY <1>0, <1>1, StageUpdate DEF SetStage
  <2> QED
    BY <2>1 DEF MemStays, SameJobBut
<1>2. ASSUME Finish(t) PROVE MemStays
  <2>1. /\ \A u \in Tabs : u # t => job'[u] = job[u]
        /\ \A f \in Files : job'[t].mem[f] = None
    BY <1>0, <1>2, IdleUpdate DEF Finish
  <2> QED
    BY <2>1 DEF MemStays
<1>3. ASSUME NEW f \in Files, Fetch(t, f) PROVE MemStays
  <2>1. Fetched(t, f) \in Maybe(Content) /\ "check" \in Stages
    BY DEF Fetched, TypeOK, Maybe, Stages
  <2>2. job' = [job EXCEPT ![t].stage[f] = "check", ![t].got[f] = Fetched(t, f)]
    BY <1>3 DEF Fetch
  <2>3. SameJobBut(t, f) /\ job'[t].mem = job[t].mem
    BY <1>0, <2>1, <2>2, GotUpdate
  <2> QED
    BY <2>3 DEF MemStays, SameJobBut
<1> QED
  BY <1>1, <1>2, <1>3

LEMMA FileStepRecords ==
  ASSUME TypeOK, RecordsKnown, EmptyKnown, NEW t \in Tabs, NEW f \in Files,
         FileStep(t, f)
  PROVE  RecordsKnown'
<1>0. job \in [Tabs -> Job] /\ job[t].got[f] \in Maybe(Content)
  BY JobFields DEF TypeOK
<1>1. CASE \/ Fetch(t, f) \/ FetchFails(t, f) \/ RefuseSingle(t, f)
           \/ SkipSingle(t, f) \/ ConflictSingle(t, f) \/ Check(t, f)
           \/ Judge(t, f) \/ Leave(t, f) \/ WriteFails(t, f)
           \/ BatchBase(t, f) \/ BatchBaseFails(t, f)
  <2>1. /\ \/ Fetch(t, f) \/ Finish(t)
           \/ \E s \in {"broken", "conflict", "judge", "open", "record", "ok"} :
                SetStage(t, f, s)
        /\ UNCHANGED <<local, disk, saving, hadEmpty, cut>>
    BY <1>1 DEF Fetch, FetchFails, RefuseSingle, SkipSingle, ConflictSingle,
                Check, Judge, Leave, WriteFails, BatchBase, BatchBaseFails
  <2>2. {"broken", "conflict", "judge", "open", "record", "ok"} \subseteq Stages
    BY DEF Stages
  <2>3. MemStays
    BY <2>1, <2>2, MemStaysBy
  <2> QED
    BY <2>1, <2>3, RecordsStay DEF MemStays
<1>2. CASE BeginSingle(t, f)
  <2>1. /\ saving'.file = f /\ saving'.rec = Synced(job[t].got[f])
        /\ UNCHANGED <<local, disk, hadEmpty, cut>> /\ MemStays
    BY <1>2, MemStaysBy DEF BeginSingle
  <2> QED
    BY <2>1, RecordsStay DEF MemStays
<1>3. CASE Open(t, f) \/ Fill(t, f)
  <2>1. \A g \in Files : cut'[g] => \/ cut[g] /\ local'[g] = local[g]
                                    \/ IsEmpty(local'[g])
    <3>1. IsEmpty(EmptyContent)
      BY NoneAssumption, HelperTypes DEF IsEmpty, EmptyContent
    <3> QED
      BY <1>3, <3>1 DEF Open, Fill, Truncate, Put, TypeOK
  <2>2. MemStays /\ UNCHANGED <<disk, saving, hadEmpty>>
    BY <1>3, MemStaysBy DEF Open, Fill, Stages
  <2> QED
    BY <2>1, <2>2, RecordsStay DEF MemStays
<1>4. CASE RecordOk(t, f)
  <2>1. Synced(job[t].got[f]) \in Rec /\ "base" \in Stages
    BY <1>0, HelperTypes DEF Stages
  <2>2. job' = [job EXCEPT ![t].mem[f] = Synced(job[t].got[f]),
                           ![t].stage[f] = "base"]
    BY <1>4 DEF RecordOk
  <2>3. /\ job' \in [Tabs -> Job]
        /\ SameJobBut(t, f)
        /\ job'[t].stage[f] = "base"
        /\ job'[t].mem[f] = Synced(job[t].got[f])
        /\ job'[t].got = job[t].got
    BY <1>0, <2>1, <2>2, MemUpdate
  <2>4. UNCHANGED <<local, disk, saving, hadEmpty, cut>>
    BY <1>4 DEF RecordOk
  <2> QED
    BY <2>3, <2>4, RecordsStay DEF SameJobBut
<1>5. CASE RecordFailure(t, f)
  <2>1. Broken \in Rec /\ "failed" \in Stages
    BY HelperTypes DEF Stages
  <2>2. job' = [job EXCEPT ![t].mem[f] = Broken, ![t].stage[f] = "failed"]
    BY <1>5 DEF RecordFailure
  <2>3. /\ job' \in [Tabs -> Job]
        /\ SameJobBut(t, f)
        /\ job'[t].stage[f] = "failed"
        /\ job'[t].mem[f] = Broken
        /\ job'[t].got = job[t].got
    BY <1>0, <2>1, <2>2, MemUpdate
  <2>4. UNCHANGED <<local, disk, saving, hadEmpty, cut>>
    BY <1>5 DEF RecordFailure
  <2> QED
    BY <2>3, <2>4, RecordsStay DEF SameJobBut
<1> QED
  BY <1>1, <1>2, <1>3, <1>4, <1>5 DEF FileStep

LEMMA TailRecords ==
  ASSUME TypeOK, RecordsKnown, EmptyKnown, Tail
  PROVE  RecordsKnown'
<1>1. saving # None /\ saving \in Saving
  BY DEF Tail, LeaveFile, OpenFile, FillFile, WriteFileFails, SaveBase,
         SaveBaseFails, SaveManifest, SaveManifestFails, Tailing, TypeOK, Maybe
<1>2. UNCHANGED <<job, hadEmpty>>
  BY DEF Tail, LeaveFile, OpenFile, FillFile, WriteFileFails, SaveBase,
         SaveBaseFails, SaveManifest, SaveManifestFails
<1>3. saving' = None \/ (saving'.file = saving.file /\ saving'.rec = saving.rec)
  <2>1. saving' = None \/ \E step \in {"fill", "base", "manifest"} : TailNext(step)
    BY DEF Tail, LeaveFile, OpenFile, FillFile, WriteFileFails, SaveBase,
           SaveBaseFails, SaveManifest, SaveManifestFails
  <2> QED
    BY <1>1, <2>1 DEF TailNext, Saving
<1>4. \A f \in Files : cut'[f] => \/ cut[f] /\ local'[f] = local[f]
                                  \/ IsEmpty(local'[f])
  <2>1. CASE OpenFile \/ FillFile
    <3>1. IsEmpty(EmptyContent)
      BY NoneAssumption, HelperTypes DEF IsEmpty, EmptyContent
    <3> QED
      BY <2>1, <3>1 DEF OpenFile, FillFile, Truncate, Put, TypeOK
  <2>2. CASE ~(OpenFile \/ FillFile)
    BY <2>2 DEF Tail, LeaveFile, WriteFileFails, SaveBase, SaveBaseFails,
                SaveManifest, SaveManifestFails
  <2> QED
    BY <2>1, <2>2
<1>5. \A f \in Files : \/ disk'[f] = disk[f]
                       \/ saving.file = f /\ disk'[f] = saving.rec
  <2>1. CASE SaveManifest
    BY <2>1 DEF SaveManifest, TypeOK, Manifest
  <2>2. CASE ~SaveManifest
    BY <2>2 DEF Tail, LeaveFile, OpenFile, FillFile, WriteFileFails, SaveBase,
                SaveBaseFails, SaveManifestFails
  <2> QED
    BY <2>1, <2>2
<1> QED
  BY <1>1, <1>2, <1>3, <1>4, <1>5, RecordsStay

LEMMA RequestRecords ==
  ASSUME TypeOK, RecordsKnown, EmptyKnown, NEW t \in Tabs, Request(t)
  PROVE  RecordsKnown'
<1>0. job \in [Tabs -> Job]
  BY DEF TypeOK
<1>1. ASSUME NEW f \in Files, NEW cached \in UseCache, StartSingle(t, f, cached)
      PROVE  RecordsKnown'
  <2>1. \A u \in Tabs, g \in Files : job'[u].mem[g] \in {job[u].mem[g], None}
    BY <1>0, <1>1 DEF StartSingle, IdleJob, NoManifest
  <2> QED
    BY <1>1, <2>1, RecordsStay DEF StartSingle
<1>2. ASSUME NEW F \in SUBSET Files, NEW cached \in UseCache,
             StartBatch(t, F, cached)
      PROVE  RecordsKnown'
  <2>1. \A u \in Tabs, g \in Files : job'[u].mem[g] \in {job[u].mem[g], disk[g]}
    BY <1>0, <1>2 DEF StartBatch
  <2> QED
    BY <1>2, <2>1, RecordsStay DEF StartBatch
<1>3. ASSUME NEW f \in Files, NEW c \in Content,
             ResolveOurs(t, f) \/ ResolveTheirs(t, f) \/ ResolveMerged(t, f, c)
      PROVE  RecordsKnown'
  <2>1. /\ saving'.file = f
        /\ \/ saving'.rec = Synced(panel[t][f])
           \/ \E m : saving'.rec = Kept(disk[f], m)
        /\ UNCHANGED <<local, disk, job, cut>>
    BY <1>3 DEF ResolveOurs, ResolveTheirs, ResolveMerged, Resolve
  <2>2. \A g \in Files : hadEmpty[g] => hadEmpty'[g]
    BY <1>3 DEF ResolveOurs, ResolveTheirs, ResolveMerged, TypeOK
  <2> QED
    BY <2>1, <2>2, RecordsStay
<1>4. ASSUME ClosePanel(t) PROVE RecordsKnown'
  BY <1>4, RecordsStay DEF ClosePanel
<1>5. \E c : c \in Content
  BY HelperTypes
<1> QED
  BY <1>1, <1>2, <1>3, <1>4, <1>5 DEF Request

LEMMA NextRecords ==
  ASSUME IInv, RecordsKnown, EmptyKnown, [Next]_vars
  PROVE  RecordsKnown'
<1>0. TypeOK /\ job \in [Tabs -> Job]
  BY DEF IInv, TypeOK
<1>1. ASSUME NEW f \in Files, CacheExpires(f) PROVE RecordsKnown'
  BY <1>0, <1>1, RecordsStay DEF CacheExpires
<1>2. ASSUME NEW f \in Files, NEW c, Edit(f, c) PROVE RecordsKnown'
  <2>1. /\ \A g \in Files : hadEmpty[g] => hadEmpty'[g]
        /\ \A g \in Files : cut'[g] => cut[g] /\ local'[g] = local[g]
        /\ UNCHANGED <<disk, job, saving>>
    BY <1>0, <1>2 DEF Edit, Put, TypeOK
  <2> QED
    BY <1>0, <2>1, RecordsStay
<1>3. ASSUME NEW f \in Files, NEW c, Push(f, c) PROVE RecordsKnown'
  <2>1. \A g \in Files : hadEmpty[g] => hadEmpty'[g]
    BY <1>0, <1>3 DEF Push, TypeOK
  <2> QED
    BY <1>0, <1>3, <2>1, RecordsStay DEF Push
<1>4. CASE Crash
  <2>1. \A t \in Tabs, f \in Files : job'[t].mem[f] = None
    BY <1>4 DEF Crash, IdleJob, NoManifest
  <2> QED
    BY <1>0, <1>4, <2>1, RecordsStay DEF Crash
<1>5. ASSUME NEW t \in Tabs, EndBatch(t) PROVE RecordsKnown'
  <2>1. MemStays /\ disk' \in {disk, job[t].mem}
        /\ UNCHANGED <<local, saving, hadEmpty, cut>>
    BY <1>0, <1>5, MemStaysBy DEF EndBatch
  <2> QED
    BY <1>0, <2>1, RecordsStay DEF MemStays
<1>6. CASE UNCHANGED vars
  BY <1>0, <1>6, RecordsStay DEF vars
<1> QED
  BY <1>0, <1>1, <1>2, <1>3, <1>4, <1>5, <1>6, TailRecords, FileStepRecords,
     RequestRecords DEF Next, Environment, Progress

\* A write that broke off, by a failure or a crash, is not taken for done: the
\* file it left behind is not skipped as merged (is_already_merged) unless it
\* was once empty by itself.
THEOREM CutIsSeen == Spec => []CutIsNotMerged
<1>1. Init => EmptyKnown /\ RecordsKnown
  <2> SUFFICES ASSUME Init PROVE EmptyKnown /\ RecordsKnown
    OBVIOUS
  <2>1. \A t \in Tabs, f \in Files :
          job[t].got[f] = None /\ job[t].mem[f] = None /\ panel[t][f] = None
    BY DEF Init, IdleJob, NoManifest
  <2>2. /\ saving = None
        /\ \A f \in Files :
             /\ cache[f] = None /\ disk[f] = None /\ ~cut[f]
             /\ hadEmpty[f] = (IsEmpty(local[f]) \/ IsEmpty(remote[f]))
    BY DEF Init, NoManifest
  <2> QED
    BY <2>1, <2>2, NoneIsNotEmpty
    DEF EmptyKnown, Emptied, RecordsKnown, KnownRec
<1>2. RecordsKnown => CutIsNotMerged
  BY DEF RecordsKnown, KnownRec, Emptied, CutIsNotMerged, IsAlreadyMerged
<1>3. IInv /\ EmptyKnown /\ RecordsKnown /\ [Next]_vars =>
        EmptyKnown' /\ RecordsKnown'
  BY NextKnows, NextRecords
<1> QED
  BY <1>1, <1>2, <1>3, Inductive, PTL DEF Spec
-----------------------------------------------------------------------------
(* What the records say.  NoSilentOverwrite and ConflictIsReal hold for an *)
(* undisturbed use, whose conditions are sharp: README.md tells what TLC   *)
(* finds without each of them.  A tab may have any number of merges, files *)
(* and contents; single merges may come from any number of tabs, and their *)
(* fetches and writes may fail.                                            *)

Undisturbed ==
  /\ Budget.crashes = 0 /\ Choices \subseteq {"theirs"} /\ LineEnds = {FALSE}
  /\ RacyEdits = FALSE /\ "manifest" \notin Failures
  /\ "batch" \in Kinds => /\ Failures \subseteq {"base"}
                          /\ \A t, u \in Tabs : t = u

\* The record a file should have: what was last agreed on, on both sides.
Truth(f) == IF agreed[f] = None THEN None ELSE Synced(agreed[f].theirs)

Batching == \E t \in Tabs : job[t].kind = "batch"

\* The stages each kind of request goes through when nothing disturbs it.
StageFits(t, f) ==
  /\ job[t].kind = "idle" => job[t].stage[f] = "none"
  /\ job[t].kind = "single" =>
       job[t].stage[f] \in {"none", "fetch", "check", "broken"}
  /\ job[t].kind = "batch" => job[t].stage[f] \notin {"broken", "failed"}

\* A batch has the tab and the tail of the handlers to itself.
BatchAlone(t) ==
  job[t].kind = "batch" =>
    "batch" \in Kinds /\ saving = None /\ \A f \in Files : panel[t][f] = None

\* The manifest in memory is true, but for the file just written, whose
\* content the request still carries.
MemTrue(t, f) ==
  job[t].kind = "batch" =>
    IF job[t].stage[f] = "record"
    THEN agreed[f] # None /\ agreed[f].theirs = job[t].got[f]
    ELSE job[t].mem[f] = Truth(f)

\* What the check of a batch found still holds when it opens the file.
CheckStands(t, f) ==
  job[t].kind = "batch" /\ job[t].stage[f] \in {"judge", "open"} =>
    ~DetectConflict(local[f], job[t].got[f], job[t].mem[f])

\* The tail of a handler saves what it agrees on, and what the check of a single
\* merge found still holds when the tail opens the file.
SavingTrue ==
  saving # None =>
    /\ saving.rec = Synced(saving.theirs)
    /\ saving.step = "open" /\ ~saving.asked =>
         ~DetectConflict(local[saving.file], saving.content, disk[saving.file])

\* The manifest on disk is true, but for the record about to be saved.
DiskTrue(f) ==
  ~Batching => IF /\ saving # None /\ saving.file = f
                  /\ saving.step \in {"base", "manifest"}
               THEN saving.rec = Truth(f)
               ELSE disk[f] = Truth(f)

AgreeInv ==
  /\ \A t \in Tabs, f \in Files : StageFits(t, f) /\ MemTrue(t, f)
                                    /\ CheckStands(t, f)
  /\ \A t \in Tabs : BatchAlone(t)
  /\ \A f \in Files : DiskTrue(f)
  /\ SavingTrue
  /\ budget.crashes = 0

-----------------------------------------------------------------------------
LEMMA LfOnly ==
  ASSUME LineEnds = {FALSE}
  PROVE  \A c \in Content : ReadText(c) = c
  BY DEF ReadText, Content

\* With a true record a conflict is found exactly when both sides have moved on.
LEMMA TrueRecordDetects ==
  ASSUME LineEnds = {FALSE}, TypeOK, NEW f \in Files, NEW c \in Content
  PROVE  DetectConflict(local[f], c, Truth(f)) <=>
           /\ agreed[f] # None /\ local[f] # None
           /\ local[f] # agreed[f].theirs /\ c # agreed[f].theirs
<1>1. local[f] \in Maybe(Content) /\ agreed[f] \in Maybe(Agreement)
  BY DEF TypeOK
<1>2. CASE agreed[f] = None
  BY <1>2 DEF DetectConflict, Truth
<1>3. CASE agreed[f] # None
  <2>1. agreed[f].theirs \in Content
    BY <1>1, <1>3 DEF Maybe, Agreement
  <2>2. /\ Truth(f) # None /\ Truth(f).ok
        /\ Truth(f).remote = agreed[f].theirs /\ Truth(f).local = agreed[f].theirs
    <3>1. Truth(f) = [ok |-> TRUE, remote |-> agreed[f].theirs,
                      local |-> agreed[f].theirs]
      BY <1>3 DEF Truth, Synced
    <3>2. Truth(f) \in Rec
      BY <2>1, <3>1 DEF Rec, Maybe
    <3>3. Truth(f) # None
      BY <3>2, RecordsAssumption
    <3>4. /\ Truth(f).ok = TRUE /\ Truth(f).remote = agreed[f].theirs
          /\ Truth(f).local = agreed[f].theirs
      BY <3>1
    <3> QED
      BY <3>3, <3>4
  <2>3. local[f] # None => ReadText(local[f]) = local[f]
    BY <1>1, LfOnly DEF Maybe
  <2> QED
    BY <1>3, <2>1, <2>2, <2>3, NoneAssumption DEF DetectConflict, LocalChanged
<1> QED
  BY <1>2, <1>3

-----------------------------------------------------------------------------
(* How the steps keep AgreeInv.                                            *)

LEMMA OneTabWithBatch ==
  ASSUME Undisturbed, AgreeInv, NEW t \in Tabs, job[t].kind = "batch"
  PROVE  /\ Batching /\ saving = None
         /\ Failures \subseteq {"base"} /\ RacyEdits = FALSE
         /\ \A u \in Tabs : u = t
         /\ \A f \in Files : panel[t][f] = None
  BY DEF Undisturbed, AgreeInv, BatchAlone, Batching

\* Steps that touch neither a request nor a record nor an agreement.
LEMMA RestAgrees ==
  ASSUME AgreeInv, UNCHANGED <<disk, job, agreed, saving>>,
         budget'.crashes = budget.crashes,
         \A t \in Tabs, f \in Files :
           job[t].kind = "batch" /\ panel[t][f] = None => panel'[t][f] = None,
         \A t \in Tabs, f \in Files :
           job[t].kind = "batch" /\ job[t].stage[f] \in {"judge", "open"} =>
             local'[f] = local[f],
         saving # None /\ saving.step = "open" =>
           local'[saving.file] = local[saving.file]
  PROVE  AgreeInv'
<1>1. \A t \in Tabs, f \in Files :
        StageFits(t, f)' /\ MemTrue(t, f)' /\ CheckStands(t, f)'
  BY DEF AgreeInv, StageFits, MemTrue, CheckStands, Truth
<1>2. \A t \in Tabs : BatchAlone(t)'
  BY DEF AgreeInv, BatchAlone
<1>3. \A f \in Files : DiskTrue(f)'
  BY DEF AgreeInv, DiskTrue, Truth, Batching
<1>4. SavingTrue'
  BY DEF AgreeInv, SavingTrue
<1> QED
  BY <1>1, <1>2, <1>3, <1>4 DEF AgreeInv

LEMMA SpendOther ==
  ASSUME TypeOK, NEW what \in {"edits", "pushes", "merges"}, Spend(what)
  PROVE  budget'.crashes = budget.crashes
  BY DEF TypeOK, Spend

LEMMA EnvironmentAgrees ==
  ASSUME Undisturbed, TypeOK, AgreeInv, Environment
  PROVE  AgreeInv'
<1>1. ASSUME NEW f \in Files, CacheExpires(f) PROVE AgreeInv'
  BY <1>1, RestAgrees DEF CacheExpires
<1>2. ASSUME NEW f \in Files, NEW c, Edit(f, c) PROVE AgreeInv'
  <2>1. budget'.crashes = budget.crashes
    BY <1>2, SpendOther DEF Edit
  <2>2. /\ ~BeingWritten(f)
        /\ local' = [local EXCEPT ![f] = c]
        /\ UNCHANGED <<remote, cache, disk, bases, job, saving, panel, agreed>>
    BY <1>2 DEF Edit, Put, Undisturbed
  <2>3. \A g \in Files : g # f => local'[g] = local[g]
    BY <2>2 DEF TypeOK
  <2>4. ASSUME NEW t \in Tabs, NEW g \in Files, job[t].stage[g] \in {"judge", "open"}
        PROVE  local'[g] = local[g]
    BY <2>2, <2>3, <2>4 DEF BeingWritten
  <2>5. saving # None /\ saving.step = "open" =>
          local'[saving.file] = local[saving.file]
    <3>1. saving # None => saving.file \in Files
      BY DEF TypeOK, Maybe, Saving
    <3> QED
      BY <2>2, <2>3, <3>1 DEF BeingWritten
  <2> QED
    BY <2>1, <2>2, <2>4, <2>5, RestAgrees
<1>3. ASSUME NEW f \in Files, NEW c, Push(f, c) PROVE AgreeInv'
  <2>1. budget'.crashes = budget.crashes
    BY <1>3, SpendOther DEF Push
  <2> QED
    BY <1>3, <2>1, RestAgrees DEF Push
<1>4. ~Crash
  BY DEF Crash, Spend, AgreeInv
<1> QED
  BY <1>1, <1>2, <1>3, <1>4 DEF Environment

\* The tail of a handler has the loop, so no batch is under way.
LEMMA TailAlone ==
  ASSUME AgreeInv, saving # None, UNCHANGED <<job, panel, budget>>,
         \A f \in Files : DiskTrue(f)', SavingTrue'
  PROVE  AgreeInv'
<1>1. \A t \in Tabs : job[t].kind # "batch"
  BY DEF AgreeInv, BatchAlone
<1>2. \A t \in Tabs, f \in Files :
        StageFits(t, f)' /\ MemTrue(t, f)' /\ CheckStands(t, f)'
  BY <1>1 DEF AgreeInv, StageFits, MemTrue, CheckStands
<1>3. \A t \in Tabs : BatchAlone(t)'
  BY <1>1 DEF BatchAlone
<1> QED
  BY <1>2, <1>3 DEF AgreeInv

\* What the tail has just agreed on is what it goes on to save.
LEMMA TailAgreed ==
  ASSUME TypeOK, AgreeInv, NEW step \in {"open", "fill"}, Tailing(step),
         TailNext("base"),
         NEW ours \in Maybe(Content), Agree(saving.file, ours, saving.theirs),
         UNCHANGED <<disk, job, panel, budget>>
  PROVE  AgreeInv'
<1>0. "base" \in {"open", "fill", "base", "manifest"}
  OBVIOUS
<1>1. /\ saving \in Saving /\ saving.step = step
      /\ saving' \in Saving /\ saving' # None
      /\ saving'.step = "base" /\ saving'.file = saving.file
      /\ saving'.rec = saving.rec /\ saving'.theirs = saving.theirs
  BY <1>0, TailUpdate
<1>a. PICK file \in Files, theirs \in Content :
        file = saving.file /\ theirs = saving.theirs
  BY <1>1 DEF Saving
<1>2. saving # None /\ saving.rec = Synced(theirs)
  BY <1>a DEF Tailing, AgreeInv, SavingTrue
<1>3. /\ [ours |-> ours, theirs |-> theirs] \in Agreement
      /\ agreed' = [agreed EXCEPT ![file] = [ours |-> ours, theirs |-> theirs]]
  BY <1>a DEF Agree, Agreement
<1>4. /\ agreed'[file] = [ours |-> ours, theirs |-> theirs]
      /\ \A f \in Files : f # file => agreed'[f] = agreed[f]
  BY <1>2, <1>3 DEF TypeOK
<1>5. Truth(file)' = Synced(theirs)
  <2>1. agreed'[file] # None /\ agreed'[file].theirs = theirs
    BY <1>3, <1>4, RecordsAssumption
  <2> QED
    BY <2>1 DEF Truth
<1>6. DiskTrue(file)'
  BY <1>1, <1>2, <1>a, <1>5 DEF DiskTrue
<1>7. ASSUME NEW f \in Files, f # file PROVE DiskTrue(f)'
  <2>1. Truth(f)' = Truth(f)
    BY <1>4, <1>7 DEF Truth
  <2>2. Batching' <=> Batching
    BY DEF Batching
  <2> QED
    BY <1>1, <1>a, <1>7, <2>1, <2>2 DEF AgreeInv, DiskTrue
<1>8. SavingTrue'
  BY <1>1, <1>2, <1>a DEF SavingTrue
<1> QED
  BY <1>2, <1>6, <1>7, <1>8, TailAlone

\* The steps of the tail that agree on nothing and record nothing.
LEMMA TailOther ==
  ASSUME TypeOK, AgreeInv, NEW step \in {"open", "fill", "base"}, Tailing(step),
         \/ step = "open" /\ TailNext("fill")
         \/ step = "base" /\ TailNext("manifest")
         \/ step # "base" /\ saving' = None,
         UNCHANGED <<disk, job, panel, budget, agreed>>
  PROVE  AgreeInv'
<1>0. saving # None /\ saving.step = step
  BY DEF Tailing
<1>1. Batching' <=> Batching
  BY DEF Batching
<1>2. \A f \in Files : Truth(f)' = Truth(f)
  BY DEF Truth
<1>3. CASE saving' = None
  <2>1. \A f \in Files : DiskTrue(f)'
    BY <1>0, <1>1, <1>2, <1>3, TailUpdate DEF AgreeInv, DiskTrue, TailNext
  <2>2. SavingTrue'
    BY <1>3 DEF SavingTrue
  <2> QED
    BY <1>0, <2>1, <2>2, TailAlone
<1>4. CASE saving' # None
  <2>1. PICK next \in {"fill", "manifest"} :
          /\ TailNext(next) /\ (next = "fill" => step = "open")
          /\ (next = "manifest" => step = "base")
    BY <1>4
  <2>2. /\ saving'.step = next /\ saving'.file = saving.file
        /\ saving'.rec = saving.rec /\ saving'.theirs = saving.theirs
    BY <2>1, TailUpdate
  <2>3. \A f \in Files : DiskTrue(f)'
    BY <1>0, <1>1, <1>2, <1>4, <2>1, <2>2 DEF AgreeInv, DiskTrue
  <2>4. SavingTrue'
    BY <1>0, <2>2 DEF AgreeInv, SavingTrue
  <2> QED
    BY <1>0, <2>3, <2>4, TailAlone
<1> QED
  BY <1>3, <1>4

LEMMA TailAgrees ==
  ASSUME Undisturbed, IInv, AgreeInv, Tail
  PROVE  AgreeInv'
<1>0. TypeOK /\ SavingFull
  BY DEF IInv
<1>a. saving \in Saving /\ saving.file \in Files
  BY <1>0 DEF Tail, LeaveFile, OpenFile, FillFile, WriteFileFails, SaveBase,
              SaveBaseFails, SaveManifest, SaveManifestFails, Tailing, TypeOK,
              Maybe, Saving
<1>1. CASE LeaveFile
  <2>1. local[saving.file] \in Maybe(Content)
    BY <1>0, <1>a DEF TypeOK
  <2> QED
    BY <1>0, <1>1, <2>1, TailAgreed DEF LeaveFile
<1>2. CASE FillFile
  <2>1. saving.content \in Maybe(Content)
    BY <1>0, <1>2 DEF FillFile, Tailing, SavingFull, Maybe
  <2> QED
    BY <1>0, <1>2, <2>1, TailAgreed DEF FillFile
<1>3. CASE OpenFile \/ WriteFileFails \/ SaveBase \/ SaveBaseFails
  BY <1>0, <1>3, TailOther DEF OpenFile, WriteFileFails, SaveBase, SaveBaseFails
<1>4. CASE SaveManifest
  <2>1. /\ disk' = [disk EXCEPT ![saving.file] = saving.rec] /\ saving' = None
        /\ UNCHANGED <<local, job, panel, budget, agreed>>
        /\ saving # None /\ saving.step = "manifest"
    BY <1>4 DEF SaveManifest, Tailing
  <2>2. ~Batching
    BY <2>1 DEF AgreeInv, BatchAlone, Batching
  <2>3. \A f \in Files : DiskTrue(f)'
    BY <1>0, <1>a, <2>1, <2>2 DEF AgreeInv, DiskTrue, Truth, TypeOK, Manifest
  <2>4. SavingTrue'
    BY <2>1 DEF SavingTrue
  <2> QED
    BY <2>1, <2>3, <2>4, TailAlone
<1>5. ~SaveManifestFails
  BY DEF SaveManifestFails, Undisturbed
<1> QED
  BY <1>1, <1>2, <1>3, <1>4, <1>5 DEF Tail

\* The steps of a batch that move one file on and leave records alone.
LEMMA BatchStageAgrees ==
  ASSUME Undisturbed, TypeOK, AgreeInv, NEW t \in Tabs, NEW f \in Files,
         NEW s \in Stages, SetStage(t, f, s),
         job[t].kind = "batch", job[t].stage[f] # "record",
         s \notin {"broken", "failed", "record"},
         s \in {"judge", "open"} =>
           ~DetectConflict(local[f], job[t].got[f], job[t].mem[f]),
         UNCHANGED <<local, disk, saving, panel, budget, agreed>>
  PROVE  AgreeInv'
<1>1. \A u \in Tabs : u = t
  BY OneTabWithBatch
<1>2. job \in [Tabs -> Job]
  BY DEF TypeOK
<1>3. /\ job' \in [Tabs -> Job]
      /\ SameJobBut(t, f)
      /\ job'[t].stage[f] = s
      /\ job'[t].got = job[t].got
      /\ job'[t].mem = job[t].mem
  BY <1>2, StageUpdate DEF SetStage
<1>4. job'[t].kind = "batch"
      /\ \A g \in Files : g # f => job'[t].stage[g] = job[t].stage[g]
  BY <1>3 DEF SameJobBut
<1>5. \A g \in Files : StageFits(t, g)' /\ MemTrue(t, g)' /\ CheckStands(t, g)'
  BY <1>3, <1>4 DEF AgreeInv, StageFits, MemTrue, CheckStands, Truth
<1>6. BatchAlone(t)'
  BY DEF AgreeInv, BatchAlone
<1>7. Batching'
  BY <1>4 DEF Batching
<1>8. SavingTrue'
  BY DEF AgreeInv, SavingTrue
<1> QED
  BY <1>1, <1>5, <1>6, <1>7, <1>8 DEF AgreeInv, DiskTrue

\* The steps of a single merge before its write.
LEMMA SingleStageAgrees ==
  ASSUME TypeOK, AgreeInv, NEW t \in Tabs, NEW f \in Files,
         job' \in [Tabs -> Job], SameJobBut(t, f),
         job[t].kind = "single",
         job'[t].stage[f] \in {"none", "fetch", "check", "broken"},
         UNCHANGED <<local, disk, saving, panel, budget, agreed>>
  PROVE  AgreeInv'
<1>1. \A u \in Tabs : job'[u].kind = job[u].kind
  BY DEF SameJobBut
<1>2. \A u \in Tabs, g \in Files : job[u].kind = "batch" =>
        /\ job'[u].stage[g] = job[u].stage[g]
        /\ job'[u].got[g] = job[u].got[g]
        /\ job'[u].mem[g] = job[u].mem[g]
  BY DEF SameJobBut
<1>3. \A u \in Tabs, g \in Files : StageFits(u, g)'
  <2>1. \A u \in Tabs, g \in Files : <<u, g>> # <<t, f>> => StageFits(u, g)'
    BY <1>1 DEF AgreeInv, StageFits, SameJobBut
  <2>2. StageFits(t, f)'
    BY <1>1 DEF StageFits
  <2> QED
    BY <2>1, <2>2
<1>4. \A u \in Tabs, g \in Files : MemTrue(u, g)' /\ CheckStands(u, g)'
  BY <1>1, <1>2 DEF AgreeInv, MemTrue, CheckStands, Truth
<1>5. /\ \A u \in Tabs : BatchAlone(u)'
      /\ \A g \in Files : DiskTrue(g)'
      /\ SavingTrue'
  BY <1>1 DEF AgreeInv, BatchAlone, DiskTrue, Batching, Truth, SavingTrue
<1> QED
  BY <1>3, <1>4, <1>5 DEF AgreeInv

\* The end of a single merge, and what it leaves to the tail of its handler.
LEMMA SingleEndAgrees ==
  ASSUME Undisturbed, TypeOK, AgreeInv, NEW t \in Tabs, job[t].kind = "single",
         Finish(t), UNCHANGED <<local, disk, budget, agreed>>,
         \/ UNCHANGED saving
         \/ saving = None /\ saving' # None /\ saving'.step = "open",
         SavingTrue'
  PROVE  AgreeInv'
<1>1. ~Batching
  BY OneTabWithBatch DEF Batching
<1>2. job'[t] = IdleJob /\ \A u \in Tabs : u # t => job'[u] = job[u]
  BY DEF Finish, TypeOK
<1>3. IdleJob.kind = "idle" /\ \A f \in Files : IdleJob.stage[f] = "none"
  BY DEF IdleJob
<1>4. \A u \in Tabs : job'[u].kind # "batch"
  BY <1>1, <1>2, <1>3 DEF Batching
<1>5. \A u \in Tabs, f \in Files : StageFits(u, f)'
  BY <1>2, <1>3 DEF AgreeInv, StageFits
<1>6. /\ \A u \in Tabs, f \in Files : MemTrue(u, f)' /\ CheckStands(u, f)'
      /\ \A u \in Tabs : BatchAlone(u)'
  BY <1>4 DEF MemTrue, CheckStands, BatchAlone
<1>7. \A f \in Files : DiskTrue(f)'
  BY <1>1 DEF AgreeInv, DiskTrue, Truth
<1> QED
  BY <1>5, <1>6, <1>7 DEF AgreeInv

LEMMA FetchAgrees ==
  ASSUME Undisturbed, IInv, AgreeInv, NEW t \in Tabs, NEW f \in Files,
         Fetch(t, f)
  PROVE  AgreeInv'
<1>1. Fetched(t, f) \in Maybe(Content) /\ "check" \in Stages
  BY DEF Fetched, IInv, TypeOK, Maybe, Stages
<1>2. /\ job \in [Tabs -> Job]
      /\ job' = [job EXCEPT ![t].stage[f] = "check", ![t].got[f] = Fetched(t, f)]
      /\ job[t].stage[f] = "fetch"
      /\ UNCHANGED <<local, disk, saving, panel, budget, agreed>>
  BY DEF Fetch, IInv, TypeOK, At
<1>3. /\ job' \in [Tabs -> Job]
      /\ SameJobBut(t, f)
      /\ job'[t].stage[f] = "check"
      /\ job'[t].got[f] = Fetched(t, f)
      /\ job'[t].mem = job[t].mem
  BY <1>1, <1>2, GotUpdate
<1>4. job[t].kind # "idle"
  BY <1>2 DEF AgreeInv, StageFits
<1>5. CASE job[t].kind = "batch"
  <2>1. \A u \in Tabs : u = t
    BY <1>5, OneTabWithBatch
  <2>2. job'[t].kind = "batch"
        /\ \A g \in Files : g # f => /\ job'[t].stage[g] = job[t].stage[g]
                                     /\ job'[t].got[g] = job[t].got[g]
    BY <1>3, <1>5 DEF SameJobBut
  <2>3. \A g \in Files : StageFits(t, g)' /\ MemTrue(t, g)' /\ CheckStands(t, g)'
    BY <1>2, <1>3, <1>5, <2>2 DEF AgreeInv, StageFits, MemTrue, CheckStands, Truth
  <2>4. BatchAlone(t)' /\ Batching'
    BY <1>2, <1>5, <2>2 DEF AgreeInv, BatchAlone, Batching
  <2> QED
    BY <1>2, <2>1, <2>3, <2>4 DEF AgreeInv, DiskTrue, SavingTrue
<1>6. CASE job[t].kind = "single"
  BY <1>2, <1>3, <1>6, SingleStageAgrees DEF IInv
<1>7. job[t].kind \in {"idle", "single", "batch"}
  BY <1>2, JobFields
<1> QED
  BY <1>4, <1>5, <1>6, <1>7

\* The steps of a batch's write: it agrees on what the request carries.
LEMMA WriteAgrees ==
  ASSUME Undisturbed, IInv, AgreeInv, NEW t \in Tabs, NEW f \in Files,
         Judge(t, f) \/ Leave(t, f) \/ Open(t, f) \/ Fill(t, f)
  PROVE  AgreeInv'
<1> DEFINE c == job[t].got[f]
<1>0. TypeOK /\ GotKnown /\ job \in [Tabs -> Job]
  BY DEF IInv, TypeOK
<1>1. /\ job[t].stage[f] \in {"judge", "open", "fill"}
      /\ UNCHANGED <<disk, saving, panel, budget>>
  BY DEF Judge, Leave, Open, Fill, At
<1>2. c \in Content /\ local[f] \in Maybe(Content)
  BY <1>0, <1>1 DEF GotKnown, Carrying, TypeOK
<1>3. job[t].kind = "batch"
  <2>1. job[t].kind \in {"idle", "single", "batch"}
    BY <1>0, JobFields
  <2> QED
    BY <1>1, <2>1 DEF AgreeInv, StageFits
<1>4. CASE Judge(t, f)
  <2>1. SetStage(t, f, "open") /\ UNCHANGED <<local, disk, saving, panel, budget, agreed>>
        /\ job[t].stage[f] = "judge"
    BY <1>4 DEF Judge, At
  <2>2. "open" \in Stages /\ ~DetectConflict(local[f], job[t].got[f], job[t].mem[f])
    BY <1>3, <2>1 DEF Stages, AgreeInv, CheckStands
  <2> QED
    BY <1>0, <1>3, <2>1, <2>2, BatchStageAgrees
<1>5. CASE Leave(t, f) \/ Open(t, f) \/ Fill(t, f)
  <2>1. PICK s \in {"fill", "record"} :
          /\ SetStage(t, f, s)
          /\ s = "fill" => agreed' = agreed
          /\ s = "record" => \E ours \in Maybe(Content) : Agree(f, ours, c)
    BY <1>2, <1>5 DEF Leave, Open, Fill, Maybe
  <2>2. \A g \in Files : g # f => local'[g] = local[g]
    BY <1>0, <1>5 DEF Leave, Open, Fill, Truncate, Put, TypeOK
  <2>3. s \in Stages
    BY DEF Stages
  <2>4. job' = [job EXCEPT ![t].stage[f] = s]
    BY <2>1 DEF SetStage
  <2>5. /\ job' \in [Tabs -> Job]
        /\ SameJobBut(t, f)
        /\ job'[t].stage[f] = s
        /\ job'[t].got = job[t].got
        /\ job'[t].mem = job[t].mem
    BY <1>0, <2>3, <2>4, StageUpdate
  <2>6. job'[t].kind = "batch" /\ \A u \in Tabs : u = t
    BY <1>3, <2>5, OneTabWithBatch DEF SameJobBut
  <2>7. \A g \in Files : g # f => job'[t].stage[g] = job[t].stage[g]
                                  /\ agreed'[g] = agreed[g]
    BY <1>0, <2>1, <2>5 DEF SameJobBut, Agree, TypeOK
  <2>8. MemTrue(t, f)'
    <3>1. CASE s = "fill"
      BY <1>1, <1>3, <2>1, <2>5, <3>1 DEF AgreeInv, MemTrue, Truth
    <3>2. CASE s = "record"
      <4>1. PICK ours \in Maybe(Content) : Agree(f, ours, c)
        BY <2>1, <3>2
      <4>2. [ours |-> ours, theirs |-> c] \in Agreement
        BY <1>2 DEF Agreement
      <4>3. agreed'[f] = [ours |-> ours, theirs |-> c]
        BY <1>0, <4>1 DEF Agree, TypeOK
      <4>4. agreed'[f] # None /\ agreed'[f].theirs = c
        BY <4>2, <4>3, RecordsAssumption
      <4> QED
        BY <2>5, <3>2, <4>4 DEF MemTrue
    <3> QED
      BY <3>1, <3>2
  <2>9. StageFits(t, f)' /\ CheckStands(t, f)'
    BY <2>5, <2>6 DEF StageFits, CheckStands
  <2>10. ASSUME NEW g \in Files, g # f
         PROVE  StageFits(t, g)' /\ MemTrue(t, g)' /\ CheckStands(t, g)'
    <3>1. StageFits(t, g) /\ MemTrue(t, g) /\ CheckStands(t, g)
      BY DEF AgreeInv
    <3>2. Truth(g)' = Truth(g)
      BY <2>7, <2>10 DEF Truth
    <3> QED
      BY <1>3, <2>2, <2>5, <2>6, <2>7, <2>10, <3>1, <3>2
      DEF StageFits, MemTrue, CheckStands
  <2>11. BatchAlone(t)' /\ Batching' /\ SavingTrue'
    BY <1>1, <1>3, <2>6 DEF AgreeInv, BatchAlone, Batching, SavingTrue
  <2> QED
    BY <1>1, <2>6, <2>8, <2>9, <2>10, <2>11 DEF AgreeInv, DiskTrue
<1> QED
  BY <1>4, <1>5

LEMMA RecordOkAgrees ==
  ASSUME Undisturbed, IInv, AgreeInv, NEW t \in Tabs, NEW f \in Files,
         RecordOk(t, f)
  PROVE  AgreeInv'
<1>1. /\ job \in [Tabs -> Job] /\ job[t].stage[f] = "record"
      /\ job' = [job EXCEPT ![t].mem[f] = Synced(job[t].got[f]),
                            ![t].stage[f] = "base"]
      /\ UNCHANGED <<local, disk, saving, panel, budget, agreed>>
  BY DEF RecordOk, IInv, TypeOK, At
<1>2. job[t].got[f] \in Maybe(Content) /\ job[t].kind \in {"idle", "single", "batch"}
  BY <1>1, JobFields
<1>3. Synced(job[t].got[f]) \in Rec /\ "base" \in Stages
  BY <1>2, HelperTypes DEF Stages
<1>4. /\ job' \in [Tabs -> Job]
      /\ SameJobBut(t, f)
      /\ job'[t].stage[f] = "base"
      /\ job'[t].mem[f] = Synced(job[t].got[f])
      /\ job'[t].got = job[t].got
  BY <1>1, <1>3, MemUpdate
<1>5. job[t].kind = "batch"
  BY <1>1, <1>2 DEF AgreeInv, StageFits
<1>6. job'[t].kind = "batch" /\ \A u \in Tabs : u = t
  BY <1>4, <1>5, OneTabWithBatch DEF SameJobBut
<1>7. StageFits(t, f)' /\ MemTrue(t, f)' /\ CheckStands(t, f)'
  BY <1>1, <1>4, <1>5, <1>6 DEF AgreeInv, StageFits, MemTrue, CheckStands, Truth
<1>8. ASSUME NEW g \in Files, g # f
      PROVE  StageFits(t, g)' /\ MemTrue(t, g)' /\ CheckStands(t, g)'
  BY <1>1, <1>4, <1>5, <1>8
  DEF AgreeInv, StageFits, MemTrue, CheckStands, Truth, SameJobBut
<1>9. BatchAlone(t)' /\ Batching' /\ SavingTrue'
  BY <1>1, <1>5, <1>6 DEF AgreeInv, BatchAlone, Batching, SavingTrue
<1> QED
  BY <1>1, <1>6, <1>7, <1>8, <1>9 DEF AgreeInv, DiskTrue

LEMMA BeginSingleAgrees ==
  ASSUME Undisturbed, IInv, AgreeInv, NEW t \in Tabs, NEW f \in Files,
         BeginSingle(t, f)
  PROVE  AgreeInv'
<1> DEFINE c == job[t].got[f]
<1>0. TypeOK /\ GotKnown
  BY DEF IInv
<1>1. /\ c \in Content /\ job[t].kind = "single" /\ saving = None
      /\ ~DetectConflict(local[f], c, disk[f])
  BY <1>0 DEF GotKnown, BeginSingle, Checks, SingleConflict, LoopIsFree, At,
              Carrying
<1>2. /\ saving' = [file |-> f, content |-> c, theirs |-> c, rec |-> Synced(c),
                    base |-> c, asked |-> FALSE, step |-> "open"]
      /\ Finish(t)
      /\ UNCHANGED <<local, disk, panel, budget, agreed>>
  BY DEF BeginSingle
<1>3. saving' \in Saving
  BY <1>1, <1>2, HelperTypes DEF Saving, Maybe
<1>4. saving' # None /\ saving'.step = "open"
  BY <1>2, <1>3, RecordsAssumption
<1>5. SavingTrue'
  BY <1>1, <1>2 DEF SavingTrue
<1> QED
  BY <1>0, <1>1, <1>2, <1>4, <1>5, SingleEndAgrees

LEMMA FileStepAgrees ==
  ASSUME Undisturbed, IInv, AgreeInv, NEW t \in Tabs, NEW f \in Files,
         FileStep(t, f)
  PROVE  AgreeInv'
<1>0. TypeOK /\ GotKnown /\ job \in [Tabs -> Job]
  BY DEF IInv, TypeOK
<1>a. job[t].kind \in {"idle", "single", "batch"}
  BY <1>0, JobFields
\* The steps that end a single merge and change nothing else of interest.
<1>b. ASSUME job[t].kind = "single", Finish(t),
             UNCHANGED <<local, disk, saving, budget, agreed>>
      PROVE  AgreeInv'
  <2>1. SavingTrue'
    BY <1>b DEF AgreeInv, SavingTrue
  <2> QED
    BY <1>0, <1>b, <2>1, SingleEndAgrees
<1>c. job[t].stage[f] = "broken" => job[t].kind = "single"
  BY <1>a DEF AgreeInv, StageFits
<1>d. job[t].stage[f] \in {"open", "fill", "base"} => job[t].kind = "batch"
  BY <1>a DEF AgreeInv, StageFits
<1>1. CASE FetchFails(t, f)
  <2>0. "fetch" \in Failures /\ job[t].stage[f] = "fetch"
    BY <1>1 DEF FetchFails, At
  <2>1. job[t].kind = "single"
    <3>1. job[t].kind # "batch"
      BY <2>0, OneTabWithBatch
    <3>2. job[t].kind # "idle"
      BY <2>0 DEF AgreeInv, StageFits
    <3> QED
      BY <1>a, <3>1, <3>2
  <2>2. "broken" \in Stages
    BY DEF Stages
  <2>a. job' = [job EXCEPT ![t].stage[f] = "broken"]
    BY <1>1 DEF FetchFails, SetStage
  <2>3. /\ job' \in [Tabs -> Job]
        /\ SameJobBut(t, f)
        /\ job'[t].stage[f] = "broken"
        /\ job'[t].got = job[t].got
        /\ job'[t].mem = job[t].mem
    BY <1>0, <2>a, <2>2, StageUpdate
  <2> QED
    BY <1>0, <1>1, <2>1, <2>3, SingleStageAgrees DEF FetchFails
<1>2. CASE RefuseSingle(t, f)
  BY <1>2, <1>b DEF RefuseSingle
<1>3. CASE ConflictSingle(t, f)
  BY <1>3, <1>b DEF ConflictSingle, Checks
<1>4. CASE SkipSingle(t, f)
  BY <1>4, <1>b DEF SkipSingle, Checks
<1>6. CASE Check(t, f)
  <2> DEFINE s == IF DetectConflict(local[f], job[t].got[f], job[t].mem[f])
                  THEN "conflict" ELSE "judge"
  <2>1. /\ job[t].kind = "batch" /\ job[t].stage[f] = "check"
        /\ SetStage(t, f, s)
        /\ UNCHANGED <<local, disk, saving, panel, budget, agreed>>
    BY <1>6 DEF Check, At
  <2>2. s \in Stages /\ s \notin {"broken", "failed", "record"}
        /\ (s \in {"judge", "open"} =>
              ~DetectConflict(local[f], job[t].got[f], job[t].mem[f]))
    BY DEF Stages
  <2> HIDE DEF s
  <2> QED
    BY <1>0, <2>1, <2>2, BatchStageAgrees
<1>7. CASE WriteFails(t, f)
  BY <1>7, <1>d, OneTabWithBatch DEF WriteFails, At
<1>8. CASE BatchBase(t, f) \/ BatchBaseFails(t, f)
  <2>1. job[t].kind = "batch" /\ job[t].stage[f] = "base"
    BY <1>8, <1>d DEF BatchBase, BatchBaseFails, At
  <2>2. "ok" \in Stages
    BY DEF Stages
  <2> QED
    BY <1>0, <1>8, <2>1, <2>2, BatchStageAgrees DEF BatchBase, BatchBaseFails
<1>9. CASE RecordFailure(t, f)
  BY <1>9, <1>c DEF RecordFailure, At
<1> QED
  BY <1>1, <1>2, <1>3, <1>4, <1>6, <1>7, <1>8, <1>9, FetchAgrees,
     BeginSingleAgrees, WriteAgrees, RecordOkAgrees DEF FileStep

LEMMA EndBatchAgrees ==
  ASSUME Undisturbed, IInv, AgreeInv, NEW t \in Tabs, EndBatch(t)
  PROVE  AgreeInv'
<1>1. /\ job[t].kind = "batch" /\ saving = None
      /\ \A f \in Files : job[t].stage[f] \in Settled
      /\ disk' = job[t].mem /\ Finish(t)
      /\ UNCHANGED <<saving, budget, agreed>>
  BY DEF EndBatch, LoopIsFree, Undisturbed
<1>2. \A u \in Tabs : u = t
  BY <1>1, OneTabWithBatch
<1>3. job'[t] = IdleJob /\ IdleJob.kind = "idle"
      /\ \A f \in Files : IdleJob.stage[f] = "none"
  BY <1>1 DEF Finish, IInv, TypeOK, IdleJob
<1>4. \A f \in Files : StageFits(t, f)' /\ MemTrue(t, f)' /\ CheckStands(t, f)'
  BY <1>3 DEF StageFits, MemTrue, CheckStands
<1>5. BatchAlone(t)'
  BY <1>3 DEF BatchAlone
<1>6. \A f \in Files : job[t].mem[f] = Truth(f)
  BY <1>1 DEF AgreeInv, MemTrue, Settled
<1>7. (\A f \in Files : DiskTrue(f)') /\ SavingTrue'
  BY <1>1, <1>6 DEF DiskTrue, Truth, SavingTrue
<1> QED
  BY <1>1, <1>2, <1>4, <1>5, <1>7 DEF AgreeInv

LEMMA StartAgrees ==
  ASSUME Undisturbed, IInv, AgreeInv, NEW t \in Tabs,
         \/ \E f \in Files, cached \in UseCache : StartSingle(t, f, cached)
         \/ \E F \in SUBSET Files \ {{}}, cached \in UseCache :
              StartBatch(t, F, cached)
  PROVE  AgreeInv'
<1>0. /\ TypeOK /\ job[t].kind = "idle" /\ LoopIsFree /\ panel[t] = NoManifest
      /\ UNCHANGED <<local, disk, saving, panel, agreed>>
  BY DEF IInv, StartSingle, StartBatch, MayStart
<1>1. budget'.crashes = budget.crashes
  BY <1>0, SpendOther DEF StartSingle, StartBatch
<1>2. CASE \E f \in Files, cached \in UseCache : StartSingle(t, f, cached)
  <2> PICK f \in Files, cached \in UseCache : StartSingle(t, f, cached)
    BY <1>2
  <2> DEFINE R == [IdleJob EXCEPT !.kind = "single", !.cached = cached,
                                  !.stage[f] = "fetch"]
  <2>1. R.kind = "single" /\ \A g \in Files : R.stage[g] \in {"none", "fetch"}
    BY DEF IdleJob
  <2>2. job' = [job EXCEPT ![t] = R]
    BY DEF StartSingle
  <2> HIDE DEF R
  <2>3. job'[t] = R /\ \A u \in Tabs : u # t => job'[u] = job[u]
    BY <1>0, <2>2 DEF TypeOK
  <2>4. Batching' <=> Batching
    BY <1>0, <2>1, <2>3 DEF Batching
  <2>5. \A u \in Tabs, g \in Files :
          StageFits(u, g)' /\ MemTrue(u, g)' /\ CheckStands(u, g)'
    BY <1>0, <2>1, <2>3 DEF AgreeInv, StageFits, MemTrue, CheckStands, Truth
  <2>6. \A u \in Tabs : BatchAlone(u)'
    BY <1>0, <2>1, <2>3 DEF AgreeInv, BatchAlone
  <2>7. (\A g \in Files : DiskTrue(g)') /\ SavingTrue'
    BY <1>0, <2>4 DEF AgreeInv, DiskTrue, Truth, SavingTrue
  <2> QED
    BY <1>1, <2>5, <2>6, <2>7 DEF AgreeInv
<1>3. CASE \E F \in SUBSET Files \ {{}}, cached \in UseCache :
             StartBatch(t, F, cached)
  <2> PICK F \in SUBSET Files \ {{}}, cached \in UseCache :
             StartBatch(t, F, cached)
    BY <1>3
  <2> DEFINE stages == [f \in Files |->
                          IF f \notin F THEN "none"
                          ELSE IF cached /\ IsAlreadyMerged(local[f], disk[f])
                               THEN "skipped" ELSE "fetch"]
             R == [kind |-> "batch", cached |-> cached, mem |-> disk,
                   stage |-> stages, got |-> [f \in Files |-> None]]
  <2>1. \A g \in Files : stages[g] \in {"none", "skipped", "fetch"}
    OBVIOUS
  <2>2. job' = [job EXCEPT ![t] = R] /\ "batch" \in Kinds
    BY DEF StartBatch, MayStart
  <2> HIDE DEF stages
  <2>3. R.kind = "batch" /\ R.mem = disk /\ R.stage = stages
    OBVIOUS
  <2> HIDE DEF R
  <2>4. \A u \in Tabs : u = t
    BY <2>2 DEF Undisturbed
  <2>5. job'[t] = R
    BY <1>0, <2>2 DEF TypeOK
  <2>6. \A g \in Files : disk[g] = Truth(g)
    BY <1>0, <2>4 DEF AgreeInv, DiskTrue, Batching, LoopIsFree
  <2>7. \A g \in Files : StageFits(t, g)' /\ MemTrue(t, g)' /\ CheckStands(t, g)'
    BY <1>0, <2>1, <2>3, <2>5, <2>6 DEF StageFits, MemTrue, CheckStands, Truth
  <2>8. BatchAlone(t)' /\ Batching'
    BY <1>0, <2>2, <2>3, <2>5 DEF BatchAlone, Batching, LoopIsFree, NoManifest
  <2>9. SavingTrue'
    BY <1>0 DEF SavingTrue, LoopIsFree
  <2> QED
    BY <1>1, <2>4, <2>7, <2>8, <2>9 DEF AgreeInv, DiskTrue
<1> QED
  BY <1>2, <1>3

LEMMA RequestAgrees ==
  ASSUME Undisturbed, IInv, AgreeInv, NEW t \in Tabs, Request(t)
  PROVE  AgreeInv'
<1>0. TypeOK
  BY DEF IInv
<1>1. ASSUME NEW f \in Files, ResolveTheirs(t, f) PROVE AgreeInv'
  <2> DEFINE c == panel[t][f]
  <2>1. c \in Content
    BY <1>0, <1>1 DEF ResolveTheirs, TypeOK, Maybe
  <2>2. /\ saving = None
        /\ saving' = [file |-> f, content |-> c, theirs |-> c, rec |-> Synced(c),
                      base |-> c, asked |-> TRUE, step |-> "open"]
        /\ UNCHANGED <<disk, job, budget, agreed>>
    BY <1>1 DEF ResolveTheirs, Resolve, LoopIsFree
  <2>3. saving' \in Saving
    BY <2>1, <2>2, HelperTypes DEF Saving, Maybe
  <2>4. ~Batching
    BY <2>1, NoneAssumption, OneTabWithBatch DEF Batching
  <2>5. \A g \in Files : DiskTrue(g)'
    BY <2>2, <2>4 DEF AgreeInv, DiskTrue, Truth, Batching
  <2>6. \A u \in Tabs, g \in Files :
          StageFits(u, g)' /\ MemTrue(u, g)' /\ CheckStands(u, g)'
    BY <2>2, <2>4 DEF AgreeInv, StageFits, MemTrue, CheckStands, Batching
  <2>7. \A u \in Tabs : BatchAlone(u)'
    BY <2>2, <2>4 DEF BatchAlone, Batching
  <2>8. SavingTrue'
    BY <2>2 DEF SavingTrue
  <2> QED
    BY <2>2, <2>5, <2>6, <2>7, <2>8 DEF AgreeInv
<1>2. ASSUME NEW f \in Files
      PROVE  ~ResolveOurs(t, f) /\ \A c \in Content : ~ResolveMerged(t, f, c)
  BY DEF Undisturbed, ResolveOurs, ResolveMerged, Resolve
<1>3. CASE ClosePanel(t)
  <2>1. \A u \in Tabs, f \in Files : panel[u][f] = None => panel'[u][f] = None
    BY <1>0, <1>3 DEF ClosePanel, NoManifest, TypeOK
  <2> QED
    BY <1>3, <2>1, RestAgrees DEF ClosePanel
<1> QED
  BY <1>1, <1>2, <1>3, StartAgrees DEF Request

LEMMA NextAgrees ==
  ASSUME Undisturbed, IInv, AgreeInv, [Next]_vars
  PROVE  AgreeInv'
<1>0. TypeOK
  BY DEF IInv
<1>1. CASE UNCHANGED vars
  BY <1>1, RestAgrees DEF vars
<1> QED
  BY <1>0, <1>1, TailAgrees, EnvironmentAgrees, EndBatchAgrees, FileStepAgrees,
     RequestAgrees DEF Next, Progress

LEMMA InitAgrees ==
  ASSUME Undisturbed, Init
  PROVE  AgreeInv
<1>1. \A t \in Tabs : /\ job[t].kind = "idle"
                      /\ \A f \in Files : job[t].stage[f] = "none"
  BY DEF Init, IdleJob
<1>2. \A t \in Tabs, f \in Files :
        StageFits(t, f) /\ MemTrue(t, f) /\ CheckStands(t, f)
  BY <1>1 DEF StageFits, MemTrue, CheckStands
<1>3. \A t \in Tabs : BatchAlone(t)
  BY <1>1 DEF BatchAlone
<1>4. (\A f \in Files : DiskTrue(f)) /\ SavingTrue
  BY DEF Init, DiskTrue, Truth, NoManifest, SavingTrue
<1> QED
  BY <1>2, <1>3, <1>4 DEF AgreeInv, Init, Undisturbed

LEMMA Agreeing ==
  ASSUME Undisturbed
  PROVE  Spec => []AgreeInv
<1>1. Init => AgreeInv
  BY InitAgrees
<1>2. IInv /\ AgreeInv /\ [Next]_vars => AgreeInv'
  BY NextAgrees
<1> QED
  BY <1>1, <1>2, Inductive, PTL DEF Spec

\* The README's promise: when the user and the remote have both changed a file
\* since they last agreed on it, no merge replaces the user's version unasked
\* (detect_conflict against the snapshot that save_manifest has kept).
THEOREM AsksFirst ==
  ASSUME Undisturbed
  PROVE  Spec => NoSilentOverwrite
<1>1. ASSUME IInv, AgreeInv, NEW f \in Files, NEW c \in Content, Replaces(f, c)
      PROVE  ~Overwrites(f, c)
  <2>0. TypeOK /\ LineEnds = {FALSE}
    BY <1>1 DEF IInv, Undisturbed
  <2>1. ~DetectConflict(local[f], c, Truth(f))
    <3>1. CASE OpenFile /\ saving.file = f /\ ~saving.asked /\ c = saving.content
      <4>1. saving # None /\ saving.step = "open"
        BY <3>1 DEF OpenFile, Tailing
      <4>2. ~Batching
        BY <1>1, <4>1 DEF AgreeInv, BatchAlone, Batching
      <4>3. disk[f] = Truth(f)
        BY <1>1, <4>1, <4>2 DEF AgreeInv, DiskTrue
      <4> QED
        BY <1>1, <3>1, <4>1, <4>3 DEF AgreeInv, SavingTrue
    <3>2. ASSUME NEW t \in Tabs, Open(t, f), c = job[t].got[f]
          PROVE  ~DetectConflict(local[f], c, Truth(f))
      <4>1. job[t].stage[f] = "open"
        BY <3>2 DEF Open, At
      <4>2. job[t].kind \in {"idle", "single", "batch"}
        BY <2>0, JobFields DEF TypeOK
      <4>3. job[t].kind = "batch"
        BY <1>1, <4>1, <4>2 DEF AgreeInv, StageFits
      <4> QED
        BY <1>1, <3>2, <4>1, <4>3 DEF AgreeInv, MemTrue, CheckStands
    <3> QED
      BY <1>1, <3>1, <3>2 DEF Replaces
  <2> QED
    BY <2>0, <2>1, TrueRecordDetects DEF Overwrites
<1>2. IInv /\ AgreeInv =>
        \A f \in Files, c \in Content : Replaces(f, c) => ~Overwrites(f, c)
  BY <1>1
<1> QED
  BY <1>2, Inductive, Agreeing, PTL DEF NoSilentOverwrite

\* A conflict is only reported for a file that both sides have changed since
\* they last agreed on it.
THEOREM ConflictsAreReal ==
  ASSUME Undisturbed
  PROVE  Spec => ConflictIsReal
<1>1. ASSUME IInv, AgreeInv, NEW t \in Tabs, NEW f \in Files,
             ReportsConflict(t, f)
      PROVE  /\ agreed[f] # None
             /\ local[f] # agreed[f].theirs
             /\ job[t].got[f] # agreed[f].theirs
  <2>0. TypeOK /\ GotKnown /\ LineEnds = {FALSE}
    BY <1>1 DEF IInv, Undisturbed
  <2>1. job[t].got[f] \in Content
    BY <1>1, <2>0 DEF GotKnown, ReportsConflict, ConflictSingle, Checks, Check,
                      At, Carrying
  <2>2. DetectConflict(local[f], job[t].got[f], Truth(f))
    <3>1. CASE ConflictSingle(t, f)
      <4>1. /\ job[t].kind = "single" /\ saving = None
            /\ DetectConflict(local[f], job[t].got[f], disk[f])
        BY <3>1 DEF ConflictSingle, Checks, SingleConflict, LoopIsFree
      <4>2. ~Batching
        BY <1>1, <4>1, OneTabWithBatch DEF Batching
      <4> QED
        BY <1>1, <4>1, <4>2 DEF AgreeInv, DiskTrue
    <3>2. CASE Check(t, f) /\ job'[t].stage[f] = "conflict"
      <4> DEFINE s == IF DetectConflict(local[f], job[t].got[f], job[t].mem[f])
                      THEN "conflict" ELSE "judge"
      <4>1. job[t].kind = "batch" /\ job[t].stage[f] = "check" /\ SetStage(t, f, s)
        BY <3>2 DEF Check, At
      <4>2. s \in Stages /\ job \in [Tabs -> Job]
        BY <2>0 DEF Stages, TypeOK
      <4>a. s = "conflict" => DetectConflict(local[f], job[t].got[f], job[t].mem[f])
        OBVIOUS
      <4> HIDE DEF s
      <4>b. job' = [job EXCEPT ![t].stage[f] = s]
        BY <4>1 DEF SetStage
      <4>3. /\ job' \in [Tabs -> Job]
            /\ SameJobBut(t, f)
            /\ job'[t].stage[f] = s
            /\ job'[t].got = job[t].got
            /\ job'[t].mem = job[t].mem
        BY <4>2, <4>b, StageUpdate
      <4>4. DetectConflict(local[f], job[t].got[f], job[t].mem[f])
        BY <3>2, <4>a, <4>3
      <4> QED
        BY <1>1, <4>1, <4>4 DEF AgreeInv, MemTrue
    <3> QED
      BY <1>1, <3>1, <3>2 DEF ReportsConflict
  <2> QED
    BY <2>0, <2>1, <2>2, TrueRecordDetects
<1>2. IInv /\ AgreeInv =>
        \A t \in Tabs, f \in Files :
          ReportsConflict(t, f) =>
            /\ agreed[f] # None
            /\ local[f] # agreed[f].theirs
            /\ job[t].got[f] # agreed[f].theirs
  BY <1>1
<1> QED
  BY <1>2, Inductive, Agreeing, PTL DEF ConflictIsReal
=============================================================================
