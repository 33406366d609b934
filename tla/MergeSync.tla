------------------------------ MODULE MergeSync ------------------------------
(***************************************************************************)
(* Merging a remote repository into a local directory: the handlers of     *)
(* api/routes_diff.py over core/diff/merge_manifest.py, merge_file.py and  *)
(* scan_remote.get_file_cached.                                            *)
(*                                                                         *)
(* A tab has at most one merge in flight.  The event loop runs one handler *)
(* at a time between two awaits; what a handler gives to asyncio.to_thread *)
(* runs beside it.  The user edits the files and others push to the        *)
(* remote at any moment, and the process may die.                          *)
(*                                                                         *)
(* A text is a value without its line ends; a content is a text with one   *)
(* kind of line end.  md5 is injective, so a hash is the content itself    *)
(* and the empty hash is None.  Contents are text: bytes are not modelled. *)
(*                                                                         *)
(* A local file is written in place: opening it truncates it, and what it  *)
(* should hold follows.  A file whose writing has broken off stands for    *)
(* whatever part of it was written: here for the shortest, the empty text. *)
(***************************************************************************)
EXTENDS Integers, FiniteSets, TLC

CONSTANTS
  Files,      \* relative paths of the compared directory
  Tabs,       \* clients: each has one request in flight
  Texts,      \* what a file can say
  EmptyText,  \* the text of length 0, a member of Texts
  LineEnds,   \* which contents occur: FALSE is LF, TRUE is CRLF
  None        \* no file, no content, no record, "" as a hash

CONSTANTS     \* what the environment of an instance may do
  Kinds,      \* subset of {"single", "batch"}: the merges the user asks for
  UseCache,   \* subset of BOOLEAN: the values of use_cache in requests
  Choices,    \* subset of {"ours", "theirs", "merged"}
  Failures,   \* subset of {"fetch", "write", "base", "manifest"}: what may fail
  RacyEdits,  \* may the user edit between a check and the end of its write?
  Budget      \* bounds: [edits, pushes, merges, crashes]

Content == [text: Texts, crlf: LineEnds]

ASSUME NoneAssumption == None \notin Content
ASSUME EmptyAssumption == EmptyText \in Texts /\ FALSE \in LineEnds
ASSUME LineEndsAssumption == LineEnds \subseteq BOOLEAN
ASSUME UseCacheAssumption == UseCache \subseteq BOOLEAN
ASSUME BudgetAssumption ==
  Budget \in [edits: Nat, pushes: Nat, merges: Nat, crashes: Nat]

VARIABLES
  local,      \* the user's file
  remote,     \* head of the selected branch
  cache,      \* namespace file:<repo_id> of core/cache.py
  disk,       \* manifest.json
  bases,      \* bases/<hash>.txt
  job,        \* per tab: the merge request in flight
  saving,     \* the synchronous tail of a handler that holds the event loop
  panel,      \* per tab and file: `theirs' of the conflict on display
  budget,     \* what is left of Budget
  agreed,     \* ghost: both sides when the user was last told they are settled
  hadEmpty,   \* ghost: the user or the remote has once emptied the file
  cut         \* ghost: the file was truncated and nothing written since

vars == <<local, remote, cache, disk, bases, job, saving, panel, budget,
          agreed, hadEmpty, cut>>

Maybe(S) == S \cup {None}
EmptyContent == [text |-> EmptyText, crlf |-> FALSE]
IsEmpty(c) == c # None /\ c.text = EmptyText

Rec == [ok: BOOLEAN, remote: Maybe(Content), local: Maybe(Content)]
Manifest == [Files -> Maybe(Rec)]
NoManifest == [f \in Files |-> None]

Stages == {"none", "fetch", "check", "judge", "open", "fill", "record", "base",
           "ok", "skipped", "conflict", "broken", "failed"}
Settled == {"none", "ok", "skipped", "conflict", "failed"}
Job == [kind: {"idle", "single", "batch"}, cached: BOOLEAN, mem: Manifest,
        stage: [Files -> Stages], got: [Files -> Maybe(Content)]]
IdleJob == [kind |-> "idle", cached |-> FALSE, mem |-> NoManifest,
            stage |-> [f \in Files |-> "none"],
            got |-> [f \in Files |-> None]]

\* What is left to do when nothing is awaited any more: write content, save
\* base, save rec.  asked: the user has decided it.
Saving == [file: Files, content: Maybe(Content), theirs: Content, rec: Rec,
           base: Maybe(Content), asked: BOOLEAN,
           step: {"open", "fill", "base", "manifest"}]
Agreement == [ours: Maybe(Content), theirs: Content]

ASSUME RecordsAssumption ==
  None \notin Rec /\ None \notin Saving /\ None \notin Agreement

-----------------------------------------------------------------------------
(* What the helpers compute.                                               *)

\* read_text: universal newlines turn CRLF into LF.
ReadText(c) == [c EXCEPT !.crlf = FALSE]

Synced(c) == [ok |-> TRUE, remote |-> c, local |-> c]
Broken == [ok |-> FALSE, remote |-> None, local |-> None]

IsAlreadyMergedByRecord(mine, rec) ==   \* mutant: the record without the file
  rec # None /\ rec.ok /\ rec.remote # None

IsAlreadyMerged(mine, rec) ==
  /\ rec # None /\ rec.ok /\ rec.remote # None
  /\ mine = rec.remote

\* merge_to_local leaves a file that reads like the content.  Its normalised
\* comparison is called without the file's name, so it adds nothing.
Reads(mine, c) == mine # None /\ ReadText(mine) = c

LocalChanged(mine, rec) ==
  rec.local # None /\ mine # None /\ ReadText(mine) # rec.local

DetectConflictBlind(mine, c, rec) == FALSE  \* mutant: merge without checking

DetectConflictNoBase(mine, c, rec) ==       \* mutant: the local side only
  rec # None /\ rec.ok /\ rec.remote # None /\ LocalChanged(mine, rec)

DetectConflict(mine, c, rec) ==
  /\ rec # None /\ rec.ok /\ rec.remote # None
  /\ LocalChanged(mine, rec)
  /\ c # rec.remote

\* The record of a decision that keeps the old snapshot of the remote.
Kept(rec, mine) ==
  [ok |-> TRUE, remote |-> IF rec = None THEN None ELSE rec.remote,
   local |-> mine]

-----------------------------------------------------------------------------
Init ==
  /\ local \in [Files -> Maybe(Content)]
  /\ remote \in [Files -> Content]
  /\ cache = [f \in Files |-> None]
  /\ disk = NoManifest
  /\ bases = {}
  /\ job = [t \in Tabs |-> IdleJob]
  /\ saving = None
  /\ panel = [t \in Tabs |-> [f \in Files |-> None]]
  /\ budget = Budget
  /\ agreed = [f \in Files |-> None]
  /\ hadEmpty = [f \in Files |-> IsEmpty(local[f]) \/ IsEmpty(remote[f])]
  /\ cut = [f \in Files |-> FALSE]

LoopIsFree == saving = None
Spend(what) == budget[what] > 0 /\ budget' = [budget EXCEPT ![what] = @ - 1]
At(t, f, stage) == job[t].stage[f] = stage
SetStage(t, f, stage) == job' = [job EXCEPT ![t].stage[f] = stage]
Agree(f, ours, theirs) ==
  agreed' = [agreed EXCEPT ![f] = [ours |-> ours, theirs |-> theirs]]

\* _write_file: open(target, "w"), then write.
Truncate(f) ==
  local' = [local EXCEPT ![f] = EmptyContent] /\ cut' = [cut EXCEPT ![f] = TRUE]
Put(f, c) == local' = [local EXCEPT ![f] = c] /\ cut' = [cut EXCEPT ![f] = FALSE]

\* Between the check of a merge and the end of its write.
BeingWritten(f) ==
  \/ \E t \in Tabs : job[t].stage[f] \in {"judge", "open", "fill"}
  \/ saving # None /\ saving.file = f /\ saving.step \in {"open", "fill"}

-----------------------------------------------------------------------------
(* The user and the remote.                                                *)

\* The user writes the file, or deletes it when c is None.
Edit(f, c) ==
  /\ Spend("edits")
  /\ c # local[f]
  /\ RacyEdits \/ ~BeingWritten(f)
  /\ Put(f, c)
  /\ hadEmpty' = [hadEmpty EXCEPT ![f] = @ \/ IsEmpty(c)]
  /\ UNCHANGED <<remote, cache, disk, bases, job, saving, panel, agreed>>

Push(f, c) ==
  /\ Spend("pushes")
  /\ c # remote[f]
  /\ remote' = [remote EXCEPT ![f] = c]
  /\ hadEmpty' = [hadEmpty EXCEPT ![f] = @ \/ IsEmpty(c)]
  /\ UNCHANGED <<local, cache, disk, bases, job, saving, panel, agreed, cut>>

\* After 24 h, or by the user who clears every cache (api/routes_cache.py).
CacheExpires(f) ==
  /\ cache[f] # None
  /\ cache' = [cache EXCEPT ![f] = None]
  /\ UNCHANGED <<local, remote, disk, bases, job, saving, panel, budget,
                 agreed, hadEmpty, cut>>

\* The process dies; files, manifest, bases and cache stay, and so do the tabs.
Crash ==
  /\ Spend("crashes")
  /\ job' = [t \in Tabs |-> IdleJob]
  /\ saving' = None
  /\ UNCHANGED <<local, remote, cache, disk, bases, panel, agreed, hadEmpty, cut>>

-----------------------------------------------------------------------------
(* What both kinds of merge share: the fetch, in a thread.                 *)

Fetched(t, f) == IF job[t].cached /\ cache[f] # None THEN cache[f] ELSE remote[f]

Fetch(t, f) ==
  /\ At(t, f, "fetch")
  /\ job' = [job EXCEPT ![t].stage[f] = "check", ![t].got[f] = Fetched(t, f)]
  /\ cache' = IF job[t].cached THEN [cache EXCEPT ![f] = Fetched(t, f)] ELSE cache
  /\ UNCHANGED <<local, remote, disk, bases, saving, panel, budget, agreed,
                 hadEmpty, cut>>

\* get_file_cached returns None; it never fails on a cache hit.
FetchFailsIntoEmpty(t, f) ==         \* mutant: None is merged as the empty text
  /\ "fetch" \in Failures
  /\ At(t, f, "fetch")
  /\ job' = [job EXCEPT ![t].stage[f] = "check", ![t].got[f] = EmptyContent]
  /\ UNCHANGED <<local, remote, cache, disk, bases, saving, panel, budget,
                 agreed, hadEmpty, cut>>

FetchFails(t, f) ==
  /\ "fetch" \in Failures
  /\ At(t, f, "fetch")
  /\ ~(job[t].cached /\ cache[f] # None)
  /\ SetStage(t, f, "broken")
  /\ UNCHANGED <<local, remote, cache, disk, bases, saving, panel, budget,
                 agreed, hadEmpty, cut>>

-----------------------------------------------------------------------------
(* api_diff_merge: after the fetch the handler never awaits.               *)

\* The conflict panel is modal: no merge starts behind it.
MayStart(t, kind) ==
  /\ kind \in Kinds
  /\ job[t].kind = "idle" /\ panel[t] = NoManifest /\ LoopIsFree

StartSingle(t, f, cached) ==
  /\ MayStart(t, "single")
  /\ Spend("merges")
  /\ job' = [job EXCEPT ![t] = [IdleJob EXCEPT !.kind = "single",
                                  !.cached = cached, !.stage[f] = "fetch"]]
  /\ UNCHANGED <<local, remote, cache, disk, bases, saving, panel, agreed,
                 hadEmpty, cut>>

Finish(t) == job' = [job EXCEPT ![t] = IdleJob]

\* The 502 of a fetch that failed.
RefuseSingle(t, f) ==
  /\ LoopIsFree
  /\ job[t].kind = "single" /\ At(t, f, "broken")
  /\ Finish(t)
  /\ UNCHANGED <<local, remote, cache, disk, bases, saving, panel, budget,
                 agreed, hadEmpty, cut>>

Checks(t, f) == LoopIsFree /\ job[t].kind = "single" /\ At(t, f, "check")
SingleConflict(t, f) == DetectConflict(local[f], job[t].got[f], disk[f])

ConflictSingle(t, f) ==
  /\ Checks(t, f) /\ SingleConflict(t, f)
  /\ panel' = [panel EXCEPT ![t] = [NoManifest EXCEPT ![f] = job[t].got[f]]]
  /\ Finish(t)
  /\ UNCHANGED <<local, remote, cache, disk, bases, saving, budget, agreed,
                 hadEmpty, cut>>

SkipSingle(t, f) ==
  /\ Checks(t, f) /\ ~SingleConflict(t, f)
  /\ IsAlreadyMerged(local[f], disk[f])
  /\ Finish(t)
  /\ UNCHANGED <<local, remote, cache, disk, bases, saving, panel, budget,
                 agreed, hadEmpty, cut>>

\* Nothing hinders the merge: what follows needs no await.
BeginSingle(t, f) ==
  /\ Checks(t, f) /\ ~SingleConflict(t, f)
  /\ ~IsAlreadyMerged(local[f], disk[f])
  /\ LET c == job[t].got[f] IN
     saving' = [file |-> f, content |-> c, theirs |-> c, rec |-> Synced(c),
                base |-> c, asked |-> FALSE, step |-> "open"]
  /\ Finish(t)
  /\ UNCHANGED <<local, remote, cache, disk, bases, panel, budget, agreed,
                 hadEmpty, cut>>

-----------------------------------------------------------------------------
(* The tail of api_diff_merge and of merge-resolve: no await in it, but    *)
(* the threads of a batch, the user and a crash come in between.           *)

Tailing(step) == saving # None /\ saving.step = step
TailNext(step) == saving' = [saving EXCEPT !.step = step]
SavingReads == Reads(local[saving.file], saving.content)

LeaveFile ==
  /\ Tailing("open") /\ SavingReads
  /\ Agree(saving.file, local[saving.file], saving.theirs)
  /\ TailNext("base")
  /\ UNCHANGED <<local, remote, cache, disk, bases, job, panel, budget,
                 hadEmpty, cut>>

OpenFile ==
  /\ Tailing("open") /\ ~SavingReads
  /\ Truncate(saving.file)
  /\ TailNext("fill")
  /\ UNCHANGED <<remote, cache, disk, bases, job, panel, budget, agreed,
                 hadEmpty>>

FillFile ==
  /\ Tailing("fill")
  /\ Put(saving.file, saving.content)
  /\ Agree(saving.file, saving.content, saving.theirs)
  /\ TailNext("base")
  /\ UNCHANGED <<remote, cache, disk, bases, job, panel, budget, hadEmpty>>

\* merge_to_local has tried twice and returns False: the 500 of a merge, a
\* decision without its record.  If a try came as far as opening the file, the
\* file stays truncated.
WriteFileFails ==
  /\ "write" \in Failures
  /\ \/ Tailing("open") /\ ~SavingReads
     \/ Tailing("fill")
  /\ saving' = None
  /\ UNCHANGED <<local, remote, cache, disk, bases, job, panel, budget, agreed,
                 hadEmpty, cut>>

SaveBaseLast ==                      \* mutant: manifest first, base last
  /\ Tailing("base")
  /\ disk' = [disk EXCEPT ![saving.file] = saving.rec]
  /\ TailNext("manifest")
  /\ UNCHANGED <<local, remote, cache, bases, job, panel, budget, agreed,
                 hadEmpty, cut>>

SaveBaseUnguarded ==                 \* mutant: save_base without its guard
  /\ Tailing("base")
  /\ bases' = bases \cup {saving.base}
  /\ TailNext("manifest")
  /\ UNCHANGED <<local, remote, cache, disk, job, panel, budget, agreed,
                 hadEmpty, cut>>

SaveBase ==
  /\ Tailing("base")
  /\ bases' = bases \cup ({saving.base} \ {None})
  /\ TailNext("manifest")
  /\ UNCHANGED <<local, remote, cache, disk, job, panel, budget, agreed,
                 hadEmpty, cut>>

\* save_base logs an OSError and returns; so does save_manifest.
SaveBaseFails ==
  /\ "base" \in Failures
  /\ Tailing("base") /\ saving.base # None
  /\ TailNext("manifest")
  /\ UNCHANGED <<local, remote, cache, disk, bases, job, panel, budget, agreed,
                 hadEmpty, cut>>

SaveManifest ==
  /\ Tailing("manifest")
  /\ disk' = [disk EXCEPT ![saving.file] = saving.rec]
  /\ saving' = None
  /\ UNCHANGED <<local, remote, cache, bases, job, panel, budget, agreed,
                 hadEmpty, cut>>

SaveManifestFails ==
  /\ "manifest" \in Failures
  /\ Tailing("manifest")
  /\ saving' = None
  /\ UNCHANGED <<local, remote, cache, disk, bases, job, panel, budget, agreed,
                 hadEmpty, cut>>

-----------------------------------------------------------------------------
(* api_diff_merge_batch.                                                   *)

StartBatch(t, F, cached) ==
  /\ MayStart(t, "batch")
  /\ Spend("merges")
  /\ job' = [job EXCEPT ![t] =
       [kind |-> "batch", cached |-> cached, mem |-> disk,
        stage |-> [f \in Files |->
                     IF f \notin F THEN "none"
                     ELSE IF cached /\ IsAlreadyMerged(local[f], disk[f])
                          THEN "skipped" ELSE "fetch"],
        got |-> [f \in Files |-> None]]]
  /\ UNCHANGED <<local, remote, cache, disk, bases, saving, panel, agreed,
                 hadEmpty, cut>>

\* detect_conflict in a thread, against the manifest loaded at the start.
Check(t, f) ==
  /\ job[t].kind = "batch" /\ At(t, f, "check")
  /\ SetStage(t, f, IF DetectConflict(local[f], job[t].got[f], job[t].mem[f])
                    THEN "conflict" ELSE "judge")
  /\ UNCHANGED <<local, remote, cache, disk, bases, saving, panel, budget,
                 agreed, hadEmpty, cut>>

\* is_already_merged on the loop, then merge_to_local in a thread.
Judge(t, f) ==
  /\ LoopIsFree
  /\ At(t, f, "judge")
  /\ ~IsAlreadyMerged(local[f], job[t].mem[f])
  /\ SetStage(t, f, "open")
  /\ UNCHANGED <<local, remote, cache, disk, bases, saving, panel, budget,
                 agreed, hadEmpty, cut>>

\* The file is the record's, or reads like the content.
Leave(t, f) ==
  /\ \/ LoopIsFree /\ At(t, f, "judge") /\ IsAlreadyMerged(local[f], job[t].mem[f])
     \/ At(t, f, "open") /\ Reads(local[f], job[t].got[f])
  /\ Agree(f, local[f], job[t].got[f])
  /\ SetStage(t, f, "record")
  /\ UNCHANGED <<local, remote, cache, disk, bases, saving, panel, budget,
                 hadEmpty, cut>>

Open(t, f) ==
  /\ At(t, f, "open") /\ ~Reads(local[f], job[t].got[f])
  /\ Truncate(f)
  /\ SetStage(t, f, "fill")
  /\ UNCHANGED <<remote, cache, disk, bases, saving, panel, budget, agreed,
                 hadEmpty>>

Fill(t, f) ==
  /\ At(t, f, "fill")
  /\ Put(f, job[t].got[f])
  /\ Agree(f, job[t].got[f], job[t].got[f])
  /\ SetStage(t, f, "record")
  /\ UNCHANGED <<remote, cache, disk, bases, saving, panel, budget, hadEmpty>>

WriteFails(t, f) ==
  /\ "write" \in Failures
  /\ \/ At(t, f, "open") /\ ~Reads(local[f], job[t].got[f])
     \/ At(t, f, "fill")
  /\ SetStage(t, f, "broken")
  /\ UNCHANGED <<local, remote, cache, disk, bases, saving, panel, budget,
                 agreed, hadEmpty, cut>>

RecordOk(t, f) ==
  /\ LoopIsFree
  /\ At(t, f, "record")
  /\ job' = [job EXCEPT ![t].mem[f] = Synced(job[t].got[f]),
                        ![t].stage[f] = "base"]
  /\ UNCHANGED <<local, remote, cache, disk, bases, saving, panel, budget,
                 agreed, hadEmpty, cut>>

BatchBaseSkipped(t, f) ==            \* mutant: no base for a batch
  /\ At(t, f, "base")
  /\ SetStage(t, f, "ok")
  /\ UNCHANGED <<local, remote, cache, disk, bases, saving, panel, budget,
                 agreed, hadEmpty, cut>>

BatchBase(t, f) ==
  /\ At(t, f, "base")
  /\ bases' = bases \cup {job[t].got[f]}
  /\ SetStage(t, f, "ok")
  /\ UNCHANGED <<local, remote, cache, disk, saving, panel, budget, agreed,
                 hadEmpty, cut>>

BatchBaseFails(t, f) ==
  /\ "base" \in Failures
  /\ At(t, f, "base")
  /\ SetStage(t, f, "ok")
  /\ UNCHANGED <<local, remote, cache, disk, bases, saving, panel, budget,
                 agreed, hadEmpty, cut>>

RecordFailureUncounted(t, f) ==      \* mutant: a failed item is never done
  /\ LoopIsFree
  /\ job[t].kind = "batch" /\ At(t, f, "broken")
  /\ job' = [job EXCEPT ![t].mem[f] = Broken]
  /\ UNCHANGED <<local, remote, cache, disk, bases, saving, panel, budget,
                 agreed, hadEmpty, cut>>

RecordFailure(t, f) ==
  /\ LoopIsFree
  /\ job[t].kind = "batch" /\ At(t, f, "broken")
  /\ job' = [job EXCEPT ![t].mem[f] = Broken, ![t].stage[f] = "failed"]
  /\ UNCHANGED <<local, remote, cache, disk, bases, saving, panel, budget,
                 agreed, hadEmpty, cut>>

\* After pipe.join(): the whole manifest goes to disk, if it can be written,
\* and conflicts to the tab.
EndBatch(t) ==
  /\ LoopIsFree
  /\ job[t].kind = "batch"
  /\ \A f \in Files : job[t].stage[f] \in Settled
  /\ \/ disk' = job[t].mem
     \/ "manifest" \in Failures /\ UNCHANGED disk
  /\ panel' = IF \E f \in Files : At(t, f, "conflict")
              THEN [panel EXCEPT ![t] = [f \in Files |->
                      IF At(t, f, "conflict") THEN job[t].got[f] ELSE None]]
              ELSE panel
  /\ Finish(t)
  /\ UNCHANGED <<local, remote, cache, bases, saving, budget, agreed, hadEmpty, cut>>

-----------------------------------------------------------------------------
(* api_diff_merge_resolve, one conflict at a time: the handler never       *)
(* awaits and saves after each of them.                                    *)

Resolve(t, f, choice, content, rec, base, step) ==
  /\ LoopIsFree
  /\ choice \in Choices
  /\ saving' = [file |-> f, content |-> content, theirs |-> panel[t][f],
                rec |-> rec, base |-> base, asked |-> TRUE, step |-> step]
  /\ panel' = [panel EXCEPT ![t][f] = None]
  /\ UNCHANGED <<local, remote, cache, disk, bases, job, budget, cut>>

\* "ours" writes no file.
ResolveOurs(t, f) ==
  /\ panel[t][f] # None
  /\ Resolve(t, f, "ours", None,
             Kept(disk[f], IF local[f] = None THEN EmptyContent
                           ELSE ReadText(local[f])), None, "base")
  /\ Agree(f, local[f], panel[t][f])
  /\ UNCHANGED hadEmpty

ResolveTheirs(t, f) ==
  /\ panel[t][f] # None /\ ~IsEmpty(panel[t][f])
  /\ LET c == panel[t][f]
     IN Resolve(t, f, "theirs", c, Synced(c), c, "open")
  /\ UNCHANGED <<agreed, hadEmpty>>

ResolveMerged(t, f, c) ==
  /\ panel[t][f] # None
  /\ Resolve(t, f, "merged", c, Kept(disk[f], c), None, "open")
  /\ hadEmpty' = [hadEmpty EXCEPT ![f] = @ \/ IsEmpty(c)]
  /\ UNCHANGED agreed

\* The user leaves the panel.  A decision that is refused (an empty `theirs')
\* changes nothing on disk and drops the panel as well.
ClosePanel(t) ==
  /\ panel[t] # NoManifest
  /\ panel' = [panel EXCEPT ![t] = NoManifest]
  /\ UNCHANGED <<local, remote, cache, disk, bases, job, saving, budget,
                 agreed, hadEmpty, cut>>

-----------------------------------------------------------------------------
FileStep(t, f) ==
  \/ Fetch(t, f) \/ FetchFails(t, f) \/ RefuseSingle(t, f)
  \/ ConflictSingle(t, f) \/ SkipSingle(t, f) \/ BeginSingle(t, f)
  \/ Check(t, f) \/ Judge(t, f) \/ Leave(t, f) \/ Open(t, f) \/ Fill(t, f)
  \/ WriteFails(t, f)
  \/ RecordOk(t, f) \/ BatchBase(t, f) \/ BatchBaseFails(t, f)
  \/ RecordFailure(t, f)

Progress(t) == EndBatch(t) \/ \E f \in Files : FileStep(t, f)
Tail ==
  \/ LeaveFile \/ OpenFile \/ FillFile \/ WriteFileFails
  \/ SaveBase \/ SaveBaseFails \/ SaveManifest \/ SaveManifestFails

Request(t) ==
  \/ \E f \in Files, cached \in UseCache : StartSingle(t, f, cached)
  \/ \E F \in SUBSET Files \ {{}}, cached \in UseCache : StartBatch(t, F, cached)
  \/ \E f \in Files : ResolveOurs(t, f) \/ ResolveTheirs(t, f)
  \/ \E f \in Files, c \in Content : ResolveMerged(t, f, c)
  \/ ClosePanel(t)

Environment ==
  \/ \E f \in Files : CacheExpires(f)
  \/ \E f \in Files, c \in Maybe(Content) : Edit(f, c)
  \/ \E f \in Files, c \in Content : Push(f, c)
  \/ Crash

Next == Tail \/ Environment \/ \E t \in Tabs : Progress(t) \/ Request(t)

Spec == Init /\ [][Next]_vars

(* The event loop runs its ready tasks in turn and the threads return: a   *)
(* fetch has a timeout and a bounded number of retries.                    *)
FairSpec == Spec /\ WF_vars(Tail) /\ \A t \in Tabs : WF_vars(Progress(t))

-----------------------------------------------------------------------------
(* Properties.                                                             *)

\* Every variable has its type, and a batch stage only occurs in a batch.
TypeOK ==
  /\ local \in [Files -> Maybe(Content)]
  /\ remote \in [Files -> Content]
  /\ cache \in [Files -> Maybe(Content)]
  /\ disk \in Manifest
  /\ bases \subseteq Content
  /\ job \in [Tabs -> Job]
  /\ saving \in Maybe(Saving)
  /\ panel \in [Tabs -> [Files -> Maybe(Content)]]
  /\ budget \in [edits: Nat, pushes: Nat, merges: Nat, crashes: Nat]
  /\ agreed \in [Files -> Maybe(Agreement)]
  /\ hadEmpty \in [Files -> BOOLEAN]
  /\ cut \in [Files -> BOOLEAN]

\* A snapshot the manifest offers for a 3-way merge has its base on disk,
\* whatever was in flight when the process died: save_base comes before every
\* save_manifest that names it, and "ours" and "merged" keep the old hash.  (A
\* base that cannot be written is given up with a warning: then it is missing.)
BaseBeforeSnapshot ==
  \A f \in Files : disk[f] # None /\ disk[f].remote # None
                     => disk[f].remote \in bases

\* A failed fetch never empties a file (routes_diff.py:301, 422): a file is empty
\* when its user or its remote once made it so, or when the writing of a content
\* that was fetched broke off after the file was opened (merge_file.py:93).
NeverTruncated ==
  \A f \in Files : IsEmpty(local[f]) => hadEmpty[f] \/ cut[f]

\* A file whose writing broke off is not taken for merged: neither the record on
\* disk nor the one a batch carries lets the next merge skip it.
CutIsNotMerged ==
  \A f \in Files : cut[f] /\ ~hadEmpty[f] =>
    /\ ~IsAlreadyMerged(local[f], disk[f])
    /\ \A t \in Tabs : ~IsAlreadyMerged(local[f], job[t].mem[f])

\* The steps that truncate a file unasked, to write c into it.
Replaces(f, c) ==
  \/ OpenFile /\ saving.file = f /\ ~saving.asked /\ c = saving.content
  \/ \E t \in Tabs : Open(t, f) /\ c = job[t].got[f]

\* The README's promise: when both the user and the remote changed a file since
\* they last agreed, no merge replaces the user's version unasked.
Overwrites(f, c) ==
  /\ agreed[f] # None /\ local[f] # None
  /\ local[f] \notin {agreed[f].ours, agreed[f].theirs}
  /\ c # agreed[f].theirs

NoSilentOverwrite ==
  [][\A f \in Files, c \in Content : Replaces(f, c) => ~Overwrites(f, c)]_vars

\* The same promise seen by the user: it is the remote that counts, not the
\* copy of it a cache has kept.
NoSilentOverwriteOfLive ==
  [][\A f \in Files, c \in Content :
       Replaces(f, c) => ~Overwrites(f, remote[f])]_vars

\* A conflict is only reported for a file that differs from the content last
\* agreed on, and only when the remote has moved on from it.
ReportsConflict(t, f) ==
  \/ ConflictSingle(t, f)
  \/ Check(t, f) /\ job'[t].stage[f] = "conflict"

ConflictIsReal ==
  [][\A t \in Tabs, f \in Files :
       ReportsConflict(t, f) =>
         /\ agreed[f] # None
         /\ local[f] # agreed[f].theirs
         /\ job[t].got[f] # agreed[f].theirs]_vars

\* A file that is reported as merged without being written, since it was merged
\* already, holds the remote's content, up to line ends.
SameText(mine, c) == mine # None /\ c # None /\ mine.text = c.text

ReportsOk(t, f) ==
  \/ SkipSingle(t, f)
  \/ At(t, f, "judge") /\ job'[t].stage[f] = "record"
  \/ job[t].kind = "idle" /\ job'[t].stage[f] = "skipped"

OkMeansSynced ==
  [][\A t \in Tabs, f \in Files :
       ReportsOk(t, f) => \/ SameText(local'[f], remote[f])
                          \/ SameText(local'[f], job[t].got[f])]_vars

\* What the user chose to keep over a remote version is not replaced by that
\* same version at the next merge.
ResolutionStands ==
  [][\A f \in Files, c \in Content :
       Replaces(f, c) => ~(/\ agreed[f] # None
                           /\ local[f] = agreed[f].ours
                           /\ c = agreed[f].theirs)]_vars

\* Every merge request is answered, and the loop is free again.
RequestsEnd ==
  \A t \in Tabs : job[t].kind # "idle" ~> job[t].kind = "idle" /\ LoopIsFree
-----------------------------------------------------------------------------
\* Values of the instances that are checked, told apart by what their
\* environment may do.
Lf == {FALSE}
LfAndCrlf == BOOLEAN

QuietBudget == [edits |-> 2, pushes |-> 2, merges |-> 3, crashes |-> 0]
StormBudget == [edits |-> 1, pushes |-> 1, merges |-> 3, crashes |-> 1]
ShortBudget == [edits |-> 1, pushes |-> 1, merges |-> 2, crashes |-> 0]
LiveBudget == [edits |-> 0, pushes |-> 0, merges |-> 2, crashes |-> 0]
FailureBudget == [edits |-> 1, pushes |-> 1, merges |-> 3, crashes |-> 0]
CrashBudget == [edits |-> 1, pushes |-> 1, merges |-> 2, crashes |-> 1]

\* Texts other than the empty one are interchangeable, and so are files and tabs.
Symmetry == Permutations(Texts \ {EmptyText}) \cup Permutations(Files)
              \cup Permutations(Tabs)
=============================================================================
