------------------------------ MODULE MergeBatch ------------------------------
(***************************************************************************)
(* The pipeline inside api_diff_merge_batch (api/routes_diff.py): one      *)
(* asyncio task per file fetches, a few at a time, into a bounded queue; a *)
(* fixed set of writer tasks empties it; the handler joins the queue,      *)
(* stops the writers with one sentinel each and answers.                   *)
(*                                                                         *)
(* Here a file is only an item that goes through the pipeline: what a      *)
(* merge does to the file and to the manifest is the module MergeSync.     *)
(* The tasks share one event loop: what a task does between two awaits is  *)
(* one action, and asyncio.to_thread returns at any later moment.          *)
(***************************************************************************)
EXTENDS Naturals, Sequences, FiniteSets

CONSTANTS
  Items,         \* the files to fetch: `pending'
  Writers,       \* the WRITE_WORKERS tasks
  FetchWorkers,  \* places of the semaphore
  PipeSize,      \* maxsize of the queue
  Unreadable,    \* items on which detect_conflict raises: target.exists() has
                 \* no permission to look into their directory
  Stop,          \* the sentinel
  Undecided      \* results[idx] before a writer has set it

Verdicts == {"ok", "conflict", "failed"}

ASSUME SizesAssumption == FetchWorkers \in Nat \ {0} /\ PipeSize \in Nat \ {0}
ASSUME FiniteAssumption == IsFiniteSet(Items) /\ IsFiniteSet(Writers)
ASSUME UnreadableAssumption == Unreadable \subseteq Items
ASSUME MarksAssumption == Stop \notin Items /\ Undecided \notin Verdicts

VARIABLES
  fetch,      \* per item: where its fetch task is
  pipe,       \* the queue
  unfinished, \* its count of unfinished tasks
  writer,     \* per writer: what it awaits, and the last item it took
  results,
  done,       \* done_counter, as the last progress event told it
  handler,    \* what the handler itself awaits
  stops       \* sentinels put so far

vars == <<fetch, pipe, unfinished, writer, results, done, handler, stops>>

\* "got" and "error" have their content or their error, and wait for a place in
\* the queue while they hold their place of the semaphore.
FetchSteps == {"waiting", "fetching", "got", "error", "put", "put_error"}
WriterSteps == {"get", "check", "write", "base", "stopped", "died"}
Writer == [at: WriterSteps, item: Items \cup {Stop}]
Idle == [at |-> "get", item |-> Stop]

Init ==
  /\ fetch = [i \in Items |-> "waiting"]
  /\ pipe = <<>>
  /\ unfinished = 0
  /\ writer = [w \in Writers |-> Idle]
  /\ results = [i \in Items |-> Undecided]
  /\ done = 0
  /\ handler = "fetching"
  /\ stops = 0

-----------------------------------------------------------------------------
(* _fetch_limited and _fetch.                                              *)

Fetching == {i \in Items : fetch[i] \in {"fetching", "got", "error"}}
Put == {i \in Items : fetch[i] \in {"put", "put_error"}}

StartFetch(i) ==
  /\ fetch[i] = "waiting"
  /\ Cardinality(Fetching) < FetchWorkers
  /\ fetch' = [fetch EXCEPT ![i] = "fetching"]
  /\ UNCHANGED <<pipe, unfinished, writer, results, done, handler, stops>>

FetchEnds(i) ==
  /\ fetch[i] = "fetching"
  /\ \E step \in {"got", "error"} : fetch' = [fetch EXCEPT ![i] = step]
  /\ UNCHANGED <<pipe, unfinished, writer, results, done, handler, stops>>

PutsUnbounded(x) ==                  \* mutant: a queue without maxsize
  /\ pipe' = Append(pipe, x)
  /\ unfinished' = unfinished + 1

Puts(x) ==
  /\ Len(pipe) < PipeSize
  /\ pipe' = Append(pipe, x)
  /\ unfinished' = unfinished + 1

PutItem(i) ==
  /\ fetch[i] \in {"got", "error"}
  /\ Puts(i)
  /\ fetch' = [fetch EXCEPT ![i] = IF @ = "got" THEN "put" ELSE "put_error"]
  /\ UNCHANGED <<writer, results, done, handler, stops>>

-----------------------------------------------------------------------------
(* _writer.  Whatever ends an iteration, `finally' calls task_done.        *)

Await(w, step, i) == writer' = [writer EXCEPT ![w] = [at |-> step, item |-> i]]
TaskDone == unfinished' = unfinished - 1

\* results[idx], done_counter, the progress event and task_done: no await
\* suspends between them, the lock around the counter being always free.  The
\* task waits for its next item with `content' still naming the last one.
Conclude(w, i, v) ==
  /\ results' = [results EXCEPT ![i] = v]
  /\ done' = done + 1
  /\ TaskDone
  /\ Await(w, "get", i)

TakeSentinel(w) ==
  /\ writer[w].at = "get" /\ pipe # <<>> /\ Head(pipe) = Stop
  /\ pipe' = Tail(pipe)
  /\ Await(w, "stopped", Stop)
  /\ TaskDone
  /\ UNCHANGED <<fetch, results, done, handler, stops>>

\* A writer takes an item, and sends it to detect_conflict.
TakeItem(w) ==
  /\ writer[w].at = "get" /\ pipe # <<>> /\ Head(pipe) \in Items
  /\ fetch[Head(pipe)] = "put"
  /\ pipe' = Tail(pipe)
  /\ Await(w, "check", Head(pipe))
  /\ UNCHANGED <<fetch, unfinished, results, done, handler, stops>>

\* An item that was not fetched is given up at once.
TakeError(w) ==
  /\ writer[w].at = "get" /\ pipe # <<>> /\ Head(pipe) \in Items
  /\ fetch[Head(pipe)] = "put_error"
  /\ pipe' = Tail(pipe)
  /\ Conclude(w, Head(pipe), "failed")
  /\ UNCHANGED <<fetch, handler, stops>>

Checked(w, i) == writer[w] = [at |-> "check", item |-> i] /\ i \notin Unreadable

\* A conflict is not written: its base and both texts go into the answer.
FindConflict(w, i) ==
  /\ Checked(w, i)
  /\ Conclude(w, i, "conflict")
  /\ UNCHANGED <<fetch, pipe, handler, stops>>

\* No conflict: the file is written, unless is_already_merged says it need not.
FindNoConflict(w, i) ==
  /\ Checked(w, i)
  /\ \E step \in {"write", "base"} : Await(w, step, i)
  /\ UNCHANGED <<fetch, pipe, unfinished, results, done, handler, stops>>

CheckRaisesUncounted(w, i) ==        \* mutant: no finally around the iteration
  /\ writer[w] = [at |-> "check", item |-> i] /\ i \in Unreadable
  /\ Await(w, "died", i)
  /\ UNCHANGED <<fetch, pipe, unfinished, results, done, handler, stops>>

\* The exception of detect_conflict leaves the loop: `finally' still counts the
\* item, the task is gone, its results[idx] is never set.
CheckRaises(w, i) ==
  /\ writer[w] = [at |-> "check", item |-> i] /\ i \in Unreadable
  /\ Await(w, "died", i)
  /\ TaskDone
  /\ UNCHANGED <<fetch, pipe, results, done, handler, stops>>

WriteEnds(w, i) ==
  /\ writer[w] = [at |-> "write", item |-> i]
  /\ Await(w, "base", i)
  /\ UNCHANGED <<fetch, pipe, unfinished, results, done, handler, stops>>

WriteFails(w, i) ==
  /\ writer[w] = [at |-> "write", item |-> i]
  /\ Conclude(w, i, "failed")
  /\ UNCHANGED <<fetch, pipe, handler, stops>>

SaveBase(w, i) ==
  /\ writer[w] = [at |-> "base", item |-> i]
  /\ Conclude(w, i, "ok")
  /\ UNCHANGED <<fetch, pipe, handler, stops>>

-----------------------------------------------------------------------------
(* The handler: gather the fetches, join the queue, stop the writers,      *)
(* gather them with return_exceptions.                                     *)

GatherSkipped ==                     \* mutant: join does not wait for the fetches
  /\ handler = "fetching"
  /\ handler' = "joining"
  /\ UNCHANGED <<fetch, pipe, unfinished, writer, results, done, stops>>

GatherFetches ==
  /\ handler = "fetching" /\ Put = Items
  /\ handler' = "joining"
  /\ UNCHANGED <<fetch, pipe, unfinished, writer, results, done, stops>>

Join ==
  /\ handler = "joining" /\ unfinished = 0
  /\ handler' = "stopping"
  /\ UNCHANGED <<fetch, pipe, unfinished, writer, results, done, stops>>

PutSentinelOnceMore ==               \* mutant: one sentinel too many
  /\ handler = "stopping" /\ stops <= Cardinality(Writers)
  /\ Puts(Stop)
  /\ stops' = stops + 1
  /\ UNCHANGED <<fetch, writer, results, done, handler>>

PutSentinel ==
  /\ handler = "stopping" /\ stops < Cardinality(Writers)
  /\ Puts(Stop)
  /\ stops' = stops + 1
  /\ UNCHANGED <<fetch, writer, results, done, handler>>

Answer ==
  /\ handler = "stopping" /\ stops = Cardinality(Writers)
  /\ \A w \in Writers : writer[w].at \in {"stopped", "died"}
  /\ handler' = "answered"
  /\ UNCHANGED <<fetch, pipe, unfinished, writer, results, done, stops>>

-----------------------------------------------------------------------------
FetchTask(i) == StartFetch(i) \/ FetchEnds(i) \/ PutItem(i)

WriterTask(w) ==
  \/ TakeSentinel(w) \/ TakeItem(w) \/ TakeError(w)
  \/ \E i \in Items :
       \/ FindConflict(w, i) \/ FindNoConflict(w, i) \/ CheckRaises(w, i)
       \/ WriteEnds(w, i) \/ WriteFails(w, i) \/ SaveBase(w, i)

Handler == GatherFetches \/ Join \/ PutSentinel \/ Answer

Next ==
  \/ Handler
  \/ \E i \in Items : FetchTask(i)
  \/ \E w \in Writers : WriterTask(w)

Spec == Init /\ [][Next]_vars

(* The loop runs every task that is ready, and the threads return.         *)
FairSpec ==
  /\ Spec /\ WF_vars(Handler)
  /\ \A i \in Items : WF_vars(FetchTask(i))
  /\ \A w \in Writers : WF_vars(WriterTask(w))

-----------------------------------------------------------------------------
(* Properties.                                                             *)

Busy == {w \in Writers : writer[w].at \in {"check", "write", "base"}}

TypeOK ==
  /\ fetch \in [Items -> FetchSteps]
  /\ pipe \in Seq(Items \cup {Stop})
  /\ unfinished \in Nat
  /\ writer \in [Writers -> Writer]
  /\ results \in [Items -> Verdicts \cup {Undecided}]
  /\ done \in 0..Cardinality(Items)
  /\ handler \in {"fetching", "joining", "stopping", "answered"}
  /\ stops \in 0..Cardinality(Writers)

\* What join waits for: the queue's count is what lies in the queue and what
\* the writers have taken from it and not concluded.
UnfinishedCounts == unfinished = Len(pipe) + Cardinality(Busy)

\* The contents in memory: fetched and on their way to a verdict, named by the
\* task that took them last, or part of a conflict's entry, which keeps base,
\* ours and theirs until the answer (routes_diff.py:434-440).
Conflicts == {i \in Items : results[i] = "conflict"}
Held == {i \in Items :
           /\ fetch[i] \in {"got", "put"}
           /\ \/ results[i] = Undecided
              \/ \E w \in Writers : writer[w].item = i
              \/ results[i] = "conflict" /\ handler # "answered"}

\* A batch of any size without conflicts holds at most FETCH_WORKERS + maxsize
\* + WRITE_WORKERS contents, because a fetch keeps its place until the queue
\* has taken its content; only conflicts add to that, one file each.
MemoryIsBounded ==
  Cardinality(Held)
    <= FetchWorkers + PipeSize + Cardinality(Writers) + Cardinality(Conflicts)

\* Every file of the request has its entry in the answer
\* (api_diff_merge_batch's docstring: each result is recorded).
AnswerIsComplete ==
  handler = "answered" => \A i \in Items : results[i] # Undecided

\* The pipeline keeps the promise for every file whose conflict check does not
\* raise: each is decided once, the answer comes after all of them, whatever
\* became of the writers that met the other files.
Promise == INSTANCE BatchPromise WITH
             Items <- Items \ Unreadable,
             verdict <- [i \in Items \ Unreadable |-> results[i]],
             answered <- handler = "answered"
KeepsPromise == Promise!Spec

\* The tab gets its answer.
Answered == <>(handler = "answered")
=============================================================================
