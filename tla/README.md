# Verification of jira-git-gui

TLA+ models, TLC instances and TLAPS proofs of the parts of jira-git-gui whose
correctness depends on the order of things. On the server: merging remote files
into a local directory, the pipeline that merges many of them, the parallel scan
of a remote repository, the file cache, the request rate while scans run, the
event bus. In the two pages and the desktop shell: everything that keeps state
between a request and its answer, namely panels, sockets, streams, timers, downloads, exports.
Paths are relative to the repository; `components/` stands for
`frontend/web-react/src/components/`.

## 1. Inventory

A FastAPI process (`api/`, one event loop and a pool of threads) serves browser
tabs and two desktop shells; `core/` holds what does not know about HTTP. The
process has one `client` (`core/client`): the selected repository and branch are
global, and so are the rate limiter, the cache directory and the event bus.
Electron (`electron/main.js`) starts the process and shows the React page
(`frontend/web-react`); Tauri shows a page of its own (`tauri/web/app.js`).

| component | state | operations | talks to | what is hard | what makes it correct |
|---|---|---|---|---|---|
| merge (`api/routes_diff.py`, `core/diff/merge_manifest.py`, `merge_file.py`) | the user's files; `manifest.json`; `bases/<hash>.txt` | merge one, merge a batch, resolve conflicts | file cache, client, event bus | the user, the remote and several tabs act between load, check, write and save; a crash; a failed item | nothing of the user's is overwritten unasked; a reported conflict is one; a snapshot has its base; no file is emptied |
| batch pipeline (same file) | queue, its unfinished count, results, progress counter | fetch tasks, writer tasks, join, sentinels | merge | bounded queue, tasks that die, join | every file gets one result, the tab an answer, memory is bounded |
| remote scan (`core/diff/scan_remote.py`) | directory queue, `inflight`, `discovered`, `done`, result, cached trees | scan, list, collect, enqueue | client, cache, rate | threads decide on their own that the scan is over; a listing fails; another tab switches repository | nothing known is left out, one repository only, it ends |
| file cache (`core/cache.py`) | JSON files and temporary files, 64 striped locks | get, set, invalidate, clear, evict | everybody who reads remote data | deleters take no lock; names collide; the process dies | a reader gets its own file or nothing, and whole |
| scan rate (`routes_diff.py:30-68`, `core/throttle.py`) | rate, count of scans, saved rate | enter, exit, the user's knob | scan | overlapping scans, a knob outside the lock | the user's rate comes back |
| event bus (`api/eventbus.py`, `routes_events.py`) | a bounded queue per tab, callbacks on the loop | broadcast, subscribe, stream, leave | everybody broadcasts | threads post, the loop runs, queues overflow | order, arrival, what an overflow costs |
| desktop shell (`electron/main.js`) | backend process, restart count, probe loops, windows | start, probe, restart, quit | the process | a backend dies while it is probed; quitting during a restart | one backend at a time, none left behind, recovery or a message |
| the page's link (`api/events.ts`, `api/client.ts`, `App.tsx`) | event source, its listeners, reconnect timer | connect, subscribe, reconnect | bus, shell | outages between any two steps | an event is heard once; the stream returns |
| repository tab (`RepoList`, `FileTree`, `Preview`, `ActionBar`) | selection, tree, ticks, preview, job, bar | open, expand, preview, jump, search, clone, download | client, bus | the server has one selected repository, the page believes in another | what is shown and fetched is of the chosen place |
| compare tab (`DiffPanel.tsx`) | list of differences, overlay of merged files, open diff, conflicts | scan, open, merge one/some/all, decide | merge, scan | the target is edited under a list; decisions fail one by one | an entry leaves the list only when settled on disk |
| Kubernetes panels (`components/k8s/`, `LogViewer.tsx`, `k8sFileDownload.ts`) | environment and pod, terminal socket, file list and editor, downloads, snapshot, log stream | choose, attach, edit, save, delete, slice by slice, poll | kubectl or SSH behind routes | sockets that close late, one target shared by all views, cancel in a back-off | what is typed, saved and deleted hits the pod that is shown; a saved file is whole |
| cloud functions (`CfPanel`, `CfMonitorPanel`, `CfConsistencyPanel`, `CfDebugPanel`; `api/cf/`, `api/cfdebug/`) | query, companion query, stream; figures; versions and ledger; session, breakpoints, frames | query, stream, chart, push, roll back, step, watch | gateways, debuggee | streams per server, answers after a switch, concurrent deployments, stale frames | rows, charts and values are of what is chosen; a replaced version is archived |
| HCM (`components/hcm/`, `api/hcm/`) | objects, metadata, records, filters, keys, cases | list, filter, export, look up, delete, test, locate | gateways | no guard against late answers, paging with unreliable pages | an export is complete and is the view; a deletion hits the gateway of the row |
| Clash (`ClashPanel.tsx`, `api/clash/`) | list of addresses, routes, configuration files | apply, undo, patch all | the machine, a password | two-step application, undo with changed inputs | what was applied is undone whole |
| Kibana, diagnosis | conditions, tree, rows, range history; form and verdict | query, zoom, diagnose | Elasticsearch, cluster | late answers, conditions that change | rows are of the query; "healthy" is true |
| Tauri page (`tauri/web/app.js`) | the same in one script with global variables | the same | the same | each request reads the fields when it is made | the same |
| downloads (`core/client/files.py`, `api/routes_download.py`, `common.py`) | resume manifest, cancel events, shared task status | download tree, cancel, resume | client | cancel before register, two downloads at once, crash before the manifest is saved | a resumed download is the tree |
| token bucket, watchdog, HTTP connection | tokens, failure count, retries | acquire, get | every request | rate changed while threads sleep; the watchdog is given to no request | requests in a window are bounded |
| diff computation, AI bridge, configuration and history, authentication | - | - | - | normalisation, ring buffers | see section 6 |

`PROJECT.json` lists every component with its sources, its modules and, where it
is not or only partly modelled, what is left out.

## 2. Modules

```
MergeSync   <-- MergeSyncProofs        the contents: files, manifest, bases
MergeBatch  <-- MergeBatchProofs       the tasks of one batch
            --> BatchPromise           what it implements
RemoteScan  <-- RemoteScanProofs
FileCache   <-- FileCacheProofs
ScanThrottle                           with its proofs
EventBus    <-- EventBusProofs

MCPage   =  Desktop (with its proofs), Link, Workbench, FileTree, DiffTab,
            TextTools, PlainPage, PlainPods, PlainLogs,
            Kibana, Clash, Diagnosis   and the theorems of the sum
MCTools  =  HcmObjects, LedgerExport, PersonLookup, TableWindow, ApiTester,
            HcmOps, MetaFiles, ErrorLocator,
            K8sPanel, K8sFiles, K8sDownload, K8sSnapshot, K8sEnv, PodLog,
            CfLogs, CfView, CfMonitor, CfDeploy, CfDebug, CfInspect
```

`MCPage` and `MCTools` are *sums*: the variable `focus`, which never changes, says
which component a behaviour is about; the variables of all others rest at 0. A
sum is checked in the time of its parts added, and its properties are
conjunctions with one part for each component. The components of a sum do not act
on each other in the model; what couples them in the program (the server's selected
repository, the target of the Kubernetes views, the socket of the debugger) is
inside the module that needs it.

### Conventions of the page modules

* One action is a handler of the page up to its next `await`, or the part of it that
  runs when the answer is there; a handler of the server is a step where
  the properties depend on when it runs, and otherwise part of the answer.
* A request is a record in the set `net` with what it was sent for and, where the
  code guards answers by a sequence number, that number. Answers come in any order
  unless a constant says otherwise.
* State of a React render is what the handler closed over: where a handler reads a
  ref the current value is read, where it reads the render the record in `net` has it.
* Contents are identified with where they were read from: rows "are" the pair of
  environment and object they belong to. Texts are members of small sets.
* What a user can do is what an enabled control lets him do.
* **Named conditions.** Most of these pages hold their promises only while the user,
  the server or the clock behave. Such a condition is a Boolean constant of the module
  (`Patient`, `Ordered`, `Calm`, ...), stated beside it, true in the
  run, and used only in guards. With the constant FALSE TLC finds a counterexample: section 4
  lists which. So a run says *under which conditions* the property holds, and section 4 that each
  condition is needed. What the code guards itself, in whatever order answers come,
  is a property of its own (`InAnyOrder` of `MCPage`), proved without any condition.
* `Quiet` or `net = {}` in a property restricts it to moments when no answer is due.

### MergeSync

`local`, `remote` and `cache` are the three copies of a file; `disk` is
`manifest.json` with a record `[ok, remote, local]` of hashes per file; `bases`
the files `bases/<hash>.txt`; `job[t]` the request a tab has in flight, for a
batch with the manifest it loaded at its start (`mem`) and a stage per file;
`saving` the synchronous tail of a single merge or resolution (open the file and
write it, or leave it since it reads the same, then base, then
manifest), during which the event loop is held; `panel[t]` the conflicts shown.
`agreed`, `hadEmpty` and `cut` (the writing of this file broke off) are history for the properties only.
An action that runs on the loop needs `LoopIsFree`; one that runs in a thread
(`asyncio.to_thread`: fetch, a batch's check, write and base) does not.
`MergeSync` and `MergeBatch` are two views of the same handler: in `MergeSync`
every file of a batch goes through its stages independently of the others, which is
every order the twenty writers can produce; `MergeBatch` has the queue, the
semaphore, the writers and the join, and reduces a file to an item with a verdict.
Choices:

* A content is a text and a kind of line end; md5 is injective, so a hash is the
  content. Texts, not bytes: a binary file has no base and no three-way view.
* A file is written in two steps, since `open(target, "w")` empties it (`Truncate`)
  before the content is there (`Put`); between them the process may die or the write fail, and
  then the file stays empty (`WriteFails`, `WriteFileFails`). A save of a base or of the
  manifest that fails is swallowed by the code and changes nothing (`SaveBaseFails`,
  `SaveManifestFails`, `BatchBaseFails`). `Failures` says which of the four occur. The
  base is written in one step.
* Directories and paths are one namespace; line ends are those of POSIX.
* A batch whose files are all skipped saves and answers through `EndBatch` like
  any other; the code's shortcut (line 383) has the same effect.
* `Crash` ends every request and leaves what is on disk.

### MergeBatch and BatchPromise

`fetch[i]` is where the fetch task of an item is, `pipe` and `unfinished` are the
`asyncio.Queue` with its count for `join`, `writer[w]` what a writer awaits, `handler` what the
request handler awaits. One action is what a task does between two awaits. `Unreadable` holds
the items whose conflict check raises. The lock round the progress counter is always free when
asked for, since nothing is awaited inside it. `Held` are the items whose content is in memory:
with a fetch, in the queue, with a writer, or in the result of a conflict, which keeps base,
ours and theirs until the answer. `BatchPromise` is the promise to the tab: each file is decided
once, the answer comes after all of them; the refinement maps `results` to `verdict`.

### RemoteScan, FileCache, ScanThrottle, EventBus

`RemoteScan`: `queue` is `dir_q` as a set, `worker[w]` the step of a thread in `_consumer` and
`_process` with its directory. The lock sections of `state_lock` are single
actions, and so are `dir_q.get` and `dir_q.empty`; what lies between two of them
interleaves. `result[d]` names the repository the file of `d` was read from. A scan is fast or
precise (`FastModes`) and with or without the cache (`CacheModes`): `target` is what the user asked
for, `snapshot` what the scan was given, which is nothing without the cache. Nothing
in production cancels a scan, so the cancel branches are left out.

`FileCache`: names and inodes are kept apart because the code's guarantee is about them:
`open(tmp, "w")` truncates, `os.replace` moves a name, and a thread that has the inode open goes
on writing to it wherever its name went. `Unlink` is expiry and eviction, `UnlinkTmp` the
eviction loop that takes any `*.tmp`, `Clear` and `DiffInvalidate` the two endpoints, of which
the second clears a namespace that holds no contents. `SlotOf` maps a path to its file name,
`RacySwitch` lets a repository be selected while a read is under way. `strayed` and `floor` are
history: the names for which a switch has overtaken a read, and the version that a read must not
fall behind. Locks are one per key (64 stripes may make two keys exclude each other, which only
removes behaviours).

`ScanThrottle`: each scan takes `_SCAN_QPS_LOCK`, counts itself, saves and raises, and later
counts itself out, compares and restores; each read or write of the rate is a step
of its own because the knob (`TurnKnob`) does not take that lock. `wish` and
`turned` are history.

`EventBus`: `broadcast` copies the list of subscribers under the lock and posts one callback
per tab; callbacks run in order on the loop and call `_enqueue`; a stream takes
from its tab's queue. `Enqueue(q, item)` is `_enqueue` as a function.

### The parts of MCPage

| module | models | state and steps worth knowing |
|---|---|---|
| `Desktop` | `electron/main.js` | every spawn has a number; `pyProc` is what the shell holds, `alive`/`killed` what there is; a `waitForBackend` loop per start, restart timer, dock icon, quit. `Hasty` lets the dock icon be clicked while a start is due |
| `Link` | `api/events.ts`, `api/client.ts`, mount and retry of `App.tsx` | `attached[e]` counts the listeners of an event on the current source; the backend goes and comes |
| `Workbench` | `RepoList`, `FileTree`, `Preview`, `ActionBar`, store, `App`'s progress handlers, the routes behind them | `sel` (page) against `srv` (server); a request is handled and answered in two steps; jobs and their events |
| `FileTree` | jump to a pasted path, search, local directories | `dirCache` keeps rows with the place they were read from |
| `DiffTab` | `DiffPanel.tsx` | scan, open, versions, merge one/some/all, conflict decisions, each of which may fail; the list keeps the target it was scanned for, a request sends the current one |
| `TextTools` | the line merge of the conflict dialog and the drawing of a diff (`DiffPanel.tsx`) | functions, checked on all texts of at most two lines over three |
| `PlainPage` | repositories, tree, mapping, differences in `tauri/web/app.js`; its event stream and bars | the directory found by the server races the one typed; reconnect timers, and the two-second timer that hides a bar (`Feed`, with a focus of its own) |
| `PlainPods` | Kubernetes tab of the same | environment, menu, timers of sub-pages, terminal, files |
| `PlainLogs` | its cloud function logs | paging, order that first loads the rest, search, export |
| `Kibana` | `kibana/KibanaPanel.tsx` and its parts | draft and applied conditions, tree, histogram, rows page by page, range stack |
| `Clash` | `ClashPanel.tsx`, `routes_clash_rules.py`, `clash_base.py` | four loads at mount, probe, generate, apply, undo, patch all; `routes` and `marks` are the machine |
| `Diagnosis` | `UnifiedDiagnosisPanel.tsx`, `unified_diagnose.py` | form, lists that arrive late, and the verdict as a function of the cluster |

### The parts of MCTools

| module | models | state and steps worth knowing |
|---|---|---|
| `HcmObjects` | `hcm/HcmObjectBrowser.tsx` | list, metadata, records, pages, export; each request goes to the server chosen when it was made |
| `LedgerExport` | filters (`hcmObjectFilters.ts`) and the page-by-page export | one export after another; the server may cap a page, repeat it, or have none left |
| `PersonLookup`, `TableWindow`, `MetaFiles` | look-up, table window with sorting and narrowing, meta files and model detail | |
| `ApiTester` | `hcm/HcmApiTester.tsx` | paged list with cache, calls, a session over a socket, one pane for both |
| `HcmOps` | `hcm/HcmOps.tsx` | search, delete, batch deletion one key at a time, errors of a period |
| `ErrorLocator` | `hcm/HcmCloudFuncErrorLocator.tsx` | blocks of a pasted text, present value, cases, issues, feedback, learning, gateway and its token |
| `K8sPanel` | `K8sPanel`, `K8sShell`, `K8sEvents`, `K8sTop`, `K8sEnvModal` | target shared by all views; sockets that are connecting, open, closing |
| `K8sFiles`, `K8sDownload` | file list, editor, deletion, hits; downloads in slices | a download is `get`, `gate`, `back-off`; retries, pause, cancel, a file that changes is excluded by `Stable` |
| `K8sSnapshot` | `K8sSnapshot.tsx`, `routes_k8s_snapshot.py` | a run as thread and events; a row's log and description, each asked for anew with the form's environment and namespace |
| `K8sEnv` | `K8sEnvModal.tsx`, `routes_k8s_env.py`, `core/k8s/env.py` | list, form, drafts pushed by a script, import; the server merges what it is sent |
| `PodLog` | `LogViewer.tsx` | one query, polling, a stream with its abort |
| `CfLogs`, `CfView` | `CfPanel.tsx`, `cf_stream.py`, `CfDistribution.tsx`, `cfDist.ts` | query with companion, stream task per server, which a new page claims, sign-in with its image and tokens the server keeps; table, walk, export and chart as functions of the rows |
| `CfMonitor` | `CfMonitorPanel.tsx` | figures on request, by themselves, by the clock |
| `CfDeploy` | `CfConsistencyPanel.tsx`, `cf_consistency.py` | scan, compare, pull, push with archive and retry, rollback; `index` is `index.jsonl` |
| `CfDebug`, `CfInspect` | `CfDebugPanel.tsx`, `dapClient.ts`, `runner.py` | session, breakpoints, stepping, sources; frames, variables, watches, rows of the log model |

## 3. Runs

TLC instances are chosen so that each interesting case occurs; bounds are
constants, named in the configuration or, for the sums, in the `INSTANCE` lines
(the parts of `MCPage` that its theorems are about have their values in `MCPage.cfg`).

| run | bounds | shows |
|---|---|---|
| `merge_quiet` | 2 files with LF, 1 tab, 3 texts, 2 edits, 2 pushes, 3 merges; no cache, failure, crash or edit inside a write | `NoSilentOverwrite`: a file both sides changed since they agreed is never replaced; `ConflictIsReal` |
| `merge_storm` | 1 file with LF, 2 tabs, cache on and off, all resolutions, failing fetches, writes and manifest saves, 1 crash, edits at any moment | `TypeOK`, `BaseBeforeSnapshot`, `NeverTruncated`, `CutIsNotMerged` survive all of it |
| `merge_live` | 1 file, 2 tabs, each of the four failures | `RequestsEnd` |
| `merge_ok` | 1 file | violation of `OkMeansSynced` |
| `merge_lost` | 1 file, 2 tabs | violation of `NoSilentOverwrite` by a lost update of the manifest |
| `batch` | 5 items (1 unreadable), 2 writers, 1 fetch at a time, queue of 1 | `MemoryIsBounded`, refinement of `BatchPromise`, `Answered` |
| `scan` | 4 directories on 3 levels, 3 threads, 2 may fail, 2 scans, each fast or precise, with the cache or without, 2 repositories, 1 switch | `ScanComplete`, `FinalProgress`, `FastTreesDoNotMix`, `ScanEnds` |
| `cache` | 2 threads, 1 path in 2 repositories, 1 push, 1 switch at any moment, 1 crash, both clearings and evictions at any moment | `NeverTorn`, `AnswersBelong` |
| `throttle` | 3 scans, rates below and above the floor, not at it, the knob outside the critical sections | the count, the raised rate, its return |
| `bus` | 2 threads, 2 events each, 1 tab, queue of 2 | order, arrival, selective overflow |
| `page` | two of everything the user can choose between, 2 to 6 requests per component, up to 3 crashes and 2 outages, under the conditions of section 4 | `OneBackend`, `ShownIsCurrent`, `NothingLost`, `TextIsWhole`, `LeavesWhenSettled`, `Recovers`; `InAnyOrder`, which needs none of the conditions: preview of the chosen file, a bar that ends, timers that stop with their sub-page, an event heard once |
| `tools` | two of everything, 2 to 6 requests per component, files of up to 3 bytes in slices of 2, under the conditions of section 4 | `ShownIsChosen`, `ActsOnShown`, `FilesAreWhole`, `Returns` |

Why the bounds are enough to mean something: an overwrite takes a first merge that agrees, a
change on each side and a second merge, and `merge_quiet` has a third; a lost record takes two
requests that overlap; the pipeline's bound of `FetchWorkers + PipeSize + Writers` is four in
`batch`, and there are five items, of which a conflict adds its own; a thread that leaves a scan
too early takes two others, one listing and one waiting; six inodes are what two names, two
temporary names and two open files can take (`InodesAssumption`, which the proof shows to be
enough for any number of names and threads); a queue of two overflows at the third of four
events, in any order of alarms and progress. In a panel, showing the wrong thing takes one
request for each of two choices and a third that makes one of them late; every condition
constant of section 4 is violated within these bounds, so they do reach the hazards. A file that
a merge left empty takes an open and a failure; `merge_storm` has two merges after it that could
skip it. `CHECK_DEADLOCK FALSE` everywhere: with the budgets spent the system rests, and a
server that nobody asks anything may.

Fairness is weak and per task. `MergeSync`, `MergeBatch`: the event loop runs every ready task,
a thread given to `to_thread` returns since a fetch has a timeout and a bounded number of
retries. `RemoteScan`: threads run and requests return. `EventBus`: `broadcast` is straight-line
code and the loop runs its callbacks; that a tab reads is not assumed. `page`: timers fire, a
process that was started either binds its port or exits, one that was told to stop stops,
requests are answered and delivered events are handled; a job ends (`JobEnds`: it is a process
of its own, which no other request stops), and an outage ends (`ComesUp`: the shell restarts the
backend, which `Desktop` shows). `tools`: an export, a look-up, a download that is not paused
and the thread, events and routes of a snapshot go on. No environment action (user, remote,
crash, knob, other tabs) is fair.

Each property of a passing run has a mutant of a modelled definition, defined
just before it and marked `mutant`, that breaks it; a conjunction of the sums has
a mutant for most of its parts.

## 4. Where the code and its documentation part

Two runs end in a counterexample that contradicts a line of the repository
(`findings` of `PROJECT.json` quote it):

* `merge_ok`: whether a file is skipped as merged depends on the record and the
  local file, never on the remote content just fetched. A file synced once and
  left alone is not updated any more.
* `merge_lost`: a batch keeps what it has agreed on in memory until its end, and then saves the
  manifest it loaded before its first fetch, over what others have saved. A single merge of
  another tab in between finds no snapshot and overwrites the user's edit.

The further disagreements are in the tables and the list below: each row says what to
change in a configuration (or which instance of the module to take) for TLC to find the
counterexample.

### Conditions of the server's modules

With a configuration changed as the second column says (none: the property is put into the
run's configuration as it is), TLC finds:

| module | change to the run's constants | property | what happens |
|---|---|---|---|
| `MergeSync` | `merge_quiet` with `Failures = {"fetch"}` | `NoSilentOverwrite` | a failed item of a batch replaces its snapshot by an empty one (`routes_diff.py:471`) and the next merge sees no conflict |
| `MergeSync` | `merge_quiet` with `Failures = {"manifest"}` | `NoSilentOverwrite` | a manifest that cannot be saved is given up with a warning, and with it the snapshot (`merge_manifest.py:72`) |
| `MergeSync` | `merge_storm` with `Failures = {"base"}` | `BaseBeforeSnapshot` | a base that cannot be saved is given up with a warning, and the snapshot is recorded (134) |
| `MergeSync` | `merge_quiet` with `Budget <- CrashBudget` | `NoSilentOverwrite` | the process dies before the batch saves its manifest (515) |
| `MergeSync` | `merge_quiet` with `RacyEdits = TRUE` | `NoSilentOverwrite` | the user edits a file between the conflict check of a batch (430) and the write in a thread (456) |
| `MergeSync` | `UseCache = {TRUE, FALSE}` | `NoSilentOverwriteOfLive` | the conflict check compares with a cached content (`scan_remote.py:357`) |
| `MergeSync` | `Choices = {"ours"}` | `ResolutionStands` | a kept file is recorded with the old remote hash (`routes_diff.py:553`), so the next merge overwrites it with what it was kept over |
| `MergeSync` | `LineEnds <- LfAndCrlf` | `ConflictIsReal` | the recorded hash is of the CRLF text, the local one of the text read with universal newlines (`merge_manifest.py:169`) |
| `MergeBatch` | none | `AnswerIsComplete` | an exception of `detect_conflict` (430) leaves an empty place in the answer |
| `MergeBatch` | `Unreadable = {i1, i2}` | `Answered` | as many such exceptions as writers, and `join` never returns |
| `RemoteScan` | none | `EmptyMeansDone` | the comment at `scan_remote.py:131` does not hold between `get` and the count; harmless, see `ScanComplete` |
| `RemoteScan` | none | `CachedTreeIsWhole` | a tree with a failed listing is cached for an hour (326) |
| `RemoteScan` | none | `OneRepository` | a precise scan reads contents from the selected repository, not from its snapshot (161), against the comments at `scan_remote.py:27`, `:100` and `routes_diff.py:143`, which promise it for every scan |
| `RemoteScan` | none | `FindsTheTree` | without the cache the scan is not handed the snapshot (`scan_remote.py:301`), lists the repository `None` and ends with an empty tree, although no listing failed |
| `FileCache` | `Paths = {p1, p2}`, `Slots = {s}`, `SlotOf <- SharedSlot` | `NeverTorn`, `AnswersOwnFile` | `a/b` and `a_b` share a cache file (`cache.py:40`), and have two locks and one temporary file, against the comment at `cache.py:85`: a reader sees the old file or the whole new one |
| `FileCache` | none | `AnswersOwnFile` | namespace and content are taken from the selection at two moments (`routes_diff.py:291`, `scan_remote.py:371`), against `scan_remote.py:345`; with `RacySwitch = FALSE` and keys that differ it holds |
| `FileCache` | none | `FreshAfterClear` | `/api/diff/invalidate` clears a namespace that holds no contents (`routes_diff.py:601`); with `Clears = {"namespace"}` it holds |
| `ScanThrottle` | `3` added to `Rates` | `RateComesBack` | a user who sets exactly the floor gets the old rate back |
| `ScanThrottle` | `RacyKnob = TRUE` | `RateComesBack` | the knob turns between comparison and restore |
| `EventBus` | none | `AlarmOutlivesProgress` | a progress event that meets a full queue discards its head, alarm or not, against the docstring at `eventbus.py:71` |

### Conditions of the pages' modules

With the Boolean constant the other way round (FALSE, but TRUE for the two marked), TLC finds
the property violated within the bounds of the run; what each condition says stands beside it in
the module. In `MCPage` the conditions of a module come together as one constant (`BenchUsual`,
`PodsUsual`, `LogsUsual`, `QueryUsual`, `PageUsual`, `TreeUsual`, `RouteUsual`, `CheckUsual`);
the `INSTANCE` lines say which. `LedgerExport` with `Honest` has to be tried alone and with
`MaxTable = 3`, since it has too many initial states otherwise.

| module | condition: property violated without it |
|---|---|
| `Desktop` | `Hasty` (TRUE): `OneBackend`, `NoOrphan` |
| `Workbench` | `Ordered`, `Careful`: `JobIsOfRepo`, `Restored`, `TreeIsOfRepo`; `Prompt`: `Recovers` |
| `FileTree` | `Patient`: `HitsAreOfQuestion`, `OpenHasRows`, `RowsAreOfPlace`; `Folded`: `HitsAreOfQuestion`, `RowsAreOfPlace`; `Remote`, `Prompt`: `HitsAreOfQuestion`; `Exists`: `RowsAreOfPlace` |
| `DiffTab` | `Steady`: `LeavesWhenSettled`; `Patient`: `ShownIsSelected` |
| `TextTools` | `Dashed` (TRUE): `ShowsEveryRow` |
| `PlainPage` | `Ordered`, `Reliable`: `TreeIsOfRepo`; `Single`: `MergesShown`, `TreeIsOfRepo`; `Loyal`: `MergesListed`; `Unhurried`: `TypedStays`, and with more requests `MergesListed`; `Calm`: `BarsStay`; `Steady`: `BarsStay`, `Recovers`; `Late`: `Recovers` |
| `PlainPods` | `Ordered`: `MenuIsOfEnv`; `Patient`, `Loyal`: `NoHarm`, `TypesIntoShown`; `Fresh`, `Short`: `NoHarm`; `Calm`: `SignIsTrue` |
| `PlainLogs` | `FromFirst`: `SortsAll`; `Steady`: `ExportIsShown`, `TableIsOfQuery` |
| `Kibana` | `Ordered`: `HistIsOfQuery`, `RowsAreOfQuery`, `TreeIsOfSite`; `Held`: `TreeIsOfSite`; `Calm`: `RowsAreOfQuery`; `Picked`: `ZoomGoesBack` |
| `Clash` | `Settled`: `ListStays`, `PathStays`; `Fixed`, `Sound`, `Alone`: `UndoneWhole` |
| `Diagnosis` | `Settled`: `ChoiceStays`; `Patient`: `ResultIsOfLast`; `Whole`: `HealthyIsTrue` |
| `HcmObjects` | `Ordered`, `Reliable`: `ShownIsChosen` |
| `LedgerExport` | `Honest`: `FilterIsAnd`; `Marked`: `KeywordIsUseful`; `Untouched`: `ExportIsView` |
| `PersonLookup` | `Patient`: `VerdictIsOfForm` |
| `TableWindow` | `Filled`: `AutoQueryOnce`; `Ordered`: `RowsAreOfModel`; `Closed`: `PeekIsOfRow` |
| `ApiTester` | `Steady`: `ToldIsTrue`; `Single`: `DisplayIsLatest`; `Calm`: `SessionIsHeld` |
| `HcmOps` | `Patient`: `FoundIsOfTarget`, `DeletesFound`; `Ordered`, `Fresh`, `Dated`: `FoundIsOfTarget`; `Reliable`: `GoneIsDeleted` |
| `MetaFiles` | `Patient`: `FileIsOfSelected`, `ResultIsOfSelected`; `Relisted`: `FileIsOfSelected`; `Reliable`, `Signed`: `ErrorIsOfToken` |
| `ErrorLocator` | `Patient`: `ValueIsOfError`; `Single`, `Owned`, `Alone`, `Signed`: `NothingAstray` |
| `K8sPanel` | `Attached`: `TypesIntoTarget`; `Calm`: `SignIsTrue`; `Early`: `PodIsOfEnv`; `Patient`: `RowsAreOfEnv` |
| `K8sFiles` | `Patient`, `Careful`, `Local`: `NoHarm` |
| `K8sDownload` | `Stable`: `DoneIsComplete`; `Calm`: `ActiveIsHeld` |
| `K8sSnapshot` | `Calm`, `Lossless`: `ResultIsShown`; `Resolves`: `Returns`; `Steady`, `Default`: `LogIsOfRow`; `Chosen`: `DescribeIsOfSelected` |
| `K8sEnv` | `Listed`, `Patient`: `SaveIsWhatItSays`; `Writes`, `Cleared`, `Refilled`: `FormIsTrue` |
| `PodLog` | `Patient`, `Settled`: `RawIsOfTarget` |
| `CfLogs` | `Calm`: `DistIsOfResult`, `StreamIsHeld`, `SessionIsOfServer`; `Quick`, `Renders`: `RowsReach` |
| `CfView` | `Coarse`: `PickKeepsBar`; `Plain`: `ExportIsShown`; `Titled`: `ChartCountsAll`; `OnePage`: `MatchIsShown` |
| `CfMonitor` | `Patient`, `Listed`: `DataIsOfChosen`; `Thrown`: `FiguresStay` |
| `CfDeploy` | `Mapped`: `DetailIsOfSelected`; `Fixed`, `Alone`, `Reachable`: `NothingAstray` |
| `CfDebug` | `Prompt`: `SourceIsSelected`; `Focused`, `Reached`: `BreakpointsArePut`; `Patient`: `SessionIsHeld` |
| `CfInspect` | `Idle`: `WatchesStay`; `Patient`, `Distinct`: `ValuesAreOfFrame`; `Settled`: `FieldStays`; `Listed`: `DeletesShown` |

Some of these conditions part from a comment of the code, which promises the
property without them:

* `kibana/KibanaExplorer.tsx:46`: tree and log must come from one site. A site that is
  changed while no pod is selected (`Held`) leaves the tree with the callback of the old one.
* `kibana/KibanaPanel.tsx:155`: a range that is left goes on a stack for the way back. One
  that was typed into the draft and applied does not (`Picked`). `:144`: conditions that have changed
  are queried anew; a page of more rows under way at that moment is still appended (`Calm`).
* `tauri/web/app.js:2890`: the remaining pages are loaded, so that the order covers all
  logs. The first page loaded is counted from the rows at hand, and on a later page
  those are not the pages before it (`FromFirst`). `:1697`: a directory typed by hand is not
  overwritten, unless it was typed while `discoverLocalDirs` was waiting (`Unhurried`).
* `api/cf/routes_cf_consistency.py:123`: a push archives the version online first, so
  each leaves a point to go back to. One that cannot be read is not archived, and the push
  goes on (`Reachable`).
* `CfDebugPanel.tsx:457`: the breakpoint of "run to cursor" is removed when it is hit;
  something else may happen first (`Reached`). `:215`: watches are evaluated at each stop; an answer
  writes back the list it started with, over edits made meanwhile (`Idle`).
* `CfPanel.tsx:1264`: a walk to a match turns to its page; with more than one page the active
  match need not be on the one shown (`OnePage`). `:1029`: the export is what is shown; it knows
  no picked types, and filters by a search that the table only marks (`Plain`). `:544`: no token
  of the old environment is used for the new one; a sign-in under way brings it back (`Calm`).
  The mark counts matches from 0 (`:230`), the walk from 1: it stands one match behind the one
  walked to.
* `CfDistribution.tsx:56`: the two charts confirm each other; rows without a type break
  this in a query for one type (`Titled`). `:159` promises at most eight ticks, and draws up to nine.
* `api/cf/cf_stream.py:6`: only new rows are pushed, and all of them; a row written while
  the query or the start is on its way is taken for seen (`Quick`).
* `k8s/K8sPanel.tsx:82`: a change of environment resets the pod. Editing the environments
  changes it too, and does not (`Early`).
* `k8s/K8sEnvModal.tsx:148`: creating never overwrites an environment silently; the page
  compares with a list that may have failed to load (`Listed`) or be old (`Patient`).
  `k8s/K8sSnapshot.tsx:194`: logs are opened in the namespace of the snapshot; the route that
  reads them uses that of the environment (`Default`).
* `hcm/HcmTableWindow.tsx:108`: without a snapshot the window queries once; a model without
  rows is queried again and again (`Filled`).
* `utils/hcmObjectFilters.ts:477`: filters are joined by AND; of two for the same field
  one is lost (`Honest`). `:421`: the default field is none of the framework's, unless one is marked for
  fuzzy search (`Marked`).
* `hcm/HcmObjectBrowser.tsx:769`: the export is the current view; it takes the request's
  text as it is, edited since or not (`Untouched`).
* `hcm/HcmOps.tsx:180`: a change of gateway clears the results of the old one; an answer
  under way brings them back (`Patient`).
* `hcm/HcmApiTester.tsx:362`: the pane shows the latest request; a call beside a session
  does not clear it (`Single`).
* `CfMonitorPanel.tsx:480`: a round that fails leaves the figures, under a message; a
  failure that is answered with status 200 replaces them (`Thrown`).
* `api/clash/routes_clash_rules.py:192`: the undo deletes the added routes and rules;
  without the password or the configuration it deletes one of them only (`Sound`).
* `api/unified_diagnose.py:252`: a cluster in which all is well leaves the code as cause;
  some that are not well escape the rules (`Whole`, spelt out by `Fits`).
* `DiffPanel.tsx:720`: conflicts stay in the list until decided. `resolveConflicts` (628-634)
  takes all of them off, those whose decision failed included: `ConflictsStay` fails under any
  condition. `LeavesWhenSettled` says what is left: an entry goes when a merge settled it or a
  decision about it was answered, well or not.
* `electron/main.js:42`: at most eight restarts in a session. The count goes back to 0
  when a probe succeeds, so a session may have more (`Desktop.RestartsPerSession`).

Properties that are stated in the modules and checked by no run, since the code violates them:
`RestartsPerSession` (`Desktop`), `BarIsOfPod` (`K8sDownload`), `NewTokenIsUsed`
(`TableWindow`), `DataIsOfSelected` (`HcmObjects`), `AlarmOutlivesProgress` (`EventBus`),
`AnswersOwnFile` and `FreshAfterClear` (`FileCache`), `EmptyMeansDone`, `CachedTreeIsWhole`,
`OneRepository` and `FindsTheTree` (`RemoteScan`), `NoSilentOverwriteOfLive` and
`ResolutionStands` (`MergeSync`), `AnswerIsComplete` (`MergeBatch`), `ConflictsStay`
(`DiffTab`), `RevertUndoes` (`Clash`: without `Sound` it is violated beside `UndoneWhole`),
`WatchesPersist` (`CfInspect`, without `Idle`), `SignInIsOfServer` (`CfLogs`, without `Calm`).

## 5. Proofs

TLAPS proves the 32 theorems listed under `theorems` in `PROJECT.json`, for every
value of the constants that the assumptions admit. They state every property of the runs of the six
server modules except the liveness ones, and of the page `OneBackend`, `LeavesWhenSettled`,
`NothingLost`, `ShownIsCurrent` and `InAnyOrder`: each of their parts, about eleven components.

| module | theorem: property | hypotheses beyond the module's assumptions |
|---|---|---|
| `MergeSyncProofs` | `TypeCorrect`, `EmptyIsExplained`: `NeverTruncated`, `CutIsSeen`: `CutIsNotMerged` | |
| | `BasesComplete`: `BaseBeforeSnapshot` | `"base" \notin Failures` |
| | `AsksFirst`: `NoSilentOverwrite`, `ConflictsAreReal`: `ConflictIsReal` | `Undisturbed` |
| `MergeBatchProofs` | `TypeCorrect`, `CountIsExact`, `MemoryBounded`, `KeepsThePromise`: refinement of `BatchPromise` | |
| `RemoteScanProofs` | `TypeCorrect`, `NothingLeftOut`: `ScanComplete`, `EndsAtHundredPercent`: `FinalProgress`, `FastScansDoNotMix`: `FastTreesDoNotMix` | |
| `FileCacheProofs` | `TypeCorrect`, `OwnAnswers`: `AnswersBelong` | |
| | `WholeFiles`: `NeverTorn` | `OneToOne` |
| `ScanThrottle` | `TypeCorrect`, `CounterIsExact`, `ScansStayFast` | |
| | `RateIsGivenBack`: `RateComesBack` | `~RacyKnob`, `Floor \notin Rates` |
| `EventBusProofs` | `TypeCorrect`, `OverflowIsSelective`: `OverflowDropsOne`, `EachInItsOrder`: `ProducerOrder` | |
| `Desktop` | `TypeCorrect` | `Bounds` |
| | `NeverTwo`: `OneBackend`, `NoneLeftBehind`: `NoOrphan` | `Bounds`, `~Hasty` |
| `MCPage` | `OneBackendAlways`: `OneBackend` of the sum | `D!Bounds`, `~Hasty` |
| | `LateAnswersDoNoHarm`: `InAnyOrder` | `W!Apart` |
| | `EntriesStayUntilSettled`: `LeavesWhenSettled` | `Steady` |
| | `NothingIsLost`: `NothingLost` | `PageUsual`, `TreeUsual`, `RouteUsual`, `CheckUsual`, `R!Blank \notin TreeRepos`, `H!Apart` |
| | `ShownStaysCurrent`: `ShownIsCurrent` | `Patient`, `BenchUsual`, `PodsUsual`, `LogsUsual`, `QueryUsual`, `PageUsual`, `TreeUsual`, `RouteUsual`, `CheckUsual`, `Reserved` |

Each hypothesis is needed: section 4 has the counterexample that TLC finds without
it. The hypotheses are the constants of the runs, so a run shows the same statement. `Reserved` and
`Apart` are about names: those the code keeps for itself (the empty text, the rows that
are being loaded, the search that is off) are no names of the user's. Each `Usual` stands for all the
conditions of its module in section 4: `ShownStaysCurrent` and `NothingIsLost` speak of
pages whose requests of a kind do not overlap, and of no others. `LateAnswersDoNoHarm` has the pages
as they are; it says all that the code guards against late answers, which is little.

**Assumptions on constants.** Sizes are natural numbers, sets of threads, items and directories
finite, and marks (`None`, `Stop`, `Undecided`, `Torn`) are none of the values they stand
beside. Those that say more: `TreeAssumption` (`RemoteScan`: a directory has one parent and the
root none; its path names it), `InodesAssumption` (`FileCache`: there are as many inodes as two
names per key and an open file per thread take; a file system that has run out of them refuses
the open, which is not modelled), `Undisturbed` (`MergeSyncProofs`: no crash, no keeping of the
own side, LF, no edit inside a write, no manifest save that fails, and batches only where there
is one tab and nothing fails but the save of a base). TLC evaluates them on every run.

**Arguments.**

* `MergeSyncProofs`. `IInv` is the type invariant with `GotKnown`, `MemBased` and `SavingBased`: a
  snapshot, wherever it is (on disk, in a batch's memory, in the tail of a handler), has its base or is
  about to get it in this order. `EmptyKnown` says that an empty text in any place comes from
  the file's history or from a write that broke off; a file that `cut` marks is empty and its hash is
  in no record that says merged. For `NoSilentOverwrite` the records must be true to what was
  agreed: `AgreeInv` relates manifest, memory of a batch and `agreed`, and is only inductive with
  "a batch is alone" (`BatchAlone`).
* `MergeBatchProofs`. `IInv` places every item: with its fetch task, in the queue, with one
  writer, or decided (`FetchOK`, `PipeOK`, `WriterOK`, `NotLost`), and says where the handler
  can be meanwhile (`HandlerOK`). The count of unfinished tasks is then the cardinality of two
  disjoint sets, and the bound on memory that of three. In the refinement every step but
  `Conclude` and `Answer` is a stutter; `Answer` needs `HandlerOK`: a handler past its join has
  an empty queue and idle writers, and `NotLost` then says that nothing is undecided.
* `RemoteScanProofs`. Any directory that a listing has revealed is queued, in a worker's hands,
  listed or failed (`TrackOK`); `inflight` counts the hands, and somebody stays while
  the queue has something (`AwakeOK`). `PInv` adds up the two counters
  of the progress over the same places, which needs the tree: a directory with two
  parents would be counted twice.
* `FileCacheProofs`. `TypeCorrect` contains a pigeonhole argument (`InodeIsFree`): inodes in use
  are those of names and of open files. `Rest` says that a lock has one holder, that names lead
  to different inodes, that an inode somebody writes to has only a temporary name, and that what
  has a final name is whole; `OwnOK` adds that it was fetched for that name.
* `ScanThrottle`. `IInv` says how far the scan inside the lock has got, as a relation of
  the count, the saved rate and the set of scans inside; `RateOK` adds what the rate is then.
* `EventBusProofs`. A tab's events lie on one line: delivered, queued, waiting callbacks, and those
  its thread is about to post (`LineInv`). Each step moves an item along, or removes
  one (`EnqueueThins`); a line that is in order stays so when it is thinned (`VisibleThins`).
* `Desktop`. `Held`: before quitting at most one backend has not been told to stop, namely the
  one `pyProc` stands for, which runs or whose exit is not handled yet; a restart timer ticks
  only when there is none; after quitting none is started. `MCPage` carries this through the
  sum: a step of another component leaves the shell's variables alone (`ShellInv`, `InitShell`,
  `NextShell`).
* `EntriesStayUntilSettled`. `Settling` (`DiffTab`): every request on its way goes to the target
  that the list is of; a scan or a batch keeps the page busy, so there is one at most, and a
  scan meets an empty list; what an answer calls done the server settled before it answered. The
  lemmas sort the page's steps by what they do to that: a light request (`LightStep`), a scan or
  batch (`HeavyStep`), its answer (`IdleStep`). They stand in `MCPage`, about the instance `C`
  of `DiffTab`.

* `NothingIsLost`. `LostInv`, part by part. `BookIsTrue` (`Link`): `attached` is what the page
  subscribed, once per event, on the source it holds. `NothingFills` (`PlainPage`, `Clash`,
  `Diagnosis`): no request whose answer would fill a field in is under way when the user has
  written there. `JumpIsAlone` (`FileTree`): a jump to a path is under way alone, but for a
  search, and writes back the rows as they are. `Undoable` (`Clash`): what the machine has
  beyond its own entries is marked, and a mark is kept with what it added.
* `ShownStaysCurrent`. `ShownInv`, which a pane satisfies while its requests are under way: a
  request that can still change what is shown was made for what is chosen now. `WorkFollows`
  (`Workbench`): the server has the page's repository, unless it was told just now.
  `LookFollows`, `BarFollows` (`DiffTab`). `TreeFollows`, `DrawnFollows`, `ListFollows`,
  `BarsFollow` (`PlainPage`). `PodsFollow` (`PlainPods`): terminal, rows, file and requests know
  one pod at most, the one in the menu. `LogsFollow` (`PlainLogs`): the rows are the first so
  many logs of the query, in whole pages. `QueryParts` (`Kibana`): answers of a kind come in
  order and the last request of each kind is for what is chosen. `GenFollows` (`Clash`),
  `OneDiagnosis` (`Diagnosis`), `RowsFollow` and `SearchFollows` (`FileTree`).

In `MCPage` each `INSTANCE` is followed by the lemmas about it, and the sum comes after all of them:
a prover sees the definitions that stand before a step, and takes its time from their number.

Two proofs failed because the model was wrong. `MergesListed` (`PlainPage`) was not invariant
with two searches for candidates under way, which the bound of the run excludes; the code lets
the later answer replace a directory that was scanned in between, so `Unhurried` now covers
scans. The second half of `ZoomGoesBack` (`Kibana`) did not survive more than `Depth` ranges;
the stack of the code has no bound, and the ghost `trail` is now bounded as the model's stack
is.

Out of the provers' reach, and shown by TLC alone: liveness (`RequestsEnd`, `Answered`,
`ScanEnds`, `EveryEventArrives`, `Recovers`, `Returns`), since fairness needs ENABLED; what the
line merge, the chart and the walk compute for texts and rows of any length, since this takes
induction over data (`TextTools`, that is `TextIsWhole`; `CfView`, `LedgerExport`). The
properties of `MCTools` and the type invariants of both sums are model-checked only: they are
about twenty more small modules, whose bounds are stated in section 3.

## 6. Not modelled

* The resume manifest and the cancel registry of tree downloads; the token bucket; the
  caches of heads and branches; the watchdog, which no request uses.
* The ring buffers of the AI bridge; PTY and SSH sessions on the server behind a terminal's
  socket; how tokens of the cloud gateways are kept and renewed; Tauri's handling of its
  process.
* `compute_diff` and the normalisation of texts: pure functions of two texts.
* A base that is cut off inside its writing (a manifest is written beside and renamed).
* Parsing of Jira pages, text of reports, building of queries, wording, formats
  of configuration files, translations, layout; synchronisation history and settings, which are
  read and written whole.
* Authentication of the local API: a token that is compared at each request.
