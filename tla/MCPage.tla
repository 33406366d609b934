------------------------------- MODULE MCPage -------------------------------
(***************************************************************************)
(* The shell of the desktop app and parts of its page, each on its own:    *)
(* focus says which one a behaviour is about.                              *)
(***************************************************************************)
EXTENDS Integers, Sequences, FiniteSets, TLC, TLAPS

CONSTANTS
  \* the desktop shell: its platform, its limits and its bounds
  Darwin, Hasty, MaxRestarts, MaxTries, MaxCrashes, MaxSpawns,
  \* the compare tab: how it is used and its bound
  Targets, Paths, Steady, Patient, MaxRequests,
  \* the repository tab, the pods, the logs and the queries
  BenchRepos, BenchFiles, BenchCalls, BenchJobs, PodEnvs, Pods, PodDirs, PodCalls, Terminals,
  LogServers, LogPage, LogTotal, LogCalls, QuerySites, QueryRanges, QueryWords, QueryDepth, QueryCalls,
  \* the event stream, the plain page, the tree, the addresses, the diagnosis
  StreamEvents, StreamOutages, PageRepos, MappedRepos, PagePaths, PageCalls, PageOutages, PageTasks,
  TreeRepos, TreeLocals, TreeDirs, TreeWords, TreeCalls, CheckEnvs, CheckUrls, CheckCalls,
  RouteIps, RouteDevices, RouteFiles, RouteDefaults, OwnFiles, OwnIps, RouteCalls,
  \* whether all conditions of its module hold: the repository tab's Ordered, Prompt,
  \* Careful; the pods', the logs', the query's, the plain page's, the tree's, the
  \* addresses' and the diagnosis's (the INSTANCE lines name them)
  BenchUsual, PodsUsual, LogsUsual, QueryUsual, PageUsual, TreeUsual, RouteUsual, CheckUsual

VARIABLES
  focus,   \* the component that is looked at
  phase, alive, killed, owner, exits, pyProc, timer, count, waiters, main, windows,
  told, spawned, crashes, up, outages, es, attached, esBound, names, handlers, timerL,
  calls, mounted, apiDown, sel, status, srv, net, sent, root, kids, open, checked,
  file, shown, token, loading, jobs, started, events, bar, target, listed, of,
  selected, html, history, conflicts, dirty, asking, busy, resolving, scanning, barC,
  netC, sentC, eventsC, settled, task, given, result, selP, srvP, tree, dir, input,
  typed, localDir, entries, picked, pane, button, netP, sentP, listedP, writes, upP,
  esP, timers, outagesP, post, job, barP, hides, scan, diffBar, diffDone, eventsP,
  tasks, env, sub, menu, pod, timersK, socks, ws, connected, path, rows, selectedK,
  edit, netK, sentK, harm, server, asked, resultG, table, canExport, sorting, netG,
  sentG, faithful, site, memo, query, draft, stack, trail, selectedJ, podsOf, histOf,
  rowsJ, busyJ, errs, netJ, sentJ, ips, defaultIps, lanDevice, cfgPath, applied,
  applying, patchingAll, gen, netH, sentH, jobsH, routes, marks, made, mine, named,
  askedH, k8sEnv, serverUrl, filter, text, envs, alert, loadingU, resultU, section,
  netU, sentU, pickedU, typedU, last, selectedRepo, treeLocalDir, rootEntries,
  dirCache, expanded, treeError, jumping, jumpFocus, selectedFile, searchQ,
  searchScope, timerR, searchResults, netR, callsR

\* The directories that are mapped to repositories, and those the server finds.
PageDirs == [r \in PageRepos |-> IF r \in MappedRepos THEN "x" ELSE ""]
FoundDirs == [r \in PageRepos |-> IF r \in MappedRepos THEN "x" ELSE "y"]
P == INSTANCE PlainPage WITH Repos <- PageRepos, Paths <- PagePaths,
       Mapped <- PageDirs, Found <- FoundDirs, Ordered <- PageUsual,
       Reliable <- PageUsual, Single <- PageUsual, Loyal <- PageUsual,
       Unhurried <- PageUsual, Calm <- PageUsual, Late <- PageUsual,
       Steady <- PageUsual, MaxCalls <- PageCalls, MaxOutages <- PageOutages,
       MaxTasks <- PageTasks, sel <- selP, srv <- srvP, net <- netP, sent <- sentP,
       listed <- listedP, up <- upP, es <- esP, outages <- outagesP, bar <- barP,
       events <- eventsP

(***************************************************************************)
(* What the plain page keeps: the field that is typed into, the bars of its*)
(* feed, its tree, its list of differences.                                *)
(***************************************************************************)
\* The field: no look for candidates is under way that would fill it.
LEMMA InitTyped ==
  ASSUME P!Init
  PROVE  P!NothingFills
BY DEF P!Init, P!NothingFills

LEMMA ReqIs ==
  ASSUME NEW k, NEW r, NEW d, NEW p
  PROVE  /\ "kind" \in DOMAIN P!Req(k, r, d, p) /\ P!Req(k, r, d, p).kind = k
         /\ \A m : "kind" \in DOMAIN [P!Req(k, r, d, p) EXCEPT !.n = m]
BY DEF P!Req

\* No look for candidates is sent but when the field is empty.
LEMMA SameTyped ==
  ASSUME P!NothingFills, typed' = typed, input' = input \/ input = P!Blank,
         \A r \in netP' : r \in netP \/ ("kind" \in DOMAIN r /\ (r.kind # "discover" \/ input = P!Blank))
  PROVE  P!NothingFills'
BY DEF P!NothingFills, P!None

LEMMA NextTyped ==
  ASSUME PageUsual, P!NothingFills, [P!PageNext]_(P!vars)
  PROVE  P!NothingFills'
<1>1. CASE P!AutoDir
  <2>1. typed' = typed /\ P!Fill
    BY <1>1 DEF P!AutoDir
  <2>2. input' = input \/ input = P!Blank
    BY <2>1 DEF P!Fill
  <2>3. \A r \in netP' : r \in netP \/ ("kind" \in DOMAIN r /\ input = P!Blank)
    BY <1>1, ReqIs DEF P!AutoDir, P!Seeks, P!Send, P!calls
  <2> QED
    BY <2>1, <2>2, <2>3, SameTyped
<1>2. CASE P!ToggleDir \/ P!ScanDiff \/ P!MergeOne \/ P!MergeAll
  BY <1>2, SameTyped, ReqIs DEF P!ToggleDir, P!ScanDiff, P!MergeOne, P!MergeAll, P!Send
<1>3. ASSUME NEW r \in PageRepos, P!OpenRepo(r)
      PROVE  P!NothingFills'
  BY <1>3, SameTyped, ReqIs DEF P!OpenRepo, P!Send
<1>4. ASSUME NEW d \in P!Dirs \cup {P!Blank}, P!TypeDir(d)
      PROVE  P!NothingFills'
  BY <1>4 DEF P!TypeDir, P!NothingFills, P!None, P!calls
<1>5. ASSUME NEW p \in PagePaths, P!OpenDiffFile(p)
      PROVE  P!NothingFills'
  BY <1>5, SameTyped, ReqIs DEF P!OpenDiffFile, P!Send
<1>6. ASSUME NEW r \in netP, P!Serve(r)
      PROVE  P!NothingFills'
  <2>1. typed' = typed /\ input' = input
    BY <1>6 DEF P!Serve
  <2>2. PICK q : netP' = (netP \ {r}) \cup {q} /\ "kind" \in DOMAIN q /\ q.kind = r.kind
    <3>1. PICK ok, done : netP' = (netP \ {r}) \cup {[r EXCEPT !.ok = ok, !.got = srvP, !.paths = done]}
      BY <1>6 DEF P!Serve
    <3> DEFINE s == [r EXCEPT !.ok = ok, !.got = srvP, !.paths = done]
    <3>2. "kind" \in DOMAIN s /\ s.kind = r.kind
      BY DEF P!NothingFills
    <3> QED
      BY <3>1, <3>2
  <2>3. typed # P!Blank => r.kind # "discover"
    BY DEF P!NothingFills, P!None
  <2> QED
    BY <2>1, <2>2, <2>3 DEF P!NothingFills, P!None
<1>7. ASSUME NEW r \in netP, P!GotSelect(r)
      PROVE  P!NothingFills'
  <2>1. typed' = typed /\ (input' = input \/ input = P!Blank)
    BY <1>7 DEF P!GotSelect, P!Fill
  <2>2. \A q \in netP' : q \in netP \/ ("kind" \in DOMAIN q /\ (q.kind # "discover" \/ input = P!Blank))
    <3>1. CASE netP' = netP \ {r}
      BY <3>1
    <3>2. CASE ~P!Seeks /\ netP' = (netP \ {r}) \cup {P!Req("tree", P!Blank, P!Blank, {})}
      BY <3>2, ReqIs
    <3>3. CASE P!Seeks
      <4>1. input = P!Blank
        BY <3>3 DEF P!Seeks
      <4>2. \A q \in netP' : q \in netP \/ "kind" \in DOMAIN q
        BY <1>7, <3>3, ReqIs DEF P!GotSelect
      <4> QED
        BY <4>1, <4>2
    <3> QED
      BY <1>7, <3>1, <3>2, <3>3 DEF P!GotSelect
  <2> QED
    BY <2>1, <2>2, SameTyped
<1>8. ASSUME NEW r \in netP, P!GotDiscover(r)
      PROVE  P!NothingFills'
  BY <1>8 DEF P!GotDiscover, P!Answered, P!NothingFills, P!None
<1>9. ASSUME NEW r \in netP, P!GotTree(r) \/ P!GotKids(r) \/ P!GotScan(r) \/ P!GotFile(r) \/ P!GotMerge(r)
      PROVE  P!NothingFills'
  BY <1>9, SameTyped DEF P!GotTree, P!GotKids, P!GotScan, P!GotFile, P!GotMerge
<1>10. CASE UNCHANGED P!vars
  BY <1>10, SameTyped DEF P!vars, P!page, P!calls
<1> QED
  BY <1>1, <1>2, <1>3, <1>4, <1>5, <1>6, <1>7, <1>8, <1>9, <1>10 DEF P!PageNext, P!User, P!Answers

LEMMA InitBars ==
  ASSUME P!Init
  PROVE  P!BarsFollow
<1>1. eventsP = <<>> /\ hides = 0 /\ tasks = 0 /\ post = FALSE /\ job = FALSE /\ scan = FALSE
  BY DEF P!Init
<1> QED
  BY <1>1 DEF P!BarsFollow, P!Only

\* An event comes behind those on their way.
LEMMA OneMore ==
  ASSUME NEW E, eventsP \in Seq(E), NEW a \in E, eventsP' = eventsP \o <<a>>
  PROVE  /\ eventsP' \in Seq(E)
         /\ \A es0 : P!Only(es0) /\ a \in es0 => P!Only(es0)'
         /\ P!StageComes /\ a = "job_done" => P!StageComes'
         /\ a = "stage" => P!StageComes'
<1>1. /\ eventsP' \in Seq(E) /\ Len(eventsP') = Len(eventsP) + 1 /\ Len(eventsP) \in Nat
      /\ \A i \in 1..Len(eventsP) : eventsP'[i] = eventsP[i]
      /\ eventsP'[Len(eventsP) + 1] = a
  OBVIOUS
<1>2. DOMAIN eventsP = 1..Len(eventsP) /\ DOMAIN eventsP' = 1..(Len(eventsP) + 1)
  BY <1>1
<1>3. \A es0 : P!Only(es0) /\ a \in es0 => P!Only(es0)'
  BY <1>1, <1>2 DEF P!Only
<1>4. ASSUME P!StageComes, a = "job_done" PROVE P!StageComes'
  <2>1. PICK i \in DOMAIN eventsP : eventsP[i] = "stage" /\ \A j \in DOMAIN eventsP : j > i => eventsP[j] = "job_done"
    BY <1>4 DEF P!StageComes
  <2>2. i \in DOMAIN eventsP' /\ eventsP'[i] = "stage"
    BY <1>1, <1>2, <2>1
  <2>3. \A j \in DOMAIN eventsP' : j > i => eventsP'[j] = "job_done"
    BY <1>1, <1>2, <1>4, <2>1
  <2> QED
    BY <2>2, <2>3 DEF P!StageComes
<1>5. ASSUME a = "stage" PROVE P!StageComes'
  <2>1. Len(eventsP) + 1 \in DOMAIN eventsP' /\ eventsP'[Len(eventsP) + 1] = "stage"
    BY <1>1, <1>2, <1>5
  <2>2. \A j \in DOMAIN eventsP' : ~(j > Len(eventsP) + 1)
    BY <1>1, <1>2
  <2> QED
    BY <2>1, <2>2 DEF P!StageComes
<1> QED
  BY <1>1, <1>3, <1>4, <1>5

\* The first event is handled.
LEMMA OneLess ==
  ASSUME NEW E, eventsP \in Seq(E), eventsP # <<>>, eventsP' = Tail(eventsP)
  PROVE  /\ eventsP' \in Seq(E) /\ Head(eventsP) \in E
         /\ \A es0 : P!Only(es0) => P!Only(es0)' /\ Head(eventsP) \in es0
         /\ P!StageComes => \/ P!StageComes'
                            \/ Head(eventsP) = "stage" /\ P!Only({"job_done"})'
<1>1. /\ eventsP' \in Seq(E) /\ Len(eventsP') = Len(eventsP) - 1 /\ Len(eventsP) \in Nat \ {0}
      /\ \A i \in 1..(Len(eventsP) - 1) : eventsP'[i] = eventsP[i + 1]
      /\ Head(eventsP) = eventsP[1] /\ Head(eventsP) \in E
  OBVIOUS
<1>2. DOMAIN eventsP = 1..Len(eventsP) /\ DOMAIN eventsP' = 1..(Len(eventsP) - 1)
  BY <1>1
<1>3. \A es0 : P!Only(es0) => P!Only(es0)' /\ Head(eventsP) \in es0
  BY <1>1, <1>2 DEF P!Only
<1>4. ASSUME P!StageComes PROVE P!StageComes' \/ (Head(eventsP) = "stage" /\ P!Only({"job_done"})')
  <2>1. PICK i \in DOMAIN eventsP : eventsP[i] = "stage" /\ \A j \in DOMAIN eventsP : j > i => eventsP[j] = "job_done"
    BY <1>4 DEF P!StageComes
  <2>2. CASE i = 1
    <3>1. \A j \in DOMAIN eventsP' : eventsP'[j] = "job_done"
      BY <1>1, <1>2, <2>1, <2>2
    <3> QED
      BY <1>1, <2>1, <2>2, <3>1 DEF P!Only
  <2>3. CASE i # 1
    <3>1. i - 1 \in DOMAIN eventsP' /\ eventsP'[i - 1] = "stage"
      BY <1>1, <1>2, <2>1, <2>3
    <3>2. \A j \in DOMAIN eventsP' : j > i - 1 => eventsP'[j] = "job_done"
      BY <1>1, <1>2, <2>1, <2>3
    <3> QED
      BY <3>1, <3>2 DEF P!StageComes
  <2> QED
    BY <2>2, <2>3
<1> QED
  BY <1>1, <1>3, <1>4

\* Nothing on its way changes.
LEMMA SameEvents ==
  ASSUME eventsP' = eventsP
  PROVE  (\A es0 : P!Only(es0) <=> P!Only(es0)') /\ (P!StageComes <=> P!StageComes')
BY DEF P!Only, P!StageComes

LEMMA NextBars ==
  ASSUME PageUsual, P!BarsFollow, [P!FeedNext]_(P!vars)
  PROVE  P!BarsFollow'
<1> USE DEF P!link, P!jobs, P!diff
<1>0. \/ P!Events
      \/ UNCHANGED P!feed
  BY DEF P!FeedNext, P!Feed, P!vars
<1>1. CASE P!ConnectSSE
  BY <1>1 DEF P!ConnectSSE, P!BarsFollow, P!Settled, P!Only
<1>2. CASE P!Opened \/ P!Resumed
  BY <1>2, SameEvents DEF P!Opened, P!Resumed, P!BarsFollow, P!Settled
<1>3. CASE P!OnError
  BY <1>3 DEF P!OnError, P!BarsFollow, P!Settled, P!Only
<1>4. CASE P!GoesDown \/ P!ComesUp
  BY <1>4, SameEvents DEF P!GoesDown, P!ComesUp, P!BarsFollow, P!Settled
<1>5. CASE P!StartJob
  <2>1. P!Only({"stage", "done", "error"})'
    BY <1>5 DEF P!StartJob, P!Only
  <2> QED
    BY <1>5, <2>1, SameEvents DEF P!StartJob, P!BarsFollow, P!Settled
<1>6. CASE P!GotPost
  BY <1>6, SameEvents DEF P!GotPost, P!BarsFollow, P!Settled
<1>7. CASE P!JobEnds
  <2>1. /\ job /\ ~post /\ job' = FALSE /\ eventsP' = eventsP \o <<"job_done">>
        /\ UNCHANGED <<upP, esP, timers, outagesP, post, barP, hides, scan, diffBar, diffDone, tasks>>
    BY <1>7 DEF P!JobEnds, P!Publish
  <2>2. /\ eventsP' \in Seq({"job_done", "stage", "done", "error"})
        /\ P!Only({"job_done"}) => P!Only({"job_done"})'
        /\ P!StageComes => P!StageComes'
    BY <2>1, OneMore DEF P!BarsFollow
  <2> QED
    BY <2>1, <2>2 DEF P!BarsFollow, P!Settled
<1>8. CASE P!HideTimer
  BY <1>8, SameEvents DEF P!HideTimer, P!BarsFollow, P!Settled
<1>9. CASE P!StartScan
  <2>1. /\ P!Settled /\ scan' = TRUE /\ tasks' = tasks + 1 /\ eventsP' = eventsP \o <<"stage">>
        /\ UNCHANGED <<upP, esP, timers, outagesP, post, job, barP, hides, diffBar, diffDone>>
    BY <1>9 DEF P!StartScan, P!Publish
  <2>2. /\ eventsP' \in Seq({"job_done", "stage", "done", "error"})
        /\ P!Only({"stage", "done", "error"}) => P!Only({"stage", "done", "error"})'
        /\ P!StageComes'
    BY <2>1, OneMore DEF P!BarsFollow
  <2> QED
    BY <2>1, <2>2 DEF P!BarsFollow, P!Settled
<1>10. CASE P!ScanEnds
  <2>1. /\ scan' = FALSE
        /\ UNCHANGED <<upP, esP, timers, outagesP, post, job, barP, hides, diffBar, diffDone, tasks>>
    BY <1>10 DEF P!ScanEnds
  <2>2. PICK a \in {"done", "error"} : eventsP' = eventsP \o <<a>>
    BY <1>10 DEF P!ScanEnds, P!Publish
  <2>3. /\ eventsP' \in Seq({"job_done", "stage", "done", "error"})
        /\ P!Only({"stage", "done", "error"}) => P!Only({"stage", "done", "error"})'
    BY <2>2, OneMore DEF P!BarsFollow
  <2> QED
    BY <2>1, <2>3 DEF P!BarsFollow, P!Settled
<1>11. CASE P!DiffDone
  BY <1>11, SameEvents DEF P!DiffDone, P!BarsFollow, P!Settled
<1>12. CASE P!Handle
  <2>1. /\ eventsP # <<>> /\ eventsP' = Tail(eventsP)
        /\ UNCHANGED <<upP, esP, timers, outagesP, post, job, barP, scan, tasks>>
        /\ hides' = IF Head(eventsP) = "job_done" THEN hides + 1 ELSE hides
    BY <1>12 DEF P!Handle
  <2>2. /\ eventsP' \in Seq({"job_done", "stage", "done", "error"})
        /\ Head(eventsP) \in {"job_done", "stage", "done", "error"}
        /\ \A es0 : P!Only(es0) => P!Only(es0)' /\ Head(eventsP) \in es0
        /\ P!StageComes => \/ P!StageComes'
                           \/ Head(eventsP) = "stage" /\ P!Only({"job_done"})'
    BY <2>1, OneLess DEF P!BarsFollow
  <2>3. Head(eventsP) = "stage" => diffBar' = TRUE /\ diffDone' = FALSE
    BY <1>12 DEF P!Handle, P!Stage
  <2>4. Head(eventsP) = "job_done" => UNCHANGED <<diffBar, diffDone>>
    BY <1>12 DEF P!Handle
  <2>5. post \/ job => hides' = 0 /\ P!Only({"stage", "done", "error"})'
    BY <2>1, <2>2 DEF P!BarsFollow
  <2>6. scan => P!StageComes' \/ (P!Only({"job_done"})' /\ diffBar' /\ ~diffDone')
    BY <2>2, <2>3, <2>4 DEF P!BarsFollow
  <2>7. hides' \in Nat
    BY <2>1 DEF P!BarsFollow
  <2>8. (job' /\ ~post' => barP') /\ (tasks' > 0 => P!Settled') /\ (scan' => tasks' > 0) /\ tasks' \in Nat
    BY <2>1 DEF P!BarsFollow, P!Settled
  <2> QED
    BY <2>1, <2>2, <2>5, <2>6, <2>7, <2>8 DEF P!BarsFollow
<1>13. CASE UNCHANGED P!feed
  BY <1>13, SameEvents DEF P!feed, P!BarsFollow, P!Settled
<1> QED
  BY <1>0, <1>1, <1>2, <1>3, <1>4, <1>5, <1>6, <1>7, <1>8, <1>9, <1>10, <1>11, <1>12, <1>13 DEF P!Events

LEMMA BarsMean ==
  ASSUME P!BarsFollow
  PROVE  P!BarsStay
<1>1. scan /\ eventsP = <<>> => ~P!StageComes
  BY DEF P!StageComes
<1> QED
  BY <1>1 DEF P!BarsFollow, P!BarsStay

\* A request, as it is sent.
LEMMA PlainReqIs ==
  ASSUME NEW k, NEW r1, NEW d, NEW ps
  PROVE  /\ P!Req(k, r1, d, ps).n = sentP + 1 /\ P!Req(k, r1, d, ps).kind = k /\ P!Req(k, r1, d, ps).repo = r1
         /\ P!Req(k, r1, d, ps).dir = d /\ P!Req(k, r1, d, ps).paths = ps /\ P!Req(k, r1, d, ps).got = P!Blank
BY DEF P!Req

LEMMA ReqForm ==
  ASSUME P!Queue, NEW k \in {"select", "tree", "kids", "discover", "scan", "file", "merge"},
         NEW r1 \in PageRepos \cup {P!Blank, "one", "all"}, NEW d \in P!Dirs \cup {P!Blank}, NEW ps \in SUBSET (PagePaths \cup {P!Blank})
  PROVE  P!Req(k, r1, d, ps) \in P!Requests
BY DEF P!Req, P!Requests, P!Queue

\* A look for candidates that is sent with another request.
LEMMA SecondForm ==
  ASSUME P!Queue, NEW r1 \in PageRepos
  PROVE  \E d \in P!Requests : /\ d = [P!Req("discover", r1, P!Blank, {}) EXCEPT !.n = sentP + 2]
                               /\ d.n = sentP + 2 /\ d.kind = "discover" /\ d.got = P!Blank
<1> DEFINE d == [P!Req("discover", r1, P!Blank, {}) EXCEPT !.n = sentP + 2]
<1>1. sentP + 2 \in Nat
  BY DEF P!Queue
<1>2. d \in P!Requests
  BY <1>1 DEF P!Req, P!Requests, P!Queue
<1>3. d.n = sentP + 2 /\ d.kind = "discover" /\ d.got = P!Blank
  BY DEF P!Req
<1> QED
  BY <1>2, <1>3

LEMMA QueueAdds ==
  ASSUME P!Queue, NEW q \in P!Requests, q.n = sentP + 1, q.got = P!Blank, sentP' = sentP + 1,
         netP' \subseteq netP \cup {q}
  PROVE  P!Queue'
<1>1. sentP \in Nat /\ \A r \in netP : r.n \in 1..sentP
  BY DEF P!Queue
<1>2. \A r \in netP' : r = q \/ (r \in netP /\ r.n < q.n)
  BY <1>1
<1>3. \A r \in netP' : r.n \in 1..sentP'
  BY <1>1
<1>4. netP' \subseteq P!Requests /\ sentP' \in Nat
  BY <1>1 DEF P!Queue
<1>5. \A r, p \in netP' : r.n = p.n => r = p
  BY <1>1, <1>2 DEF P!Queue
<1>6. \A r, p \in netP' : p.n < r.n /\ r.got # P!Blank => p.got # P!Blank
  <2>1. SUFFICES ASSUME NEW r \in netP', NEW p \in netP', p.n < r.n, r.got # P!Blank PROVE p.got # P!Blank
    OBVIOUS
  <2>2. r \in netP /\ p \in netP
    BY <1>1, <1>2, <2>1
  <2> QED
    BY <2>1, <2>2 DEF P!Queue
<1>7. \A r \in netP' : r.got # P!Blank => r.ok
  BY <1>2 DEF P!Queue
<1> QED
  BY <1>3, <1>4, <1>5, <1>6, <1>7 DEF P!Queue

LEMMA QueueLoses ==
  ASSUME P!Queue, netP' \subseteq netP, sentP' = sentP
  PROVE  P!Queue'
BY DEF P!Queue

\* The server answers the first request that it has not answered yet.
LEMMA ServeIs ==
  ASSUME PageUsual, P!Queue, P!Blank \notin PageRepos, srvP \in PageRepos, NEW r \in netP, P!Serve(r)
  PROVE  /\ r.got = P!Blank /\ \A q \in netP : q.n < r.n => q.got # P!Blank
         /\ UNCHANGED <<selP, tree, dir, input, typed, localDir, entries, picked, pane, button, sentP, listedP>>
         /\ srvP' = IF r.kind = "select" THEN r.repo ELSE srvP
         /\ \E s \in P!Requests : /\ netP' = (netP \ {r}) \cup {s} /\ s.n = r.n /\ s.kind = r.kind /\ s.repo = r.repo
                     /\ s.dir = r.dir /\ s.got = srvP /\ s.ok /\ s.paths \subseteq r.paths
                     /\ (r.repo # "all" => s.paths = r.paths)
                     /\ writes' \subseteq writes \cup (IF r.kind = "merge" THEN {srvP} \X {r.dir} \X s.paths ELSE {})
<1>1. PICK ok \in BOOLEAN, done \in (IF r.repo = "all" THEN SUBSET r.paths ELSE {r.paths}) :
        /\ TRUE => ok
        /\ netP' = (netP \ {r}) \cup {[r EXCEPT !.ok = ok, !.got = srvP, !.paths = done]}
        /\ srvP' = IF ok /\ r.kind = "select" THEN r.repo ELSE srvP
        /\ writes' = IF ok /\ r.kind = "merge" THEN writes \cup ({srvP} \X {r.dir} \X done) ELSE writes
  BY DEF P!Serve
<1> DEFINE s == [r EXCEPT !.ok = ok, !.got = srvP, !.paths = done]
<1>2. r \in P!Requests /\ r.paths \subseteq PagePaths \cup {P!Blank}
  BY DEF P!Queue, P!Requests
<1>3. done \subseteq r.paths /\ (r.repo # "all" => done = r.paths)
  BY <1>1
<1>4. s \in P!Requests
  BY <1>2, <1>3 DEF P!Requests
<1>5. /\ s.n = r.n /\ s.kind = r.kind /\ s.repo = r.repo /\ s.dir = r.dir
      /\ s.got = srvP /\ s.ok = ok /\ s.paths = done
  BY <1>2 DEF P!Requests
<1>6. netP' = (netP \ {r}) \cup {s}
  BY <1>1
<1>7. writes' \subseteq writes \cup (IF r.kind = "merge" THEN {srvP} \X {r.dir} \X s.paths ELSE {})
  BY <1>1, <1>5
<1> HIDE DEF s
<1>8. r.got = P!Blank /\ \A q \in netP : q.n < r.n => q.got # P!Blank
  BY DEF P!Serve, P!First
<1>9. UNCHANGED <<selP, tree, dir, input, typed, localDir, entries, picked, pane, button, sentP, listedP>>
  BY DEF P!Serve, P!list
<1>10. srvP' = IF r.kind = "select" THEN r.repo ELSE srvP
  BY <1>1
<1> QED
  BY <1>1, <1>3, <1>4, <1>5, <1>6, <1>7, <1>8, <1>9, <1>10

LEMMA QueueServes ==
  ASSUME PageUsual, P!Queue, P!Blank \notin PageRepos, srvP \in PageRepos, NEW r \in netP, P!Serve(r)
  PROVE  P!Queue'
<1>1. /\ r.got = P!Blank /\ (\A q \in netP : q.n < r.n => q.got # P!Blank) /\ sentP' = sentP
      /\ \E s \in P!Requests : netP' = (netP \ {r}) \cup {s} /\ s.n = r.n /\ s.got = srvP /\ s.ok
  BY ServeIs
<1>2. PICK s \in P!Requests : netP' = (netP \ {r}) \cup {s} /\ s.n = r.n /\ s.got = srvP /\ s.ok
  BY <1>1
<1>3. /\ netP' \subseteq P!Requests /\ sentP' \in Nat /\ \A q \in netP' : q.n \in 1..sentP'
  BY <1>1, <1>2 DEF P!Queue
<1>4. \A q, p \in netP' : q.n = p.n => q = p
  BY <1>2 DEF P!Queue
<1>5. \A q, p \in netP' : p.n < q.n /\ q.got # P!Blank => p.got # P!Blank
  <2>1. SUFFICES ASSUME NEW q \in netP', NEW p \in netP', p.n < q.n, q.got # P!Blank PROVE p.got # P!Blank
    OBVIOUS
  <2>2. CASE p = s
    BY <1>2, <2>2
  <2>3. CASE q = s /\ p \in netP
    BY <1>1, <1>2, <2>1, <2>3
  <2>4. CASE q \in netP /\ p \in netP
    BY <2>1, <2>4 DEF P!Queue
  <2> QED
    BY <1>2, <2>2, <2>3, <2>4
<1>6. \A q \in netP' : q.got # P!Blank => q.ok
  BY <1>2 DEF P!Queue
<1> QED
  BY <1>3, <1>4, <1>5, <1>6 DEF P!Queue

\* Requests that are not about the rows come and go.
LEMMA OtherRequests ==
  ASSUME P!ServerFollows, P!KidsFollow, UNCHANGED <<selP, srvP, tree, dir>>,
         \A r \in netP' : r \in netP \/ r.kind \notin {"select", "tree", "kids"},
         \A r \in netP : r.kind \in {"select", "tree", "kids"} => r \in netP'
  PROVE  P!ServerFollows' /\ P!KidsFollow'
<1>1. P!ServerFollows'
  BY DEF P!ServerFollows, P!None, P!Chosen
<1>2. P!KidsFollow'
  BY DEF P!KidsFollow, P!None
<1> QED
  BY <1>1, <1>2

\* The server selects in the order that the user did.
LEMMA ServeFollows ==
  ASSUME PageUsual, P!Queue, P!Blank \notin PageRepos, srvP \in PageRepos, P!ServerFollows, NEW r \in netP, P!Serve(r)
  PROVE  P!ServerFollows'
<1>1. /\ r.got = P!Blank /\ (\A q \in netP : q.n < r.n => q.got # P!Blank) /\ UNCHANGED <<selP, tree>>
      /\ srvP' = IF r.kind = "select" THEN r.repo ELSE srvP
      /\ \E s \in P!Requests : /\ netP' = (netP \ {r}) \cup {s} /\ s.n = r.n /\ s.kind = r.kind /\ s.repo = r.repo
                               /\ s.got = srvP
  BY ServeIs
<1>2. PICK s \in P!Requests : /\ netP' = (netP \ {r}) \cup {s} /\ s.n = r.n /\ s.kind = r.kind /\ s.repo = r.repo
                              /\ s.got = srvP
  BY <1>1
<1>3. \A q \in netP : q.n \in Int /\ (q.n = r.n => q = r)
  BY DEF P!Queue
<1>4. \A q \in netP : P!Chosen(q) => q.n >= r.n
  BY <1>1, <1>3 DEF P!Chosen
<1>5. s.got # P!Blank /\ ~P!Chosen(s)
  BY <1>2 DEF P!Chosen
<1>6. \A K0 : P!None(K0) <=> P!None(K0)'
  BY <1>2 DEF P!None
<1>7. \A q \in netP' : q.kind = "select" => q.repo \in PageRepos
  BY <1>2 DEF P!ServerFollows
<1>8. ASSUME NEW q \in netP', P!Chosen(q)
      PROVE  q.repo = selP \/ \E p \in netP' : P!Chosen(p) /\ p.n > q.n
  <2>1. q \in netP /\ q # r
    BY <1>2, <1>5, <1>8
  <2>2. CASE \E p \in netP : P!Chosen(p) /\ p.n > q.n
    <3>1. PICK p \in netP : P!Chosen(p) /\ p.n > q.n
      BY <2>2
    <3>2. p # r
      BY <1>3, <1>4, <1>8, <2>1, <3>1
    <3> QED
      BY <1>2, <3>1, <3>2
  <2> QED
    BY <1>8, <2>1, <2>2 DEF P!ServerFollows
<1>9. ASSUME selP # P!Blank, \A q \in netP' : ~P!Chosen(q)
      PROVE  srvP' = selP
  <2>1. CASE r.kind = "select"
    <3>1. P!Chosen(r) /\ srvP' = r.repo
      BY <1>1, <2>1 DEF P!Chosen
    <3>2. \A p \in netP : P!Chosen(p) => p = r
      BY <1>2, <1>9
    <3>3. \A p \in netP : P!Chosen(p) => ~(p.n > r.n)
      BY <1>3, <3>2
    <3> QED
      BY <3>1, <3>3 DEF P!ServerFollows
  <2>2. CASE r.kind # "select"
    <3>1. \A q \in netP : ~P!Chosen(q)
      BY <1>2, <1>9, <2>2 DEF P!Chosen
    <3> QED
      BY <1>1, <1>9, <2>2, <3>1 DEF P!ServerFollows
  <2> QED
    BY <2>1, <2>2
<1>10. ASSUME NEW p \in netP', p.kind \in {"tree", "kids"}, p.got # P!Blank
       PROVE  p.got = selP \/ \E q \in netP' : q.kind = "select" /\ q.n > p.n
  <2>1. CASE p = s
    <3>1. CASE \E q \in netP : P!Chosen(q)
      <4>1. PICK q \in netP : P!Chosen(q)
        BY <3>1
      <4>2. q # r /\ q.n > r.n
        BY <1>2, <1>3, <1>4, <1>10, <2>1, <4>1 DEF P!Chosen
      <4> QED
        BY <1>2, <2>1, <4>1, <4>2 DEF P!Chosen
    <3>2. CASE \A q \in netP : ~P!Chosen(q)
      <4>1. selP # P!Blank
        BY <1>2, <1>10, <2>1 DEF P!ServerFollows, P!None
      <4> QED
        BY <1>2, <2>1, <3>2, <4>1 DEF P!ServerFollows
    <3> QED
      BY <3>1, <3>2
  <2>2. CASE p \in netP
    <3>1. CASE \E q \in netP : q.kind = "select" /\ q.n > p.n
      <4>1. PICK q \in netP : q.kind = "select" /\ q.n > p.n
        BY <3>1
      <4>2. CASE q = r
        BY <1>2, <4>1, <4>2
      <4>3. CASE q # r
        BY <1>2, <4>1, <4>3
      <4> QED
        BY <4>2, <4>3
    <3> QED
      BY <1>10, <2>2, <3>1 DEF P!ServerFollows
  <2> QED
    BY <1>2, <2>1, <2>2
<1> QED
  BY <1>1, <1>6, <1>7, <1>8, <1>9, <1>10 DEF P!ServerFollows

LEMMA ServeKids ==
  ASSUME PageUsual, P!Queue, P!Blank \notin PageRepos, srvP \in PageRepos, P!KidsFollow, NEW r \in netP, P!Serve(r)
  PROVE  P!KidsFollow'
<1>1. /\ UNCHANGED <<tree, dir>>
      /\ \E s \in P!Requests : netP' = (netP \ {r}) \cup {s} /\ s.n = r.n /\ s.kind = r.kind
  BY ServeIs
<1>2. PICK s \in P!Requests : netP' = (netP \ {r}) \cup {s} /\ s.n = r.n /\ s.kind = r.kind
  BY <1>1
<1>3. \A K0 : P!None(K0) <=> P!None(K0)'
  BY <1>2 DEF P!None
<1>4. \A p, q \in netP' : p.kind = "kids" /\ q.kind = "select" => p.n < q.n
  BY <1>2 DEF P!KidsFollow
<1>5. \A p, q \in netP' : p.kind = "kids" => q.kind # "tree" /\ (q.kind = "kids" => p = q)
  BY <1>2 DEF P!KidsFollow
<1>6. /\ P!None({"kids"}) <=> P!None({"kids"})'
      /\ P!None({"select"}) <=> P!None({"select"})'
      /\ P!None({"select", "tree", "kids"}) <=> P!None({"select", "tree", "kids"})'
  BY <1>3
<1>7. dir' = dir /\ tree' = tree
  BY <1>1
<1>8. dir' \in [known : BOOLEAN, loaded : BOOLEAN, boxes : Nat, of : PageRepos \cup {P!Blank}, copies : Nat]
  BY <1>7 DEF P!KidsFollow
<1>9. ~P!None({"kids"})' /\ P!None({"select"})'
       => tree' \in PageRepos /\ dir'.known /\ ~dir'.loaded /\ dir'.boxes = 1 /\ dir'.copies = 0
  BY <1>6, <1>7 DEF P!KidsFollow
<1>10. P!None({"select", "tree", "kids"})' /\ tree' \in PageRepos
       => IF dir'.loaded THEN dir'.of = tree' /\ dir'.copies = 1 /\ dir'.boxes = 1 ELSE dir'.copies = 0 /\ dir'.boxes = 0
  BY <1>6, <1>7 DEF P!KidsFollow
<1> QED
  BY <1>4, <1>5, <1>8, <1>9, <1>10, Zenon DEF P!KidsFollow

\* The user opens a repository: its selection is behind all requests.
LEMMA OpensFollow ==
  ASSUME P!Blank \notin PageRepos, P!Queue, P!ServerFollows, P!KidsFollow, NEW r \in PageRepos, P!OpenRepo(r)
  PROVE  P!Queue' /\ P!ServerFollows' /\ P!KidsFollow'
<1> DEFINE q == P!Req("select", r, P!Blank, {})
<1>0. r \in PageRepos \cup {P!Blank, "one", "all"} /\ P!Blank \in P!Dirs \cup {P!Blank} /\ {} \in SUBSET (PagePaths \cup {P!Blank})
  OBVIOUS
<1>1. q \in P!Requests /\ q.n = sentP + 1 /\ q.kind = "select" /\ q.repo = r /\ q.got = P!Blank
  BY <1>0, ReqForm, PlainReqIs
<1>2. selP' = r /\ netP' = netP \cup {q} /\ sentP' = sentP + 1 /\ UNCHANGED <<srvP, tree, dir>>
  BY DEF P!OpenRepo, P!Send
<1> HIDE DEF q
<1>3. P!Queue'
  BY <1>1, <1>2, QueueAdds
<1>4. \A p \in netP : p.n < q.n
  BY <1>1 DEF P!Queue
<1>5. P!Chosen(q)
  BY <1>1 DEF P!Chosen
<1>6. P!ServerFollows'
  <2>1. selP' # P!Blank /\ ~(\A p \in netP' : ~P!Chosen(p)) /\ ~P!None({"select"})'
    BY <1>1, <1>2, <1>5 DEF P!None
  <2>2. \A p \in netP' : p.kind = "select" => p.repo \in PageRepos
    BY <1>1, <1>2 DEF P!ServerFollows
  <2>3. \A p \in netP' : P!Chosen(p) => p.repo = selP' \/ \E u \in netP' : P!Chosen(u) /\ u.n > p.n
    BY <1>1, <1>2, <1>4, <1>5
  <2>4. \A p \in netP' : p.kind \in {"tree", "kids"} /\ p.got # P!Blank
          => p.got = selP' \/ \E u \in netP' : u.kind = "select" /\ u.n > p.n
    BY <1>1, <1>2, <1>4
  <2> QED
    BY <2>1, <2>2, <2>3, <2>4 DEF P!ServerFollows
<1>7. P!KidsFollow'
  <2>1. ~P!None({"select"})' /\ ~P!None({"select", "tree", "kids"})'
    BY <1>1, <1>2 DEF P!None
  <2>2. \A p, u \in netP' : p.kind = "kids" /\ u.kind = "select" => p.n < u.n
    BY <1>1, <1>2, <1>4 DEF P!KidsFollow
  <2>3. \A p, u \in netP' : p.kind = "kids" => u.kind # "tree" /\ (u.kind = "kids" => p = u)
    BY <1>1, <1>2 DEF P!KidsFollow
  <2> QED
    BY <1>2, <2>1, <2>2, <2>3 DEF P!KidsFollow
<1> QED
  BY <1>3, <1>6, <1>7

\* The selection is answered: what was asked for before it is done, and the tree is asked for.
LEMMA SelectFollows ==
  ASSUME PageUsual, P!Blank \notin PageRepos, "loading" \notin PageRepos, P!Form, P!Queue, P!ServerFollows, P!KidsFollow,
         NEW r \in netP, P!GotSelect(r)
  PROVE  P!Queue' /\ P!ServerFollows' /\ P!KidsFollow'
<1>1. r.kind = "select" /\ r.got # P!Blank /\ \A q \in netP : r.n <= q.n
  BY DEF P!GotSelect, P!Answered
<1>2. r.ok
  BY <1>1 DEF P!Queue
<1>3. tree' = "loading" /\ dir' = P!NoNode /\ UNCHANGED <<selP, srvP>>
  BY <1>2 DEF P!GotSelect
<1>4. selP # P!Blank
  BY <1>1 DEF P!ServerFollows, P!None
<1> DEFINE t == P!Req("tree", P!Blank, P!Blank, {})
<1> DEFINE d == [P!Req("discover", selP, P!Blank, {}) EXCEPT !.n = sentP + 2]
<1>0. P!Blank \in PageRepos \cup {P!Blank, "one", "all"} /\ P!Blank \in P!Dirs \cup {P!Blank} /\ {} \in SUBSET (PagePaths \cup {P!Blank})
      /\ selP \in PageRepos
  BY <1>4 DEF P!Form
<1>5. t \in P!Requests /\ t.n = sentP + 1 /\ t.kind = "tree" /\ t.got = P!Blank
  BY <1>0, ReqForm, PlainReqIs
<1>6. d \in P!Requests /\ d.n = sentP + 2 /\ d.kind = "discover" /\ d.got = P!Blank
  BY <1>0, SecondForm
<1>7. \/ netP' = (netP \ {r}) \cup {t} /\ sentP' = sentP + 1
      \/ netP' = (netP \ {r}) \cup {t} \cup {d} /\ sentP' = sentP + 2
  BY <1>2 DEF P!GotSelect
<1> HIDE DEF t, d
<1>8. sentP \in Nat /\ \A q \in netP : q.n \in 1..sentP
  BY DEF P!Queue
<1>9. \A q \in netP' : q \in netP \/ q = t \/ q = d
  BY <1>7
<1>10. P!Queue'
  <2>1. \A q \in netP' : q \in P!Requests /\ q.n \in 1..sentP'
    BY <1>5, <1>6, <1>7, <1>8 DEF P!Queue
  <2>2. \A p, q \in netP' : p.n = q.n => p = q
    BY <1>5, <1>6, <1>8, <1>9 DEF P!Queue
  <2>3. \A p, q \in netP' : q.n < p.n /\ p.got # P!Blank => q.got # P!Blank
    <3>1. SUFFICES ASSUME NEW p \in netP', NEW q \in netP', q.n < p.n, p.got # P!Blank PROVE q.got # P!Blank
      OBVIOUS
    <3>2. p \in netP /\ q \in netP
      BY <1>5, <1>6, <1>8, <1>9, <3>1
    <3> QED
      BY <3>1, <3>2 DEF P!Queue
  <2>4. \A p \in netP' : p.got # P!Blank => p.ok
    BY <1>5, <1>6, <1>9 DEF P!Queue
  <2>5. sentP' \in Nat
    BY <1>7, <1>8
  <2> QED
    BY <2>1, <2>2, <2>3, <2>4, <2>5 DEF P!Queue
<1>11. \A q \in netP' : q.kind = "select" => q \in netP /\ q # r
  BY <1>5, <1>6, <1>7
<1>12. \A q \in netP : q.kind = "select" /\ q # r => q \in netP'
  BY <1>7
<1>13. P!ServerFollows'
  <2>1. tree' \notin PageRepos /\ selP' # P!Blank
    BY <1>3, <1>4
  <2>2. \A q \in netP' : q.kind = "select" => q.repo \in PageRepos
    BY <1>11 DEF P!ServerFollows
  <2>3. ASSUME NEW q \in netP', P!Chosen(q) PROVE q.repo = selP' \/ \E p \in netP' : P!Chosen(p) /\ p.n > q.n
    <3>1. q \in netP
      BY <1>11, <2>3 DEF P!Chosen
    <3>2. \A p \in netP : P!Chosen(p) => p \in netP'
      BY <1>1, <1>12 DEF P!Chosen
    <3> QED
      BY <1>3, <2>3, <3>1, <3>2 DEF P!ServerFollows
  <2>4. ASSUME \A q \in netP' : ~P!Chosen(q) PROVE srvP' = selP'
    <3>1. \A q \in netP : ~P!Chosen(q)
      BY <1>1, <1>12, <2>4 DEF P!Chosen
    <3> QED
      BY <1>3, <1>4, <3>1 DEF P!ServerFollows
  <2>5. ASSUME NEW p \in netP', p.kind \in {"tree", "kids"}, p.got # P!Blank
        PROVE  p.got = selP' \/ \E q \in netP' : q.kind = "select" /\ q.n > p.n
    <3>1. p \in netP
      BY <1>5, <1>6, <1>9, <2>5
    <3>2. \A q \in netP : q.kind = "select" /\ q.n > p.n => q \in netP'
      BY <1>1, <1>8, <1>12, <3>1
    <3> QED
      BY <1>3, <2>5, <3>1, <3>2 DEF P!ServerFollows
  <2> QED
    BY <2>1, <2>2, <2>3, <2>4, <2>5 DEF P!ServerFollows
<1>14. P!KidsFollow'
  <2>1. \A q \in netP : q.kind # "kids"
    BY <1>1, <1>8 DEF P!KidsFollow
  <2>2. \A q \in netP' : q.kind # "kids"
    BY <1>5, <1>6, <1>9, <2>1
  <2>3. P!None({"kids"})' /\ tree' \notin PageRepos
    BY <1>3, <2>2 DEF P!None
  <2>4. dir' \in [known : BOOLEAN, loaded : BOOLEAN, boxes : Nat, of : PageRepos \cup {P!Blank}, copies : Nat]
    BY <1>3 DEF P!NoNode
  <2> QED
    BY <2>2, <2>3, <2>4 DEF P!KidsFollow
<1> QED
  BY <1>10, <1>13, <1>14

\* The tree is answered: its rows are new.
LEMMA GotTreeFollows ==
  ASSUME P!Blank \notin PageRepos, P!Queue, P!ServerFollows, P!KidsFollow, NEW r \in netP, P!GotTree(r)
  PROVE  P!Queue' /\ P!ServerFollows' /\ P!KidsFollow'
<1>1. /\ r.kind = "tree" /\ r.got # P!Blank /\ netP' = netP \ {r} /\ r.ok
      /\ tree' = r.got /\ dir' = [P!NoNode EXCEPT !.known = TRUE] /\ UNCHANGED <<selP, srvP, sentP>>
  BY DEF P!GotTree, P!Answered, P!Queue
<1>2. P!Queue'
  BY <1>1, QueueLoses
<1>3. \A K0 : "tree" \notin K0 => (P!None(K0) <=> P!None(K0)')
  BY <1>1 DEF P!None
<1>4. \A q \in netP : q.kind = "select" => q \in netP'
  BY <1>1
<1>5. P!ServerFollows'
  <2>1. selP # P!Blank
    BY <1>1 DEF P!ServerFollows, P!None
  <2>2. tree' = selP \/ ~P!None({"select"})'
    <3>1. tree' = selP \/ \E q \in netP : q.kind = "select"
      BY <1>1 DEF P!ServerFollows
    <3> QED
      BY <1>4, <3>1 DEF P!None
  <2> QED
    BY <1>1, <1>4, <2>1, <2>2 DEF P!ServerFollows, P!Chosen
<1>6. P!KidsFollow'
  <2>1. \A q \in netP : q.kind # "kids"
    BY <1>1 DEF P!KidsFollow
  <2>2. \A q \in netP' : q.kind # "kids"
    BY <1>1, <2>1
  <2>3. P!None({"kids"})'
    BY <2>2 DEF P!None
  <2>4. dir' \in [known : BOOLEAN, loaded : BOOLEAN, boxes : Nat, of : PageRepos \cup {P!Blank}, copies : Nat]
    BY <1>1 DEF P!NoNode
  <2>5. dir'.loaded = FALSE /\ dir'.copies = 0 /\ dir'.boxes = 0
    BY <1>1 DEF P!NoNode
  <2> QED
    BY <2>2, <2>3, <2>4, <2>5 DEF P!KidsFollow
<1> QED
  BY <1>2, <1>5, <1>6

\* The rows of the directory are asked for.
LEMMA ToggleFollows ==
  ASSUME PageUsual, P!Blank \notin PageRepos, P!Queue, P!ServerFollows, P!KidsFollow, P!ToggleDir
  PROVE  P!Queue' /\ P!ServerFollows' /\ P!KidsFollow'
<1> DEFINE q == P!Req("kids", P!Blank, P!Blank, {})
<1>0. P!Blank \in PageRepos \cup {P!Blank, "one", "all"} /\ P!Blank \in P!Dirs \cup {P!Blank} /\ {} \in SUBSET (PagePaths \cup {P!Blank})
  OBVIOUS
<1>1. q \in P!Requests /\ q.n = sentP + 1 /\ q.kind = "kids" /\ q.got = P!Blank
  BY <1>0, ReqForm, PlainReqIs
<1>2. netP' = netP \cup {q} /\ sentP' = sentP + 1 /\ UNCHANGED <<selP, srvP, tree>>
  BY DEF P!ToggleDir, P!Send
<1> HIDE DEF q
<1>3. tree \in PageRepos /\ dir.known /\ ~dir.loaded /\ P!None({"select", "tree", "kids"})
  BY DEF P!ToggleDir
<1>4. dir.copies = 0 /\ dir.boxes = 0
  BY <1>3 DEF P!KidsFollow
<1>5. dir' = [dir EXCEPT !.boxes = 1]
  BY <1>4 DEF P!ToggleDir
<1>6. P!Queue'
  BY <1>1, <1>2, QueueAdds
<1>7. \A p \in netP : p.kind \notin {"select", "tree", "kids"}
  BY <1>3 DEF P!None
<1>8. tree = selP /\ selP # P!Blank
  BY <1>3, <1>7 DEF P!ServerFollows, P!None
<1>9. P!ServerFollows'
  BY <1>1, <1>2, <1>7, <1>8 DEF P!ServerFollows, P!Chosen
<1>10. P!KidsFollow'
  <2>1. dir \in [known : BOOLEAN, loaded : BOOLEAN, boxes : Nat, of : PageRepos \cup {P!Blank}, copies : Nat]
    BY DEF P!KidsFollow
  <2>2. /\ dir' \in [known : BOOLEAN, loaded : BOOLEAN, boxes : Nat, of : PageRepos \cup {P!Blank}, copies : Nat]
        /\ dir'.known = dir.known /\ dir'.loaded = dir.loaded /\ dir'.boxes = 1 /\ dir'.copies = dir.copies
    BY <1>5, <2>1
  <2>3. ~P!None({"select", "tree", "kids"})'
    BY <1>1, <1>2 DEF P!None
  <2>4. \A p, u \in netP' : p.kind = "kids" => p = q /\ u.kind # "select" /\ u.kind # "tree" /\ (u.kind = "kids" => u = q)
    BY <1>1, <1>2, <1>7
  <2> QED
    BY <1>2, <1>3, <1>4, <2>2, <2>3, <2>4 DEF P!KidsFollow
<1> QED
  BY <1>6, <1>9, <1>10

\* They are answered.
LEMMA GotKidsFollows ==
  ASSUME P!Blank \notin PageRepos, P!Queue, P!ServerFollows, P!KidsFollow, NEW r \in netP, P!GotKids(r)
  PROVE  P!Queue' /\ P!ServerFollows' /\ P!KidsFollow'
<1>1. /\ r.kind = "kids" /\ r.got # P!Blank /\ netP' = netP \ {r} /\ r.ok /\ r \in P!Requests
      /\ dir' = IF dir.known THEN [dir EXCEPT !.loaded = TRUE, !.of = r.got, !.copies = @ + 1] ELSE dir
      /\ UNCHANGED <<selP, srvP, sentP, tree>>
  BY DEF P!GotKids, P!Answered, P!Queue
<1>2. P!Queue'
  BY <1>1, QueueLoses
<1>3. \A q \in netP : q.kind = "select" => q \in netP'
  BY <1>1
<1>4. P!None({"select"}) <=> P!None({"select"})'
  BY <1>1 DEF P!None
<1>5. P!ServerFollows'
  <2>1. selP # P!Blank
    BY <1>1 DEF P!ServerFollows, P!None
  <2> QED
    BY <1>1, <1>3, <1>4, <2>1 DEF P!ServerFollows, P!Chosen
<1>6. P!KidsFollow'
  <2>1. dir \in [known : BOOLEAN, loaded : BOOLEAN, boxes : Nat, of : PageRepos \cup {P!Blank}, copies : Nat]
    BY DEF P!KidsFollow
  <2>2. r.got \in PageRepos \cup {P!Blank}
    BY <1>1 DEF P!Requests
  <2>3. dir' \in [known : BOOLEAN, loaded : BOOLEAN, boxes : Nat, of : PageRepos \cup {P!Blank}, copies : Nat]
    <3>1. dir.copies + 1 \in Nat
      BY <2>1
    <3>2. dir' = dir \/ dir' = [dir EXCEPT !.loaded = TRUE, !.of = r.got, !.copies = dir.copies + 1]
      BY <1>1
    <3> QED
      BY <2>1, <2>2, <3>1, <3>2
  <2>4. \A q \in netP' : q.kind # "kids"
    BY <1>1 DEF P!KidsFollow
  <2>5. ASSUME P!None({"select"})
        PROVE  dir'.loaded /\ dir'.of = tree' /\ dir'.copies = 1 /\ dir'.boxes = 1
    <3>1. tree \in PageRepos /\ dir.known /\ ~dir.loaded /\ dir.boxes = 1 /\ dir.copies = 0
      BY <1>1, <2>5 DEF P!KidsFollow, P!None
    <3>2. tree = selP /\ r.got = selP
      BY <1>1, <2>5, <3>1 DEF P!ServerFollows, P!None
    <3> QED
      BY <1>1, <2>1, <3>1, <3>2
  <2>6. P!None({"select", "tree", "kids"})' => P!None({"select"})
    BY <1>4 DEF P!None
  <2>7. P!None({"kids"})'
    BY <2>4 DEF P!None
  <2> QED
    BY <2>3, <2>4, <2>5, <2>6, <2>7 DEF P!KidsFollow
<1> QED
  BY <1>2, <1>5, <1>6

LEMMA InitTree ==
  ASSUME P!Blank \notin PageRepos, P!Init
  PROVE  P!TreeFollows
<1>1. netP = {} /\ sentP = 0 /\ selP = P!Blank /\ tree = P!Blank /\ dir = P!NoNode /\ srvP \in PageRepos
  BY DEF P!Init
<1>2. /\ input = P!Blank /\ localDir = P!Blank /\ picked = P!Blank
      /\ entries \in [repo : PageRepos \cup {P!Blank}, dir : P!Dirs \cup {P!Blank}, paths : SUBSET PagePaths]
  BY DEF P!Init, P!NoList
<1>3. P!Form /\ P!Queue
  BY <1>1, <1>2 DEF P!Form, P!Queue
<1>4. P!ServerFollows
  BY <1>1 DEF P!ServerFollows, P!None
<1>5. dir \in [known : BOOLEAN, loaded : BOOLEAN, boxes : Nat, of : PageRepos \cup {P!Blank}, copies : Nat]
  BY <1>1 DEF P!NoNode
<1>6. P!KidsFollow
  BY <1>1, <1>5 DEF P!KidsFollow, P!None
<1> QED
  BY <1>3, <1>4, <1>6 DEF P!TreeFollows

\* Nothing is filled in but a directory.
LEMMA FillForm ==
  ASSUME P!Form, P!Fill
  PROVE  input' \in P!Dirs \cup {P!Blank} /\ localDir' \in P!Dirs \cup {P!Blank}
<1>1. CASE UNCHANGED <<input, localDir>>
  BY <1>1 DEF P!Form
<1>2. CASE selP # P!Blank /\ PageDirs[selP] # P!Blank /\ input' = PageDirs[selP] /\ localDir' = PageDirs[selP]
  <2>1. selP \in PageRepos
    BY <1>2 DEF P!Form
  <2>2. PageDirs[selP] \in P!Dirs
    BY <1>2, <2>1 DEF P!Dirs
  <2> QED
    BY <1>2, <2>2
<1> QED
  BY <1>1, <1>2 DEF P!Fill

LEMMA PlainSameForm ==
  ASSUME P!Form, selP' \in PageRepos \cup {P!Blank}, srvP' \in PageRepos, input' \in P!Dirs \cup {P!Blank}, localDir' \in P!Dirs \cup {P!Blank},
         picked' \in PagePaths \cup {P!Blank}, entries' \in [repo : PageRepos \cup {P!Blank}, dir : P!Dirs \cup {P!Blank}, paths : SUBSET PagePaths],
         \A r \in netP' : r \in netP \/ r.kind # "discover" \/ r.repo \in PageRepos
  PROVE  P!Form'
BY DEF P!Form

\* A request that is not about the rows is sent.
LEMMA SendsOther ==
  ASSUME P!TreeFollows, NEW k \in {"discover", "scan", "file", "merge"},
         NEW r1 \in PageRepos \cup {P!Blank, "one", "all"}, NEW d \in P!Dirs \cup {P!Blank}, NEW ps \in SUBSET (PagePaths \cup {P!Blank}),
         P!Send(P!Req(k, r1, d, ps)), k = "discover" => r1 \in PageRepos,
         UNCHANGED <<selP, srvP, tree, dir, entries>>, picked' \in PagePaths \cup {P!Blank},
         input' \in P!Dirs \cup {P!Blank}, localDir' \in P!Dirs \cup {P!Blank}
  PROVE  P!TreeFollows'
<1> DEFINE q == P!Req(k, r1, d, ps)
<1>1. q \in P!Requests /\ q.n = sentP + 1 /\ q.kind = k /\ q.repo = r1 /\ q.got = P!Blank
  BY ReqForm, PlainReqIs DEF P!TreeFollows
<1>2. netP' = netP \cup {q} /\ sentP' = sentP + 1
  BY DEF P!Send
<1> HIDE DEF q
<1>3. P!Queue'
  BY <1>1, <1>2, QueueAdds DEF P!TreeFollows
<1>4. P!ServerFollows' /\ P!KidsFollow'
  BY <1>1, <1>2, OtherRequests DEF P!TreeFollows
<1>5. \A r \in netP' : r \in netP \/ r.kind # "discover" \/ r.repo \in PageRepos
  BY <1>1, <1>2
<1>6. P!Form'
  BY <1>5, PlainSameForm DEF P!TreeFollows, P!Form
<1> QED
  BY <1>3, <1>4, <1>6 DEF P!TreeFollows

\* An answer that is not about the rows is handled.
LEMMA GotOther ==
  ASSUME P!TreeFollows, NEW r \in netP, r.kind \notin {"select", "tree", "kids"}, netP' = netP \ {r}, sentP' = sentP,
         UNCHANGED <<selP, srvP, tree, dir, picked>>, entries' \in [repo : PageRepos \cup {P!Blank}, dir : P!Dirs \cup {P!Blank}, paths : SUBSET PagePaths],
         input' \in P!Dirs \cup {P!Blank}, localDir' \in P!Dirs \cup {P!Blank}
  PROVE  P!TreeFollows'
<1>1. P!Queue'
  BY QueueLoses DEF P!TreeFollows
<1>2. P!ServerFollows' /\ P!KidsFollow'
  BY OtherRequests DEF P!TreeFollows
<1>3. P!Form'
  BY PlainSameForm DEF P!TreeFollows, P!Form
<1> QED
  BY <1>1, <1>2, <1>3 DEF P!TreeFollows

LEMMA NextTree ==
  ASSUME PageUsual, P!Blank \notin PageRepos, "loading" \notin PageRepos, P!TreeFollows, [P!PageNext]_(P!vars)
  PROVE  P!TreeFollows'
<1>0. P!Form /\ P!Queue /\ P!ServerFollows /\ P!KidsFollow /\ srvP \in PageRepos
  BY DEF P!TreeFollows, P!Form
<1>00. P!Blank \in PageRepos \cup {P!Blank, "one", "all"} /\ P!Blank \in P!Dirs \cup {P!Blank} /\ {} \in SUBSET (PagePaths \cup {P!Blank})
  OBVIOUS
<1>1. ASSUME UNCHANGED <<selP, srvP, tree, dir, P!list, P!calls>>, input' \in P!Dirs \cup {P!Blank}, localDir' \in P!Dirs \cup {P!Blank}
      PROVE  P!TreeFollows'
  <2>1. P!Form'
    BY <1>0, <1>1, PlainSameForm DEF P!list, P!calls, P!Form
  <2>2. P!Queue'
    BY <1>0, <1>1, QueueLoses DEF P!calls
  <2>3. P!ServerFollows' /\ P!KidsFollow'
    BY <1>0, <1>1, OtherRequests DEF P!calls
  <2> QED
    BY <2>1, <2>2, <2>3 DEF P!TreeFollows
<1>2. CASE P!AutoDir
  <2>1. input' \in P!Dirs \cup {P!Blank} /\ localDir' \in P!Dirs \cup {P!Blank}
    BY <1>0, <1>2, FillForm DEF P!AutoDir
  <2>2. CASE P!Seeks
    <3>1. P!Send(P!Req("discover", selP, P!Blank, {})) /\ UNCHANGED <<selP, srvP, tree, dir, entries, picked>>
      BY <1>2, <2>2 DEF P!AutoDir, P!list
    <3>2. selP \in PageRepos /\ picked \in PagePaths \cup {P!Blank}
      BY <1>0, <2>2 DEF P!Form, P!Seeks
    <3> QED
      BY <1>00, <2>1, <3>1, <3>2, SendsOther
  <2>3. CASE ~P!Seeks
    BY <1>1, <1>2, <2>1, <2>3 DEF P!AutoDir
  <2> QED
    BY <2>2, <2>3
<1>3. CASE P!ToggleDir
  <2>1. P!Queue' /\ P!ServerFollows' /\ P!KidsFollow'
    BY <1>0, <1>3, ToggleFollows
  <2>2. UNCHANGED <<selP, srvP, input, localDir, picked, entries>> /\ netP' = netP \cup {P!Req("kids", P!Blank, P!Blank, {})}
    BY <1>3 DEF P!ToggleDir, P!Send, P!list
  <2>3. \A r \in netP' : r \in netP \/ r.kind # "discover" \/ r.repo \in PageRepos
    BY <2>2, PlainReqIs
  <2>4. P!Form'
    BY <1>0, <2>2, <2>3, PlainSameForm DEF P!Form
  <2> QED
    BY <2>1, <2>4 DEF P!TreeFollows
<1>4. CASE P!ScanDiff
  <2>1. P!Send(P!Req("scan", selP, input, {})) /\ UNCHANGED <<selP, srvP, tree, dir, entries, picked, input, localDir>>
    BY <1>4 DEF P!ScanDiff, P!list
  <2>2. selP \in PageRepos \cup {P!Blank, "one", "all"} /\ input \in P!Dirs \cup {P!Blank} /\ picked \in PagePaths \cup {P!Blank} /\ localDir \in P!Dirs \cup {P!Blank}
    BY <1>0 DEF P!Form
  <2> QED
    BY <1>00, <2>1, <2>2, SendsOther
<1>5. CASE P!MergeOne
  <2>1. P!Send(P!Req("merge", "one", localDir, {picked})) /\ UNCHANGED <<selP, srvP, tree, dir, entries, picked, input, localDir>>
    BY <1>5 DEF P!MergeOne, P!list
  <2>2. {picked} \in SUBSET (PagePaths \cup {P!Blank}) /\ input \in P!Dirs \cup {P!Blank} /\ picked \in PagePaths \cup {P!Blank} /\ localDir \in P!Dirs \cup {P!Blank}
    BY <1>0 DEF P!Form
  <2> QED
    BY <2>1, <2>2, SendsOther
<1>6. CASE P!MergeAll
  <2>1. P!Send(P!Req("merge", "all", localDir, entries.paths)) /\ UNCHANGED <<selP, srvP, tree, dir, entries, picked, input, localDir>>
    BY <1>6 DEF P!MergeAll, P!list
  <2>2. entries.paths \in SUBSET (PagePaths \cup {P!Blank}) /\ input \in P!Dirs \cup {P!Blank} /\ picked \in PagePaths \cup {P!Blank} /\ localDir \in P!Dirs \cup {P!Blank}
    BY <1>0 DEF P!Form
  <2> QED
    BY <2>1, <2>2, SendsOther
<1>7. ASSUME NEW r \in PageRepos, P!OpenRepo(r)
      PROVE  P!TreeFollows'
  <2>1. P!Queue' /\ P!ServerFollows' /\ P!KidsFollow'
    BY <1>0, <1>7, OpensFollow
  <2>2. selP' = r /\ UNCHANGED <<srvP, input, localDir, picked, entries>> /\ netP' = netP \cup {P!Req("select", r, P!Blank, {})}
    BY <1>7 DEF P!OpenRepo, P!Send, P!list
  <2>3. \A q \in netP' : q \in netP \/ q.kind # "discover" \/ q.repo \in PageRepos
    BY <2>2, PlainReqIs
  <2>4. P!Form'
    BY <1>0, <2>2, <2>3, PlainSameForm DEF P!Form
  <2> QED
    BY <2>1, <2>4 DEF P!TreeFollows
<1>8. ASSUME NEW d \in P!Dirs \cup {P!Blank}, P!TypeDir(d)
      PROVE  P!TreeFollows'
  BY <1>0, <1>1, <1>8 DEF P!TypeDir, P!Form
<1>9. ASSUME NEW p \in PagePaths, P!OpenDiffFile(p)
      PROVE  P!TreeFollows'
  <2>1. P!Send(P!Req("file", P!Blank, localDir, {p})) /\ UNCHANGED <<selP, srvP, tree, dir, entries, input, localDir>> /\ picked' = p
    BY <1>9 DEF P!OpenDiffFile
  <2>2. {p} \in SUBSET (PagePaths \cup {P!Blank}) /\ input \in P!Dirs \cup {P!Blank} /\ localDir \in P!Dirs \cup {P!Blank}
    BY <1>0 DEF P!Form
  <2> QED
    BY <1>00, <2>1, <2>2, SendsOther
<1>10. ASSUME NEW r \in netP, P!Serve(r)
       PROVE  P!TreeFollows'
  <2>1. P!Queue' /\ P!ServerFollows' /\ P!KidsFollow'
    BY <1>0, <1>10, QueueServes, ServeFollows, ServeKids
  <2>2. /\ UNCHANGED <<selP, tree, dir, input, typed, localDir, entries, picked, pane, button, sentP, listedP>>
        /\ srvP' = IF r.kind = "select" THEN r.repo ELSE srvP
        /\ \E s \in P!Requests : netP' = (netP \ {r}) \cup {s} /\ s.kind = r.kind /\ s.repo = r.repo
    BY <1>0, <1>10, ServeIs
  <2>3. srvP' \in PageRepos
    BY <1>0, <2>2 DEF P!ServerFollows
  <2>4. P!Form'
    BY <1>0, <2>2, <2>3 DEF P!Form
  <2> QED
    BY <2>1, <2>4 DEF P!TreeFollows
<1>11. ASSUME NEW r \in netP, P!GotSelect(r)
       PROVE  P!TreeFollows'
  <2>1. P!Queue' /\ P!ServerFollows' /\ P!KidsFollow'
    BY <1>0, <1>11, SelectFollows
  <2>2. r.ok
    BY <1>0, <1>11 DEF P!Queue, P!GotSelect, P!Answered
  <2>3. UNCHANGED <<selP, srvP, picked, entries>> /\ P!Fill
    BY <1>11, <2>2 DEF P!GotSelect, P!list
  <2>4. \A q \in netP' : q \in netP \/ q.kind # "discover" \/ q.repo \in PageRepos
    <3>1. P!Req("tree", P!Blank, P!Blank, {}).kind = "tree"
      BY PlainReqIs
    <3>2. [P!Req("discover", selP, P!Blank, {}) EXCEPT !.n = sentP + 2].repo = selP
      BY DEF P!Req
    <3>3. P!Seeks => selP \in PageRepos
      BY <1>0 DEF P!Form, P!Seeks
    <3>4. \A q \in netP' : \/ q \in netP
                           \/ q = P!Req("tree", P!Blank, P!Blank, {})
                           \/ P!Seeks /\ q = [P!Req("discover", selP, P!Blank, {}) EXCEPT !.n = sentP + 2]
      BY <1>11, <2>2 DEF P!GotSelect
    <3> QED
      BY <3>1, <3>2, <3>3, <3>4
  <2>5. P!Form'
    BY <1>0, <2>3, <2>4, FillForm, PlainSameForm DEF P!Form
  <2> QED
    BY <2>1, <2>5 DEF P!TreeFollows
<1>12. ASSUME NEW r \in netP, P!GotDiscover(r)
       PROVE  P!TreeFollows'
  <2>1. /\ r.kind = "discover" /\ netP' = netP \ {r} /\ UNCHANGED <<selP, srvP, tree, dir, picked, entries, sentP>>
        /\ \/ UNCHANGED <<input, localDir>>
           \/ input' = FoundDirs[r.repo] /\ localDir' = FoundDirs[r.repo]
    BY <1>12 DEF P!GotDiscover, P!Answered, P!list
  <2>2. FoundDirs[r.repo] \in P!Dirs
    BY <1>0, <2>1 DEF P!Form, P!Dirs
  <2> QED
    BY <1>0, <2>1, <2>2, GotOther DEF P!Form
<1>13. ASSUME NEW r \in netP, P!GotTree(r)
       PROVE  P!TreeFollows'
  <2>1. P!Queue' /\ P!ServerFollows' /\ P!KidsFollow'
    BY <1>0, <1>13, GotTreeFollows
  <2>2. P!Form'
    BY <1>0, <1>13 DEF P!GotTree, P!list, P!Form
  <2> QED
    BY <2>1, <2>2 DEF P!TreeFollows
<1>14. ASSUME NEW r \in netP, P!GotKids(r)
       PROVE  P!TreeFollows'
  <2>1. P!Queue' /\ P!ServerFollows' /\ P!KidsFollow'
    BY <1>0, <1>14, GotKidsFollows
  <2>2. P!Form'
    BY <1>0, <1>14 DEF P!GotKids, P!list, P!Form
  <2> QED
    BY <2>1, <2>2 DEF P!TreeFollows
<1>15. ASSUME NEW r \in netP, P!GotScan(r)
       PROVE  P!TreeFollows'
  <2>1. /\ r.kind = "scan" /\ netP' = netP \ {r} /\ UNCHANGED <<selP, srvP, tree, dir, picked, input, sentP>>
        /\ entries' = P!NoList \/ \E ps \in SUBSET PagePaths : entries' = [repo |-> r.got, dir |-> r.dir, paths |-> ps]
        /\ localDir' = localDir \/ localDir' = r.dir
    BY <1>15 DEF P!GotScan, P!Answered
  <2>2. r.dir \in P!Dirs \cup {P!Blank} /\ r.got \in PageRepos \cup {P!Blank}
    BY <1>0 DEF P!Queue, P!Requests
  <2>3. entries' \in [repo : PageRepos \cup {P!Blank}, dir : P!Dirs \cup {P!Blank}, paths : SUBSET PagePaths]
    BY <2>1, <2>2 DEF P!NoList
  <2> QED
    BY <1>0, <2>1, <2>2, <2>3, GotOther DEF P!Form
<1>16. ASSUME NEW r \in netP, P!GotFile(r)
       PROVE  P!TreeFollows'
  <2>1. /\ r.kind = "file" /\ netP' = netP \ {r} /\ UNCHANGED <<selP, srvP, tree, dir, picked, input, localDir, entries, sentP>>
    BY <1>16 DEF P!GotFile, P!Answered
  <2> QED
    BY <1>0, <2>1, GotOther DEF P!Form
<1>17. ASSUME NEW r \in netP, P!GotMerge(r)
       PROVE  P!TreeFollows'
  <2>1. /\ r.kind = "merge" /\ netP' = netP \ {r} /\ UNCHANGED <<selP, srvP, tree, dir, picked, input, localDir, sentP>>
        /\ entries' = entries \/ entries' = [entries EXCEPT !.paths = @ \ r.paths]
    BY <1>17 DEF P!GotMerge, P!Answered
  <2>2. entries' \in [repo : PageRepos \cup {P!Blank}, dir : P!Dirs \cup {P!Blank}, paths : SUBSET PagePaths]
    BY <1>0, <2>1 DEF P!Form
  <2> QED
    BY <1>0, <2>1, <2>2, GotOther DEF P!Form
<1>18. CASE UNCHANGED P!vars
  BY <1>0, <1>1, <1>18 DEF P!vars, P!page, P!Form
<1> QED
  BY <1>2, <1>3, <1>4, <1>5, <1>6, <1>7, <1>8, <1>9, <1>10, <1>11, <1>12, <1>13, <1>14, <1>15, <1>16, <1>17, <1>18
     DEF P!PageNext, P!User, P!Answers

LEMMA TreeMeans ==
  ASSUME P!Blank \notin PageRepos, P!TreeFollows
  PROVE  P!TreeIsOfRepo
<1> SUFFICES ASSUME netP = {}, tree \in PageRepos
             PROVE  /\ tree = selP /\ selP = srvP
                    /\ dir.loaded => dir.of = tree /\ dir.copies = 1
                    /\ dir.boxes > 0 => dir.loaded /\ dir.boxes = 1
  BY DEF P!TreeIsOfRepo
<1>1. \A K0 : P!None(K0)
  BY DEF P!None
<1>2. tree = selP /\ selP # P!Blank
  BY <1>1 DEF P!TreeFollows, P!ServerFollows
<1>3. selP = srvP
  BY <1>2 DEF P!TreeFollows, P!ServerFollows
<1>4. IF dir.loaded THEN dir.of = tree /\ dir.copies = 1 /\ dir.boxes = 1 ELSE dir.copies = 0 /\ dir.boxes = 0
  BY <1>1 DEF P!TreeFollows, P!KidsFollow
<1> QED
  BY <1>2, <1>3, <1>4

LEMMA BlankIsNoWord == P!Blank # "all"
BY Zenon DEF P!Blank

LEMMA InitPane ==
  ASSUME P!Init
  PROVE  P!DrawnFollows /\ P!ListFollows
<1>1. netP = {} /\ button = FALSE /\ entries.paths = {} /\ writes = {}
  BY DEF P!Init, P!NoList
<1>2. \A K0 : P!None(K0)
  BY <1>1 DEF P!None
<1> QED
  BY <1>1, <1>2 DEF P!DrawnFollows, P!ListFollows, P!Unlisted, P!Drawn, P!MergesListed

LEMMA SameDrawn ==
  ASSUME P!DrawnFollows, UNCHANGED <<button, pane, picked>>, \A r \in netP' : r \in netP \/ r.kind # "file"
  PROVE  P!DrawnFollows'
BY DEF P!DrawnFollows

LEMMA NextDrawn ==
  ASSUME PageUsual, P!Blank \notin PageRepos, P!TreeFollows, P!DrawnFollows, [P!PageNext]_(P!vars)
  PROVE  P!DrawnFollows'
<1> USE DEF P!list, P!calls
<1>0. P!Form /\ P!Queue /\ srvP \in PageRepos
  BY DEF P!TreeFollows, P!Form
<1>1. CASE P!AutoDir \/ P!ToggleDir \/ P!ScanDiff \/ P!MergeOne \/ P!MergeAll
  BY <1>1, SameDrawn, PlainReqIs DEF P!AutoDir, P!ToggleDir, P!ScanDiff, P!MergeOne, P!MergeAll, P!Send
<1>2. ASSUME NEW r \in PageRepos, P!OpenRepo(r)
      PROVE  P!DrawnFollows'
  BY <1>2, SameDrawn, PlainReqIs DEF P!OpenRepo, P!Send
<1>3. ASSUME NEW d \in P!Dirs \cup {P!Blank}, P!TypeDir(d)
      PROVE  P!DrawnFollows'
  BY <1>3, SameDrawn DEF P!TypeDir
<1>4. ASSUME NEW p \in PagePaths, P!OpenDiffFile(p)
      PROVE  P!DrawnFollows'
  <2> DEFINE q == P!Req("file", P!Blank, localDir, {p})
  <2>1. q.kind = "file" /\ q.paths = {p} /\ q.repo = P!Blank
    BY PlainReqIs
  <2>2. netP' = netP \cup {q} /\ button' = FALSE /\ picked' = p /\ \A r \in netP : r.kind # "file"
    BY <1>4 DEF P!OpenDiffFile, P!Send, P!None
  <2> HIDE DEF q
  <2> QED
    BY <2>1, <2>2, BlankIsNoWord DEF P!DrawnFollows
<1>5. ASSUME NEW r \in netP, P!Serve(r)
      PROVE  P!DrawnFollows'
  <2>1. /\ UNCHANGED <<picked, pane, button>>
        /\ \E s \in P!Requests : /\ netP' = (netP \ {r}) \cup {s} /\ s.kind = r.kind /\ s.repo = r.repo
                                 /\ (r.repo # "all" => s.paths = r.paths)
    BY <1>0, <1>5, ServeIs
  <2> QED
    BY <2>1 DEF P!DrawnFollows
<1>6. ASSUME NEW r \in netP, P!GotSelect(r)
      PROVE  P!DrawnFollows'
  <2>1. r.ok
    BY <1>0, <1>6 DEF P!Queue, P!GotSelect, P!Answered
  <2>2. P!Req("tree", P!Blank, P!Blank, {}).kind = "tree"
    BY PlainReqIs
  <2>3. [P!Req("discover", selP, P!Blank, {}) EXCEPT !.n = sentP + 2].kind = "discover"
    BY DEF P!Req
  <2>4. \A q \in netP' : \/ q \in netP
                         \/ q = P!Req("tree", P!Blank, P!Blank, {})
                         \/ q = [P!Req("discover", selP, P!Blank, {}) EXCEPT !.n = sentP + 2]
    BY <1>6, <2>1 DEF P!GotSelect
  <2>5. \A q \in netP' : q \in netP \/ q.kind # "file"
    BY <2>2, <2>3, <2>4
  <2>6. UNCHANGED <<button, pane, picked>>
    BY <1>6 DEF P!GotSelect
  <2> QED
    BY <2>5, <2>6, SameDrawn
<1>7. ASSUME NEW r \in netP, P!GotDiscover(r) \/ P!GotTree(r) \/ P!GotKids(r) \/ P!GotScan(r)
      PROVE  P!DrawnFollows'
  BY <1>7, SameDrawn DEF P!GotDiscover, P!GotTree, P!GotKids, P!GotScan
<1>8. ASSUME NEW r \in netP, P!GotFile(r)
      PROVE  P!DrawnFollows'
  <2>1. r.paths = {picked} /\ r.ok /\ netP' = netP \ {r} /\ r.kind = "file" /\ picked' = picked
    BY <1>0, <1>8 DEF P!GotFile, P!Answered, P!DrawnFollows, P!Queue
  <2>2. pane' = CHOOSE p \in {picked} : TRUE
    BY <1>8, <2>1 DEF P!GotFile
  <2>3. pane' = picked'
    BY <2>1, <2>2
  <2>4. \A q \in netP' : q.kind # "file"
    BY <2>1 DEF P!DrawnFollows
  <2> QED
    BY <2>3, <2>4 DEF P!DrawnFollows
<1>9. ASSUME NEW r \in netP, P!GotMerge(r)
      PROVE  P!DrawnFollows'
  <2>1. netP' = netP \ {r} /\ picked' = picked /\ (UNCHANGED <<pane, button>> \/ button' = FALSE)
    BY <1>9 DEF P!GotMerge
  <2> QED
    BY <2>1 DEF P!DrawnFollows
<1>10. CASE UNCHANGED P!vars
  BY <1>10, SameDrawn DEF P!vars, P!page
<1> QED
  BY <1>1, <1>2, <1>3, <1>4, <1>5, <1>6, <1>7, <1>8, <1>9, <1>10 DEF P!PageNext, P!User, P!Answers
-----------------------------------------------------------------------------
\* With nothing listed nothing is owed.
LEMMA StillUnlisted ==
  ASSUME P!ListFollows, P!Unlisted', UNCHANGED <<listedP, writes>>
  PROVE  P!ListFollows'
<1>1. \A r \in netP' : r.kind \notin {"scan", "file", "merge"}
  BY DEF P!Unlisted, P!None
<1> QED
  BY <1>1 DEF P!ListFollows, P!Unlisted, P!Drawn, P!None, P!MergesListed

\* Requests that are not about the list come and go.
LEMMA PlainSameList ==
  ASSUME P!ListFollows, UNCHANGED <<srvP, input, localDir, entries, picked, button, listedP, writes>>,
         \A r \in netP' : r \in netP \/ r.kind \notin {"select", "discover", "scan", "file", "merge"}
  PROVE  P!ListFollows'
<1>1. \A K0 \in SUBSET {"select", "discover", "scan", "file", "merge"} : P!None(K0) => P!None(K0)'
  BY DEF P!None
<1>2. P!None({"scan", "file", "merge"}) => P!None({"scan", "file", "merge"})'
  BY <1>1
<1>3. P!None({"select", "discover"}) => P!None({"select", "discover"})'
  BY <1>1
<1>4. (P!None({"file"}) => P!None({"file"})') /\ (P!None({"merge"}) => P!None({"merge"})')
  BY <1>1
<1>5. (P!Drawn' => P!Drawn) /\ (~P!Unlisted' => ~P!Unlisted)
  BY <1>2, <1>4 DEF P!Drawn, P!Unlisted
<1> QED
  BY <1>3, <1>4, <1>5 DEF P!ListFollows, P!MergesListed

LEMMA PlainNextList ==
  ASSUME PageUsual, P!Blank \notin PageRepos, P!TreeFollows, P!ListFollows, [P!PageNext]_(P!vars)
  PROVE  P!ListFollows'
<1> USE DEF P!list, P!calls
<1>0. P!Form /\ P!Queue /\ srvP \in PageRepos
  BY DEF P!TreeFollows, P!Form
<1>1. CASE P!AutoDir
  <2>1. CASE P!Unlisted
    <3>1. \A r \in netP' : r \in netP \/ r.kind = "discover"
      BY <1>1, PlainReqIs DEF P!AutoDir, P!Send
    <3>2. P!Unlisted'
      BY <1>1, <2>1, <3>1 DEF P!Unlisted, P!None, P!AutoDir
    <3> QED
      BY <1>1, <3>2, StillUnlisted DEF P!AutoDir
  <2>2. CASE ~P!Unlisted
    <3>1. input # P!Blank
      BY <2>2 DEF P!ListFollows
    <3>2. UNCHANGED <<srvP, input, localDir, entries, picked, button, listedP, writes, netP>>
      BY <1>1, <3>1 DEF P!AutoDir, P!Fill, P!Seeks
    <3> QED
      BY <3>2, PlainSameList
  <2> QED
    BY <2>1, <2>2
<1>2. CASE P!ToggleDir
  BY <1>2, PlainSameList, PlainReqIs DEF P!ToggleDir, P!Send
<1>3. CASE P!ScanDiff
  <2> DEFINE q == P!Req("scan", selP, input, {})
  <2>1. q.kind = "scan" /\ q.dir = input /\ q.got = P!Blank
    BY PlainReqIs
  <2>2. /\ input # P!Blank /\ P!None({"select"}) /\ P!None({"discover"}) /\ netP' = netP \cup {q}
        /\ UNCHANGED <<srvP, input, localDir, entries, picked, button, listedP, writes>>
    BY <1>3 DEF P!ScanDiff, P!Send
  <2> HIDE DEF q
  <2>3. P!None({"select", "discover"})'
    BY <2>1, <2>2 DEF P!None
  <2>4. (P!Drawn' <=> P!Drawn) /\ (P!None({"merge"})' <=> P!None({"merge"}))
    BY <2>1, <2>2 DEF P!Drawn, P!None
  <2> QED
    BY <2>1, <2>2, <2>3, <2>4 DEF P!ListFollows, P!MergesListed
<1>4. CASE P!MergeOne
  <2> DEFINE q == P!Req("merge", "one", localDir, {picked})
  <2>1. q.kind = "merge" /\ q.dir = localDir /\ q.paths = {picked}
    BY PlainReqIs
  <2>2. /\ button /\ netP' = netP \cup {q}
        /\ UNCHANGED <<srvP, input, localDir, entries, picked, button, listedP, writes>>
    BY <1>4 DEF P!MergeOne, P!Send
  <2> HIDE DEF q
  <2>3. ~P!Unlisted /\ P!Drawn
    BY <2>2 DEF P!Unlisted, P!Drawn
  <2>4. P!None({"select", "discover"})'
    BY <2>1, <2>2, <2>3 DEF P!ListFollows, P!None
  <2> QED
    BY <2>1, <2>2, <2>3, <2>4 DEF P!ListFollows, P!MergesListed
<1>5. CASE P!MergeAll
  <2> DEFINE q == P!Req("merge", "all", localDir, entries.paths)
  <2>1. q.kind = "merge" /\ q.dir = localDir /\ q.paths = entries.paths
    BY PlainReqIs
  <2>2. /\ entries.paths # {} /\ netP' = netP \cup {q}
        /\ UNCHANGED <<srvP, input, localDir, entries, picked, button, listedP, writes>>
    BY <1>5 DEF P!MergeAll, P!Send
  <2> HIDE DEF q
  <2>3. ~P!Unlisted
    BY <2>2 DEF P!Unlisted
  <2>4. P!None({"select", "discover"})'
    BY <2>1, <2>2, <2>3 DEF P!ListFollows, P!None
  <2>5. P!Drawn' <=> P!Drawn
    BY <2>1, <2>2 DEF P!Drawn, P!None
  <2> QED
    BY <2>1, <2>2, <2>3, <2>4, <2>5 DEF P!ListFollows, P!MergesListed
<1>6. ASSUME NEW r \in PageRepos, P!OpenRepo(r)
      PROVE  P!ListFollows'
  <2>1. P!Unlisted /\ UNCHANGED <<entries, button, listedP, writes>> /\ \A q \in netP' : q \in netP \/ q.kind = "select"
    BY <1>6, PlainReqIs DEF P!OpenRepo, P!Send
  <2>2. P!Unlisted'
    BY <2>1 DEF P!Unlisted, P!None
  <2> QED
    BY <2>1, <2>2, StillUnlisted
<1>7. ASSUME NEW d \in P!Dirs \cup {P!Blank}, P!TypeDir(d)
      PROVE  P!ListFollows'
  <2>1. P!Unlisted /\ UNCHANGED <<entries, button, listedP, writes, netP>>
    BY <1>7 DEF P!TypeDir
  <2>2. P!Unlisted'
    BY <2>1 DEF P!Unlisted, P!None
  <2> QED
    BY <2>1, <2>2, StillUnlisted
<1>8. ASSUME NEW p \in PagePaths, P!OpenDiffFile(p)
      PROVE  P!ListFollows'
  <2> DEFINE q == P!Req("file", P!Blank, localDir, {p})
  <2>1. q.kind = "file"
    BY PlainReqIs
  <2>2. /\ p \in entries.paths /\ netP' = netP \cup {q} /\ picked' = p /\ button' = FALSE
        /\ UNCHANGED <<srvP, input, localDir, entries, listedP, writes>>
    BY <1>8 DEF P!OpenDiffFile, P!Send
  <2> HIDE DEF q
  <2>3. ~P!Unlisted
    BY <2>2 DEF P!Unlisted
  <2>4. P!None({"select", "discover"})'
    BY <2>1, <2>2, <2>3 DEF P!ListFollows, P!None
  <2>5. P!None({"merge"})' <=> P!None({"merge"})
    BY <2>1, <2>2 DEF P!None
  <2> QED
    BY <2>1, <2>2, <2>3, <2>4, <2>5 DEF P!ListFollows, P!MergesListed
<1>9. ASSUME NEW r \in netP, P!Serve(r)
      PROVE  P!ListFollows'
  <2>1. /\ UNCHANGED <<input, localDir, entries, picked, button, listedP>>
        /\ srvP' = IF r.kind = "select" THEN r.repo ELSE srvP
        /\ \E s \in P!Requests : /\ netP' = (netP \ {r}) \cup {s} /\ s.kind = r.kind
                     /\ s.dir = r.dir /\ s.got = srvP /\ s.paths \subseteq r.paths
                     /\ writes' \subseteq writes \cup (IF r.kind = "merge" THEN {srvP} \X {r.dir} \X s.paths ELSE {})
    BY <1>0, <1>9, ServeIs
  <2>2. PICK s \in P!Requests : /\ netP' = (netP \ {r}) \cup {s} /\ s.kind = r.kind
                     /\ s.dir = r.dir /\ s.got = srvP /\ s.paths \subseteq r.paths
                     /\ writes' \subseteq writes \cup (IF r.kind = "merge" THEN {srvP} \X {r.dir} \X s.paths ELSE {})
    BY <2>1
  <2>3. \A K0 : P!None(K0)' <=> P!None(K0)
    BY <2>2 DEF P!None
  <2>4. (P!Unlisted' <=> P!Unlisted) /\ (P!Drawn' <=> P!Drawn)
    BY <2>1, <2>3 DEF P!Unlisted, P!Drawn
  <2>5. P!MergesListed'
    <3>1. r.kind = "merge" => \A p \in s.paths : <<srvP, r.dir, p>> \in listedP
      BY <2>2 DEF P!ListFollows
    <3> QED
      BY <2>1, <2>2, <3>1 DEF P!ListFollows, P!MergesListed
  <2>6. CASE r.kind = "select"
    <3>1. P!Unlisted
      BY <2>6 DEF P!ListFollows, P!None
    <3>2. \A q \in netP' : q.kind \notin {"scan", "file", "merge"}
      BY <2>4, <3>1 DEF P!Unlisted, P!None
    <3>3. P!Unlisted' /\ entries'.paths = {} /\ ~P!Drawn' /\ P!None({"merge"})'
      BY <2>4, <3>1, <3>2 DEF P!Unlisted, P!Drawn, P!None
    <3> QED
      BY <2>5, <3>2, <3>3 DEF P!ListFollows
  <2>7. CASE r.kind # "select"
    <3>1. srvP' = srvP
      BY <2>1, <2>7
    <3>2. \A q \in netP' : q.kind = "scan" => q.dir = input' /\ (q.got # P!Blank => q.got = srvP')
      BY <2>1, <2>2, <3>1 DEF P!ListFollows
    <3>3. \A q \in netP' : q.kind = "merge" => \A p \in q.paths : <<srvP', q.dir, p>> \in listedP'
      BY <2>1, <2>2, <3>1 DEF P!ListFollows
    <3> QED
      BY <2>1, <2>3, <2>4, <2>5, <3>1, <3>2, <3>3 DEF P!ListFollows
  <2> QED
    BY <2>6, <2>7
<1>10. ASSUME NEW r \in netP, P!GotSelect(r)
       PROVE  P!ListFollows'
  <2>1. r.ok /\ r.kind = "select"
    BY <1>0, <1>10 DEF P!Queue, P!GotSelect, P!Answered
  <2>2. P!Req("tree", P!Blank, P!Blank, {}).kind = "tree"
    BY PlainReqIs
  <2>3. [P!Req("discover", selP, P!Blank, {}) EXCEPT !.n = sentP + 2].kind = "discover"
    BY DEF P!Req
  <2>4. \A q \in netP' : \/ q \in netP
                         \/ q = P!Req("tree", P!Blank, P!Blank, {})
                         \/ q = [P!Req("discover", selP, P!Blank, {}) EXCEPT !.n = sentP + 2]
    BY <1>10, <2>1 DEF P!GotSelect
  <2>5. \A q \in netP' : q \in netP \/ q.kind \notin {"scan", "file", "merge"}
    BY <2>2, <2>3, <2>4
  <2>6. P!Unlisted
    BY <2>1 DEF P!ListFollows, P!None
  <2>7. UNCHANGED <<entries, button, listedP, writes>>
    BY <1>10 DEF P!GotSelect
  <2>8. P!Unlisted'
    BY <2>5, <2>6, <2>7 DEF P!Unlisted, P!None
  <2> QED
    BY <2>7, <2>8, StillUnlisted
<1>11. ASSUME NEW r \in netP, P!GotDiscover(r)
       PROVE  P!ListFollows'
  <2>1. r.kind = "discover" /\ netP' \subseteq netP /\ UNCHANGED <<entries, button, listedP, writes>>
    BY <1>11 DEF P!GotDiscover, P!Answered
  <2>2. P!Unlisted
    BY <2>1 DEF P!ListFollows, P!None
  <2>3. P!Unlisted'
    BY <2>1, <2>2 DEF P!Unlisted, P!None
  <2> QED
    BY <2>1, <2>3, StillUnlisted
<1>12. ASSUME NEW r \in netP, P!GotTree(r) \/ P!GotKids(r)
       PROVE  P!ListFollows'
  BY <1>12, PlainSameList DEF P!GotTree, P!GotKids
<1>13. ASSUME NEW r \in netP, P!GotScan(r)
       PROVE  P!ListFollows'
  <2>1. r.kind = "scan" /\ r.got # P!Blank /\ r.ok /\ netP' = netP \ {r}
    BY <1>0, <1>13 DEF P!GotScan, P!Answered, P!Queue
  <2>2. /\ UNCHANGED <<srvP, input, picked, button, writes>> /\ localDir' = r.dir
        /\ \E ps \in SUBSET PagePaths : entries' = [repo |-> r.got, dir |-> r.dir, paths |-> ps]
        /\ listedP' = listedP \cup ({entries'.repo} \X {entries'.dir} \X entries'.paths)
    BY <1>13, <2>1 DEF P!GotScan
  <2>3. r.dir = input /\ r.got = srvP
    BY <2>1 DEF P!ListFollows
  <2>4. \A p \in entries'.paths : <<srvP, input, p>> \in listedP'
    <3>1. entries'.repo = srvP /\ entries'.dir = input
      BY <2>2, <2>3
    <3> QED
      BY <2>2, <3>1
  <2>5. ~P!Unlisted
    BY <2>1 DEF P!Unlisted, P!None
  <2>6. P!None({"select", "discover"})' /\ input' # P!Blank
    BY <2>1, <2>2, <2>5 DEF P!ListFollows, P!None
  <2>7. (P!Drawn' => P!Drawn)
    BY <2>1, <2>2 DEF P!Drawn, P!None
  <2>8. P!Drawn' => <<srvP', localDir', picked'>> \in listedP'
    BY <2>2, <2>3, <2>7 DEF P!ListFollows
  <2>9. listedP \subseteq listedP'
    BY <2>2
  <2>10. \A q \in netP' : q.kind = "merge" => \A p \in q.paths : <<srvP', q.dir, p>> \in listedP'
    BY <2>1, <2>2, <2>9 DEF P!ListFollows
  <2>11. P!MergesListed'
    BY <2>2, <2>9 DEF P!ListFollows, P!MergesListed
  <2>12. \A q \in netP' : q.kind = "scan" => q.dir = input' /\ (q.got # P!Blank => q.got = srvP')
    BY <2>1, <2>2 DEF P!ListFollows
  <2> QED
    BY <2>2, <2>3, <2>4, <2>6, <2>8, <2>10, <2>11, <2>12 DEF P!ListFollows
<1>14. ASSUME NEW r \in netP, P!GotFile(r)
       PROVE  P!ListFollows'
  <2>1. r.kind = "file" /\ netP' = netP \ {r} /\ UNCHANGED <<srvP, input, localDir, entries, picked, listedP, writes>>
    BY <1>14 DEF P!GotFile, P!Answered
  <2>2. P!Drawn /\ ~P!Unlisted
    BY <2>1 DEF P!Drawn, P!Unlisted, P!None
  <2>3. P!None({"select", "discover"})' /\ input' # P!Blank
    BY <2>1, <2>2 DEF P!ListFollows, P!None
  <2> QED
    BY <2>1, <2>2, <2>3 DEF P!ListFollows, P!MergesListed
<1>15. ASSUME NEW r \in netP, P!GotMerge(r)
       PROVE  P!ListFollows'
  <2>1. /\ r.kind = "merge" /\ netP' = netP \ {r} /\ UNCHANGED <<srvP, input, localDir, picked, listedP, writes>>
        /\ entries' = entries \/ entries' = [entries EXCEPT !.paths = @ \ r.paths]
        /\ UNCHANGED button \/ button' = FALSE
    BY <1>15 DEF P!GotMerge, P!Answered
  <2>2. entries'.paths \subseteq entries.paths
    BY <1>0, <2>1 DEF P!Form
  <2>3. ~P!Unlisted
    BY <2>1 DEF P!Unlisted, P!None
  <2>4. P!None({"select", "discover"})' /\ input' # P!Blank
    BY <2>1, <2>3 DEF P!ListFollows, P!None
  <2>5. (P!Drawn' => P!Drawn) /\ ~P!None({"merge"})
    BY <2>1 DEF P!Drawn, P!None
  <2> QED
    BY <2>1, <2>2, <2>4, <2>5 DEF P!ListFollows, P!MergesListed
<1>16. CASE UNCHANGED P!vars
  BY <1>16, PlainSameList DEF P!vars, P!page
<1> QED
  BY <1>1, <1>2, <1>3, <1>4, <1>5, <1>6, <1>7, <1>8, <1>9, <1>10, <1>11, <1>12, <1>13, <1>14, <1>15, <1>16
     DEF P!PageNext, P!User, P!Answers

H == INSTANCE Clash WITH Ips <- RouteIps, Devices <- RouteDevices, Paths <- RouteFiles,
       Defaults <- RouteDefaults, Own <- OwnFiles \X OwnIps, Settled <- RouteUsual,
       Fixed <- RouteUsual, Sound <- RouteUsual, Alone <- RouteUsual,
       MaxCalls <- RouteCalls, net <- netH, sent <- sentH, jobs <- jobsH,
       asked <- askedH

(***************************************************************************)
(* What the panel of the addresses keeps: its list and its path, what can be*)
(* undone, its generation.                                                 *)
(***************************************************************************)
\* The list and the path.
LEMMA InitList ==
  ASSUME H!Init
  PROVE  H!NothingFills
BY DEF H!Init, H!NothingFills

\* What is loaded by itself.
LEMMA LoadedIs ==
  ASSUME NEW n, NEW p, NEW r \in H!Loaded(n, p)
  PROVE  r.kind \in {"defaults", "ifaces", "probe"} /\ r.path = p
BY DEF H!Loaded

LEMMA SameList ==
  ASSUME H!NothingFills, UNCHANGED <<ips, cfgPath, mine, named>>,
         \A r \in netH' : r \in netH \/ r.kind \notin {"defaults", "probe"}
  PROVE  H!NothingFills'
BY DEF H!NothingFills

\* All is loaded again, for a path that is not the empty one, or was not named.
LEMMA LoadingList ==
  ASSUME H!NothingFills, NEW p, NEW rest, rest \subseteq netH, H!SetPath(p, rest),
         mine = H!NoList, UNCHANGED <<ips, mine>>,
         named' = "?" \/ (named' = p /\ p # H!Blank /\ \A r \in rest : r.kind = "probe" => r.path # H!Blank)
  PROVE  H!NothingFills'
<1>1. cfgPath' = p
  BY DEF H!SetPath
<1>2. \A r \in netH' : r \in rest \/ r.path = p
  BY LoadedIs DEF H!SetPath
<1> QED
  BY <1>1, <1>2 DEF H!NothingFills

LEMMA AskList ==
  ASSUME H!NothingFills, NEW kind \in {"generate", "probe", "ifaces"}, H!Asks(kind),
         kind = "probe" => cfgPath # H!Blank \/ mine = H!NoList
  PROVE  H!NothingFills'
<1> DEFINE q == [n |-> sentH + 1, kind |-> kind, path |-> cfgPath, ips |-> ips]
<1>1. netH' = netH \cup {q} /\ UNCHANGED <<ips, cfgPath, mine, named>>
  BY DEF H!Asks, H!form
<1>2. q.kind = kind /\ q.path = cfgPath
  OBVIOUS
<1> HIDE DEF q
<1> QED
  BY <1>1, <1>2 DEF H!NothingFills

LEMMA NextList ==
  ASSUME RouteUsual, H!NothingFills, [H!Next]_(H!vars)
  PROVE  H!NothingFills'
<1>1. ASSUME NEW I, H!EditIps(I)
      PROVE  H!NothingFills'
  BY <1>1 DEF H!EditIps, H!Ready, H!NothingFills, H!calls
<1>2. ASSUME NEW d \in RouteDevices, H!PickLan(d)
      PROVE  H!NothingFills'
  BY <1>2, SameList DEF H!PickLan, H!calls, H!said
<1>3. ASSUME NEW p, H!EditPath(p)
      PROVE  H!NothingFills'
  <2>1. netH = {} /\ mine = H!NoList /\ p # H!Blank /\ H!SetPath(p, netH) /\ named' = p /\ UNCHANGED <<ips, mine>>
    BY <1>3 DEF H!EditPath, H!Ready
  <2> QED
    BY <2>1, LoadingList
<1>4. CASE H!DoGenerate \/ H!Reprobe \/ H!Redetect
  BY <1>4, AskList DEF H!DoGenerate, H!Reprobe, H!Redetect
<1>5. CASE H!SetLocale
  <2>1. mine = H!NoList /\ UNCHANGED <<ips, cfgPath, mine, named>> /\ netH' = netH \cup H!Loaded(sentH + 1, cfgPath)
    BY <1>5 DEF H!SetLocale, H!form, H!said
  <2>2. \A r \in netH' : r \in netH \/ r.path = cfgPath
    BY <2>1, LoadedIs
  <2> QED
    BY <2>1, <2>2 DEF H!NothingFills
<1>6. CASE H!DoApply \/ H!DoRevert \/ H!DoPatchAll
  BY <1>6, SameList DEF H!DoApply, H!DoRevert, H!DoPatchAll, H!Sends, H!form, H!calls, H!said
<1>7. ASSUME NEW j \in jobsH, H!Confirm(j) \/ H!Cancel(j) \/ H!AddRoutes(j) \/ H!Refuse(j) \/ H!DropRoutes(j)
      PROVE  H!NothingFills'
  BY <1>7, SameList DEF H!Confirm, H!Cancel, H!AddRoutes, H!Refuse, H!DropRoutes, H!form, H!calls, H!said
<1>8. ASSUME NEW j \in jobsH, H!ReadFile(j) \/ H!WriteFile(j) \/ H!Answer(j)
      PROVE  H!NothingFills'
  BY <1>8, SameList DEF H!ReadFile, H!WriteFile, H!Answer, H!form, H!calls, H!said
<1>9. ASSUME NEW r \in netH, H!GotDefaults(r)
      PROVE  H!NothingFills'
  <2>1. mine = H!NoList /\ UNCHANGED <<cfgPath, mine, named>> /\ netH' \subseteq netH
    BY <1>9 DEF H!GotDefaults, H!NothingFills, H!said
  <2> QED
    BY <2>1 DEF H!NothingFills
<1>10. ASSUME NEW r \in netH, H!GotIfaces(r) \/ H!GotGenerate(r) \/ H!NoAnswer(r)
       PROVE  H!NothingFills'
  BY <1>10, SameList DEF H!GotIfaces, H!GotGenerate, H!NoAnswer, H!form, H!said
<1>11. ASSUME NEW r \in netH, H!GotProbe(r)
       PROVE  H!NothingFills'
  <2>1. r.kind = "probe" /\ UNCHANGED <<ips, mine, named>>
    BY <1>11 DEF H!GotProbe, H!said
  <2>2. CASE r.path = H!Blank /\ \E p \in RouteFiles : H!SetPath(p, netH \ {r})
    <3>1. mine = H!NoList /\ named = "?"
      BY <2>1, <2>2 DEF H!NothingFills
    <3> QED
      BY <2>1, <3>1 DEF H!NothingFills
  <2>3. CASE H!SetPath(cfgPath, netH \ {r})
    BY <2>1, <2>3, SameList DEF H!SetPath
  <2> QED
    BY <1>11, <2>2, <2>3 DEF H!GotProbe
<1>12. CASE UNCHANGED H!vars
  BY <1>12, SameList DEF H!vars, H!form, H!calls, H!said
<1> QED
  BY <1>1, <1>2, <1>3, <1>4, <1>5, <1>6, <1>7, <1>8, <1>9, <1>10, <1>11, <1>12
  DEF H!Next, H!User, H!Dialog, H!Answers, H!Threads, H!AddIp, H!RemoveIp, H!RestoreDefaults

\* What was applied can be undone.
LEMMA InitUndoable ==
  ASSUME H!Apart, H!Init
  PROVE  H!Undoable
<1>1. /\ ips = {} /\ defaultIps = {} /\ lanDevice = H!Blank /\ cfgPath = H!Blank /\ applied = FALSE
      /\ jobsH = {} /\ marks = {} /\ made = {} /\ mine = H!NoList
  BY DEF H!Init
<1> QED
  BY <1>1 DEF H!Undoable, H!Shapes, H!InPlace, H!OfForm, H!UndoneWhole

LEMMA OneJob ==
  ASSUME H!Undoable, NEW j \in jobsH
  PROVE  jobsH = {j} /\ j \in H!Jobs /\ H!Stage(j)
BY DEF H!Undoable, H!Stage, H!Shapes

\* While something is made, the form has what it was made of.
LEMMA FormIsThere ==
  ASSUME H!Undoable, made # {} \/ applied \/ \E j \in jobsH : j.op = "apply"
  PROVE  lanDevice # H!Blank /\ ips # {}
<1>1. CASE applied \/ \E j \in jobsH : j.op = "apply"
  BY <1>1 DEF H!Undoable, H!Stage
<1>2. CASE made # {} /\ ~applied
  <2>1. PICK j : j \in jobsH
    BY <1>2 DEF H!Undoable, H!UndoneWhole
  <2>2. j.op \in {"apply", "revert", "patch"} /\ H!Stage(j)
    BY <2>1, OneJob DEF H!Jobs
  <2>3. j.op = "apply"
    BY <1>2, <2>2 DEF H!Stage
  <2> QED
    BY <2>1, <2>3 DEF H!Undoable, H!Stage
<1> QED
  BY <1>1, <1>2

\* Nothing is made or asked for: the form is free.
LEMMA FreeForm ==
  ASSUME H!Undoable, jobsH = {}, ~applied, UNCHANGED <<jobsH, applied, made, marks>>,
         ips' \subseteq RouteIps, defaultIps' \subseteq RouteIps, lanDevice' \in RouteDevices \cup {H!Blank},
         cfgPath' \in RouteFiles \cup {H!Blank, "gone"},
         mine' = H!NoList => mine = H!NoList /\ ips' = ips
  PROVE  H!Undoable'
<1>1. made = {} /\ made' = {} /\ jobsH' = {} /\ ~applied'
  BY DEF H!Undoable, H!UndoneWhole
<1>2. H!Shapes' /\ H!InPlace' /\ H!OfForm' /\ H!UndoneWhole'
  BY <1>1 DEF H!Undoable, H!Shapes, H!InPlace, H!OfForm, H!UndoneWhole
<1>3. mine' = H!NoList => ips' \in {{}, RouteDefaults}
  BY DEF H!Undoable
<1> QED
  BY <1>1, <1>2, <1>3 DEF H!Undoable

\* The form stays as it is, as far as it holds anything.
LEMMA SameForm ==
  ASSUME H!Apart, H!Undoable, UNCHANGED <<jobsH, applied, made, marks, routes, mine>>,
         defaultIps' \subseteq RouteIps, cfgPath' = cfgPath,
         ips' = ips \/ (mine = H!NoList /\ ips' = RouteDefaults /\ RouteDefaults # {}),
         lanDevice' = lanDevice \/ (lanDevice = H!Blank /\ lanDevice' \in RouteDevices),
         \A r \in netH' : r \in netH \/ r.kind # "probe" \/ r.path = cfgPath
  PROVE  H!Undoable'
<1>1. made # {} \/ applied \/ (\E j \in jobsH : j.op = "apply") => lanDevice' = lanDevice /\ ips' = ips
  BY FormIsThere DEF H!Undoable
<1>2. H!Shapes'
  BY DEF H!Apart, H!Undoable, H!Shapes
<1>3. H!InPlace' /\ H!OfForm' /\ H!UndoneWhole'
  BY <1>1 DEF H!Undoable, H!InPlace, H!OfForm, H!UndoneWhole
<1>4. ASSUME NEW j \in jobsH
      PROVE  H!Stage(j)'
  BY <1>1, <1>4 DEF H!Undoable, H!Stage, H!RulesIn
<1>5. /\ mine' = H!NoList => ips' \in {{}, RouteDefaults}
      /\ jobsH' # {} \/ applied' => ips' # {}
      /\ applied' => lanDevice' # H!Blank
  BY <1>1 DEF H!Undoable
<1>6. ASSUME NEW r \in netH', r.kind = "probe", r.path = H!Blank
      PROVE  /\ \A m \in made' : m[1] \in RouteDevices
             /\ \A j \in jobsH' : j.op = "apply" => j.files = {}
  <2>1. CASE r \in netH
    BY <1>6, <2>1 DEF H!Undoable
  <2>2. CASE cfgPath = H!Blank
    <3>1. \A m \in made : m[1] \in RouteDevices
      BY <2>2 DEF H!Undoable, H!Shapes, H!OfForm, H!Apart
    <3>2. \A j \in jobsH : j.op = "apply" => j.files = {}
      BY <2>2 DEF H!Undoable, H!Stage, H!Apart
    <3> QED
      BY <3>1, <3>2
  <2> QED
    BY <1>6, <2>1, <2>2
<1> QED
  BY <1>2, <1>3, <1>4, <1>5, <1>6 DEF H!Undoable

\* What the user does to the form.
LEMMA UserKeepsForm ==
  ASSUME RouteUsual, H!Apart, H!Undoable,
         \/ \E i \in RouteIps : H!AddIp(i) \/ H!RemoveIp(i)
         \/ H!RestoreDefaults
         \/ \E d \in RouteDevices : H!PickLan(d)
         \/ \E p \in RouteFiles \cup {H!Blank, "gone"} : H!EditPath(p)
  PROVE  H!Undoable'
<1>0. /\ ips \subseteq RouteIps /\ defaultIps \subseteq RouteIps /\ lanDevice \in RouteDevices \cup {H!Blank}
      /\ cfgPath \in RouteFiles \cup {H!Blank, "gone"}
  BY DEF H!Undoable, H!Shapes
<1>1. ASSUME NEW I \in SUBSET RouteIps, H!EditIps(I)
      PROVE  H!Undoable'
  <2>1. /\ jobsH = {} /\ ~applied /\ ips' = I /\ mine' = I /\ UNCHANGED <<jobsH, applied, made, marks>>
        /\ UNCHANGED <<defaultIps, lanDevice, cfgPath>>
    BY <1>1 DEF H!EditIps, H!Free, H!flags, H!machine
  <2>2. mine' # H!NoList
    BY <2>1 DEF H!Apart, H!NoList
  <2> QED
    BY <1>0, <2>1, <2>2, FreeForm
<1>2. ASSUME NEW d \in RouteDevices, H!PickLan(d)
      PROVE  H!Undoable'
  <2>1. /\ jobsH = {} /\ ~applied /\ lanDevice' = d /\ UNCHANGED <<jobsH, applied, made, marks>>
        /\ UNCHANGED <<ips, defaultIps, cfgPath, mine>>
    BY <1>2 DEF H!PickLan, H!Free, H!flags, H!machine, H!said
  <2> QED
    BY <1>0, <2>1, FreeForm
<1>3. ASSUME NEW p \in RouteFiles \cup {H!Blank, "gone"}, H!EditPath(p)
      PROVE  H!Undoable'
  <2>1. /\ jobsH = {} /\ ~applied /\ cfgPath' = p /\ UNCHANGED <<jobsH, applied, made, marks>>
        /\ UNCHANGED <<ips, defaultIps, lanDevice, mine>>
    BY <1>3 DEF H!EditPath, H!SetPath, H!Free, H!flags, H!machine
  <2> QED
    BY <1>0, <2>1, FreeForm
<1> QED
  BY <1>0, <1>1, <1>2, <1>3 DEF H!AddIp, H!RemoveIp, H!RestoreDefaults

\* What the page asks for, and what it is told of the form.
LEMMA RequestsKeepForm ==
  ASSUME H!Apart, H!NothingFills, H!Undoable,
         \/ H!DoGenerate \/ H!Reprobe \/ H!Redetect \/ H!SetLocale
         \/ \E r \in netH : H!GotDefaults(r) \/ H!GotIfaces(r) \/ H!GotGenerate(r) \/ H!NoAnswer(r)
  PROVE  H!Undoable'
<1>0. defaultIps \subseteq RouteIps /\ RouteDefaults \subseteq RouteIps
  BY DEF H!Undoable, H!Shapes, H!Apart
<1>2. ASSUME NEW kind, H!Asks(kind)
      PROVE  H!Undoable'
  <2> DEFINE q == [n |-> sentH + 1, kind |-> kind, path |-> cfgPath, ips |-> ips]
  <2>1. /\ netH' = netH \cup {q} /\ UNCHANGED <<jobsH, applied, made, marks, routes, mine>>
        /\ UNCHANGED <<ips, defaultIps, lanDevice, cfgPath>>
    BY <1>2 DEF H!Asks, H!form, H!flags, H!machine
  <2>2. q.path = cfgPath
    OBVIOUS
  <2> HIDE DEF q
  <2> QED
    BY <1>0, <2>1, <2>2, SameForm
<1>3. CASE H!SetLocale
  <2>1. /\ netH' = netH \cup H!Loaded(sentH + 1, cfgPath) /\ UNCHANGED <<jobsH, applied, made, marks, routes, mine>>
        /\ UNCHANGED <<ips, defaultIps, lanDevice, cfgPath>>
    BY <1>3 DEF H!SetLocale, H!form, H!flags, H!machine, H!said
  <2>2. \A r \in netH' : r \in netH \/ r.path = cfgPath
    BY <2>1, LoadedIs
  <2> QED
    BY <1>0, <2>1, <2>2, SameForm
<1>4. ASSUME NEW r \in netH, H!GotDefaults(r)
      PROVE  H!Undoable'
  <2>1. mine = H!NoList
    BY <1>4 DEF H!GotDefaults, H!NothingFills
  <2>2. /\ netH' = netH \ {r} /\ UNCHANGED <<jobsH, applied, made, marks, routes, mine>> /\ cfgPath' = cfgPath
        /\ \E d \in RouteDevices \cup {H!Blank} : lanDevice' = IF lanDevice = H!Blank THEN d ELSE lanDevice
    BY <1>4 DEF H!GotDefaults, H!flags, H!machine, H!said
  <2>3. defaultIps' \subseteq RouteIps /\ (ips' = ips \/ (ips' = RouteDefaults /\ RouteDefaults # {}))
    BY <1>0, <1>4 DEF H!GotDefaults
  <2>4. lanDevice' = lanDevice \/ (lanDevice = H!Blank /\ lanDevice' \in RouteDevices)
    BY <2>2
  <2> QED
    BY <2>1, <2>2, <2>3, <2>4, SameForm
<1>5. ASSUME NEW r \in netH, H!GotIfaces(r)
      PROVE  H!Undoable'
  <2>1. /\ netH' = netH \ {r} /\ UNCHANGED <<jobsH, applied, made, marks, routes, mine>> /\ UNCHANGED <<ips, cfgPath>>
        /\ \E d \in RouteDevices \cup {H!Blank} : lanDevice' = IF lanDevice = H!Blank THEN d ELSE lanDevice
    BY <1>5 DEF H!GotIfaces, H!flags, H!machine, H!said
  <2>2. defaultIps' \subseteq RouteIps
    BY <1>0, <1>5 DEF H!GotIfaces
  <2>3. lanDevice' = lanDevice \/ (lanDevice = H!Blank /\ lanDevice' \in RouteDevices)
    BY <2>1
  <2> QED
    BY <2>1, <2>2, <2>3, SameForm
<1>6. ASSUME NEW r \in netH, H!GotGenerate(r) \/ H!NoAnswer(r)
      PROVE  H!Undoable'
  <2>1. /\ netH' = netH \ {r} /\ UNCHANGED <<jobsH, applied, made, marks, routes, mine>>
        /\ UNCHANGED <<ips, lanDevice, cfgPath>> /\ defaultIps' \subseteq RouteIps
    BY <1>0, <1>6 DEF H!GotGenerate, H!NoAnswer, H!form, H!flags, H!machine, H!said
  <2>2. \A q \in netH' : q \in netH
    BY <2>1
  <2> QED
    BY <2>1, <2>2, SameForm
<1> QED
  BY <1>2, <1>3, <1>4, <1>5, <1>6 DEF H!DoGenerate, H!Reprobe, H!Redetect

\* A path is proposed: none was there when something was made.
LEMMA ProbeKeepsForm ==
  ASSUME H!Apart, H!Undoable, NEW r \in netH, H!GotProbe(r)
  PROVE  H!Undoable'
<1>1. r.kind = "probe" /\ UNCHANGED <<jobsH, applied, made, marks, routes, mine>>
      /\ ips' = ips /\ defaultIps' = defaultIps /\ lanDevice' = lanDevice
  BY DEF H!GotProbe, H!flags, H!machine, H!said
<1>2. CASE r.path = H!Blank /\ \E p \in RouteFiles : H!SetPath(p, netH \ {r})
  <2>1. cfgPath' \in RouteFiles
    BY <1>2 DEF H!SetPath
  <2>2. (\A m \in made : m[1] \in RouteDevices) /\ \A j \in jobsH : j.op = "apply" => j.files = {}
    BY <1>1, <1>2 DEF H!Undoable
  <2>3. H!Shapes' /\ H!InPlace' /\ H!OfForm' /\ H!UndoneWhole'
    BY <1>1, <2>1, <2>2 DEF H!Undoable, H!Shapes, H!InPlace, H!OfForm, H!UndoneWhole
  <2>4. ASSUME NEW j \in jobsH
        PROVE  H!Stage(j)'
    <3>1. H!Stage(j) /\ (j.op = "apply" => j.files = {})
      BY <2>2 DEF H!Undoable
    <3> QED
      BY <1>1, <3>1 DEF H!Stage, H!RulesIn
  <2> QED
    BY <1>1, <2>2, <2>3, <2>4 DEF H!Undoable
<1>3. CASE H!SetPath(cfgPath, netH \ {r})
  <2>1. cfgPath' = cfgPath /\ netH' = netH \ {r}
    BY <1>3 DEF H!SetPath
  <2>2. defaultIps' \subseteq RouteIps
    BY <1>1 DEF H!Undoable, H!Shapes
  <2> QED
    BY <1>1, <2>1, <2>2, SameForm
<1> QED
  BY <1>2, <1>3 DEF H!GotProbe

\* A job begins: it is the only one.
LEMMA JobBegins ==
  ASSUME H!Undoable, jobsH = {}, NEW k \in H!Jobs, jobsH' = {k}, H!Stage(k)', ips # {}, k.op = "apply" => netH' = {},
         UNCHANGED <<applied, made, marks, routes, mine, netH>>, UNCHANGED <<ips, defaultIps, lanDevice, cfgPath>>
  PROVE  H!Undoable'
<1>1. H!Shapes' /\ H!InPlace' /\ H!OfForm' /\ H!UndoneWhole'
  BY DEF H!Undoable, H!Shapes, H!InPlace, H!OfForm, H!UndoneWhole
<1> QED
  BY <1>1 DEF H!Undoable

LEMMA SendsIs ==
  ASSUME RouteUsual, H!Undoable, H!Writers, NEW op \in {"apply", "revert", "patch"}, NEW at \in {"asked", "read"},
         NEW files \in SUBSET (RouteFiles \cup {"gone"}), H!Sends(op, at, files)
  PROVE  /\ jobsH = {} /\ UNCHANGED <<applied, made, marks, routes, mine, netH>>
         /\ UNCHANGED <<ips, defaultIps, lanDevice, cfgPath>>
         /\ \E k \in H!Jobs : /\ jobsH' = {k} /\ k.op = op /\ k.at = at /\ k.ips = ips
                              /\ k.lan = lanDevice /\ k.files = files
<1> DEFINE k == [op |-> op, at |-> at, ips |-> ips, lan |-> lanDevice, path |-> cfgPath, files |-> files, text |-> {}]
<1>1. k \in H!Jobs
  BY DEF H!Undoable, H!Shapes, H!Jobs
<1>2. k.op = op /\ k.at = at /\ k.ips = ips /\ k.lan = lanDevice /\ k.files = files
  OBVIOUS
<1>3. jobsH = {} /\ jobsH' = jobsH \cup {k}
  BY DEF H!Sends, H!Writers
<1>4. UNCHANGED <<applied, made, marks, routes, mine, netH>> /\ UNCHANGED <<ips, defaultIps, lanDevice, cfgPath>>
  BY DEF H!Sends, H!form, H!calls, H!machine, H!said
<1> HIDE DEF k
<1> QED
  BY <1>1, <1>2, <1>3, <1>4

LEMMA BeginningKeepsForm ==
  ASSUME RouteUsual, H!Apart, H!Undoable, H!DoApply \/ H!DoRevert \/ H!DoPatchAll
  PROVE  H!Undoable'
<1>0. /\ ips \subseteq RouteIps /\ lanDevice \in RouteDevices \cup {H!Blank} /\ cfgPath \in RouteFiles \cup {H!Blank, "gone"}
      /\ made \subseteq (RouteDevices \cup RouteFiles) \X RouteIps
  BY DEF H!Undoable, H!Shapes
<1>1. CASE H!DoApply
  <2>1. {cfgPath} \ {H!Blank} \subseteq {cfgPath} \cap RouteFiles
    BY <1>1 DEF H!DoApply
  <2>2. H!Sends("apply", "asked", {cfgPath} \ {H!Blank}) /\ H!Writers /\ netH = {} /\ ips # {} /\ lanDevice # H!Blank
    BY <1>1 DEF H!DoApply, H!Ready
  <2>3. {cfgPath} \ {H!Blank} \in SUBSET (RouteFiles \cup {"gone"})
    BY <2>1
  <2>4. /\ jobsH = {} /\ UNCHANGED <<applied, made, marks, routes, mine, netH>>
        /\ UNCHANGED <<ips, defaultIps, lanDevice, cfgPath>>
    BY <2>2, <2>3, SendsIs
  <2>5. PICK k \in H!Jobs : /\ jobsH' = {k} /\ k.op = "apply" /\ k.at = "asked" /\ k.ips = ips
                            /\ k.lan = lanDevice /\ k.files = {cfgPath} \ {H!Blank}
    BY <2>2, <2>3, SendsIs
  <2>6. H!Stage(k)'
    BY <2>1, <2>2, <2>4, <2>5 DEF H!Stage, H!Undoable, H!UndoneWhole
  <2> QED
    BY <2>2, <2>4, <2>5, <2>6, JobBegins
<1>2. CASE H!DoRevert
  <2> DEFINE F == {cfgPath} \cap RouteFiles
  <2>1. H!Sends("revert", "asked", F) /\ H!Writers /\ ips # {} /\ applied
    BY <1>2 DEF H!DoRevert
  <2>0. F \in SUBSET (RouteFiles \cup {"gone"}) /\ \A p \in RouteFiles : p = cfgPath => p \in F
    OBVIOUS
  <2> HIDE DEF F
  <2>2. /\ jobsH = {} /\ UNCHANGED <<applied, made, marks, routes, mine, netH>>
        /\ UNCHANGED <<ips, defaultIps, lanDevice, cfgPath>>
        /\ \E k \in H!Jobs : /\ jobsH' = {k} /\ k.op = "revert" /\ k.at = "asked" /\ k.ips = ips
                             /\ k.lan = lanDevice /\ k.files = F
    BY <2>0, <2>1, SendsIs, ZenonT(30)
  <2>3. PICK k \in H!Jobs : /\ jobsH' = {k} /\ k.op = "revert" /\ k.at = "asked" /\ k.ips = ips
                            /\ k.lan = lanDevice /\ k.files = F
    BY <2>2
  <2>4. \A m \in made : m[1] \in k.files \cap RouteFiles \/ (m[1] = k.lan /\ m[2] \in k.ips)
    <3>1. ASSUME NEW m \in made
          PROVE  m[1] \in k.files \cap RouteFiles \/ (m[1] = k.lan /\ m[2] \in k.ips)
      <4>1. m[1] \in RouteDevices \/ m[1] \in RouteFiles
        BY <1>0
      <4>2. CASE m[1] \in RouteDevices
        BY <2>3, <4>2 DEF H!Undoable, H!OfForm
      <4>3. CASE m[1] \in RouteFiles /\ m[1] \notin RouteDevices
        BY <2>0, <2>3, <4>3 DEF H!Undoable, H!OfForm
      <4> QED
        BY <4>1, <4>2, <4>3
    <3> QED
      BY <3>1
  <2>5. H!Stage(k)'
    BY <2>1, <2>2, <2>3, <2>4 DEF H!Stage
  <2> QED
    BY <2>1, <2>2, <2>3, <2>5, JobBegins
<1>3. CASE H!DoPatchAll
  <2>1. H!Sends("patch", "read", RouteFiles) /\ H!Writers /\ ips # {} /\ ~applied
    BY <1>3 DEF H!DoPatchAll
  <2>2. /\ jobsH = {} /\ UNCHANGED <<applied, made, marks, routes, mine, netH>>
        /\ UNCHANGED <<ips, defaultIps, lanDevice, cfgPath>>
    BY <2>1, SendsIs
  <2>3. PICK k \in H!Jobs : jobsH' = {k} /\ k.op = "patch" /\ k.at = "read"
    BY <2>1, SendsIs
  <2>4. H!Stage(k)'
    BY <2>1, <2>2, <2>3 DEF H!Stage, H!Undoable, H!UndoneWhole
  <2> QED
    BY <2>1, <2>2, <2>3, <2>4, JobBegins
<1> QED
  BY <1>1, <1>2, <1>3

\* A job goes on: what it makes is in place and of the form.
LEMMA JobGoesOn ==
  ASSUME H!Undoable, NEW j \in jobsH, NEW k \in H!Jobs, jobsH' = (jobsH \ {j}) \cup {k},
         applied' = applied, mine' = mine, netH' = netH, UNCHANGED <<ips, defaultIps, lanDevice, cfgPath>>,
         marks' \subseteq RouteFiles \X RouteIps, made' \subseteq (RouteDevices \cup RouteFiles) \X RouteIps, H!InPlace', H!OfForm',
         (\A l \in jobsH' : l = k) => H!Stage(k)',
         k.op = j.op, k.op = "apply" => k.files \subseteq j.files,
         \A m \in made' : m \in made \/ m[1] \in RouteDevices \/ (j.op = "apply" /\ j.files # {})
  PROVE  H!Undoable'
<1>1. jobsH = {j} /\ jobsH' = {k}
  BY OneJob
<1>2. H!Stage(k)'
  BY <1>1
<1>3. H!Shapes'
  BY <1>1 DEF H!Undoable, H!Shapes
<1>4. H!UndoneWhole'
  BY <1>1 DEF H!UndoneWhole
<1>5. ASSUME NEW r \in netH', r.kind = "probe", r.path = H!Blank
      PROVE  (\A m \in made' : m[1] \in RouteDevices) /\ (k.op = "apply" => k.files = {})
  BY <1>1, <1>5 DEF H!Undoable
<1> QED
  BY <1>1, <1>2, <1>3, <1>4, <1>5 DEF H!Undoable

\* The question in front of a job.
LEMMA DialogKeepsForm ==
  ASSUME H!Undoable, NEW j \in jobsH, H!Confirm(j) \/ H!Cancel(j) \/ H!Refuse(j)
  PROVE  H!Undoable'
<1>0. j \in H!Jobs /\ H!Stage(j) /\ jobsH = {j}
  BY OneJob
<1>1. CASE H!Confirm(j)
  <2> DEFINE k == [j EXCEPT !.at = "routes"]
  <2>1. k \in H!Jobs /\ k.at = "routes"
    BY <1>0 DEF H!Jobs
  <2>2. /\ k.op = j.op /\ k.files = j.files /\ k.lan = j.lan /\ k.ips = j.ips
    BY <1>0 DEF H!Jobs
  <2>3. /\ jobsH' = (jobsH \ {j}) \cup {k} /\ applied' = applied /\ UNCHANGED <<made, marks, routes, mine, netH>>
        /\ UNCHANGED <<ips, defaultIps, lanDevice, cfgPath>> /\ j.at = "asked"
    BY <1>1 DEF H!Confirm, H!form, H!calls, H!machine, H!said
  <2> HIDE DEF k
  <2>4. H!InPlace' /\ H!OfForm' /\ marks' \subseteq RouteFiles \X RouteIps /\ made' \subseteq (RouteDevices \cup RouteFiles) \X RouteIps
    BY <2>3 DEF H!Undoable, H!Shapes, H!InPlace, H!OfForm
  <2>5. (\A l \in jobsH' : l = k) => H!Stage(k)'
    BY <1>0, <2>1, <2>2, <2>3 DEF H!Stage
  <2> QED
    BY <2>1, <2>2, <2>3, <2>4, <2>5, JobGoesOn
<1>2. CASE H!Cancel(j) \/ H!Refuse(j)
  <2>1. /\ jobsH' = jobsH \ {j} /\ applied' = applied /\ UNCHANGED <<made, marks, routes, mine, netH>>
        /\ UNCHANGED <<ips, defaultIps, lanDevice, cfgPath>>
    BY <1>2 DEF H!Cancel, H!Refuse, H!form, H!flags, H!calls, H!machine, H!said
  <2>2. ~applied => made = {}
    BY <1>0, <1>2 DEF H!Cancel, H!Refuse, H!Stage, H!Jobs
  <2>3. jobsH' = {}
    BY <1>0, <2>1
  <2>4. H!Shapes' /\ H!InPlace' /\ H!OfForm' /\ H!UndoneWhole'
    BY <2>1, <2>2, <2>3 DEF H!Undoable, H!Shapes, H!InPlace, H!OfForm, H!UndoneWhole
  <2> QED
    BY <2>1, <2>3, <2>4 DEF H!Undoable
<1> QED
  BY <1>1, <1>2

\* What the panel makes of the answer.
LEMMA AnswerKeepsForm ==
  ASSUME RouteUsual, H!Undoable, NEW j \in jobsH, H!Answer(j)
  PROVE  H!Undoable'
<1>0. j \in H!Jobs /\ H!Stage(j) /\ jobsH = {j}
  BY OneJob
<1>1. /\ jobsH' = jobsH \ {j} /\ UNCHANGED <<made, marks, routes, mine, netH>>
      /\ UNCHANGED <<ips, defaultIps, lanDevice, cfgPath>> /\ j.at = "read" /\ j.files \cap RouteFiles = {}
  BY DEF H!Answer, H!form, H!calls, H!machine, H!said
<1>2. applied' = IF j.op = "patch" \/ j.files # {} THEN applied ELSE j.op = "apply"
  BY DEF H!Answer
<1>3. ~applied' => made = {}
  <2>1. CASE j.op = "patch"
    BY <1>0, <2>1 DEF H!Stage
  <2>2. CASE j.op = "apply"
    BY <1>0, <1>1, <1>2, <2>2 DEF H!Stage
  <2>3. CASE j.op = "revert"
    BY <1>0, <1>1, <1>2, <2>3 DEF H!Stage
  <2> QED
    BY <1>0, <2>1, <2>2, <2>3 DEF H!Jobs
<1>4. applied' => applied \/ j.op = "apply"
  BY <1>2
<1>5. jobsH' = {} /\ ips # {}
  BY <1>0, <1>1 DEF H!Undoable
<1>6. applied' => lanDevice # H!Blank
  BY <1>0, <1>4 DEF H!Undoable, H!Stage
<1>7. H!Shapes' /\ H!InPlace' /\ H!OfForm' /\ H!UndoneWhole'
  BY <1>1, <1>3, <1>5 DEF H!Undoable, H!Shapes, H!InPlace, H!OfForm, H!UndoneWhole
<1> QED
  BY <1>1, <1>5, <1>6, <1>7 DEF H!Undoable

\* The routes of an application.
LEMMA AddKeepsForm ==
  ASSUME RouteUsual, H!Apart, H!Undoable, NEW j \in jobsH, H!AddRoutes(j)
  PROVE  H!Undoable'
<1> DEFINE k == H!AtFiles(j)
           added == {i \in j.ips : routes[i] = H!Blank}
<1>0. j \in H!Jobs /\ H!Stage(j) /\ jobsH = {j} /\ j.op = "apply"
  BY OneJob DEF H!AddRoutes
<1>1. k \in H!Jobs /\ k.at = "read" /\ k.op = j.op /\ k.files = j.files /\ k.lan = j.lan /\ k.ips = j.ips
  BY <1>0 DEF H!Jobs, H!AtFiles
<1>2. /\ jobsH' = (jobsH \ {j}) \cup {k} /\ applied' = applied /\ UNCHANGED <<marks, mine, netH>>
      /\ UNCHANGED <<ips, defaultIps, lanDevice, cfgPath>>
  BY DEF H!AddRoutes, H!Becomes, H!form, H!flags, H!calls, H!said
<1>3. /\ routes' = [i \in RouteIps |-> IF i \in added THEN j.lan ELSE routes[i]]
      /\ made' = made \cup {<<j.lan, i>> : i \in added}
  BY Zenon DEF H!AddRoutes
<1>4. \A i \in added : i \in ips /\ i \in RouteIps /\ routes[i] = H!Blank
  BY <1>0 DEF H!Stage, H!Jobs
<1>5. j.lan = lanDevice /\ j.lan \in RouteDevices
  BY <1>0 DEF H!Stage, H!Jobs
<1> HIDE DEF k, added
<1>6. ASSUME NEW m \in made'
      PROVE  m \in made \/ (m[1] = j.lan /\ m[2] \in added /\ m = <<j.lan, m[2]>>)
  BY <1>3
<1>7. marks' \subseteq RouteFiles \X RouteIps /\ made' \subseteq (RouteDevices \cup RouteFiles) \X RouteIps
  <2>1. made \subseteq (RouteDevices \cup RouteFiles) \X RouteIps /\ marks \subseteq RouteFiles \X RouteIps
    BY DEF H!Undoable, H!Shapes
  <2>2. \A i \in added : <<j.lan, i>> \in (RouteDevices \cup RouteFiles) \X RouteIps
    BY <1>4, <1>5
  <2> QED
    BY <1>2, <1>3, <2>1, <2>2
<1>8. H!InPlace'
  <2> SUFFICES ASSUME NEW m \in made'
               PROVE  IF m[1] \in RouteDevices THEN routes'[m[2]] = m[1] ELSE m \in marks'
    BY DEF H!InPlace
  <2>1. CASE m \in made
    <3>1. m[2] \in RouteIps /\ IF m[1] \in RouteDevices THEN routes[m[2]] = m[1] ELSE m \in marks
      BY <2>1 DEF H!Undoable, H!Shapes, H!InPlace
    <3>2. CASE m[1] \in RouteDevices
      <4>1. routes[m[2]] # H!Blank
        BY <3>1, <3>2 DEF H!Apart
      <4>2. m[2] \notin added
        BY <1>4, <4>1
      <4> QED
        BY <1>3, <3>1, <3>2, <4>2
    <3>3. CASE m[1] \notin RouteDevices
      BY <1>2, <3>1, <3>3
    <3> QED
      BY <3>2, <3>3
  <2>2. CASE m[1] = j.lan /\ m[2] \in added
    BY <1>3, <1>4, <1>5, <2>2
  <2> QED
    BY <1>6, <2>1, <2>2
<1>9. H!OfForm'
  BY <1>2, <1>4, <1>5, <1>6 DEF H!Undoable, H!OfForm
<1>10. (\A l \in jobsH' : l = k) => H!Stage(k)'
  BY <1>0, <1>1, <1>2 DEF H!Stage
<1>11. \A m \in made' : m \in made \/ m[1] \in RouteDevices
  BY <1>5, <1>6
<1> QED
  BY <1>1, <1>2, <1>7, <1>8, <1>9, <1>10, <1>11, JobGoesOn

\* The routes of an undoing.
LEMMA DropKeepsForm ==
  ASSUME RouteUsual, H!Apart, H!Undoable, NEW j \in jobsH, H!DropRoutes(j)
  PROVE  H!Undoable'
<1> DEFINE k == H!AtFiles(j)
           gone == {i \in j.ips : routes[i] = j.lan}
<1>0. j \in H!Jobs /\ H!Stage(j) /\ jobsH = {j} /\ j.op = "revert" /\ j.at = "routes"
  BY OneJob DEF H!DropRoutes
<1>1. k \in H!Jobs /\ k.at = "read" /\ k.op = j.op /\ k.files = j.files /\ k.lan = j.lan /\ k.ips = j.ips
  BY <1>0 DEF H!Jobs, H!AtFiles
<1>2. /\ jobsH' = (jobsH \ {j}) \cup {k} /\ applied' = applied /\ UNCHANGED <<marks, mine, netH>>
      /\ UNCHANGED <<ips, defaultIps, lanDevice, cfgPath>>
  BY DEF H!DropRoutes, H!Becomes, H!form, H!flags, H!calls, H!said
<1>3. /\ routes' = [i \in RouteIps |-> IF i \in gone THEN H!Blank ELSE routes[i]]
      /\ made' = made \ {<<j.lan, i>> : i \in gone}
  BY Zenon DEF H!DropRoutes
<1>4. \A i : i \in gone <=> i \in j.ips /\ routes[i] = j.lan
  OBVIOUS
<1>5. j.lan \in RouteDevices \cup {H!Blank}
  BY <1>0 DEF H!Jobs
<1> HIDE DEF k, gone
<1>6. made' \subseteq made
  BY <1>3
<1>7. ASSUME NEW m \in made'
      PROVE  /\ m \in made /\ m[2] \in RouteIps /\ m[1] \in RouteDevices \cup RouteFiles
             /\ (m[1] \in RouteDevices => routes[m[2]] = m[1]) /\ (m[1] \notin RouteDevices => m \in marks)
             /\ ~(m[1] = j.lan /\ m[2] \in gone)
  <2>1. m \in made /\ m \in (RouteDevices \cup RouteFiles) \X RouteIps
    BY <1>6 DEF H!Undoable, H!Shapes
  <2>2. m = <<m[1], m[2]>> /\ m[2] \in RouteIps /\ m[1] \in RouteDevices \cup RouteFiles
    BY <2>1
  <2>3. (m[1] \in RouteDevices => routes[m[2]] = m[1]) /\ (m[1] \notin RouteDevices => m \in marks)
    BY <2>1 DEF H!Undoable, H!InPlace
  <2>4. ~(m[1] = j.lan /\ m[2] \in gone)
    BY <1>3, <2>2
  <2> QED
    BY <2>1, <2>2, <2>3, <2>4
<1>8. marks' \subseteq RouteFiles \X RouteIps /\ made' \subseteq (RouteDevices \cup RouteFiles) \X RouteIps
  BY <1>2, <1>6 DEF H!Undoable, H!Shapes
<1>9. H!InPlace'
  <2> SUFFICES ASSUME NEW m \in made'
               PROVE  IF m[1] \in RouteDevices THEN routes'[m[2]] = m[1] ELSE m \in marks'
    BY DEF H!InPlace
  <2>1. CASE m[1] \in RouteDevices
    <3>1. m[2] \notin gone /\ m[2] \in RouteIps /\ routes[m[2]] = m[1]
      BY <1>4, <1>7, <2>1
    <3> QED
      BY <1>3, <2>1, <3>1
  <2>2. CASE m[1] \notin RouteDevices
    BY <1>2, <1>7, <2>2
  <2> QED
    BY <2>1, <2>2
<1>10. H!OfForm'
  BY <1>2, <1>6 DEF H!Undoable, H!OfForm
<1>11. ASSUME NEW m \in made'
       PROVE  m[1] \in k.files \cap RouteFiles
  <2>1. m[1] \in j.files \cap RouteFiles \/ (m[1] = j.lan /\ m[2] \in j.ips)
    BY <1>0, <1>7 DEF H!Stage
  <2>2. CASE m[1] = j.lan /\ m[2] \in j.ips
    <3>1. m[1] \in RouteDevices
      BY <1>5, <1>7, <2>2 DEF H!Apart
    <3>2. m[2] \in gone
      BY <1>4, <1>7, <2>2, <3>1
    <3> QED
      BY <1>7, <2>2, <3>2
  <2> QED
    BY <1>1, <2>1, <2>2
<1>12. (\A l \in jobsH' : l = k) => H!Stage(k)'
  BY <1>0, <1>1, <1>2, <1>11 DEF H!Stage
<1> QED
  BY <1>1, <1>2, <1>6, <1>8, <1>9, <1>10, <1>12, JobGoesOn

\* A configuration is read.
LEMMA ReadKeepsForm ==
  ASSUME H!Undoable, NEW j \in jobsH, H!ReadFile(j)
  PROVE  H!Undoable'
<1>0. j \in H!Jobs /\ H!Stage(j) /\ jobsH = {j} /\ j.at = "read"
  BY OneJob DEF H!ReadFile
<1>1. /\ applied' = applied /\ UNCHANGED <<marks, made, routes, mine, netH>>
      /\ UNCHANGED <<ips, defaultIps, lanDevice, cfgPath>>
  BY DEF H!ReadFile, H!form, H!flags, H!calls, H!machine, H!said
<1>2. PICK p \in j.files \cap RouteFiles, k \in H!Jobs :
        /\ k.at = "write" /\ k.op = j.op /\ k.files = j.files /\ k.lan = j.lan /\ k.ips = j.ips
        /\ k.path = p /\ k.text = H!RulesIn(p) /\ jobsH' = (jobsH \ {j}) \cup {k}
  <2>1. PICK p \in j.files \cap RouteFiles : jobsH' = (jobsH \ {j}) \cup {[j EXCEPT !.at = "write", !.path = p, !.text = H!RulesIn(p)]}
    BY DEF H!ReadFile, H!Becomes
  <2> DEFINE k == [j EXCEPT !.at = "write", !.path = p, !.text = H!RulesIn(p)]
  <2>2. H!RulesIn(p) \in SUBSET (RouteFiles \X RouteIps)
    BY DEF H!RulesIn, H!Undoable, H!Shapes
  <2>3. /\ k \in H!Jobs /\ k.at = "write" /\ k.op = j.op /\ k.files = j.files /\ k.lan = j.lan /\ k.ips = j.ips
        /\ k.path = p /\ k.text = H!RulesIn(p)
    BY <1>0, <2>2 DEF H!Jobs
  <2>4. jobsH' = (jobsH \ {j}) \cup {k}
    BY <2>1
  <2> HIDE DEF k
  <2> QED
    BY <2>3, <2>4
<1>3. H!InPlace' /\ H!OfForm' /\ marks' \subseteq RouteFiles \X RouteIps /\ made' \subseteq (RouteDevices \cup RouteFiles) \X RouteIps
  BY <1>1 DEF H!Undoable, H!Shapes, H!InPlace, H!OfForm
<1>4. k.text = {m \in marks' : m[1] = k.path} /\ k.path \in k.files \cap RouteFiles
  BY <1>1, <1>2 DEF H!RulesIn
<1>5. (\A l \in jobsH' : l = k) => H!Stage(k)'
  BY <1>0, <1>1, <1>2, <1>4 DEF H!Stage, H!RulesIn
<1> QED
  BY <1>1, <1>2, <1>3, <1>5, JobGoesOn

\* What is put into a configuration that still has the text that was read.
LEMMA PutsIs ==
  ASSUME NEW j, NEW new, j.text = H!RulesIn(j.path), H!Puts(j, new), \A m \in new : m[1] = j.path
  PROVE  /\ marks' = (marks \ H!RulesIn(j.path)) \cup new
         /\ j.op # "apply" => made' = made \ (H!RulesIn(j.path) \ new)
         /\ j.op = "apply" => made' = (made \ (H!RulesIn(j.path) \ new)) \cup (new \ H!RulesIn(j.path))
<1>1. j.text \subseteq marks
  BY DEF H!RulesIn
<1>2. new \cap (j.text \ marks) = {}
  BY <1>1
<1> QED
  BY <1>2 DEF H!Puts

\* A configuration is written.
LEMMA WriteKeepsForm ==
  ASSUME RouteUsual, H!Apart, H!Undoable, NEW j \in jobsH, H!WriteFile(j)
  PROVE  H!Undoable'
<1> DEFINE k == [j EXCEPT !.at = "read", !.files = @ \ {j.path}, !.text = {}]
           new == {<<j.path, i>> : i \in j.ips} \ (j.text \cup OwnFiles \X OwnIps)
<1>0. j \in H!Jobs /\ H!Stage(j) /\ jobsH = {j} /\ j.at = "write"
  BY OneJob DEF H!WriteFile
<1>1. /\ k \in H!Jobs /\ k.at = "read" /\ k.op = j.op /\ k.files = j.files \ {j.path} /\ k.lan = j.lan /\ k.ips = j.ips
  BY <1>0 DEF H!Jobs
<1>2. /\ jobsH' = (jobsH \ {j}) \cup {k} /\ applied' = applied /\ UNCHANGED <<routes, mine, netH>>
      /\ UNCHANGED <<ips, defaultIps, lanDevice, cfgPath>>
  BY DEF H!WriteFile, H!Becomes, H!form, H!flags, H!calls, H!said
<1>3. j.text = H!RulesIn(j.path) /\ j.path \in j.files \cap RouteFiles /\ j.ips \subseteq RouteIps
  BY <1>0 DEF H!Stage, H!Jobs
<1>4. /\ made \subseteq (RouteDevices \cup RouteFiles) \X RouteIps /\ marks \subseteq RouteFiles \X RouteIps /\ H!InPlace /\ H!OfForm
  BY DEF H!Undoable, H!Shapes
<1>5. \/ j.op = "revert" /\ H!Puts(j, {})
      \/ j.op # "revert" /\ (H!Puts(j, j.text \cup new) \/ H!Puts(j, j.text))
      \/ (j.op = "revert" => j.text = {}) /\ UNCHANGED <<marks, made>>
  BY DEF H!WriteFile
<1>6. \A m \in new : m[1] = j.path /\ m[2] \in j.ips /\ m \notin j.text /\ m \in RouteFiles \X RouteIps
  BY <1>3
<1>7. \A m \in H!RulesIn(j.path) : m \in marks /\ m[1] = j.path
  BY DEF H!RulesIn
<1>8. \A m \in made : m[1] = j.path => m \in H!RulesIn(j.path)
  BY <1>3, <1>4 DEF H!InPlace, H!RulesIn, H!Apart
<1> HIDE DEF k, new
<1>9. /\ marks' \subseteq RouteFiles \X RouteIps /\ \A m \in marks : m \in marks' \/ (j.op = "revert" /\ m[1] = j.path)
      /\ \A m \in made' : \/ m \in made /\ (j.op = "revert" => m[1] # j.path)
                          \/ j.op = "apply" /\ m \in new /\ m \in marks'
  <2>1. CASE j.op = "revert" /\ H!Puts(j, {})
    <3>1. marks' = marks \ H!RulesIn(j.path) /\ made' = made \ H!RulesIn(j.path)
      BY <1>3, <2>1, PutsIs
    <3> QED
      BY <1>4, <1>7, <1>8, <2>1, <3>1
  <2>2. CASE j.op # "revert" /\ H!Puts(j, j.text \cup new)
    <3>1. \A m \in j.text \cup new : m[1] = j.path
      BY <1>3, <1>6, <1>7
    <3>2. /\ marks' = (marks \ H!RulesIn(j.path)) \cup (j.text \cup new)
          /\ j.op # "apply" => made' = made \ (H!RulesIn(j.path) \ (j.text \cup new))
          /\ j.op = "apply" => made' = (made \ (H!RulesIn(j.path) \ (j.text \cup new))) \cup ((j.text \cup new) \ H!RulesIn(j.path))
      BY <1>3, <2>2, <3>1, PutsIs
    <3>3. marks' = marks \cup new
      BY <1>3, <1>7, <3>2
    <3>4. H!RulesIn(j.path) \ (j.text \cup new) = {} /\ (j.text \cup new) \ H!RulesIn(j.path) \subseteq new
      BY <1>3
    <3>5. made' \subseteq made \cup new /\ (j.op # "apply" => made' \subseteq made)
      BY <3>2, <3>4
    <3> QED
      BY <1>4, <1>6, <2>2, <3>3, <3>5
  <2>3. CASE j.op # "revert" /\ H!Puts(j, j.text)
    <3>1. \A m \in j.text : m[1] = j.path
      BY <1>3, <1>7
    <3>2. /\ marks' = (marks \ H!RulesIn(j.path)) \cup j.text
          /\ j.op # "apply" => made' = made \ (H!RulesIn(j.path) \ j.text)
          /\ j.op = "apply" => made' = (made \ (H!RulesIn(j.path) \ j.text)) \cup (j.text \ H!RulesIn(j.path))
      BY <1>3, <2>3, <3>1, PutsIs
    <3>3. marks' = marks
      BY <1>3, <1>7, <3>2
    <3>4. made' \subseteq made
      BY <1>3, <3>2
    <3> QED
      BY <1>4, <2>3, <3>3, <3>4
  <2>4. CASE (j.op = "revert" => j.text = {}) /\ UNCHANGED <<marks, made>>
    BY <1>3, <1>4, <1>8, <2>4
  <2> QED
    BY <1>5, <2>1, <2>2, <2>3, <2>4
<1>10. j.op = "apply" => \A m \in new : m[1] \notin RouteDevices /\ m[1] = cfgPath
  BY <1>0, <1>3, <1>6 DEF H!Apart, H!Stage
<1>11. made' \subseteq (RouteDevices \cup RouteFiles) \X RouteIps
  <2>1. \A m \in new : m \in (RouteDevices \cup RouteFiles) \X RouteIps
    BY <1>6
  <2> QED
    BY <1>4, <1>9, <2>1
<1>12. H!InPlace'
  <2> SUFFICES ASSUME NEW m \in made'
               PROVE  IF m[1] \in RouteDevices THEN routes'[m[2]] = m[1] ELSE m \in marks'
    BY DEF H!InPlace
  <2>1. CASE m \in made /\ (j.op = "revert" => m[1] # j.path)
    BY <1>2, <1>4, <1>9, <2>1 DEF H!InPlace
  <2>2. CASE j.op = "apply" /\ m \in new /\ m \in marks'
    BY <1>10, <2>2
  <2> QED
    BY <1>9, <2>1, <2>2
<1>13. H!OfForm'
  <2> SUFFICES ASSUME NEW m \in made'
               PROVE  IF m[1] \in RouteDevices THEN m[1] = lanDevice /\ m[2] \in ips ELSE m[1] = cfgPath
    BY <1>2 DEF H!OfForm
  <2>1. CASE m \in made
    BY <1>4, <2>1 DEF H!OfForm
  <2>2. CASE j.op = "apply" /\ m \in new
    BY <1>10, <2>2
  <2> QED
    BY <1>9, <2>1, <2>2
<1>14. (\A l \in jobsH' : l = k) => H!Stage(k)'
  <2>1. j.op = "patch" => made' = {}
    BY <1>0, <1>9 DEF H!Stage
  <2>2. ASSUME j.op = "revert", NEW m \in made'
        PROVE  applied /\ m[1] \in k.files \cap RouteFiles
    <3>1. m \in made /\ m[1] # j.path
      BY <1>9, <2>2
    <3>2. applied /\ m[1] \in j.files \cap RouteFiles
      BY <1>0, <2>2, <3>1 DEF H!Stage
    <3> QED
      BY <1>1, <3>1, <3>2
  <2>3. j.op = "apply" => k.lan = lanDevice /\ lanDevice # H!Blank /\ k.ips = ips /\ k.files \subseteq {cfgPath} \cap RouteFiles
    BY <1>0, <1>1 DEF H!Stage
  <2>4. j.op = "revert" => applied
    BY <1>0 DEF H!Stage
  <2> QED
    BY <1>1, <1>2, <2>1, <2>2, <2>3, <2>4 DEF H!Stage
<1>15. \A m \in made' : m \in made \/ m[1] \in RouteDevices \/ (j.op = "apply" /\ j.files # {})
  BY <1>3, <1>9
<1>16. k.op = "apply" => k.files \subseteq j.files
  BY <1>1
<1> QED
  BY <1>1, <1>2, <1>9, <1>11, <1>12, <1>13, <1>14, <1>15, <1>16, JobGoesOn

\* What was applied can be undone, whatever is done next.
LEMMA NextUndoable ==
  ASSUME RouteUsual, H!Apart, H!NothingFills, H!Undoable, [H!Next]_(H!vars)
  PROVE  H!Undoable'
<1>1. CASE H!User
  BY <1>1, UserKeepsForm, RequestsKeepForm, BeginningKeepsForm DEF H!User
<1>2. CASE H!Dialog
  BY <1>2, DialogKeepsForm DEF H!Dialog
<1>3. CASE H!Answers
  BY <1>3, RequestsKeepForm, ProbeKeepsForm DEF H!Answers
<1>4. CASE H!Threads
  BY <1>4, AddKeepsForm, DialogKeepsForm, DropKeepsForm, ReadKeepsForm, WriteKeepsForm, AnswerKeepsForm DEF H!Threads
<1>5. CASE UNCHANGED H!vars
  <2>1. UNCHANGED <<jobsH, applied, made, marks, routes, mine>> /\ netH' = netH
        /\ ips' = ips /\ defaultIps' = defaultIps /\ lanDevice' = lanDevice /\ cfgPath' = cfgPath
    BY <1>5 DEF H!vars, H!form, H!flags, H!calls, H!machine, H!said
  <2>2. defaultIps' \subseteq RouteIps
    BY <2>1 DEF H!Undoable, H!Shapes
  <2> QED
    BY <2>1, <2>2, SameForm
<1> QED
  BY <1>1, <1>2, <1>3, <1>4, <1>5 DEF H!Next

LEMMA InitGen ==
  ASSUME H!Init
  PROVE  H!GenFollows
BY DEF H!Init, H!GenFollows, H!GenIsLatest, H!Loaded

LEMMA LoadsAre ==
  ASSUME NEW n, NEW p, NEW r \in H!Loaded(n, p)
  PROVE  r.kind # "generate" /\ r.n = n
BY DEF H!Loaded

\* No commands are asked for, and none come.
LEMMA SameGen ==
  ASSUME H!GenFollows, UNCHANGED <<gen, askedH>>,
         \A r \in netH' : r \in netH \/ r.kind # "generate", \A r \in netH : r.kind = "generate" => r \in netH'
  PROVE  H!GenFollows'
<1>1. (\E r \in netH : r.kind = "generate") => \E r \in netH' : r.kind = "generate"
  OBVIOUS
<1>2. \A r \in netH' : r.kind = "generate" => r \in netH
  OBVIOUS
<1> QED
  BY <1>1, <1>2 DEF H!GenFollows, H!GenIsLatest

LEMMA PathGen ==
  ASSUME H!GenFollows, UNCHANGED <<gen, askedH>>, NEW p, NEW rest \in SUBSET netH, H!SetPath(p, rest),
         \A r \in netH : r.kind = "generate" => r \in rest
  PROVE  H!GenFollows'
<1>1. netH' = rest \/ netH' = rest \cup H!Loaded(sentH + 1, p)
  BY DEF H!SetPath
<1>2. \A r \in netH' : r \in netH \/ r.kind # "generate"
  BY <1>1, LoadsAre
<1> QED
  BY <1>1, <1>2, SameGen

LEMMA NextGen ==
  ASSUME RouteUsual, H!GenFollows, [H!Next]_(H!vars)
  PROVE  H!GenFollows'
<1>1. ASSUME NEW I, H!EditIps(I)
      PROVE  H!GenFollows'
  BY <1>1, SameGen DEF H!EditIps, H!calls
<1>2. ASSUME NEW d, H!PickLan(d)
      PROVE  H!GenFollows'
  BY <1>2, SameGen DEF H!PickLan, H!calls, H!said
<1>3. ASSUME NEW p, H!EditPath(p)
      PROVE  H!GenFollows'
  <2>1. H!SetPath(p, netH) /\ UNCHANGED <<gen, askedH>>
    BY <1>3 DEF H!EditPath
  <2> QED
    BY <2>1, PathGen
<1>4. CASE H!DoGenerate
  <2> DEFINE q == [n |-> sentH + 1, kind |-> "generate", path |-> cfgPath, ips |-> ips]
  <2>1. netH = {} /\ askedH' = sentH + 1 /\ netH' = netH \cup {q}
    BY <1>4 DEF H!DoGenerate, H!Asks
  <2>2. q.kind = "generate" /\ q.n = sentH + 1
    OBVIOUS
  <2> HIDE DEF q
  <2> QED
    BY <2>1, <2>2 DEF H!GenFollows, H!GenIsLatest
<1>5. ASSUME NEW kind \in {"probe", "ifaces"}, H!Asks(kind), askedH' = askedH
      PROVE  H!GenFollows'
  <2> DEFINE q == [n |-> sentH + 1, kind |-> kind, path |-> cfgPath, ips |-> ips]
  <2>1. netH' = netH \cup {q} /\ gen' = gen
    BY <1>5 DEF H!Asks
  <2>2. q.kind # "generate"
    OBVIOUS
  <2> HIDE DEF q
  <2> QED
    BY <1>5, <2>1, <2>2, SameGen
<1>6. CASE H!SetLocale
  <2>1. netH' = netH \cup H!Loaded(sentH + 1, cfgPath) /\ UNCHANGED <<gen, askedH>>
    BY <1>6 DEF H!SetLocale, H!said
  <2> QED
    BY <2>1, LoadsAre, SameGen
<1>7. CASE H!DoApply \/ H!DoRevert \/ H!DoPatchAll
  BY <1>7, SameGen DEF H!DoApply, H!DoRevert, H!DoPatchAll, H!Sends, H!calls, H!said
<1>8. ASSUME NEW j \in jobsH, H!Confirm(j) \/ H!Cancel(j) \/ H!AddRoutes(j) \/ H!Refuse(j) \/ H!DropRoutes(j)
      PROVE  H!GenFollows'
  BY <1>8, SameGen DEF H!Confirm, H!Cancel, H!AddRoutes, H!Refuse, H!DropRoutes, H!calls, H!said
<1>9. ASSUME NEW j \in jobsH, H!ReadFile(j) \/ H!WriteFile(j) \/ H!Answer(j)
      PROVE  H!GenFollows'
  BY <1>9, SameGen DEF H!ReadFile, H!WriteFile, H!Answer, H!calls, H!said
<1>10. ASSUME NEW r \in netH, H!GotDefaults(r) \/ H!GotIfaces(r) \/ H!NoAnswer(r)
       PROVE  H!GenFollows'
  BY <1>10, SameGen DEF H!GotDefaults, H!GotIfaces, H!NoAnswer, H!said
<1>11. ASSUME NEW r \in netH, H!GotProbe(r)
       PROVE  H!GenFollows'
  <2>1. r.kind = "probe" /\ UNCHANGED <<gen, askedH>> /\ \E p : H!SetPath(p, netH \ {r})
    BY <1>11 DEF H!GotProbe, H!said
  <2> QED
    BY <2>1, PathGen
<1>12. ASSUME NEW r \in netH, H!GotGenerate(r)
       PROVE  H!GenFollows'
  <2>1. r.kind = "generate" /\ netH' = netH \ {r} /\ gen' \in {[n |-> r.n], H!NoGen} /\ askedH' = askedH
    BY <1>12 DEF H!GotGenerate, H!said
  <2>2. r.n = askedH
    BY <2>1 DEF H!GenFollows
  <2> QED
    BY <2>1, <2>2 DEF H!GenFollows, H!GenIsLatest
<1>13. CASE UNCHANGED H!vars
  BY <1>13, SameGen DEF H!vars, H!calls, H!said
<1> QED
  BY <1>1, <1>2, <1>3, <1>4, <1>5, <1>6, <1>7, <1>8, <1>9, <1>10, <1>11, <1>12, <1>13
  DEF H!Next, H!User, H!Dialog, H!Answers, H!Threads, H!AddIp, H!RemoveIp, H!RestoreDefaults, H!Reprobe, H!Redetect

W == INSTANCE Workbench WITH Repos <- BenchRepos, Files <- BenchFiles,
       Ordered <- BenchUsual, Prompt <- BenchUsual, Careful <- BenchUsual,
       MaxCalls <- BenchCalls, MaxJobs <- BenchJobs

(***************************************************************************)
(* What the repository tab and the server behind it keep.                  *)
(***************************************************************************)


LEMMA WorkReqIs ==
  ASSUME NEW k, NEW kind, NEW arg
  PROVE  LET q == W!Request(k, kind, arg) IN q.n = sent + k /\ q.kind = kind /\ q.arg = arg /\ q.reply = "pending"
BY DEF W!Request

LEMMA WorkReqForm ==
  ASSUME sent \in Nat, NEW k \in Nat \ {0}, NEW kind \in W!Kinds \cup BenchFiles, NEW arg \in W!Some
  PROVE  W!Request(k, kind, arg) \in W!Calls
<1>1. sent + k \in Nat \ {0}
  OBVIOUS
<1> QED
  BY <1>1 DEF W!Request, W!Calls

LEMMA InitWork == ASSUME W!Apart, W!Init PROVE W!WorkFollows
<1> DEFINE a == [n |-> 1, kind |-> "status", arg |-> W!None, reply |-> "pending"]
           b == [n |-> 2, kind |-> "repos", arg |-> W!None, reply |-> "pending"]
<1>1. /\ a \in W!Calls /\ b \in W!Calls
      /\ a.n = 1 /\ a.kind = "status" /\ a.reply = "pending"
      /\ b.n = 2 /\ b.kind = "repos" /\ b.reply = "pending"
  BY DEF W!Calls, W!Kinds, W!Some
<1>2. net = {a, b} /\ sent = 2
  BY DEF W!Init
<1> HIDE DEF a, b
<1>3. W!Formed
  BY <1>1, <1>2 DEF W!Init, W!Formed, W!Some
<1>4. W!ServerFollows
  BY <1>1, <1>2 DEF W!Init, W!ServerFollows
<1>5. W!NoneYet
  <2>1. b \in net /\ b.kind = "repos"
    BY <1>1, <1>2
  <2> QED
    BY <1>1, <1>2, <2>1 DEF W!Init, W!NoneYet, W!Failure
<1>6. W!TreeFollows
  BY <1>1, <1>2 DEF W!Init, W!TreeFollows
<1>7. W!JobsFollow
  BY <1>1, <1>2 DEF W!Init, W!JobsFollow
<1>8. W!PaneFollows
  <2>1. \A r \in net : r.kind \notin BenchFiles
    BY <1>1, <1>2 DEF W!Apart, W!Kinds
  <2> QED
    BY <2>1 DEF W!Init, W!PaneFollows
<1> QED
  BY <1>3, <1>4, <1>5, <1>6, <1>7, <1>8 DEF W!WorkFollows

LEMMA WorkMeans ==
  ASSUME W!Apart, W!WorkFollows
  PROVE  W!PreviewIsOfFile /\ W!TreeIsOfRepo /\ W!JobIsOfRepo /\ W!Restored
<1> USE DEF W!WorkFollows
<1>1. W!PreviewIsOfFile
  BY DEF W!PreviewIsOfFile, W!PaneFollows
<1>2. W!TreeIsOfRepo
  BY DEF W!TreeIsOfRepo, W!TreeFollows
<1>3. W!JobIsOfRepo
  BY DEF W!JobIsOfRepo, W!JobsFollow
<1>4. W!Restored
  BY DEF W!Restored, W!NoneYet
<1> QED
  BY <1>1, <1>2, <1>3, <1>4

\* What the user does when nothing is on its way.
LEMMA AtRest ==
  ASSUME W!WorkFollows, net = {}
  PROVE  /\ sel = W!None => root = W!None /\ kids = W!None /\ file = W!NoFile /\ jobs = {} /\ status = W!None
         /\ sel # W!None => srv = sel
         /\ root # W!None => root = sel
         /\ kids # W!None => kids = sel
         /\ \A r \in W!Rows \ {W!None} : r = sel
<1> USE DEF W!WorkFollows
<1>1. W!Told
  BY DEF W!Told, W!Pending
<1> QED
  BY <1>1 DEF W!NoneYet, W!ServerFollows, W!TreeFollows, W!Rows

LEMMA OpenStep ==
  ASSUME BenchUsual, W!Apart, W!WorkFollows, NEW r \in BenchRepos, W!OpenRepo(r)
  PROVE  W!WorkFollows'
<1> USE DEF W!WorkFollows
<1> DEFINE s == W!Request(1, "select", r)
           t == W!Request(2, "tree", r)
<1>1. /\ s.n = sent + 1 /\ s.kind = "select" /\ s.arg = r /\ s.reply = "pending"
      /\ t.n = sent + 2 /\ t.kind = "tree" /\ t.arg = r /\ t.reply = "pending"
  BY WorkReqIs
<1>2. sent \in Nat /\ r \in W!Some /\ r # W!None
  BY DEF W!Formed, W!Apart, W!Some
<1>3. s \in W!Calls /\ t \in W!Calls
  BY <1>2, WorkReqForm DEF W!Kinds
<1>4. /\ net = {} /\ kids = W!None /\ jobs = {} /\ sel' = r /\ checked' = W!None /\ file' = W!NoFile /\ token' = 0
      /\ net' = {s} \cup (IF r # sel THEN {t} ELSE {}) /\ sent' = sent + (IF r # sel THEN 2 ELSE 1)
      /\ UNCHANGED <<status, srv, root, kids, jobs>>
  BY DEF W!OpenRepo, W!Unhurried, W!NoTicks, W!PaneCleared, W!Send, W!Asked, W!tree, W!work
<1> HIDE DEF s, t
<1>5. W!Formed'
  BY <1>1, <1>2, <1>3, <1>4 DEF W!Formed, W!Some, W!Calls, W!Kinds
<1>6. W!ServerFollows'
  <2>1. s \in net' /\ s \in W!Pending'
    BY <1>1, <1>4 DEF W!Pending
  <2>2. ~W!Told'
    BY <1>1, <2>1 DEF W!Told
  <2>3. \A q \in net' : q = s \/ q = t
    BY <1>4
  <2> QED
    BY <1>1, <1>2, <1>4, <2>2, <2>3 DEF W!ServerFollows
<1>7. W!NoneYet'
  BY <1>2, <1>4 DEF W!NoneYet
<1>8. W!TreeFollows'
  <2>1. \A q \in net' : q = s \/ q = t
    BY <1>4
  <2>2. root # W!None => root = sel
    BY <1>4, AtRest
  <2>3. r # sel => t \in net'
    BY <1>4
  <2> QED
    BY <1>1, <1>4, <2>1, <2>2, <2>3 DEF W!TreeFollows
<1>9. W!JobsFollow' /\ W!PaneFollows'
  <2>1. \A q \in net' : q = s \/ q = t
    BY <1>4
  <2>2. \A q \in net' : q.n # 0
    BY <1>1, <1>2, <2>1
  <2> QED
    BY <1>1, <1>4, <2>1, <2>2 DEF W!JobsFollow, W!PaneFollows
<1> QED
  BY <1>5, <1>6, <1>7, <1>8, <1>9

\* The other requests of the user, all but those for a preview, are the only ones then.
LEMMA AskStep ==
  ASSUME W!Apart, W!WorkFollows, net = {}, sel # W!None, NEW kind \in {"kids", "clone", "download"}, NEW arg \in {W!None, sel},
         W!Send(1, {W!Request(1, kind, arg)}), UNCHANGED <<sel, status, srv, root, kids, checked, file, shown, token, loading, jobs>>
  PROVE  W!WorkFollows'
<1> USE DEF W!WorkFollows
<1> DEFINE q == W!Request(1, kind, arg)
<1>1. q.n = sent + 1 /\ q.kind = kind /\ q.arg = arg /\ q.reply = "pending"
  BY WorkReqIs
<1>2. sent \in Nat /\ arg \in W!Some /\ kind \in W!Kinds
  BY DEF W!Formed, W!Kinds, W!Some
<1>3. q \in W!Calls
  BY <1>2, WorkReqForm
<1>4. net' = {q} /\ sent' = sent + 1
  BY DEF W!Send
<1> HIDE DEF q
<1>5. W!Formed'
  BY <1>1, <1>2, <1>3, <1>4 DEF W!Formed, W!Some, W!Calls, W!Kinds
<1>6. W!ServerFollows'
  <2>1. srv = sel
    BY AtRest
  <2> QED
    BY <1>1, <1>4, <2>1 DEF W!ServerFollows, W!Told
<1>7. W!NoneYet'
  BY DEF W!NoneYet
<1>8. W!TreeFollows'
  <2>1. (root # W!None => root = sel) /\ (kids # W!None => kids = sel)
    BY AtRest
  <2> QED
    BY <1>1, <1>4, <2>1 DEF W!TreeFollows
<1>9. W!JobsFollow'
  BY <1>1, <1>4 DEF W!JobsFollow
<1>10. W!PaneFollows'
  <2>1. q.kind \notin BenchFiles
    BY <1>1, <1>2 DEF W!Apart
  <2> QED
    BY <1>4, <2>1 DEF W!PaneFollows
<1> QED
  BY <1>5, <1>6, <1>7, <1>8, <1>9, <1>10

LEMMA UserSteps ==
  ASSUME BenchUsual, W!Apart, W!WorkFollows,
         W!ToggleDir \/ W!CloneRepo \/ W!DownloadSelected \/ W!CloseBar \/ (\E r \in BenchRepos : W!Tick(r))
  PROVE  W!WorkFollows'
<1> USE DEF W!WorkFollows
<1>1. ASSUME UNCHANGED <<sel, status, srv, net, sent, root, kids, file, shown, token, loading, jobs>>, checked' \in {checked, W!None, sel}
      PROVE  W!WorkFollows'
  BY <1>1 DEF W!Formed, W!ServerFollows, W!Told, W!Pending, W!NoneYet, W!TreeFollows, W!JobsFollow, W!PaneFollows, W!Some, W!Calls, W!Kinds
<1>2. CASE W!ToggleDir
  <2>1. CASE ~open /\ kids = W!None
    <3>1. /\ net = {} /\ W!Send(1, {W!Request(1, "kids", W!None)}) /\ root # W!None
          /\ UNCHANGED <<sel, status, srv, root, kids, checked, file, shown, token, loading, jobs>>
      BY <1>2, <2>1 DEF W!ToggleDir, W!Unhurried, W!pane, W!work
    <3>2. sel # W!None
      BY <3>1, AtRest
    <3> QED
      BY <3>1, <3>2, AskStep
  <2>2. CASE ~(~open /\ kids = W!None)
    BY <1>1, <1>2, <2>2 DEF W!ToggleDir, W!pane, W!work
  <2> QED
    BY <2>1, <2>2
<1>3. CASE W!CloneRepo
  <2>1. /\ net = {} /\ W!Send(1, {W!Request(1, "clone", W!None)}) /\ sel # W!None
        /\ UNCHANGED <<sel, status, srv, root, kids, checked, file, shown, token, loading, jobs>>
    BY <1>3 DEF W!CloneRepo, W!Unhurried, W!pane, W!tree, W!work
  <2> QED
    BY <2>1, AskStep
<1>4. CASE W!DownloadSelected
  <2>1. /\ net = {} /\ sel # W!None
        /\ UNCHANGED <<sel, status, srv, root, kids, checked, file, shown, token, loading, jobs>>
    BY <1>4 DEF W!DownloadSelected, W!Unhurried, W!pane, W!tree, W!work
  <2>2. \E paths \in {checked, file[1]} : /\ paths # W!None /\ W!Send(1, {W!Request(1, "download", paths)})
                                          /\ paths = checked \/ file # W!NoFile
    BY <1>4 DEF W!DownloadSelected
  <2>3. PICK paths \in {checked, file[1]} : /\ paths # W!None /\ W!Send(1, {W!Request(1, "download", paths)})
                                            /\ paths = checked \/ file # W!NoFile
    BY <2>2
  <2>4. paths = sel
    BY <2>3 DEF W!JobsFollow
  <2>5. W!Send(1, {W!Request(1, "download", sel)})
    BY <2>3, <2>4
  <2> QED
    BY <2>1, <2>5, AskStep
<1>5. CASE W!CloseBar
  BY <1>1, <1>5 DEF W!CloseBar, W!tree, W!pane, W!work
<1>6. ASSUME NEW r \in BenchRepos, W!Tick(r) PROVE W!WorkFollows'
  <2>1. net = {} /\ r \in W!Rows \ {W!None}
    BY <1>6 DEF W!Tick, W!Unhurried
  <2>2. r = sel
    BY <2>1, AtRest
  <2> QED
    BY <1>1, <1>6, <2>2 DEF W!Tick, W!tree, W!pane, W!work
<1> QED
  BY <1>2, <1>3, <1>4, <1>5, <1>6

LEMMA PickStep ==
  ASSUME BenchUsual, W!Apart, W!WorkFollows, NEW r \in BenchRepos, NEW f \in BenchFiles, W!PickFile(r, f)
  PROVE  W!WorkFollows'
<1> USE DEF W!WorkFollows
<1> DEFINE q == W!Request(1, f, r)
<1>1. q.n = sent + 1 /\ q.kind = f /\ q.arg = r /\ q.reply = "pending"
  BY WorkReqIs
<1>2. sent \in Nat /\ r \in W!Some
  BY DEF W!Formed, W!Some
<1>3. q \in W!Calls
  BY <1>2, WorkReqForm
<1>13. r \in W!Rows \ {W!None} /\ root = sel /\ (\A p \in net : p.kind \in BenchFiles)
  BY DEF W!PickFile
<1>4. /\ file' = <<r, f>> /\ token' = sent + 1 /\ loading' = TRUE /\ net' = net \cup {q} /\ sent' = sent + 1
      /\ UNCHANGED <<sel, status, srv, root, kids, checked, shown, jobs>>
  BY DEF W!PickFile, W!Send, W!tree, W!work
<1> HIDE DEF q
<1>5. r = sel /\ sel # W!None
  BY <1>13 DEF W!Rows, W!NoneYet, W!TreeFollows
<1>6. f \notin W!Kinds
  BY DEF W!Apart
<1>7. W!Formed'
  BY <1>1, <1>2, <1>3, <1>4 DEF W!Formed, W!Some, W!Calls, W!Kinds
<1>8. W!ServerFollows'
  <2>1. W!Told' <=> W!Told
    BY <1>1, <1>4, <1>6 DEF W!Told, W!Pending, W!Kinds
  <2> QED
    BY <1>1, <1>4, <1>6, <2>1 DEF W!ServerFollows, W!Kinds
<1>9. W!NoneYet'
  BY <1>4, <1>5 DEF W!NoneYet
<1>10. W!TreeFollows'
  BY <1>1, <1>4, <1>6 DEF W!TreeFollows, W!Kinds
<1>11. W!JobsFollow'
  BY <1>1, <1>4, <1>5, <1>6 DEF W!JobsFollow, W!Kinds
<1>12. W!PaneFollows'
  BY <1>1, <1>2, <1>4, <1>13 DEF W!PaneFollows, W!Formed, W!Calls
<1> QED
  BY <1>7, <1>8, <1>9, <1>10, <1>11, <1>12

\* A request is handled, or refused: it is still on its way, with its reply.
LEMMA ReplyIs ==
  ASSUME W!Formed, NEW r \in net, NEW value \in W!Some \cup {"ok", W!Failure}, W!Reply(r, value)
  PROVE  \E v \in W!Calls : /\ net' = (net \ {r}) \cup {v} /\ v.n = r.n /\ v.kind = r.kind
                            /\ v.arg = r.arg /\ v.reply = value
<1> DEFINE v == [r EXCEPT !.reply = value]
<1>1. r \in W!Calls
  BY DEF W!Formed
<1>2. v \in W!Calls /\ v.n = r.n /\ v.kind = r.kind /\ v.arg = r.arg /\ v.reply = value
  BY <1>1 DEF W!Calls
<1> QED
  BY <1>2 DEF W!Reply

LEMMA ServeOther ==
  ASSUME W!Apart, W!WorkFollows, NEW r \in W!Pending, \A q \in W!Pending : r.n <= q.n,
         r.kind \notin {"select", "clone", "download"}, W!Reply(r, srv),
         UNCHANGED <<sel, status, srv, sent, root, kids, checked, file, shown, token, loading, jobs>>
  PROVE  W!WorkFollows'
<1> USE DEF W!WorkFollows
<1>1. r \in net /\ r.reply = "pending"
  BY DEF W!Pending
<1>2. srv \in W!Some \cup {"ok", W!Failure} /\ srv \in W!Some
  BY DEF W!Formed
<1>3. PICK v \in W!Calls : net' = (net \ {r}) \cup {v} /\ v.n = r.n /\ v.kind = r.kind /\ v.arg = r.arg /\ v.reply = srv
  BY <1>1, <1>2, ReplyIs
<1>4. \A q \in net' : q \in net \/ q = v
  BY <1>3
<1>5. \A q \in net : q \in net' \/ q = r
  BY <1>3
<1>6. v \in net'
  BY <1>3
<1>7. srv # "pending" /\ srv # W!Failure
  BY <1>2 DEF W!Apart, W!Some, W!None, W!Failure
<1>8. W!Formed'
  BY <1>1, <1>3 DEF W!Formed, W!Some, W!Calls, W!Kinds
<1>9. W!Told' <=> W!Told
  BY <1>1, <1>3, <1>4, <1>5, <1>6, <1>7 DEF W!Told, W!Pending
<1>10. W!ServerFollows'
  BY <1>1, <1>3, <1>4, <1>9 DEF W!ServerFollows
<1>11. W!NoneYet'
  <2>1. SUFFICES ASSUME sel = W!None PROVE W!NoneYet'
    BY DEF W!NoneYet
  <2>2. /\ root = W!None /\ kids = W!None /\ file = W!NoFile /\ jobs = {} /\ status \in {W!None, srv}
    BY <2>1 DEF W!NoneYet
  <2>3. \A q \in net' : (q.kind = "repos" /\ q.reply # W!Failure) \/ (q.kind = "status" /\ q.reply \in {"pending", srv})
    BY <1>1, <1>3, <1>4, <1>7, <2>1 DEF W!NoneYet
  <2>4. (\E q \in net' : q.kind = "repos") <=> (\E q \in net : q.kind = "repos")
    BY <1>1, <1>3, <1>4, <1>5, <1>6
  <2>5. (\E q \in net' : q.kind = "status") <=> (\E q \in net : q.kind = "status")
    BY <1>1, <1>3, <1>4, <1>5, <1>6
  <2> QED
    BY <2>1, <2>2, <2>3, <2>4, <2>5 DEF W!NoneYet
<1>12. ASSUME r.kind \in {"tree", "kids"} PROVE srv = sel
  <2>1. sel # W!None
    BY <1>1, <1>12 DEF W!NoneYet
  <2>2. \A q \in W!Pending : q.kind # "select"
    BY <1>1, <1>12 DEF W!Pending, W!ServerFollows, W!Formed, W!Calls
  <2> QED
    BY <2>1, <2>2 DEF W!ServerFollows, W!Told
<1>13. W!TreeFollows'
  <2>1. (\E q \in net : q.kind = "tree") => \E q \in net' : q.kind = "tree"
    BY <1>1, <1>3, <1>5, <1>6
  <2> QED
    BY <1>3, <1>4, <1>12, <2>1 DEF W!TreeFollows
<1>14. W!JobsFollow'
  BY <1>1, <1>3, <1>4 DEF W!JobsFollow
<1>15. W!PaneFollows'
  BY <1>1, <1>3, <1>4 DEF W!PaneFollows
<1> QED
  BY <1>8, <1>10, <1>11, <1>13, <1>14, <1>15

LEMMA ServeSelect ==
  ASSUME W!Apart, W!WorkFollows, NEW r \in W!Pending, r.kind = "select", srv' = r.arg, W!Reply(r, "ok"),
         UNCHANGED <<sel, status, sent, root, kids, checked, file, shown, token, loading, jobs>>
  PROVE  W!WorkFollows'
<1> USE DEF W!WorkFollows
<1>1. r \in net /\ r.reply = "pending"
  BY DEF W!Pending
<1>2. "ok" \in W!Some \cup {"ok", W!Failure}
  OBVIOUS
<1>3. PICK v \in W!Calls : net' = (net \ {r}) \cup {v} /\ v.n = r.n /\ v.kind = r.kind /\ v.arg = r.arg /\ v.reply = "ok"
  BY <1>1, <1>2, ReplyIs
<1>4. \A q \in net' : q \in net \/ q = v
  BY <1>3
<1>5. \A q \in net : q \in net' \/ q = r
  BY <1>3
<1>6. srv' = sel /\ sel # W!None
  BY <1>1 DEF W!ServerFollows, W!NoneYet
<1>7. W!Formed'
  BY <1>1, <1>3, <1>6 DEF W!Formed, W!Some, W!Calls, W!Kinds
<1>8. W!ServerFollows'
  BY <1>1, <1>3, <1>4, <1>6 DEF W!ServerFollows
<1>9. W!NoneYet'
  BY <1>6 DEF W!NoneYet
<1>10. W!TreeFollows'
  BY <1>1, <1>3, <1>4, <1>5 DEF W!TreeFollows
<1>11. W!JobsFollow' /\ W!PaneFollows'
  BY <1>1, <1>3, <1>4 DEF W!JobsFollow, W!PaneFollows
<1> QED
  BY <1>7, <1>8, <1>9, <1>10, <1>11

LEMMA ServeJob ==
  ASSUME W!Apart, W!WorkFollows, NEW r \in W!Pending, r.kind \in {"clone", "download"}, NEW paths \in {W!None, r.arg}, W!Starts(r, paths),
         UNCHANGED <<sel, status, srv, sent, root, kids, checked, file, shown, token, loading>>
  PROVE  W!WorkFollows'
<1> USE DEF W!WorkFollows
<1> DEFINE j == [n |-> r.n, repo |-> srv, paths |-> paths]
<1>1. r \in net /\ r.reply = "pending"
  BY DEF W!Pending
<1>2. "ok" \in W!Some \cup {"ok", W!Failure} /\ W!Reply(r, "ok") /\ jobs' = jobs \cup {j}
  BY DEF W!Starts
<1>3. PICK v \in W!Calls : net' = (net \ {r}) \cup {v} /\ v.n = r.n /\ v.kind = r.kind /\ v.arg = r.arg /\ v.reply = "ok"
  BY <1>1, <1>2, ReplyIs
<1>4. \A q \in net' : q \in net \/ q = v
  BY <1>3
<1>5. \A q \in net : q \in net' \/ q = r
  BY <1>3
<1>6. sel # W!None /\ W!Told
  BY <1>1 DEF W!NoneYet, W!ServerFollows, W!Told, W!Pending
<1>7. j.repo = sel /\ j.paths \in {W!None, sel}
  BY <1>1, <1>6 DEF W!ServerFollows, W!JobsFollow
<1> HIDE DEF j
<1>8. W!Formed'
  BY <1>1, <1>3 DEF W!Formed, W!Some, W!Calls, W!Kinds
<1>9. W!ServerFollows'
  BY <1>1, <1>3, <1>4, <1>6 DEF W!ServerFollows
<1>10. W!NoneYet'
  BY <1>6 DEF W!NoneYet
<1>11. W!TreeFollows'
  BY <1>1, <1>3, <1>4, <1>5 DEF W!TreeFollows
<1>12. W!JobsFollow'
  BY <1>1, <1>2, <1>3, <1>4, <1>7 DEF W!JobsFollow
<1>13. W!PaneFollows'
  BY <1>1, <1>3, <1>4 DEF W!PaneFollows
<1> QED
  BY <1>8, <1>9, <1>10, <1>11, <1>12, <1>13

LEMMA RefuseStep ==
  ASSUME BenchUsual, W!Apart, W!WorkFollows, NEW r \in net, W!Refuse(r)
  PROVE  W!WorkFollows'
<1> USE DEF W!WorkFollows
<1>1. /\ r \in W!Pending /\ r.reply = "pending" /\ r.kind \in {"clone", "download", "kids"} \cup BenchFiles /\ W!Reply(r, W!Failure)
      /\ UNCHANGED <<sel, status, srv, sent, root, kids, checked, file, shown, token, loading, jobs>>
  BY DEF W!Refuse, W!tree, W!pane, W!work, W!Pending
<1>2. W!Failure \in W!Some \cup {"ok", W!Failure}
  OBVIOUS
<1>3. PICK v \in W!Calls : net' = (net \ {r}) \cup {v} /\ v.n = r.n /\ v.kind = r.kind /\ v.arg = r.arg /\ v.reply = W!Failure
  BY <1>1, <1>2, ReplyIs
<1>4. \A q \in net' : q \in net \/ q = v
  BY <1>3
<1>5. \A q \in net : q \in net' \/ q = r
  BY <1>3
<1>6. r.kind \notin {"select", "tree", "status", "repos"}
  BY <1>1 DEF W!Apart, W!Kinds
<1>7. sel # W!None
  BY <1>6 DEF W!NoneYet
<1>8. W!Formed'
  BY <1>1, <1>3 DEF W!Formed, W!Some, W!Calls, W!Kinds
<1>9. W!ServerFollows'
  <2>1. W!Told' => W!Told
    BY <1>1, <1>5, <1>6 DEF W!Told, W!Pending
  <2> QED
    BY <1>1, <1>3, <1>4, <1>6, <2>1 DEF W!ServerFollows
<1>10. W!NoneYet'
  BY <1>1, <1>7 DEF W!NoneYet
<1>11. W!TreeFollows'
  BY <1>1, <1>3, <1>4, <1>5, <1>6 DEF W!TreeFollows
<1>12. W!JobsFollow' /\ W!PaneFollows'
  BY <1>1, <1>3, <1>4 DEF W!JobsFollow, W!PaneFollows
<1> QED
  BY <1>8, <1>9, <1>10, <1>11, <1>12

LEMMA ServerSteps ==
  ASSUME BenchUsual, W!Apart, W!WorkFollows, NEW r \in net, W!Serve(r) \/ W!Refuse(r)
  PROVE  W!WorkFollows'
<1>1. CASE W!Serve(r)
  <2>1. /\ r \in W!Pending /\ \A q \in W!Pending : r.n <= q.n
        /\ UNCHANGED <<sel, status, sent, root, kids, checked, file, shown, token, loading>>
    BY <1>1 DEF W!Serve, W!tree, W!pane
  <2>2. CASE r.kind = "select"
    BY <1>1, <2>1, <2>2, ServeSelect DEF W!Serve, W!work
  <2>3. CASE r.kind = "clone"
    BY <1>1, <2>1, <2>3, ServeJob DEF W!Serve
  <2>4. CASE r.kind = "download"
    BY <1>1, <2>1, <2>4, ServeJob DEF W!Serve
  <2>5. CASE r.kind \notin {"select", "clone", "download"}
    <3>1. W!Reply(r, srv) /\ UNCHANGED <<srv, jobs>>
      BY <1>1, <2>5 DEF W!Serve, W!work
    <3> QED
      BY <2>1, <2>5, <3>1, ServeOther
  <2> QED
    BY <2>2, <2>3, <2>4, <2>5
<1> QED
  BY <1>1, RefuseStep

\* An answer is taken that nothing else depends on.
LEMMA Taken ==
  ASSUME W!WorkFollows, NEW r \in net, net' = net \ {r}, sel # W!None, r.kind # "tree", r.reply # "pending",
         UNCHANGED <<sel, srv, sent, root, file, token, jobs>>,
         kids' \in {kids, sel}, checked' \in {checked, W!None},
         file # W!NoFile /\ ~loading' => shown' = file
  PROVE  W!WorkFollows'
<1> USE DEF W!WorkFollows
<1>1. W!Formed'
  BY DEF W!Formed, W!Some, W!Calls, W!Kinds
<1>2. W!ServerFollows'
  <2>1. W!Told' => W!Told
    BY DEF W!Told, W!Pending
  <2> QED
    BY <2>1 DEF W!ServerFollows
<1>3. W!NoneYet'
  BY DEF W!NoneYet
<1>4. W!TreeFollows'
  BY DEF W!TreeFollows
<1>5. W!JobsFollow' /\ W!PaneFollows'
  BY DEF W!JobsFollow, W!PaneFollows
<1> QED
  BY <1>1, <1>2, <1>3, <1>4, <1>5

LEMMA StatusStep ==
  ASSUME W!Apart, W!WorkFollows, NEW r \in net, W!GotStatus(r)
  PROVE  W!WorkFollows'
<1> USE DEF W!WorkFollows
<1>1. /\ r.kind = "status" /\ r.reply # "pending" /\ net' = net \ {r} /\ status' = IF r.reply = W!Failure THEN status ELSE r.reply
      /\ UNCHANGED <<sel, srv, sent, root, kids, checked, file, shown, token, loading, jobs>>
  BY DEF W!GotStatus, W!Takes, W!tree, W!pane, W!work
<1>3. CASE sel = W!None
  <2>1. r.reply = srv /\ srv \in W!Some /\ srv # W!Failure
    BY <1>1, <1>3 DEF W!NoneYet, W!Formed, W!Apart, W!Some, W!Failure, W!None
  <2>2. PICK p \in net : p.kind = "repos"
    BY <1>1, <1>3 DEF W!NoneYet
  <2>3. p \in net'
    BY <1>1, <2>2
  <2>4. W!NoneYet'
    BY <1>1, <1>3, <2>1, <2>2, <2>3 DEF W!NoneYet
  <2>5. W!Formed' /\ W!ServerFollows'
    BY <1>1, <1>3, <2>1 DEF W!Formed, W!ServerFollows, W!Some, W!Calls, W!Kinds
  <2>6. W!TreeFollows' /\ W!JobsFollow' /\ W!PaneFollows'
    BY <1>1, <1>3 DEF W!NoneYet, W!TreeFollows, W!JobsFollow, W!PaneFollows
  <2> QED
    BY <2>4, <2>5, <2>6
<1>4. CASE sel # W!None
  BY <1>1, <1>4, Taken DEF W!PaneFollows
<1> QED
  BY <1>3, <1>4

LEMMA ReposStep ==
  ASSUME BenchUsual, W!Apart, W!WorkFollows, NEW r \in net, W!GotRepos(r)
  PROVE  W!WorkFollows'
<1> USE DEF W!WorkFollows
<1>1. /\ r.kind = "repos" /\ r.reply # "pending" /\ (\A q \in net : q.kind # "status")
      /\ UNCHANGED <<srv, root, kids, file, shown, token, loading, jobs>>
  BY DEF W!GotRepos, W!tree, W!pane, W!work
<1>2. CASE sel # W!None
  <2>1. net' = net \ {r} /\ UNCHANGED <<sel, checked, sent>>
    BY <1>2 DEF W!GotRepos, W!Hits
  <2> QED
    BY <1>1, <1>2, <2>1, Taken DEF W!PaneFollows
<1>3. CASE sel = W!None
  <2>1. r.reply # W!Failure /\ root = W!None /\ kids = W!None /\ file = W!NoFile /\ jobs = {} /\ checked = W!None /\ status \in {W!None, srv}
        /\ \A q \in net : q.kind = "repos"
    BY <1>1, <1>3 DEF W!NoneYet, W!JobsFollow
  <2>2. CASE status = W!None
    <3>1. net' = net \ {r} /\ UNCHANGED <<sel, checked, sent, status>>
      BY <2>2 DEF W!GotRepos, W!Hits
    <3>2. W!Formed' /\ W!ServerFollows'
      BY <1>1, <1>3, <2>1, <3>1 DEF W!Formed, W!ServerFollows, W!Some, W!Calls, W!Kinds
    <3>3. W!NoneYet' /\ W!TreeFollows' /\ W!JobsFollow' /\ W!PaneFollows'
      BY <1>1, <1>3, <2>1, <2>2, <3>1 DEF W!NoneYet, W!TreeFollows, W!JobsFollow, W!PaneFollows
    <3> QED
      BY <3>2, <3>3
  <2>3. CASE status # W!None
    <3> DEFINE t == W!Request(1, "tree", status)
    <3>1. t.n = sent + 1 /\ t.kind = "tree" /\ t.arg = status /\ t.reply = "pending"
      BY WorkReqIs
    <3>2. sel' = status /\ checked' = W!None /\ sent' = sent + 1 /\ net' = (net \ {r}) \cup {t}
      BY <1>3, <2>1, <2>3 DEF W!GotRepos, W!Hits, W!NoTicks
    <3>3. status = srv /\ status \in W!Some /\ sent \in Nat
      BY <2>1, <2>3 DEF W!Formed
    <3>4. t \in W!Calls
      BY <3>3, WorkReqForm DEF W!Kinds
    <3> HIDE DEF t
    <3>5. W!Formed'
      BY <1>1, <3>1, <3>2, <3>3, <3>4 DEF W!Formed, W!Some, W!Calls, W!Kinds
    <3>6. W!ServerFollows'
      BY <1>1, <2>1, <3>1, <3>2, <3>3 DEF W!ServerFollows
    <3>7. W!NoneYet'
      BY <2>3, <3>2 DEF W!NoneYet
    <3>8. W!TreeFollows' /\ W!JobsFollow'
      BY <1>1, <2>1, <3>1, <3>2 DEF W!TreeFollows, W!JobsFollow
    <3>9. W!PaneFollows'
      <4>1. "tree" \notin BenchFiles
        BY DEF W!Apart, W!Kinds
      <4> QED
        BY <1>1, <2>1, <3>1, <3>2, <4>1 DEF W!PaneFollows
    <3> QED
      BY <3>5, <3>6, <3>7, <3>8, <3>9
  <2> QED
    BY <2>2, <2>3
<1> QED
  BY <1>2, <1>3

LEMMA SelectStep ==
  ASSUME W!Apart, W!WorkFollows, NEW r \in net, W!GotSelect(r)
  PROVE  W!WorkFollows'
<1> USE DEF W!WorkFollows
<1>1. /\ r.kind = "select" /\ r.reply # "pending" /\ UNCHANGED <<sel, status, srv, root, kids, checked, file, shown, token, loading, jobs>>
  BY DEF W!GotSelect, W!tree, W!pane, W!work
<1>2. sel # W!None
  BY <1>1 DEF W!NoneYet
<1>3. CASE net' = net \ {r} /\ UNCHANGED sent
  BY <1>1, <1>2, <1>3, Taken DEF W!PaneFollows
<1>4. CASE sent' = sent + 1 /\ net' = (net \ {r}) \cup {W!Request(1, "status", W!None)}
  <2> DEFINE t == W!Request(1, "status", W!None)
  <2>1. t.n = sent + 1 /\ t.kind = "status" /\ t.arg = W!None /\ t.reply = "pending"
    BY WorkReqIs
  <2>2. sent \in Nat
    BY DEF W!Formed
  <2>3. t \in W!Calls
    BY <2>2, WorkReqForm DEF W!Kinds, W!Some
  <2>4. net' = (net \ {r}) \cup {t}
    BY <1>4
  <2> HIDE DEF t
  <2>5. W!Formed'
    BY <1>1, <1>4, <2>1, <2>2, <2>3, <2>4 DEF W!Formed, W!Some, W!Calls, W!Kinds
  <2>6. W!ServerFollows'
    <3>1. W!Told' <=> W!Told
      BY <1>1, <2>1, <2>4 DEF W!Told, W!Pending
    <3> QED
      BY <1>1, <2>1, <2>4, <3>1 DEF W!ServerFollows
  <2>7. W!NoneYet'
    BY <1>1, <1>2 DEF W!NoneYet
  <2>8. W!TreeFollows' /\ W!JobsFollow'
    BY <1>1, <2>1, <2>4 DEF W!TreeFollows, W!JobsFollow
  <2>9. W!PaneFollows'
    <3>1. "status" \notin BenchFiles
      BY DEF W!Apart, W!Kinds
    <3> QED
      BY <1>1, <2>1, <2>4, <3>1 DEF W!PaneFollows
  <2> QED
    BY <2>5, <2>6, <2>7, <2>8, <2>9
<1> QED
  BY <1>3, <1>4 DEF W!GotSelect

LEMMA TreeStep ==
  ASSUME W!Apart, W!WorkFollows, NEW r \in net, W!GotTree(r)
  PROVE  W!WorkFollows'
<1> USE DEF W!WorkFollows
<1>1. /\ r.kind = "tree" /\ r.reply # "pending" /\ net' = net \ {r} /\ root' \in {W!None, r.reply}
      /\ UNCHANGED <<sel, status, srv, sent, kids, checked, file, shown, token, loading, jobs>>
  BY DEF W!GotTree, W!Takes, W!pane, W!work
<1>2. sel # W!None /\ r.reply = sel
  BY <1>1 DEF W!NoneYet, W!TreeFollows
<1>3. W!Formed'
  BY <1>1 DEF W!Formed, W!Some, W!Calls, W!Kinds
<1>4. W!ServerFollows'
  <2>1. W!Told' => W!Told
    BY <1>1 DEF W!Told, W!Pending
  <2> QED
    BY <1>1, <2>1 DEF W!ServerFollows
<1>5. W!NoneYet'
  BY <1>1, <1>2 DEF W!NoneYet
<1>6. W!TreeFollows' /\ W!JobsFollow' /\ W!PaneFollows'
  BY <1>1, <1>2 DEF W!TreeFollows, W!JobsFollow, W!PaneFollows
<1> QED
  BY <1>3, <1>4, <1>5, <1>6

LEMMA AnswerSteps ==
  ASSUME W!Apart, W!WorkFollows, NEW r \in net, W!GotKids(r) \/ W!GotFile(r) \/ W!GotJob(r)
  PROVE  W!WorkFollows'
<1> USE DEF W!WorkFollows
<1>1. CASE W!GotKids(r)
  <2>1. /\ r.kind = "kids" /\ r.reply # "pending" /\ net' = net \ {r} /\ (kids' = kids \/ (r.reply # W!Failure /\ kids' = r.reply))
        /\ UNCHANGED <<sel, status, srv, sent, root, checked, file, shown, token, loading, jobs>>
    BY <1>1 DEF W!GotKids, W!Takes, W!pane, W!work
  <2>2. sel # W!None /\ kids' \in {kids, sel}
    BY <2>1 DEF W!NoneYet, W!TreeFollows
  <2> QED
    BY <2>1, <2>2, Taken DEF W!PaneFollows
<1>2. CASE W!GotFile(r)
  <2>1. /\ r.kind \in BenchFiles /\ r.reply # "pending" /\ net' = net \ {r}
        /\ IF r.n = token THEN shown' = <<r.arg, r.kind>> /\ loading' = FALSE ELSE UNCHANGED <<shown, loading>>
        /\ UNCHANGED <<sel, status, srv, sent, root, kids, checked, file, token, jobs>>
    BY <1>2 DEF W!GotFile, W!Takes, W!tree, W!work
  <2>2. r.kind \notin {"tree", "status", "repos"}
    BY <2>1 DEF W!Apart, W!Kinds
  <2>3. sel # W!None
    BY <2>2 DEF W!NoneYet
  <2>4. file # W!NoFile /\ ~loading' => shown' = file
    BY <2>1 DEF W!PaneFollows
  <2> QED
    BY <2>1, <2>2, <2>3, <2>4, Taken
<1>3. CASE W!GotJob(r)
  <2>1. /\ r.kind \in {"clone", "download"} /\ r.reply # "pending" /\ net' = net \ {r} /\ checked' \in {checked, W!None}
        /\ UNCHANGED <<sel, status, srv, sent, root, kids, file, shown, token, loading, jobs>>
    BY <1>3 DEF W!GotJob, W!Takes, W!tree, W!pane, W!work
  <2>2. sel # W!None
    BY <2>1 DEF W!NoneYet
  <2> QED
    BY <2>1, <2>2, Taken DEF W!PaneFollows
<1> QED
  BY <1>1, <1>2, <1>3

LEMMA NextWork ==
  ASSUME BenchUsual, W!Apart, W!WorkFollows, [W!Next]_(W!vars)
  PROVE  W!WorkFollows'
<1>1. ASSUME UNCHANGED <<sel, status, srv, net, sent, root, kids, checked, file, shown, token, loading>>, jobs' \subseteq jobs
      PROVE  W!WorkFollows'
  BY <1>1 DEF W!WorkFollows, W!Formed, W!ServerFollows, W!Told, W!Pending, W!NoneYet, W!TreeFollows, W!JobsFollow, W!PaneFollows, W!Some, W!Calls, W!Kinds
<1>2. CASE W!User
  BY <1>2, OpenStep, PickStep, UserSteps DEF W!User
<1>3. CASE W!Server
  BY <1>3, ServerSteps DEF W!Server
<1>4. CASE W!Working
  BY <1>1, <1>4 DEF W!Working, W!JobSteps, W!tree, W!pane
<1>5. CASE W!Answers
  BY <1>5, StatusStep, ReposStep, SelectStep, TreeStep, AnswerSteps DEF W!Answers
<1>6. CASE W!HandleEvent
  BY <1>1, <1>6 DEF W!HandleEvent, W!tree, W!pane
<1>7. CASE UNCHANGED W!vars
  BY <1>1, <1>7 DEF W!vars, W!tree, W!pane, W!work
<1> QED
  BY <1>2, <1>3, <1>4, <1>5, <1>6, <1>7 DEF W!Next

\* Logs of two servers: a page and a half, and two pages.
LogTotals == [s |-> 3, t |-> 4]
G == INSTANCE PlainLogs WITH Servers <- LogServers, PageSize <- LogPage,
       Total <- LogTotal, FromFirst <- LogsUsual, Steady <- LogsUsual,
       MaxCalls <- LogCalls, result <- resultG, net <- netG, sent <- sentG

(***************************************************************************)
(* What the logs of the cloud functions keep.                              *)
(***************************************************************************)

LEMMA UptoIs ==
  ASSUME NEW n \in Nat
  PROVE  G!Upto(n) \in Seq(Nat) /\ Len(G!Upto(n)) = n /\ \A k \in 1..n : G!Upto(n)[k] = k
BY DEF G!Upto

\* A page begins where the pages before it end.
LEMMA PageIs ==
  ASSUME G!Sized, NEW s \in LogServers, NEW p \in Nat \ {0}
  PROVE  \E m \in 0..LogPage :
           /\ G!PageRows(s, p) = [k \in 1..m |-> (p - 1) * LogPage + k]
           /\ (p - 1) * LogPage \in Nat
           /\ (p - 1) * LogPage < LogTotal[s] => (p - 1) * LogPage + m <= LogTotal[s]
           /\ m = LogPage \/ (p - 1) * LogPage + m >= LogTotal[s]
           /\ m > 0 => (p - 1) * LogPage < LogTotal[s]
<1>1. LogTotal[s] \in Nat /\ LogPage \in Nat /\ LogPage > 0
  BY DEF G!Sized
<1>2. PICK f \in Nat : f = (p - 1) * LogPage
  BY <1>1
<1>3. PICK n \in Int : n = G!Least(LogPage, LogTotal[s] - f)
  BY <1>1, <1>2 DEF G!Least
<1>4. PICK m \in Int : m = IF n < 0 THEN 0 ELSE n
  BY <1>3
<1>5. m \in 0..LogPage
  BY <1>1, <1>2, <1>3, <1>4 DEF G!Least
<1>6. G!PageRows(s, p) = [k \in 1..m |-> f + k]
  BY <1>2, <1>3, <1>4 DEF G!PageRows
<1>7. /\ f < LogTotal[s] => f + m <= LogTotal[s]
      /\ m = LogPage \/ f + m >= LogTotal[s]
      /\ m > 0 => f < LogTotal[s]
  BY <1>1, <1>2, <1>3, <1>4 DEF G!Least
<1> QED
  BY <1>2, <1>5, <1>6, <1>7

LEMMA FirstPage ==
  ASSUME G!Sized, NEW s \in LogServers
  PROVE  \E n \in 0..LogTotal[s] : G!PageRows(s, 1) = G!Upto(n) /\ n \in {LogPage, LogTotal[s]}
<1>1. LogTotal[s] \in Nat /\ LogPage \in Nat /\ LogPage > 0
  BY DEF G!Sized
<1>2. (1 - 1) * LogPage = 0
  BY <1>1
<1>3. PICK m \in 0..LogPage :
        /\ G!PageRows(s, 1) = [k \in 1..m |-> (1 - 1) * LogPage + k]
        /\ (1 - 1) * LogPage < LogTotal[s] => (1 - 1) * LogPage + m <= LogTotal[s]
        /\ m = LogPage \/ (1 - 1) * LogPage + m >= LogTotal[s]
        /\ m > 0 => (1 - 1) * LogPage < LogTotal[s]
  BY PageIs
<1>4. m \in 0..LogTotal[s] /\ m \in {LogPage, LogTotal[s]}
  BY <1>1, <1>2, <1>3
<1>5. G!PageRows(s, 1) = [k \in 1..m |-> k]
  BY <1>2, <1>3
<1> QED
  BY <1>4, <1>5 DEF G!Upto

\* The rows of the next page continue those at hand.
LEMMA PagesJoin ==
  ASSUME NEW n \in Nat, NEW m \in Nat
  PROVE  G!Upto(n) \o [k \in 1..m |-> n + k] = G!Upto(n + m)
<1> DEFINE a == G!Upto(n)
           b == [k \in 1..m |-> n + k]
           c == G!Upto(n + m)
<1>1. a \in Seq(Nat) /\ Len(a) = n /\ \A k \in 1..n : a[k] = k
  BY UptoIs
<1>2. b \in Seq(Nat) /\ Len(b) = m /\ \A k \in 1..m : b[k] = n + k
  OBVIOUS
<1>3. c \in Seq(Nat) /\ Len(c) = n + m /\ \A k \in 1..(n + m) : c[k] = k
  BY UptoIs
<1> HIDE DEF a, b, c
<1>4. \A x \in Seq(Nat), y \in Seq(Nat) :
        /\ x \o y \in Seq(Nat) /\ Len(x \o y) = Len(x) + Len(y)
        /\ \A k \in 1..(Len(x) + Len(y)) : (x \o y)[k] = IF k <= Len(x) THEN x[k] ELSE y[k - Len(x)]
  OBVIOUS
<1>5. a \o b \in Seq(Nat) /\ Len(a \o b) = n + m
  BY <1>1, <1>2, <1>4
<1>6. \A k \in 1..(n + m) : (a \o b)[k] = k
  BY <1>1, <1>2, <1>4, SMTT(30)
<1>7. \A x \in Seq(Nat), y \in Seq(Nat) :
        Len(x) = Len(y) /\ (\A k \in 1..Len(x) : x[k] = y[k]) => x = y
  BY SMTT(30)
<1>8. Len(a \o b) = Len(c) /\ \A k \in 1..Len(a \o b) : (a \o b)[k] = c[k]
  BY <1>3, <1>5, <1>6, SMTT(30)
<1>9. a \o b = c
  BY <1>3, <1>5, <1>7, <1>8
<1> QED
  BY <1>9 DEF a, b, c

LEMMA LogsReqIs ==
  ASSUME NEW kind, NEW s, NEW p
  PROVE  LET q == G!Req(kind, s, p) IN q.n = sentG + 1 /\ q.kind = kind /\ q.server = s /\ q.page = p
BY DEF G!Req

LEMMA InitLogs == ASSUME G!Sized, G!Init PROVE G!LogsFollow
<1>1. server \in LogServers
  BY DEF G!Init, G!Sized
<1>2. G!Numbered
  BY <1>1 DEF G!Init, G!Numbered
<1>3. G!SortFollows
  BY DEF G!Init, G!SortFollows
<1>4. G!ResultFollows
  BY DEF G!Init, G!ResultFollows
<1>5. table.text # "rows"
  BY DEF G!Init, G!Text, G!Blank
<1>6. G!QueryFollows
  BY <1>5 DEF G!Init, G!QueryFollows, G!Drawn
<1> QED
  BY <1>2, <1>3, <1>4, <1>6 DEF G!LogsFollow, G!Init

LEMMA LogsMean ==
  ASSUME G!Sized, G!LogsFollow
  PROVE  G!SortsAll /\ G!TableIsOfQuery /\ G!ExportIsShown
<1> USE DEF G!LogsFollow
<1>1. G!TableIsOfQuery
  BY DEF G!TableIsOfQuery, G!QueryFollows, G!Answered
<1>2. G!ExportIsShown
  BY DEF G!ExportIsShown
<1>3. G!SortsAll
  <2>1. SUFFICES ASSUME G!Drawn, G!Full(resultG.server, resultG.rows)
                 PROVE  /\ Len(resultG.rows) = LogTotal[resultG.server]
                        /\ \A k \in G!Rows(resultG.server) : \E j \in 1..Len(resultG.rows) : resultG.rows[j] = k
    BY DEF G!SortsAll
  <2>2. resultG # G!None /\ resultG.server \in LogServers /\ resultG.page \in Nat \ {0} /\ LogTotal[resultG.server] \in Nat
    BY <2>1 DEF G!Drawn, G!ResultFollows, G!Sized
  <2>3. CASE resultG.page = 1
    <3>1. PICK n \in 0..LogTotal[resultG.server] : resultG.rows = G!Upto(n)
      BY <2>2, <2>3 DEF G!ResultFollows
    <3>4. n \in Nat
      BY <2>2, <3>1
    <3>2. Len(resultG.rows) = n /\ \A k \in 1..n : resultG.rows[k] = k
      BY <3>1, <3>4, UptoIs
    <3>3. n = LogTotal[resultG.server]
      BY <2>1, <2>2, <3>1, <3>2 DEF G!Full
    <3> QED
      BY <3>2, <3>3 DEF G!Rows
  <2>4. CASE resultG.page # 1
    <3>1. resultG.rows = G!PageRows(resultG.server, resultG.page)
      BY <2>2, <2>4 DEF G!ResultFollows
    <3>2. PICK f \in Int : f = (resultG.page - 1) * LogPage
      BY <2>2 DEF G!Sized
    <3>3. f > 0
      BY <2>2, <2>4, <3>2 DEF G!Sized
    <3>4. PICK m \in 0..LogPage :
            /\ G!PageRows(resultG.server, resultG.page) = [k \in 1..m |-> f + k]
            /\ f < LogTotal[resultG.server] => f + m <= LogTotal[resultG.server]
            /\ m > 0 => f < LogTotal[resultG.server]
      BY <2>2, <3>2, PageIs
    <3>5. Len(resultG.rows) = m
      BY <3>1, <3>4
    <3>6. m > 0
      <4>1. ASSUME m = 0 PROVE FALSE
        <5>1. resultG.rows = <<>>
          BY <3>1, <3>4, <4>1
        <5> QED
          BY <2>1, <5>1 DEF G!Drawn
      <4> QED
        BY <3>4, <4>1
    <3> QED
      BY <2>1, <2>2, <3>3, <3>4, <3>5, <3>6 DEF G!Full
  <2> QED
    BY <2>3, <2>4
<1> QED
  BY <1>1, <1>2, <1>3

LogsParts == G!Numbered /\ G!SortFollows /\ G!ResultFollows /\ G!QueryFollows

LEMMA SameSort ==
  ASSUME G!SortFollows, UNCHANGED <<sorting, resultG>>, \A r \in netG : r.kind = "more" => r \in netG',
         \A r \in netG' : r \in netG \/ r.kind = "query"
  PROVE  G!SortFollows'
<1>1. CASE sorting = G!Idle /\ \A r \in netG : r.kind = "query"
  <2>1. G!Idle' = G!Idle
    BY DEF G!Idle, G!Blank
  <2> QED
    BY <1>1, <2>1 DEF G!SortFollows
<1>2. CASE G!Loads
  <2>1. PICK r \in netG : /\ r.kind = "more" /\ r.server = sorting.server /\ r.page = sorting.next
                          /\ \A q \in netG : q.kind = "more" => q = r
    BY <1>2 DEF G!Loads
  <2>2. r \in netG' /\ \A q \in netG' : q.kind = "more" => q = r
    BY <2>1
  <2>3. G!Loads'
    BY <1>2, <2>1, <2>2 DEF G!Loads, G!Upto
  <2> QED
    BY <2>3 DEF G!SortFollows
<1> QED
  BY <1>1, <1>2 DEF G!SortFollows

LEMMA SameResult ==
  ASSUME G!ResultFollows, UNCHANGED resultG, sorting.live => sorting'.live
  PROVE  G!ResultFollows'
BY DEF G!ResultFollows, G!PageRows, G!Least, G!Upto, G!None

\* An answer that the sort waited for: there is one, for the next page.
LEMMA SortOf ==
  ASSUME G!Numbered, G!SortFollows, NEW r \in netG, r.kind = "more"
  PROVE  G!Loads /\ r.server = sorting.server /\ r.page = sorting.next /\ \A q \in netG : q.kind = "more" => q = r
<1>1. r.kind # "query"
  OBVIOUS
<1>2. G!Loads
  BY <1>1 DEF G!SortFollows
<1> QED
  BY <1>2 DEF G!Loads

LEMMA QueryAsked ==
  ASSUME LogsParts, NEW p \in Nat \ {0}, G!Query(p)
  PROVE  LogsParts'
<1> USE DEF LogsParts
<1> DEFINE q == G!Req("query", server, p)
<1>1. q.n = sentG + 1 /\ q.kind = "query" /\ q.server = server /\ q.page = p
  BY LogsReqIs
<1>2. /\ sentG' = sentG + 1 /\ netG' = netG \cup {q} /\ asked' = <<server, p>> /\ table' = G!Text("loading")
      /\ UNCHANGED <<server, resultG, canExport, sorting, faithful>>
  BY DEF G!Query
<1> HIDE DEF q
<1>3. q \in netG' /\ ~G!Answered'
  BY <1>1, <1>2 DEF G!Answered
<1>4. G!Numbered'
  BY <1>1, <1>2 DEF G!Numbered
<1>5. G!SortFollows'
  BY <1>1, <1>2, SameSort
<1>6. G!ResultFollows'
  BY <1>2, SameResult
<1>7. \A r \in netG' : r.kind = "query" => <<r.server, r.page>> = asked' \/ \E x \in netG' : x.kind = "query" /\ x.n > r.n
  BY <1>1, <1>2, <1>3 DEF G!Numbered
<1>8. G!QueryFollows'
  BY <1>3, <1>7 DEF G!QueryFollows
<1> QED
  BY <1>4, <1>5, <1>6, <1>8

LEMMA TableText ==
  ASSUME NEW r
  PROVE  /\ G!Rendered(r).text = "rows" /\ G!Rendered(r).server = r.server
         /\ G!Rendered(r).page = r.page /\ G!Rendered(r).rows = r.rows
BY DEF G!Rendered

LEMMA NoText ==
  /\ G!Text(G!Blank).text # "rows" /\ G!Text("loading").text # "rows" /\ G!Text("failed").text # "rows"
BY DEF G!Text, G!Blank

LEMMA QueryAnswered ==
  ASSUME LogsUsual, G!Sized, LogsParts, NEW r \in netG, G!GotQuery(r)
  PROVE  LogsParts'
<1> USE DEF LogsParts
<1> DEFINE new == [server |-> r.server, page |-> r.page, rows |-> G!PageRows(r.server, r.page), cut |-> FALSE]
<1>1. /\ r.kind = "query" /\ netG' = netG \ {r} /\ \A q \in netG : q.kind = "query" => r.n <= q.n
      /\ resultG' = new /\ table' = (IF new.rows = <<>> THEN G!Text(G!Blank) ELSE G!Rendered(new))
      /\ sorting' = [sorting EXCEPT !.live = FALSE] /\ UNCHANGED <<server, asked, sentG, faithful>>
  BY DEF G!GotQuery, G!Answer
<1>2. new.server = r.server /\ new.page = r.page /\ new.rows = G!PageRows(r.server, r.page) /\ new.cut = FALSE
  OBVIOUS
<1>3. r.server \in LogServers /\ r.page \in Nat \ {0} /\ r.n \in Int /\ \A q \in netG : q.n \in Int
  BY DEF G!Numbered
<1>4. new.rows \in Seq(Nat)
  <2>1. PICK m \in 0..LogPage : /\ G!PageRows(r.server, r.page) = [k \in 1..m |-> (r.page - 1) * LogPage + k]
                                /\ (r.page - 1) * LogPage \in Nat
    BY <1>3, PageIs
  <2>2. PICK f \in Nat : f = (r.page - 1) * LogPage
    BY <2>1
  <2>3. [k \in 1..m |-> f + k] \in Seq(Nat)
    BY DEF G!Sized
  <2> QED
    BY <1>2, <2>1, <2>2, <2>3
<1>5. new \in [server: LogServers, page: Nat \ {0}, rows: Seq(Nat), cut: BOOLEAN]
  BY <1>2, <1>3, <1>4
<1>6. new # G!None
  BY DEF G!None
<1> HIDE DEF new
<1>7. G!Numbered'
  BY <1>1 DEF G!Numbered
<1>8. G!SortFollows'
  <2>1. CASE sorting = G!Idle /\ \A q \in netG : q.kind = "query"
    <3>1. sorting' = G!Idle /\ G!Idle' = G!Idle
      BY <1>1, <2>1 DEF G!Idle, G!Blank
    <3> QED
      BY <1>1, <2>1, <3>1 DEF G!SortFollows
  <2>2. CASE G!Loads
    <3>1. PICK q \in netG : /\ q.kind = "more" /\ q.server = sorting.server /\ q.page = sorting.next
                            /\ \A p \in netG : p.kind = "more" => p = q
      BY <2>2 DEF G!Loads
    <3>2. q \in netG' /\ \A p \in netG' : p.kind = "more" => p = q
      BY <1>1, <3>1
    <3>3. /\ sorting' \in [next: Nat \ {0, 1}, live: BOOLEAN, rows: Seq(Nat), server: LogServers]
          /\ sorting'.next = sorting.next /\ sorting'.rows = sorting.rows /\ sorting'.server = sorting.server /\ sorting'.live = FALSE
      BY <1>1, <2>2 DEF G!Loads
    <3>4. G!Loads'
      BY <1>1, <1>6, <2>2, <3>1, <3>2, <3>3 DEF G!Loads, G!Upto, G!None
    <3> QED
      BY <3>4 DEF G!SortFollows
  <2> QED
    BY <2>1, <2>2 DEF G!SortFollows
<1>9. G!ResultFollows'
  <2>1. ASSUME r.page = 1
        PROVE  \E n \in 0..LogTotal[r.server] : new.rows = G!Upto(n) /\ n \in {LogPage, LogTotal[r.server]}
    BY <1>2, <1>3, <2>1, FirstPage
  <2> QED
    BY <1>1, <1>2, <1>5, <2>1 DEF G!ResultFollows, G!PageRows, G!Least, G!Upto
<1>10. ASSUME G!Answered' PROVE asked = <<new.server, new.page>>
  <2>1. \A q \in netG : q.kind = "query" => q = r
    BY <1>1, <1>10 DEF G!Answered
  <2>2. \A q \in netG : ~(q.kind = "query" /\ q.n > r.n)
    BY <1>3, <2>1
  <2> QED
    BY <1>1, <1>2, <2>2 DEF G!QueryFollows
<1>11. \A q \in netG' : q.kind = "query" => <<q.server, q.page>> = asked' \/ \E x \in netG' : x.kind = "query" /\ x.n > q.n
  <2>1. SUFFICES ASSUME NEW q \in netG', q.kind = "query", <<q.server, q.page>> # asked
                 PROVE  \E x \in netG' : x.kind = "query" /\ x.n > q.n
    BY <1>1
  <2>2. PICK x \in netG : x.kind = "query" /\ x.n > q.n
    BY <1>1, <2>1 DEF G!QueryFollows
  <2>3. x # r
    BY <1>1, <1>3, <2>1, <2>2
  <2> QED
    BY <1>1, <2>2, <2>3
<1>12. /\ table'.text = "rows" => table'.server = new.server /\ table'.page = new.page
       /\ new.rows # <<>> => table'.rows = new.rows
  BY <1>1, TableText, NoText
<1>13. G!QueryFollows'
  BY <1>1, <1>10, <1>11, <1>12 DEF G!QueryFollows, G!Drawn
<1> QED
  BY <1>7, <1>8, <1>9, <1>13

LEMMA SearchDraws ==
  ASSUME LogsUsual, LogsParts, G!Search
  PROVE  LogsParts'
<1> USE DEF LogsParts
<1>1. /\ G!Drawn /\ netG = {} /\ table' = G!Rendered(resultG)
      /\ UNCHANGED <<server, asked, resultG, canExport, sorting, netG, sentG, faithful>>
  BY DEF G!Search
<1>2. G!Numbered'
  BY <1>1 DEF G!Numbered
<1>3. G!SortFollows' /\ G!ResultFollows'
  BY <1>1, SameSort, SameResult
<1>4. G!Answered /\ resultG # G!None
  BY <1>1 DEF G!Answered, G!Drawn
<1>5. table'.server = resultG.server /\ table'.page = resultG.page /\ table'.rows = resultG.rows
  BY <1>1, TableText
<1>6. G!QueryFollows'
  BY <1>1, <1>4, <1>5 DEF G!QueryFollows, G!Answered, G!Drawn
<1> QED
  BY <1>2, <1>3, <1>6

LEMMA SortBegins ==
  ASSUME LogsUsual, G!Sized, LogsParts, G!SortTime
  PROVE  LogsParts'
<1> USE DEF LogsParts
<1>1. /\ G!Drawn /\ sorting = G!Idle /\ resultG.page = 1 /\ netG = {}
      /\ UNCHANGED <<server, asked, resultG, canExport, faithful>>
  BY DEF G!SortTime
<1>2. G!Answered /\ resultG # G!None
  BY <1>1 DEF G!Answered, G!Drawn
<1>3. CASE G!Full(resultG.server, resultG.rows)
  <2>1. table' = G!Rendered(resultG) /\ UNCHANGED <<sorting, netG, sentG>>
    BY <1>3 DEF G!SortTime
  <2>2. G!Numbered'
    BY <1>1, <2>1 DEF G!Numbered
  <2>3. G!SortFollows' /\ G!ResultFollows'
    BY <1>1, <2>1, SameSort, SameResult
  <2>4. table'.server = resultG.server /\ table'.page = resultG.page /\ table'.rows = resultG.rows
    BY <2>1, TableText
  <2>5. G!QueryFollows'
    BY <1>1, <1>2, <2>1, <2>4 DEF G!QueryFollows, G!Answered, G!Drawn
  <2> QED
    BY <2>2, <2>3, <2>5
<1>4. CASE ~G!Full(resultG.server, resultG.rows)
  <2> DEFINE k == G!NextPage(resultG)
             q == G!Req("more", resultG.server, k)
             new == [next |-> k, live |-> TRUE, rows |-> resultG.rows, server |-> resultG.server]
  <2>1. /\ sentG' = sentG + 1 /\ netG' = {q} /\ sorting' = new /\ table' = table
    BY <1>1, <1>4 DEF G!SortTime
  <2>2. q.n = sentG + 1 /\ q.kind = "more" /\ q.server = resultG.server /\ q.page = k
    BY LogsReqIs
  <2>3. new.next = k /\ new.live = TRUE /\ new.rows = resultG.rows /\ new.server = resultG.server
    OBVIOUS
  <2>4. resultG.server \in LogServers /\ resultG.rows \in Seq(Nat) /\ LogTotal[resultG.server] \in Nat /\ LogPage \in Nat /\ LogPage > 0
    BY <1>2 DEF G!ResultFollows, G!Sized
  <2>5. PICK n \in 0..LogTotal[resultG.server] : resultG.rows = G!Upto(n) /\ n \in {LogPage, LogTotal[resultG.server]}
    BY <1>1, <1>2 DEF G!ResultFollows, G!Idle
  <2>6. Len(resultG.rows) = n
    BY <2>5, UptoIs
  <2>7. n = LogPage /\ n < LogTotal[resultG.server]
    BY <1>4, <2>4, <2>5, <2>6 DEF G!Full
  <2>8. k = 2
    <3>1. LogPage \div LogPage = 1
      BY <2>4
    <3> QED
      BY <2>6, <2>7, <3>1 DEF G!NextPage
  <2>9. new \in [next: Nat \ {0, 1}, live: BOOLEAN, rows: Seq(Nat), server: LogServers]
    BY <2>3, <2>4, <2>8
  <2>10. (k - 1) * LogPage = n
    BY <2>4, <2>7, <2>8
  <2> HIDE DEF k, q, new
  <2>11. G!Numbered'
    BY <1>1, <2>1, <2>2, <2>4, <2>8 DEF G!Numbered
  <2>12. G!SortFollows'
    <3>1. (sorting.next - 1)' * LogPage = n
      BY <2>1, <2>3, <2>10
    <3>2. G!Loads'
      BY <1>1, <1>2, <2>1, <2>2, <2>3, <2>5, <2>7, <2>9, <3>1 DEF G!Loads, G!Upto, G!None
    <3> QED
      BY <3>2 DEF G!SortFollows
  <2>13. G!ResultFollows'
    BY <1>1, <2>1, <2>3, SameResult
  <2>14. sorting' # G!Idle'
    <3>1. G!Idle'.next = 0
      BY DEF G!Idle
    <3>2. sorting'.next = 2
      BY <2>1, <2>3, <2>8
    <3> QED
      BY <3>1, <3>2
  <2>15. G!QueryFollows'
    BY <1>1, <1>2, <2>1, <2>2, <2>14 DEF G!QueryFollows, G!Answered, G!Drawn
  <2> QED
    BY <2>11, <2>12, <2>13, <2>15
<1> QED
  BY <1>3, <1>4

\* What the sort has behind an answer: the rows of one page more.
LEMMA LogsNextRows ==
  ASSUME G!Sized, G!Loads, NEW rows0, rows0 = sorting.rows \o G!PageRows(sorting.server, sorting.next)
  PROVE  \E n \in 0..LogTotal[sorting.server] :
           /\ rows0 = G!Upto(n)
           /\ n \in {sorting.next * LogPage, LogTotal[sorting.server]}
           /\ sorting.next * LogPage \in Nat
<1>1. /\ sorting.server \in LogServers /\ sorting.next \in Nat \ {0} /\ LogTotal[sorting.server] \in Nat
      /\ (sorting.next - 1) * LogPage < LogTotal[sorting.server]
      /\ sorting.rows = G!Upto((sorting.next - 1) * LogPage)
  BY DEF G!Loads, G!Sized
<1>2. PICK m \in 0..LogPage :
        /\ G!PageRows(sorting.server, sorting.next) = [k \in 1..m |-> (sorting.next - 1) * LogPage + k]
        /\ (sorting.next - 1) * LogPage \in Nat
        /\ (sorting.next - 1) * LogPage < LogTotal[sorting.server] => (sorting.next - 1) * LogPage + m <= LogTotal[sorting.server]
        /\ m = LogPage \/ (sorting.next - 1) * LogPage + m >= LogTotal[sorting.server]
  BY <1>1, PageIs
<1>3. PICK f \in Nat : f = (sorting.next - 1) * LogPage
  BY <1>2
<1>4. m \in Nat /\ LogPage \in Nat
  BY <1>2 DEF G!Sized
<1>5. rows0 = G!Upto(f + m)
  BY <1>1, <1>2, <1>3, <1>4, PagesJoin
<1>6. sorting.next * LogPage = f + LogPage
  BY <1>1, <1>3, <1>4
<1>8. f < LogTotal[sorting.server] /\ (m = LogPage \/ f + m >= LogTotal[sorting.server]) /\ f + m <= LogTotal[sorting.server]
  BY <1>1, <1>2, <1>3
<1>7. f + m \in 0..LogTotal[sorting.server] /\ f + m \in {f + LogPage, LogTotal[sorting.server]}
  BY <1>1, <1>3, <1>4, <1>8, SMTT(30)
<1> QED
  BY <1>3, <1>4, <1>5, <1>6, <1>7

LEMMA SortAnswered ==
  ASSUME LogsUsual, G!Sized, LogsParts, NEW r \in netG, G!GotMore(r)
  PROVE  LogsParts'
<1> USE DEF LogsParts
<1> DEFINE rows0 == sorting.rows \o G!PageRows(r.server, r.page)
           cut == G!PageRows(r.server, r.page) = <<>>
           kept == IF sorting.live THEN [resultG EXCEPT !.rows = rows0, !.cut = cut] ELSE resultG
           more == G!Req("more", r.server, sorting.next + 1)
           on == [sorting EXCEPT !.next = @ + 1, !.rows = rows0]
<1>1. /\ r.kind = "more" /\ resultG' = kept /\ UNCHANGED <<server, asked, canExport, faithful>>
      /\ \/ /\ ~G!Full(r.server, rows0)
            /\ sentG' = sentG + 1 /\ netG' = (netG \ {r}) \cup {more} /\ sorting' = on /\ UNCHANGED table
         \/ /\ ~(~cut /\ ~G!Full(r.server, rows0))
            /\ netG' = netG \ {r} /\ sorting' = G!Idle /\ table' = G!Rendered(kept) /\ UNCHANGED sentG
  BY DEF G!GotMore, G!Answer
<1>2. G!Loads /\ r.server = sorting.server /\ r.page = sorting.next /\ \A q \in netG : q.kind = "more" => q = r
  BY <1>1, SortOf
<1>3. rows0 = sorting.rows \o G!PageRows(sorting.server, sorting.next)
  BY <1>2
<1>4. PICK n \in 0..LogTotal[sorting.server] :
        /\ rows0 = G!Upto(n) /\ n \in {sorting.next * LogPage, LogTotal[sorting.server]} /\ sorting.next * LogPage \in Nat
  BY <1>2, <1>3, LogsNextRows
<1>5. /\ sorting \in [next: Nat \ {0, 1}, live: BOOLEAN, rows: Seq(Nat), server: LogServers]
      /\ resultG # G!None /\ resultG \in [server: LogServers, page: Nat \ {0}, rows: Seq(Nat), cut: BOOLEAN]
      /\ sorting.live => resultG.page = 1 /\ resultG.server = sorting.server /\ resultG.rows = sorting.rows
      /\ LogTotal[sorting.server] \in Nat /\ LogPage \in Nat \ {0}
  BY <1>2 DEF G!Loads, G!ResultFollows, G!Sized
<1>6. rows0 \in Seq(Nat) /\ Len(rows0) = n
  BY <1>4, <1>5, UptoIs
<1>7. more.n = sentG + 1 /\ more.kind = "more" /\ more.server = r.server /\ more.page = sorting.next + 1
  BY LogsReqIs
<1>8. cut \in BOOLEAN
  OBVIOUS
<1> HIDE DEF rows0, cut, more
<1>9. /\ kept \in [server: LogServers, page: Nat \ {0}, rows: Seq(Nat), cut: BOOLEAN]
      /\ kept.server = resultG.server /\ kept.page = resultG.page
      /\ kept.rows = IF sorting.live THEN rows0 ELSE resultG.rows
  <2>1. CASE sorting.live
    BY <1>5, <1>6, <1>8, <2>1
  <2>2. CASE ~sorting.live
    BY <1>5, <2>2
  <2> QED
    BY <2>1, <2>2
<1>10. kept # G!None
  <2>1. DOMAIN kept = {"server", "page", "rows", "cut"}
    BY <1>9
  <2>2. "server" \notin DOMAIN G!None
    BY DEF G!None
  <2> QED
    BY <2>1, <2>2
<1>12. sorting.next + 1 \in Nat \ {0, 1}
  BY <1>5
<1>11. /\ on \in [next: Nat \ {0, 1}, live: BOOLEAN, rows: Seq(Nat), server: LogServers]
       /\ on.next = sorting.next + 1 /\ on.live = sorting.live /\ on.rows = rows0 /\ on.server = sorting.server
  BY <1>5, <1>6, <1>12
<1> HIDE DEF kept, on
<1>13. \A q \in netG : q.kind = "query" => q \in netG'
  BY <1>1
<1>14. \A q \in netG' : q.kind = "query" => q \in netG
  BY <1>1, <1>7
<1>15. G!Answered' <=> G!Answered
  BY <1>13, <1>14 DEF G!Answered
<1>16. \A q \in netG' : q.kind = "query" => <<q.server, q.page>> = asked' \/ \E x \in netG' : x.kind = "query" /\ x.n > q.n
  <2>1. SUFFICES ASSUME NEW q \in netG', q.kind = "query", <<q.server, q.page>> # asked
                 PROVE  \E x \in netG' : x.kind = "query" /\ x.n > q.n
    BY <1>1
  <2>2. PICK x \in netG : x.kind = "query" /\ x.n > q.n
    BY <1>14, <2>1 DEF G!QueryFollows
  <2> QED
    BY <1>13, <2>2
<1>17. /\ G!Answered' => asked' = <<resultG'.server, resultG'.page>>
  BY <1>1, <1>5, <1>9, <1>15 DEF G!QueryFollows
<1>18. CASE /\ ~G!Full(r.server, rows0)
            /\ sentG' = sentG + 1 /\ netG' = (netG \ {r}) \cup {more} /\ sorting' = on /\ UNCHANGED table
  <2>1. n < LogTotal[sorting.server] /\ n = sorting.next * LogPage
    BY <1>2, <1>4, <1>5, <1>6, <1>18 DEF G!Full
  <2>2. (sorting'.next - 1) * LogPage = n
    <3>1. sorting'.next - 1 = sorting.next
      BY <1>5, <1>11, <1>18
    <3> QED
      BY <2>1, <3>1
  <2>3. G!Numbered'
    BY <1>1, <1>2, <1>5, <1>7, <1>18 DEF G!Numbered
  <2>4. more \in netG' /\ \A q \in netG' : q.kind = "more" => q = more
    BY <1>2, <1>18
  <2>5. G!Loads'
    <3>1. sorting'.live => resultG'.page = 1 /\ resultG'.server = sorting'.server /\ resultG'.rows = sorting'.rows
      BY <1>1, <1>5, <1>9, <1>11, <1>18
    <3>2. sorting'.rows = G!Upto(n) /\ sorting'.server = sorting.server
      BY <1>4, <1>11, <1>18
    <3>3. more.server = sorting'.server /\ more.page = sorting'.next
      BY <1>2, <1>7, <1>11, <1>18
    <3> QED
      BY <1>1, <1>7, <1>10, <1>11, <1>18, <2>1, <2>2, <2>4, <3>1, <3>2, <3>3 DEF G!Loads, G!Upto, G!None
  <2>6. G!ResultFollows'
    <3>1. CASE sorting.live
      BY <1>1, <1>4, <1>5, <1>9, <1>11, <1>18, <3>1 DEF G!ResultFollows, G!PageRows, G!Least, G!Upto, G!None
    <3>2. CASE ~sorting.live
      <4>1. resultG' = resultG
        BY <1>1, <3>2 DEF kept
      <4> QED
        BY <3>2, <4>1, SameResult
    <3> QED
      BY <3>1, <3>2
  <2>7. sorting' # G!Idle'
    <3>1. G!Idle'.next = 0
      BY DEF G!Idle
    <3>2. sorting'.next # 0
      BY <1>11, <1>18
    <3> QED
      BY <3>1, <3>2
  <2>8. G!QueryFollows'
    BY <1>1, <1>15, <1>16, <1>17, <1>18, <2>7 DEF G!QueryFollows
  <2> QED
    BY <2>3, <2>5, <2>6, <2>8 DEF G!SortFollows
<1>19. CASE /\ ~(~cut /\ ~G!Full(r.server, rows0))
            /\ netG' = netG \ {r} /\ sorting' = G!Idle /\ table' = G!Rendered(kept) /\ UNCHANGED sentG
  <2>1. G!Full(r.server, rows0)
    <3>1. SUFFICES ASSUME cut PROVE FALSE
      BY <1>19
    <3>2. PICK m \in 0..LogPage :
            /\ G!PageRows(r.server, r.page) = [k \in 1..m |-> (r.page - 1) * LogPage + k]
            /\ (r.page - 1) * LogPage \in Nat
            /\ m = LogPage \/ (r.page - 1) * LogPage + m >= LogTotal[r.server]
      BY <1>2, <1>5, PageIs
    <3>3. PICK f \in Nat : f = (r.page - 1) * LogPage
      BY <3>2
    <3>4. [k \in 1..m |-> f + k] = <<>>
      BY <3>1, <3>2, <3>3 DEF cut
    <3>5. m = 0
      BY <3>4
    <3>6. f < LogTotal[r.server]
      BY <1>2, <3>3 DEF G!Loads
    <3> QED
      BY <1>2, <1>5, <3>2, <3>3, <3>5, <3>6
  <2>2. n = LogTotal[sorting.server]
    BY <1>2, <1>4, <1>5, <1>6, <2>1 DEF G!Full
  <2>3. G!Numbered'
    BY <1>1, <1>19 DEF G!Numbered
  <2>4. G!SortFollows'
    <3>1. \A q \in netG' : q.kind = "query"
      BY <1>2, <1>19 DEF G!Numbered
    <3>2. G!Idle' = G!Idle
      BY DEF G!Idle, G!Blank
    <3> QED
      BY <1>19, <3>1, <3>2 DEF G!SortFollows
  <2>5. G!ResultFollows'
    <3>1. CASE sorting.live
      BY <1>1, <1>4, <1>5, <1>9, <2>2, <3>1 DEF G!ResultFollows, G!PageRows, G!Least, G!Upto, G!None
    <3>2. CASE ~sorting.live
      <4>1. resultG' = resultG
        BY <1>1, <3>2 DEF kept
      <4> QED
        BY <3>2, <4>1, SameResult
    <3> QED
      BY <3>1, <3>2
  <2>6. table'.server = resultG'.server /\ table'.page = resultG'.page /\ table'.rows = resultG'.rows
    BY <1>1, <1>19, TableText
  <2>7. G!QueryFollows'
    BY <1>1, <1>16, <1>17, <2>6 DEF G!QueryFollows
  <2> QED
    BY <2>3, <2>4, <2>5, <2>7
<1> QED
  BY <1>1, <1>18, <1>19

LEMMA NextLogs ==
  ASSUME LogsUsual, G!Sized, G!LogsFollow, [G!Next]_(G!vars)
  PROVE  G!LogsFollow'
<1>1. LogsParts
  BY DEF G!LogsFollow, LogsParts
<1>2. faithful
  BY DEF G!LogsFollow
<1>3. ASSUME NEW s \in LogServers, G!SetServer(s) PROVE LogsParts' /\ faithful'
  <2>1. server' \in LogServers /\ UNCHANGED <<asked, resultG, table, canExport, sorting, netG, sentG, faithful>>
    BY <1>3 DEF G!SetServer
  <2>2. G!Numbered'
    BY <1>1, <2>1 DEF G!Numbered, LogsParts
  <2>3. G!SortFollows' /\ G!ResultFollows'
    BY <1>1, <2>1, SameSort, SameResult DEF LogsParts
  <2>4. G!QueryFollows'
    BY <1>1, <2>1 DEF G!QueryFollows, G!Answered, G!Drawn, G!Idle, G!Blank, LogsParts
  <2> QED
    BY <1>2, <2>1, <2>2, <2>3, <2>4 DEF LogsParts
<1>4. ASSUME NEW p \in G!Pages, G!Query(p) PROVE LogsParts' /\ faithful'
  <2>1. p \in Nat \ {0} /\ faithful' = faithful
    BY <1>4 DEF G!Pages, G!Query
  <2> QED
    BY <1>1, <1>2, <1>4, <2>1, QueryAsked
<1>5. ASSUME G!Search PROVE LogsParts' /\ faithful'
  BY <1>1, <1>2, <1>5, SearchDraws DEF G!Search
<1>6. ASSUME G!SortTime PROVE LogsParts' /\ faithful'
  BY <1>1, <1>2, <1>6, SortBegins DEF G!SortTime
<1>7. ASSUME G!Export PROVE LogsParts' /\ faithful'
  <2>1. /\ canExport /\ G!Drawn /\ netG = {} /\ faithful' = (faithful /\ table.rows = resultG.rows)
        /\ UNCHANGED <<server, asked, resultG, table, canExport, sorting, netG, sentG>>
    BY <1>7 DEF G!Export
  <2>2. G!Answered /\ ~G!Loads
    BY <2>1 DEF G!Answered, G!Loads
  <2>3. table.rows = resultG.rows
    BY <1>1, <2>1, <2>2 DEF G!QueryFollows, G!SortFollows, LogsParts
  <2>4. G!Numbered'
    BY <1>1, <2>1 DEF G!Numbered, LogsParts
  <2>5. G!SortFollows' /\ G!ResultFollows'
    BY <1>1, <2>1, SameSort, SameResult DEF LogsParts
  <2>6. G!QueryFollows'
    BY <1>1, <2>1 DEF G!QueryFollows, G!Answered, G!Drawn, G!Idle, G!Blank, LogsParts
  <2> QED
    BY <1>2, <2>1, <2>3, <2>4, <2>5, <2>6 DEF LogsParts
<1>8. ASSUME NEW r \in netG, G!GotQuery(r) PROVE LogsParts' /\ faithful'
  BY <1>1, <1>2, <1>8, QueryAnswered DEF G!GotQuery
<1>9. ASSUME NEW r \in netG, G!GotMore(r) PROVE LogsParts' /\ faithful'
  <2>1. faithful' = faithful
    BY <1>9 DEF G!GotMore
  <2> QED
    BY <1>1, <1>2, <1>9, <2>1, SortAnswered
<1>10. CASE UNCHANGED G!vars
  <2>1. UNCHANGED <<server, asked, resultG, table, canExport, sorting, netG, sentG, faithful>>
    BY <1>10 DEF G!vars
  <2>2. G!Numbered'
    BY <1>1, <2>1 DEF G!Numbered, LogsParts
  <2>3. G!SortFollows' /\ G!ResultFollows'
    BY <1>1, <2>1, SameSort, SameResult DEF LogsParts
  <2>4. G!QueryFollows'
    BY <1>1, <2>1 DEF G!QueryFollows, G!Answered, G!Drawn, G!Idle, G!Blank, LogsParts
  <2> QED
    BY <1>2, <2>1, <2>2, <2>3, <2>4 DEF LogsParts, G!LogsFollow
<1>11. LogsParts' /\ faithful' => G!LogsFollow'
  BY DEF LogsParts, G!LogsFollow
<1> QED
  BY <1>3, <1>4, <1>5, <1>6, <1>7, <1>8, <1>9, <1>10, <1>11 DEF G!Next, G!User

C == INSTANCE DiffTab WITH bar <- barC, net <- netC, sent <- sentC, events <- eventsC

(***************************************************************************)
(* What the compare tab keeps: its entries until they are settled, the file*)
(* on show, its progress bar.                                              *)
(***************************************************************************)
\* Nothing is listed and nothing is on its way at first.
LEMMA InitSettling ==
  ASSUME C!Init
  PROVE  C!Settling
<1>1. target \in Targets /\ listed = {} /\ conflicts = {} /\ selected = C!None /\ netC = {} /\ sentC = 0
  BY DEF C!Init
<1>2. busy = FALSE
  BY DEF C!Init
<1>3. C!Shapes
  BY <1>1, <1>2 DEF C!Shapes
<1>4. asking = "merge" => ~busy
  BY <1>2
<1> QED
  BY <1>1, <1>3, <1>4 DEF C!Settling

\* A request is sent to the present target, and is not answered yet.
LEMMA SendAdds ==
  ASSUME sentC \in Nat, netC \subseteq C!Requests, target \in Targets,
         NEW kind \in {"scan", "file", "history", "one", "batch", "resolve"},
         NEW paths \in SUBSET Paths, C!Send(kind, paths)
  PROVE  /\ sentC' \in Nat /\ netC' \subseteq C!Requests
         /\ \E q \in C!Requests : /\ netC' = netC \cup {q} /\ q.kind = kind
                                /\ q.to = target /\ ~q.done
<1> DEFINE q == [n |-> sentC + 1, kind |-> kind, to |-> target, paths |-> paths,
                 done |-> FALSE, ok |-> {}, clash |-> {}]
<1>1. q \in C!Requests
  BY DEF C!Requests
<1>2. netC' = netC \cup {q} /\ sentC' = sentC + 1
  BY DEF C!Send
<1>3. q.kind = kind /\ q.to = target /\ q.done = FALSE
  OBVIOUS
<1>4. sentC' \in Nat
  BY <1>2
<1>5. netC' \subseteq C!Requests
  BY <1>1, <1>2
<1> HIDE DEF q
<1> QED
  BY <1>1, <1>2, <1>3, <1>4, <1>5

\* A light request is sent, answers are handled: the page stays as busy as it was.
LEMMA LightStep ==
  ASSUME C!Settling, UNCHANGED <<target, of, busy, settled>>, listed' \subseteq listed,
         conflicts' \subseteq Paths, selected' \in Paths \cup {C!None}, sentC' \in Nat,
         netC' \subseteq C!Requests, asking' = "merge" => ~busy,
         \A r \in netC' : r \in netC \/ (~C!Heavy(r) /\ ~r.done /\ r.to = target)
  PROVE  C!Settling'
<1>1. C!Shapes'
  BY DEF C!Settling, C!Shapes
<1>2. ASSUME NEW r \in netC' PROVE C!Told(r)'
  <2>1. CASE r \in netC
    BY <2>1 DEF C!Settling, C!Told, C!Heavy
  <2>2. CASE ~C!Heavy(r) /\ ~r.done /\ r.to = target
    BY <2>2 DEF C!Told, C!Heavy
  <2> QED
    BY <1>2, <2>1, <2>2
<1>3. \A r, q \in netC' : C!Heavy(r) /\ C!Heavy(q) => r = q
  BY DEF C!Settling
<1>4. listed' # {} => of' = target'
  BY DEF C!Settling
<1> QED
  BY <1>1, <1>2, <1>3, <1>4 DEF C!Settling, C!Heavy

\* A scan or a batch is sent: the page was not busy, so there is no other.
LEMMA HeavyStep ==
  ASSUME C!Settling, ~busy, busy' = TRUE, UNCHANGED <<target, conflicts, settled>>,
         asking' # "merge", selected' \in Paths \cup {C!None},
         NEW kind \in {"scan", "batch"}, NEW paths \in SUBSET Paths, C!Send(kind, paths),
         \/ listed' = {}
         \/ kind = "batch" /\ UNCHANGED C!list
  PROVE  C!Settling'
<1>1. sentC' \in Nat /\ netC' \subseteq C!Requests
  BY SendAdds DEF C!Settling, C!Shapes
<1>2. PICK q \in C!Requests : netC' = netC \cup {q} /\ q.kind = kind /\ q.to = target /\ ~q.done
  BY SendAdds DEF C!Settling, C!Shapes
<1>3. \A r \in netC : ~C!Heavy(r)
  BY DEF C!Settling, C!Told
<1>4. C!Shapes'
  BY <1>1 DEF C!Settling, C!Shapes, C!list
<1>5. ASSUME NEW r \in netC' PROVE C!Told(r)'
  <2>1. CASE r \in netC
    BY <2>1, <1>3 DEF C!Settling, C!Told, C!Heavy
  <2>2. CASE r = q
    BY <2>2, <1>2 DEF C!Told, C!Heavy, C!list
  <2> QED
    BY <1>2, <2>1, <2>2
<1>6. \A r, p \in netC' : C!Heavy(r) /\ C!Heavy(p) => r = p
  BY <1>2, <1>3
<1>7. listed' # {} => of' = target'
  BY DEF C!Settling, C!list
<1> QED
  BY <1>4, <1>5, <1>6, <1>7 DEF C!Settling, C!Heavy

\* The answer to a scan or a batch: none is left, and the page is not busy any more.
LEMMA IdleStep ==
  ASSUME C!Settling, UNCHANGED <<target, settled, sentC, asking, selected>>,
         conflicts' \subseteq Paths, busy' = FALSE, NEW r \in netC, C!Heavy(r), netC' = netC \ {r},
         listed' \subseteq Paths, listed' # {} => of' = target
  PROVE  C!Settling'
<1>1. \A q \in netC' : q \in netC /\ ~C!Heavy(q)
  BY DEF C!Settling
<1>2. C!Shapes'
  BY DEF C!Settling, C!Shapes
<1>3. ASSUME NEW q \in netC' PROVE C!Told(q)'
  BY <1>1, <1>3 DEF C!Settling, C!Told, C!Heavy
<1> QED
  BY <1>1, <1>2, <1>3 DEF C!Settling, C!Heavy

\* What the server answers as settled is settled.
LEMMA ServeKeepsSettling ==
  ASSUME C!Settling, NEW r \in netC, C!Serve(r)
  PROVE  C!Settling'
<1>1. PICK ok \in SUBSET r.paths, clash \in SUBSET r.paths :
        /\ netC' = (netC \ {r}) \cup {[r EXCEPT !.done = TRUE, !.ok = ok, !.clash = clash]}
        /\ settled' = IF r.kind \in {"one", "batch", "resolve"}
                      THEN settled \cup {<<r.to, p>> : p \in ok} ELSE settled
  BY DEF C!Serve
<1> DEFINE s == [r EXCEPT !.done = TRUE, !.ok = ok, !.clash = clash]
<1>2. UNCHANGED <<target, listed, of, selected, conflicts, asking, busy, sentC>>
  BY DEF C!Serve, C!list, C!look, C!dialog
<1>3. r \in C!Requests /\ C!Told(r)
  BY DEF C!Settling, C!Shapes
<1>4. s \in C!Requests
  BY <1>3 DEF C!Requests
<1>5. /\ s.kind = r.kind /\ s.to = r.to /\ s.ok = ok /\ s.paths = r.paths
  BY <1>3 DEF C!Requests
<1>6. netC' = (netC \ {r}) \cup {s}
  BY <1>1
<1>7. settled \subseteq settled'
  BY <1>1
<1>8. s.kind \in {"one", "batch", "resolve"} => \A p \in s.ok : <<s.to, p>> \in settled'
  BY <1>1, <1>5
<1> HIDE DEF s
<1>10. C!Shapes'
  BY <1>2, <1>4, <1>6 DEF C!Settling, C!Shapes
<1>11. ASSUME NEW q \in netC' PROVE C!Told(q)'
  <2>1. CASE q \in netC
    BY <2>1, <1>2, <1>7 DEF C!Settling, C!Told, C!Heavy
  <2>2. CASE q = s
    BY <2>2, <1>2, <1>3, <1>5, <1>8 DEF C!Told, C!Heavy
  <2> QED
    BY <1>6, <1>11, <2>1, <2>2
<1>12. \A q, p \in netC' : C!Heavy(q) /\ C!Heavy(p) => q = p
  BY <1>5, <1>6 DEF C!Settling, C!Heavy
<1> QED
  BY <1>2, <1>10, <1>11, <1>12 DEF C!Settling, C!Heavy

\* What the user does.
LEMMA UserKeepsSettling ==
  ASSUME Steady, C!Settling, C!User
  PROVE  C!Settling'
<1> USE DEF C!list, C!look, C!dialog, C!Quiet
<1>0. /\ C!Shapes /\ (asking = "merge" => ~busy)
      /\ \A k, paths : C!Send(k, paths) /\ k \in {"file", "history", "one", "resolve"} /\ paths \subseteq Paths
           => /\ sentC' \in Nat /\ netC' \subseteq C!Requests
              /\ \A r \in netC' : r \in netC \/ (~C!Heavy(r) /\ ~r.done /\ r.to = target)
  <2>1. C!Shapes /\ (asking = "merge" => ~busy)
    BY DEF C!Settling
  <2>2. ASSUME NEW k \in {"file", "history", "one", "resolve"}, NEW paths \in SUBSET Paths, C!Send(k, paths)
        PROVE  /\ sentC' \in Nat /\ netC' \subseteq C!Requests
               /\ \A r \in netC' : r \in netC \/ (~C!Heavy(r) /\ ~r.done /\ r.to = target)
    <3>1. PICK q \in C!Requests : netC' = netC \cup {q} /\ q.kind = k /\ q.to = target /\ ~q.done
      BY <2>1, <2>2, SendAdds DEF C!Shapes
    <3> QED
      BY <2>1, <2>2, <3>1, SendAdds DEF C!Shapes, C!Heavy
  <2> QED
    BY <2>1, <2>2
<1>1. ASSUME NEW x \in Targets, C!EditTarget(x) PROVE C!Settling'
  <2>1. netC = {} /\ listed = {} /\ UNCHANGED <<netC, listed, selected, conflicts, busy, sentC, asking>> /\ target' = x
    BY <1>1 DEF C!EditTarget
  <2> QED
    BY <2>1 DEF C!Settling, C!Shapes
<1>2. ASSUME NEW p \in Paths, C!OpenFile(p) PROVE C!Settling'
  <2>1. selected' \in Paths \cup {C!None} /\ asking' = asking
    BY <1>2 DEF C!OpenFile
  <2> QED
    BY <1>0, <1>2, <2>1, LightStep DEF C!OpenFile, C!Shapes
<1>3. ASSUME NEW p \in Paths, C!OpenHistory(p) PROVE C!Settling'
  BY <1>0, <1>3, LightStep DEF C!OpenHistory, C!Shapes
<1>4. CASE C!Scan
  <2>1. asking' # "merge"
    BY <1>4 DEF C!Scan, C!Settings, C!Open, C!Free, C!None
  <2> QED
    BY <1>4, <2>1, HeavyStep DEF C!Scan
<1>5. CASE C!BackToDiff
  BY <1>0, <1>5, LightStep DEF C!BackToDiff, C!Shapes
<1>6. CASE C!MergeOne
  <2>1. {selected} \subseteq Paths
    BY <1>0, <1>6 DEF C!MergeOne, C!Shapes
  <2> QED
    BY <1>0, <1>6, <2>1, LightStep DEF C!MergeOne, C!Shapes
<1>7. CASE C!AskMergeAll
  BY <1>0, <1>7, LightStep DEF C!AskMergeAll, C!Buttons, C!Shapes
<1>8. CASE C!MergeAll
  <2>1. ~busy /\ asking' # "merge" /\ listed \in SUBSET Paths
    BY <1>0, <1>8 DEF C!MergeAll, C!None, C!Shapes
  <2> QED
    BY <1>0, <1>8, <2>1, HeavyStep DEF C!MergeAll, C!RunMerge, C!Shapes
<1>9. CASE C!MergeSelected
  <2>1. PICK ticked \in SUBSET listed : C!RunMerge(ticked)
    BY <1>9 DEF C!MergeSelected
  <2>2. ~busy /\ asking' # "merge" /\ ticked \in SUBSET Paths
    BY <1>0, <1>9 DEF C!MergeSelected, C!Buttons, C!Open, C!Free, C!None, C!Shapes
  <2> QED
    BY <1>0, <1>9, <2>1, <2>2, HeavyStep DEF C!MergeSelected, C!RunMerge, C!Shapes
<1>10. CASE C!EditConflict
  BY <1>0, <1>10, LightStep DEF C!EditConflict, C!Shapes
<1>11. CASE C!CloseConflicts
  BY <1>0, <1>11, LightStep DEF C!CloseConflicts, C!Shapes
<1>12. CASE C!ConfirmClose \/ C!Decline
  BY <1>0, <1>12, LightStep DEF C!ConfirmClose, C!Decline, C!Shapes, C!None
<1>13. CASE C!ResolveConflicts
  BY <1>0, <1>13, LightStep DEF C!ResolveConflicts, C!Shapes
<1> QED
  BY <1>1, <1>2, <1>3, <1>4, <1>5, <1>6, <1>7, <1>8, <1>9, <1>10, <1>11, <1>12, <1>13
     DEF C!User

\* An answer reaches the page.
LEMMA AnswersKeepSettling ==
  ASSUME C!Settling, C!Answers
  PROVE  C!Settling'
<1> USE DEF C!list, C!look, C!dialog, C!Got
<1> PICK r \in netC : C!GotScan(r) \/ C!GotFile(r) \/ C!GotHistory(r) \/ C!GotOne(r) \/ C!GotBatch(r) \/ C!GotResolve(r)
  BY DEF C!Answers
<1>0. /\ C!Shapes /\ (asking = "merge" => ~busy) /\ (listed # {} => of = target)
      /\ C!Told(r) /\ r \in C!Requests
  BY DEF C!Settling, C!Shapes
<1>1. CASE C!GotScan(r)
  BY <1>0, <1>1, IdleStep DEF C!GotScan, C!Heavy, C!Shapes, C!Told
<1>2. CASE C!GotFile(r) \/ C!GotHistory(r)
  BY <1>0, <1>2, LightStep DEF C!GotFile, C!GotHistory, C!Shapes
<1>3. CASE C!GotOne(r)
  <2>1. conflicts' \subseteq Paths
    BY <1>0, <1>3 DEF C!GotOne, C!OpenConflicts, C!Shapes, C!Requests
  <2>2. selected' \in Paths \cup {C!None} /\ listed' \subseteq listed
    BY <1>0, <1>3 DEF C!GotOne, C!Shapes
  <2> QED
    BY <1>0, <1>3, <2>1, <2>2, LightStep DEF C!GotOne, C!Shapes
<1>4. CASE C!GotBatch(r)
  <2>1. conflicts' \subseteq Paths
    BY <1>0, <1>4 DEF C!GotBatch, C!OpenConflicts, C!Shapes, C!Requests
  <2> QED
    BY <1>0, <1>4, <2>1, IdleStep DEF C!GotBatch, C!Drop, C!Heavy, C!Shapes
<1>5. CASE C!GotResolve(r)
  <2>1. conflicts' \subseteq Paths /\ listed' \subseteq listed
    BY <1>0, <1>5 DEF C!GotResolve, C!Shapes
  <2> QED
    BY <1>0, <1>5, <2>1, LightStep DEF C!GotResolve, C!Shapes
<1> QED
  BY <1>1, <1>2, <1>3, <1>4, <1>5

LEMMA NextKeepsSettling ==
  ASSUME Steady, C!Settling, [C!Next]_(C!vars)
  PROVE  C!Settling'
<1>1. CASE UNCHANGED C!vars
  BY <1>1 DEF C!vars, C!list, C!look, C!dialog, C!Settling, C!Shapes, C!Told, C!Heavy
<1>2. CASE C!HandleEvent
  BY <1>2, LightStep DEF C!HandleEvent, C!list, C!look, C!dialog, C!Quiet, C!Settling, C!Shapes
<1>3. CASE C!Server
  BY <1>3, ServeKeepsSettling DEF C!Server
<1> QED
  BY <1>1, <1>2, <1>3, UserKeepsSettling, AnswersKeepSettling DEF C!Next

\* What leaves the list was told to be settled.
LEMMA LeavesSettled ==
  ASSUME C!Settling, [C!Next]_(C!vars)
  PROVE  C!LeavesWhenSettledStep
<1> SUFFICES ASSUME NEW p \in listed \ listed' PROVE C!Settles(p) \/ C!Rescans \/ C!Decides(p)
  BY DEF C!LeavesWhenSettledStep
<1> USE DEF C!list, C!look, C!dialog, C!Settles, C!Rescans
<1>0. of = target
  BY DEF C!Settling
<1>1. CASE C!Scan
  BY <1>1 DEF C!Scan
<1>2. CASE C!Answers
  <2> PICK r \in netC : C!GotScan(r) \/ C!GotFile(r) \/ C!GotHistory(r) \/ C!GotOne(r) \/ C!GotBatch(r) \/ C!GotResolve(r)
    BY <1>2 DEF C!Answers
  <2>1. C!Told(r)
    BY DEF C!Settling
  <2>2. CASE C!GotScan(r)
    BY <2>1, <2>2 DEF C!GotScan, C!Got, C!Told
  <2>3. CASE C!GotFile(r) \/ C!GotHistory(r)
    BY <2>3 DEF C!GotFile, C!GotHistory
  <2>4. CASE C!GotOne(r) \/ C!GotBatch(r)
    BY <1>0, <2>1, <2>4 DEF C!GotOne, C!GotBatch, C!Got, C!Drop, C!Told
  <2>5. CASE C!GotResolve(r)
    BY <2>5 DEF C!GotResolve, C!Got, C!Decides
  <2> QED
    BY <2>2, <2>3, <2>4, <2>5
<1>3. CASE C!Server
  BY <1>3 DEF C!Server, C!Serve
<1>5. CASE C!HandleEvent \/ UNCHANGED C!vars
  BY <1>5 DEF C!HandleEvent, C!vars
<1>4. CASE C!User
  BY <1>1, <1>4 DEF C!User, C!EditTarget, C!OpenFile, C!OpenHistory, C!BackToDiff, C!MergeOne, C!AskMergeAll, C!MergeAll,
       C!MergeSelected, C!EditConflict, C!CloseConflicts, C!ConfirmClose, C!Decline, C!ResolveConflicts
<1> QED
  BY <1>2, <1>3, <1>4, <1>5 DEF C!Next

\* What a request is, when it is sent.
LEMMA SentLook ==
  ASSUME NEW k, NEW paths, C!Send(k, paths)
  PROVE  \E q : netC' = netC \cup {q} /\ q.kind = k /\ q.paths = paths
<1> DEFINE q == [n |-> sentC + 1, kind |-> k, to |-> target, paths |-> paths,
                 done |-> FALSE, ok |-> {}, clash |-> {}]
<1>1. q.kind = k /\ q.paths = paths
  OBVIOUS
<1>2. netC' = netC \cup {q}
  BY DEF C!Send
<1> HIDE DEF q
<1> QED
  BY <1>1, <1>2

LEMMA SameLook ==
  ASSUME C!LookFollows, UNCHANGED selected, html' \in {html, C!None}, netC' \subseteq netC
  PROVE  C!LookFollows'
BY DEF C!LookFollows, C!ShownIsSelected

LEMMA NextLook ==
  ASSUME Patient, C!LookFollows, [C!Next]_(C!vars)
  PROVE  C!LookFollows'
<1> USE DEF C!list, C!look, C!dialog, C!Quiet
<1>1. ASSUME NEW x \in Targets, C!EditTarget(x)
      PROVE  C!LookFollows'
  BY <1>1, SameLook DEF C!EditTarget
<1>2. ASSUME NEW p \in Paths, C!OpenFile(p)
      PROVE  C!LookFollows'
  <2>1. \A r \in netC : r.kind \notin {"file", "one"}
    BY <1>2 DEF C!OpenFile, C!Waiting
  <2>2. selected' = p /\ html' = C!None /\ C!Send("file", {p})
    BY <1>2 DEF C!OpenFile
  <2>3. PICK q : netC' = netC \cup {q} /\ q.kind = "file" /\ q.paths = {p}
    BY <2>2, SentLook
  <2> QED
    BY <2>1, <2>2, <2>3 DEF C!LookFollows, C!ShownIsSelected
<1>3. ASSUME NEW p \in Paths, C!OpenHistory(p)
      PROVE  C!LookFollows'
  <2>1. C!Send("history", {p}) /\ UNCHANGED <<selected, html>>
    BY <1>3 DEF C!OpenHistory
  <2>2. PICK q : netC' = netC \cup {q} /\ q.kind = "history"
    BY <2>1, SentLook
  <2> QED
    BY <2>1, <2>2 DEF C!LookFollows, C!ShownIsSelected
<1>4. CASE C!Scan
  <2>1. \A r \in netC : r.kind \notin {"file", "one"}
    BY <1>4 DEF C!Scan, C!Waiting
  <2>2. html' = C!None /\ C!Send("scan", {})
    BY <1>4 DEF C!Scan, C!NoHtml
  <2>3. PICK q : netC' = netC \cup {q} /\ q.kind = "scan"
    BY <2>2, SentLook
  <2> QED
    BY <2>1, <2>2, <2>3 DEF C!LookFollows, C!ShownIsSelected
<1>5. CASE C!MergeOne
  <2>1. \A r \in netC : r.kind \notin {"file", "one"}
    BY <1>5 DEF C!MergeOne, C!Waiting
  <2>2. UNCHANGED <<selected, html>> /\ C!Send("one", {selected})
    BY <1>5 DEF C!MergeOne
  <2>3. PICK q : netC' = netC \cup {q} /\ q.kind = "one"
    BY <2>2, SentLook
  <2> QED
    BY <2>1, <2>2, <2>3 DEF C!LookFollows, C!ShownIsSelected
<1>6. CASE C!BackToDiff \/ C!AskMergeAll \/ C!EditConflict \/ C!CloseConflicts \/ C!ConfirmClose \/ C!Decline
  BY <1>6, SameLook DEF C!BackToDiff, C!AskMergeAll, C!EditConflict, C!CloseConflicts, C!ConfirmClose, C!Decline
<1>7. ASSUME NEW k \in {"batch", "resolve"}, NEW paths, C!Send(k, paths), UNCHANGED <<selected, html>>
      PROVE  C!LookFollows'
  <2>1. PICK q : netC' = netC \cup {q} /\ q.kind = k
    BY <1>7, SentLook
  <2> QED
    BY <1>7, <2>1 DEF C!LookFollows, C!ShownIsSelected
<1>8. CASE C!MergeAll \/ C!MergeSelected \/ C!ResolveConflicts
  BY <1>7, <1>8 DEF C!MergeAll, C!MergeSelected, C!RunMerge, C!ResolveConflicts
<1>9. ASSUME NEW r \in netC, C!Serve(r)
      PROVE  C!LookFollows'
  <2>1. PICK s : netC' = (netC \ {r}) \cup {s} /\ s.kind = r.kind /\ s.paths = r.paths
    <3>1. PICK ok, clash : netC' = (netC \ {r}) \cup {[r EXCEPT !.done = TRUE, !.ok = ok, !.clash = clash]}
      BY <1>9 DEF C!Serve
    <3> DEFINE s == [r EXCEPT !.done = TRUE, !.ok = ok, !.clash = clash]
    <3>2. s.kind = r.kind /\ s.paths = r.paths
      OBVIOUS
    <3>3. netC' = (netC \ {r}) \cup {s}
      BY <3>1
    <3> HIDE DEF s
    <3> QED
      BY <3>2, <3>3
  <2>2. UNCHANGED <<selected, html>>
    BY <1>9 DEF C!Serve
  <2> QED
    BY <2>1, <2>2 DEF C!LookFollows, C!ShownIsSelected
<1>10. ASSUME NEW r \in netC, C!GotFile(r)
       PROVE  C!LookFollows'
  <2>1. r.paths = {selected} /\ UNCHANGED selected /\ netC' \subseteq netC
    BY <1>10 DEF C!GotFile, C!Got, C!LookFollows
  <2>2. html' = CHOOSE p \in r.paths : TRUE
    BY <1>10 DEF C!GotFile
  <2>3. html' = selected
    BY <2>1, <2>2
  <2> QED
    BY <2>1, <2>3 DEF C!LookFollows, C!ShownIsSelected
<1>11. ASSUME NEW r \in netC, C!GotOne(r)
       PROVE  C!LookFollows'
  <2>1. r.kind = "one" /\ netC' = netC \ {r}
    BY <1>11 DEF C!GotOne, C!Got
  <2>2. \A q \in netC' : q.kind # "file"
    BY <2>1 DEF C!LookFollows
  <2>3. UNCHANGED <<selected, html>> \/ html' = C!None
    BY <1>11 DEF C!GotOne
  <2> QED
    BY <2>1, <2>2, <2>3 DEF C!LookFollows, C!ShownIsSelected
<1>12. ASSUME NEW r \in netC, C!GotScan(r) \/ C!GotHistory(r) \/ C!GotBatch(r) \/ C!GotResolve(r)
       PROVE  C!LookFollows'
  BY <1>12, SameLook DEF C!GotScan, C!GotHistory, C!GotBatch, C!GotResolve, C!Got
<1>13. CASE C!HandleEvent \/ UNCHANGED C!vars
  BY <1>13, SameLook DEF C!HandleEvent, C!vars
<1> QED
  BY <1>1, <1>2, <1>3, <1>4, <1>5, <1>6, <1>8, <1>9, <1>10, <1>11, <1>12, <1>13 DEF C!Next, C!User, C!Server, C!Answers
-----------------------------------------------------------------------------
\* The events of a scan, or of a merge, come behind those on their way.
LEMMA MoreEvents ==
  ASSUME NEW E, E = {"merge_progress", "merge_done", "scan_progress", "scan_done"},
         eventsC \in Seq(E), NEW a \in E, NEW b \in E, eventsC' = eventsC \o <<a, b>>,
         a = "merge_progress" => b = "merge_done", b # "merge_progress",
         \A i \in DOMAIN eventsC : eventsC[i] = "merge_progress"
           => i < Len(eventsC) /\ eventsC[i + 1] = "merge_done"
  PROVE  /\ eventsC' \in Seq(E)
         /\ C!EndComes => C!EndComes'
         /\ \A i \in DOMAIN eventsC' : eventsC'[i] = "merge_progress"
              => i < Len(eventsC') /\ eventsC'[i + 1] = "merge_done"
<1>1. /\ eventsC' \in Seq(E) /\ Len(eventsC') = Len(eventsC) + 2
      /\ \A i \in 1..Len(eventsC) : eventsC'[i] = eventsC[i]
      /\ eventsC'[Len(eventsC) + 1] = a /\ eventsC'[Len(eventsC) + 2] = b
  OBVIOUS
<1>2. DOMAIN eventsC = 1..Len(eventsC) /\ DOMAIN eventsC' = 1..(Len(eventsC) + 2) /\ Len(eventsC) \in Nat
  BY <1>1
<1>3. C!EndComes => C!EndComes'
  BY <1>1, <1>2 DEF C!EndComes
<1>4. ASSUME NEW i \in DOMAIN eventsC', eventsC'[i] = "merge_progress"
      PROVE  i < Len(eventsC') /\ eventsC'[i + 1] = "merge_done"
  <2>1. CASE i \in 1..Len(eventsC)
    BY <1>1, <1>2, <1>4, <2>1
  <2>2. CASE i = Len(eventsC) + 1
    BY <1>1, <1>2, <1>4, <2>2
  <2>3. CASE i = Len(eventsC) + 2
    BY <1>1, <1>4, <2>3
  <2> QED
    BY <1>2, <1>4, <2>1, <2>2, <2>3
<1> QED
  BY <1>1, <1>3, <1>4

\* The first event is handled.
LEMMA LessEvents ==
  ASSUME NEW E, eventsC \in Seq(E), eventsC # <<>>, eventsC' = Tail(eventsC),
         \A i \in DOMAIN eventsC : eventsC[i] = "merge_progress"
           => i < Len(eventsC) /\ eventsC[i + 1] = "merge_done"
  PROVE  /\ eventsC' \in Seq(E) /\ Head(eventsC) \in E
         /\ C!EndComes /\ Head(eventsC) # "merge_done" => C!EndComes'
         /\ Head(eventsC) = "merge_progress" => C!EndComes'
         /\ \A i \in DOMAIN eventsC' : eventsC'[i] = "merge_progress"
              => i < Len(eventsC') /\ eventsC'[i + 1] = "merge_done"
<1>1. /\ eventsC' \in Seq(E) /\ Len(eventsC') = Len(eventsC) - 1 /\ Len(eventsC) \in Nat \ {0}
      /\ \A i \in 1..(Len(eventsC) - 1) : eventsC'[i] = eventsC[i + 1]
      /\ Head(eventsC) = eventsC[1] /\ Head(eventsC) \in E
  OBVIOUS
<1>2. DOMAIN eventsC = 1..Len(eventsC) /\ DOMAIN eventsC' = 1..(Len(eventsC) - 1)
  BY <1>1
<1>3. ASSUME NEW i \in DOMAIN eventsC, eventsC[i] = "merge_done", i # 1
      PROVE  C!EndComes'
  <2>1. i - 1 \in DOMAIN eventsC' /\ eventsC'[i - 1] = "merge_done"
    BY <1>1, <1>2, <1>3
  <2> QED
    BY <2>1 DEF C!EndComes
<1>4. C!EndComes /\ Head(eventsC) # "merge_done" => C!EndComes'
  BY <1>1, <1>3 DEF C!EndComes
<1>5. Head(eventsC) = "merge_progress" => C!EndComes'
  <2>1. SUFFICES ASSUME eventsC[1] = "merge_progress" PROVE C!EndComes'
    BY <1>1
  <2>2. 1 + 1 \in DOMAIN eventsC /\ eventsC[1 + 1] = "merge_done"
    BY <1>1, <1>2, <2>1
  <2> QED
    BY <1>3, <2>2
<1>6. ASSUME NEW i \in DOMAIN eventsC', eventsC'[i] = "merge_progress"
      PROVE  i < Len(eventsC') /\ eventsC'[i + 1] = "merge_done"
  <2>1. i + 1 \in DOMAIN eventsC /\ eventsC[i + 1] = "merge_progress" /\ i \in Nat \ {0}
    BY <1>1, <1>2, <1>6
  <2>2. i + 1 < Len(eventsC) /\ eventsC[i + 1 + 1] = "merge_done"
    BY <2>1
  <2> QED
    BY <1>1, <1>2, <2>1, <2>2
<1> QED
  BY <1>1, <1>4, <1>5, <1>6

\* A request is sent, or an answer that is no scan's and no merge's is handled.
LEMMA SameBar ==
  ASSUME C!BarFollows, UNCHANGED <<barC, scanning, eventsC>>,
         \A r \in netC : r.kind \in {"scan", "batch"} => r \in netC'
  PROVE  C!BarFollows'
BY DEF C!BarFollows, C!Waiting, C!EndComes

LEMMA NextBar ==
  ASSUME C!BarFollows, [C!Next]_(C!vars)
  PROVE  C!BarFollows'
<1> USE DEF C!list, C!look, C!dialog, C!Quiet
<1>1. ASSUME NEW x \in Targets, C!EditTarget(x)
      PROVE  C!BarFollows'
  BY <1>1, SameBar DEF C!EditTarget
<1>2. ASSUME NEW p \in Paths, C!OpenFile(p) \/ C!OpenHistory(p)
      PROVE  C!BarFollows'
  BY <1>2, SameBar DEF C!OpenFile, C!OpenHistory, C!Send
<1>3. CASE C!Scan
  <2>1. C!Send("scan", {}) /\ UNCHANGED eventsC
    BY <1>3 DEF C!Scan
  <2>2. PICK q : netC' = netC \cup {q} /\ q.kind = "scan"
    BY <2>1, SentLook
  <2>3. C!Waiting({"scan"})' /\ C!Waiting({"scan", "batch"})'
    BY <2>2 DEF C!Waiting
  <2> QED
    BY <2>1, <2>3 DEF C!BarFollows
<1>4. CASE C!BackToDiff \/ C!AskMergeAll \/ C!EditConflict \/ C!CloseConflicts \/ C!ConfirmClose \/ C!Decline
  BY <1>4, SameBar DEF C!BackToDiff, C!AskMergeAll, C!EditConflict, C!CloseConflicts, C!ConfirmClose, C!Decline
<1>5. CASE C!MergeOne \/ C!MergeAll \/ C!MergeSelected \/ C!ResolveConflicts
  BY <1>5, SameBar DEF C!MergeOne, C!MergeAll, C!MergeSelected, C!RunMerge, C!ResolveConflicts, C!Send
<1>6. ASSUME NEW r \in netC, C!Serve(r)
      PROVE  C!BarFollows'
  <2>1. PICK s : netC' = (netC \ {r}) \cup {s} /\ s.kind = r.kind
    <3>1. PICK ok, clash : netC' = (netC \ {r}) \cup {[r EXCEPT !.done = TRUE, !.ok = ok, !.clash = clash]}
      BY <1>6 DEF C!Serve
    <3> DEFINE s == [r EXCEPT !.done = TRUE, !.ok = ok, !.clash = clash]
    <3>2. s.kind = r.kind
      OBVIOUS
    <3>3. netC' = (netC \ {r}) \cup {s}
      BY <3>1
    <3> HIDE DEF s
    <3> QED
      BY <3>2, <3>3
  <2>2. \A K0 : C!Waiting(K0) => C!Waiting(K0)'
    BY <2>1 DEF C!Waiting
  <2>3. \/ eventsC' = eventsC \o <<"merge_progress", "merge_done">>
        \/ eventsC' = eventsC \o <<"scan_progress", "scan_done">>
        \/ eventsC' = eventsC
    BY <1>6 DEF C!Serve
  <2>4. UNCHANGED <<barC, scanning>>
    BY <1>6 DEF C!Serve
  <2>5. CASE eventsC' = eventsC
    BY <2>2, <2>4, <2>5 DEF C!BarFollows, C!EndComes
  <2> DEFINE E == {"merge_progress", "merge_done", "scan_progress", "scan_done"}
  <2>6. ASSUME NEW a \in E, NEW b \in E, eventsC' = eventsC \o <<a, b>>,
               a = "merge_progress" => b = "merge_done", b # "merge_progress"
        PROVE  C!BarFollows'
    <3>1. eventsC \in Seq(E) /\ \A i \in DOMAIN eventsC : eventsC[i] = "merge_progress"
            => i < Len(eventsC) /\ eventsC[i + 1] = "merge_done"
      BY DEF C!BarFollows
    <3>2. /\ eventsC' \in Seq(E)
          /\ C!EndComes => C!EndComes'
          /\ \A i \in DOMAIN eventsC' : eventsC'[i] = "merge_progress"
               => i < Len(eventsC') /\ eventsC'[i + 1] = "merge_done"
      BY <2>6, <3>1, MoreEvents
    <3> QED
      BY <2>2, <2>4, <3>2 DEF C!BarFollows
  <2> QED
    BY <2>3, <2>5, <2>6
<1>7. ASSUME NEW r \in netC, C!GotScan(r)
      PROVE  C!BarFollows'
  <2>1. barC' = FALSE /\ scanning' = FALSE /\ eventsC' = eventsC
    BY <1>7 DEF C!GotScan
  <2> QED
    BY <2>1 DEF C!BarFollows
<1>8. ASSUME NEW r \in netC, C!GotBatch(r)
      PROVE  C!BarFollows'
  <2>1. barC' = FALSE /\ UNCHANGED <<scanning, eventsC>> /\ netC' = netC \ {r} /\ r.kind = "batch"
    BY <1>8 DEF C!GotBatch, C!Got
  <2>2. C!Waiting({"scan"}) => C!Waiting({"scan"})'
    BY <2>1 DEF C!Waiting
  <2> QED
    BY <2>1, <2>2 DEF C!BarFollows
<1>9. ASSUME NEW r \in netC, C!GotFile(r) \/ C!GotHistory(r) \/ C!GotOne(r) \/ C!GotResolve(r)
      PROVE  C!BarFollows'
  BY <1>9, SameBar DEF C!GotFile, C!GotHistory, C!GotOne, C!GotResolve, C!Got
<1>10. CASE C!HandleEvent
  <2>1. /\ eventsC # <<>> /\ eventsC' = Tail(eventsC) /\ barC' = C!Bar(Head(eventsC))
        /\ UNCHANGED <<netC, scanning>>
    BY <1>10 DEF C!HandleEvent
  <2>2. \A K0 : C!Waiting(K0) <=> C!Waiting(K0)'
    BY <2>1 DEF C!Waiting
  <2>3. C!Waiting({"scan"}) => C!Waiting({"scan", "batch"})
    BY DEF C!Waiting
  <2>4. Head(eventsC) \in {"merge_progress", "merge_done", "scan_progress", "scan_done"}
    BY <2>1, LessEvents DEF C!BarFollows
  <2>5. C!EndComes /\ Head(eventsC) # "merge_done" => C!EndComes'
    BY <2>1, LessEvents DEF C!BarFollows
  <2>6. Head(eventsC) = "merge_progress" => C!EndComes'
    BY <2>1, LessEvents DEF C!BarFollows
  <2>7. barC' => C!Waiting({"scan", "batch"})' \/ C!EndComes'
    <3>1. CASE Head(eventsC) = "merge_progress"
      BY <2>6, <3>1
    <3>2. CASE Head(eventsC) = "merge_done"
      BY <2>1, <3>2 DEF C!Bar
    <3>3. CASE Head(eventsC) \in {"scan_progress", "scan_done"}
      <4>1. barC' => scanning \/ barC
        BY <2>1, <3>3 DEF C!Bar
      <4> QED
        BY <2>2, <2>3, <2>5, <3>3, <4>1 DEF C!BarFollows
    <3> QED
      BY <2>4, <3>1, <3>2, <3>3
  <2>8. /\ eventsC' \in Seq({"merge_progress", "merge_done", "scan_progress", "scan_done"})
        /\ \A i \in DOMAIN eventsC' : eventsC'[i] = "merge_progress"
             => i < Len(eventsC') /\ eventsC'[i + 1] = "merge_done"
    BY <2>1, LessEvents DEF C!BarFollows
  <2>9. scanning' => C!Waiting({"scan"})'
    BY <2>1, <2>2 DEF C!BarFollows
  <2> QED
    BY <2>7, <2>8, <2>9 DEF C!BarFollows
<1>11. CASE UNCHANGED C!vars
  BY <1>11, SameBar DEF C!vars
<1> QED
  BY <1>1, <1>2, <1>3, <1>4, <1>5, <1>6, <1>7, <1>8, <1>9, <1>10, <1>11 DEF C!Next, C!User, C!Server, C!Answers

LEMMA InitPage == C!Init => C!LookFollows /\ C!BarFollows
<1> SUFFICES ASSUME C!Init PROVE C!LookFollows /\ C!BarFollows
  OBVIOUS
<1>1. netC = {} /\ html = C!None /\ scanning = FALSE /\ barC = FALSE /\ eventsC = <<>>
  BY DEF C!Init
<1> QED
  BY <1>1 DEF C!LookFollows, C!ShownIsSelected, C!BarFollows

LEMMA BarMeans ==
  ASSUME C!BarFollows
  PROVE  C!BarGoes
BY DEF C!BarFollows, C!BarGoes, C!Waiting, C!EndComes

R == INSTANCE FileTree WITH Repos <- TreeRepos, LocalDirs <- TreeLocals,
       Dirs <- TreeDirs, Words <- TreeWords, Patient <- TreeUsual, Folded <- TreeUsual,
       Remote <- TreeUsual, Exists <- TreeUsual, Prompt <- TreeUsual,
       MaxCalls <- TreeCalls, timer <- timerR, net <- netR, calls <- callsR

(***************************************************************************)
(* What the tree keeps: its folders, its rows, its hits.                   *)
(***************************************************************************)
\* The folders, which a jump changes alone.
LEMMA InitAlone ==
  ASSUME R!Init
  PROVE  R!JumpIsAlone
BY DEF R!Init, R!JumpIsAlone, R!OpenHasRows, R!Place

\* Nothing but answers and searches: the rows and the folders are as they were.
LEMMA QuietIsAlone ==
  ASSUME R!JumpIsAlone, UNCHANGED <<R!place, dirCache, expanded>>,
         rootEntries' = rootEntries \/ (R!Place # R!Blank /\ \A r \in netR' : r.kind # "jump"),
         \A r \in netR : r.kind = "jump" /\ r \in netR' => jumping',
         \A r \in netR' : r \in netR \/ r.kind = "search"
  PROVE  R!JumpIsAlone'
<1>1. R!Place' = R!Place /\ R!OpenHasRows'
  BY DEF R!Place, R!place, R!OpenHasRows, R!JumpIsAlone
<1>2. \A r \in netR' : r.kind = "jump" => r \in netR /\ jumping'
  OBVIOUS
<1> QED
  BY <1>1, <1>2 DEF R!JumpIsAlone

LEMMA PlaceIsReal ==
  ASSUME NEW p, p # R!Blank, NEW src \in R!ReadsOf(p)
  PROVE  src # R!Blank
BY DEF R!ReadsOf

\* What a request asks for.
LEMMA AskIs ==
  ASSUME NEW k, NEW d, NEW w, NEW o, NEW c
  PROVE  /\ R!Ask(k, d, w, o, c).kind = k /\ R!Ask(k, d, w, o, c).dir = d
         /\ R!Ask(k, d, w, o, c).of = o /\ R!Ask(k, d, w, o, c).cache = c
BY DEF R!Ask

LEMMA BareIsSomething == R!Bare # R!Blank
BY DEF R!Bare, R!Blank

LEMMA NextAlone ==
  ASSUME TreeUsual, R!Blank \notin TreeRepos, R!JumpIsAlone, [R!Next]_(R!vars)
  PROVE  R!JumpIsAlone'
<1> USE DEF R!place
<1>1. ASSUME NEW r \in TreeRepos, R!SelectRepo(r)
      PROVE  R!JumpIsAlone'
  <2>1. netR = {} /\ expanded' = expanded /\ dirCache' = dirCache /\ r # R!Blank
    BY <1>1 DEF R!SelectRepo, R!Free
  <2>2. PICK src : netR' = netR \cup {R!Ask("root", R!Blank, R!Blank, src, R!NoRows)}
    BY <1>1 DEF R!SelectRepo, R!LoadRoot, R!Send
  <2>3. \A q \in netR' : q.kind = "root"
    BY <2>1, <2>2, AskIs
  <2>4. R!Place' # R!Blank
    BY <1>1, <2>1 DEF R!SelectRepo, R!Place
  <2> QED
    BY <2>1, <2>3, <2>4 DEF R!JumpIsAlone, R!OpenHasRows
<1>2. ASSUME NEW v \in TreeLocals \cup {R!Blank}, R!CommitLocalDir(v)
      PROVE  R!JumpIsAlone'
  <2>1. netR = {}
    BY <1>2 DEF R!CommitLocalDir, R!Free
  <2>2. CASE v = R!Blank /\ selectedRepo = R!Blank
    BY <1>2, <2>1, <2>2 DEF R!CommitLocalDir, R!Emptied, R!NoRows, R!JumpIsAlone, R!OpenHasRows
  <2>3. CASE ~(v = R!Blank /\ selectedRepo = R!Blank)
    <3>1. expanded' = expanded /\ dirCache' = dirCache
      BY <1>2, <2>3 DEF R!CommitLocalDir
    <3>2. PICK src : netR' = netR \cup {R!Ask("root", R!Blank, R!Blank, src, R!NoRows)}
      BY <1>2, <2>3 DEF R!CommitLocalDir, R!LoadRoot, R!Send
    <3>3. \A q \in netR' : q.kind = "root"
      BY <2>1, <3>2, AskIs
    <3>4. R!Place' # R!Blank
      BY <1>2, <2>3 DEF R!CommitLocalDir, R!Place
    <3> QED
      BY <3>1, <3>3, <3>4 DEF R!JumpIsAlone, R!OpenHasRows
  <2> QED
    BY <2>2, <2>3
<1>3. ASSUME NEW d \in TreeDirs, R!ToggleDir(d)
      PROVE  R!JumpIsAlone'
  <2>1. rootEntries # R!Blank /\ ~jumping /\ UNCHANGED <<R!place, rootEntries, dirCache, jumping>>
    BY <1>3 DEF R!ToggleDir
  <2>2. R!Place # R!Blank /\ R!Place' = R!Place /\ \A r \in netR : r.kind # "jump"
    BY <2>1 DEF R!JumpIsAlone, R!Place
  <2>3. CASE d \in expanded \/ dirCache[d] # R!Blank
    <3>1. netR' = netR /\ expanded' = IF d \in expanded THEN expanded \ {d} ELSE expanded \cup {d}
      BY <1>3, <2>3 DEF R!ToggleDir
    <3>2. R!OpenHasRows' /\ expanded' \subseteq TreeDirs
      BY <2>1, <2>3, <3>1 DEF R!OpenHasRows, R!JumpIsAlone
    <3> QED
      BY <2>1, <2>2, <3>1, <3>2 DEF R!JumpIsAlone
  <2>4. CASE ~(d \in expanded \/ dirCache[d] # R!Blank)
    <3>1. PICK src \in R!ReadsOf(R!Place) : netR' = netR \cup {R!Ask("kids", d, R!Blank, src, R!NoRows)}
      BY <1>3, <2>4 DEF R!ToggleDir, R!Send
    <3>2. expanded' = expanded
      BY <1>3, <2>4 DEF R!ToggleDir
    <3>3. src # R!Blank
      BY <2>2, PlaceIsReal
    <3>4. \A q \in netR' : q \in netR \/ (q.kind = "kids" /\ q.of # R!Blank /\ q.dir = d)
      BY <3>1, <3>3, AskIs
    <3> QED
      BY <2>1, <2>2, <3>2, <3>4 DEF R!JumpIsAlone, R!OpenHasRows
  <2> QED
    BY <2>3, <2>4
<1>4. ASSUME NEW d \in TreeDirs \cup {R!Blank}, R!GotoPath(d)
      PROVE  R!JumpIsAlone'
  <2>1. netR = {} /\ R!Place # R!Blank /\ jumping' = TRUE /\ UNCHANGED <<R!place, rootEntries, dirCache, expanded>>
    BY <1>4 DEF R!GotoPath, R!rows
  <2>2. netR' = netR \cup {R!Ask("jump", d, R!Blank, R!Place, dirCache)}
    BY <1>4 DEF R!GotoPath, R!Send
  <2>3. \A q \in netR' : q.kind = "jump" /\ q.of = R!Place /\ q.cache = dirCache
    BY <2>1, <2>2, AskIs
  <2>4. \A q, s \in netR' : q = s
    BY <2>1, <2>2
  <2>5. R!Place' = R!Place /\ R!OpenHasRows'
    BY <2>1 DEF R!Place, R!OpenHasRows, R!JumpIsAlone
  <2> QED
    BY <2>1, <2>3, <2>4, <2>5 DEF R!JumpIsAlone
<1>5. ASSUME NEW r \in netR, NEW ok \in BOOLEAN, R!GotKids(r, ok)
      PROVE  R!JumpIsAlone'
  <2>1. r.kind = "kids" /\ netR' = netR \ {r} /\ UNCHANGED <<R!place, rootEntries, jumping>>
    BY <1>5 DEF R!GotKids
  <2>2. r.of # R!Blank /\ r.dir \in TreeDirs /\ R!Place # R!Blank /\ R!Place' = R!Place /\ \A q \in netR : q.kind # "jump"
    BY <2>1 DEF R!JumpIsAlone, R!Place
  <2>3. CASE ~ok
    BY <1>5, <2>1, <2>2, <2>3, QuietIsAlone DEF R!GotKids
  <2>4. CASE ok
    <3>1. PICK src \in {r.of, R!Bare} : dirCache' = [dirCache EXCEPT ![r.dir] = src]
      BY <1>5, <2>4 DEF R!GotKids
    <3>2. expanded' = expanded \cup {r.dir}
      BY <1>5, <2>4 DEF R!GotKids
    <3>3. src # R!Blank /\ DOMAIN dirCache' = TreeDirs /\ expanded' \subseteq TreeDirs
      BY <2>2, <3>1, <3>2, BareIsSomething DEF R!JumpIsAlone
    <3>4. R!OpenHasRows'
      BY <2>2, <3>1, <3>2, <3>3 DEF R!OpenHasRows, R!JumpIsAlone
    <3> QED
      BY <2>1, <2>2, <3>3, <3>4 DEF R!JumpIsAlone
  <2> QED
    BY <2>3, <2>4
<1>6. ASSUME NEW r \in netR, NEW there \in BOOLEAN, R!GotJump(r, there)
      PROVE  R!JumpIsAlone'
  <2>1. r.kind = "jump" /\ netR' = netR \ {r} /\ UNCHANGED R!place /\ rootEntries' = r.of /\ R!Levels(r, there)
    BY <1>6 DEF R!GotJump
  <2>2. r.cache = dirCache /\ r.of # R!Blank /\ R!Place # R!Blank /\ R!Place' = R!Place
    BY <2>1 DEF R!JumpIsAlone, R!Place
  <2>3. dirCache' = [d \in TreeDirs |-> IF d # r.dir THEN dirCache[d] ELSE IF there THEN r.of ELSE R!Bare]
    BY <2>1, <2>2 DEF R!Levels
  <2>4. expanded' = expanded \cup ({r.dir} \cap TreeDirs)
    BY <2>1 DEF R!Levels
  <2>5. R!OpenHasRows' /\ DOMAIN dirCache' = TreeDirs /\ expanded' \subseteq TreeDirs
    BY <2>2, <2>3, <2>4, BareIsSomething DEF R!OpenHasRows, R!JumpIsAlone
  <2>6. \A q \in netR' : q.kind = "search"
    BY <2>1 DEF R!JumpIsAlone
  <2> QED
    BY <2>1, <2>2, <2>5, <2>6 DEF R!JumpIsAlone
<1>7. ASSUME NEW r \in netR, NEW ok \in BOOLEAN, R!GotRoot(r, ok)
      PROVE  R!JumpIsAlone'
  <2>1. r.kind = "root" /\ netR' = netR \ {r} /\ UNCHANGED <<R!place, dirCache, expanded, jumping>>
    BY <1>7 DEF R!GotRoot
  <2>2. R!Place # R!Blank /\ \A q \in netR : q.kind # "jump"
    BY <2>1 DEF R!JumpIsAlone
  <2> QED
    BY <2>1, <2>2, QuietIsAlone
<1>8. ASSUME NEW r \in netR, R!JumpFails(r)
      PROVE  R!JumpIsAlone'
  <2>1. r.kind = "jump" /\ netR' = netR \ {r} /\ UNCHANGED <<R!place, rootEntries, dirCache, expanded>>
    BY <1>8 DEF R!JumpFails
  <2>2. \A q \in netR' : q.kind = "search"
    BY <2>1 DEF R!JumpIsAlone
  <2> QED
    BY <2>1, <2>2, QuietIsAlone
<1>9. ASSUME NEW r \in netR, NEW ok \in BOOLEAN, R!GotSearch(r, ok)
      PROVE  R!JumpIsAlone'
  BY <1>9, QuietIsAlone DEF R!GotSearch, R!rows, R!JumpIsAlone
<1>10. CASE R!RunSearch
  <2>1. UNCHANGED <<R!place, rootEntries, dirCache, expanded, jumping>>
    BY <1>10 DEF R!RunSearch, R!rows
  <2>2. netR' = netR \/ netR' = netR \cup {R!Ask("search", R!Blank, searchQ, selectedRepo, R!NoRows)}
    BY <1>10 DEF R!RunSearch, R!Send
  <2>3. \A q \in netR' : q \in netR \/ q.kind = "search"
    BY <2>2, AskIs
  <2> QED
    BY <2>1, <2>3, QuietIsAlone DEF R!JumpIsAlone
<1>11. ASSUME NEW p, R!OnFileClick(p) \/ R!OpenHit(p)
       PROVE  R!JumpIsAlone'
  BY <1>11, QuietIsAlone DEF R!OnFileClick, R!OpenHit, R!rows, R!JumpIsAlone
<1>12. CASE R!SearchBox
  <2>1. PICK w, s : R!SetSearch(w, s)
    BY <1>12 DEF R!SearchBox
  <2> QED
    BY <2>1, QuietIsAlone DEF R!SetSearch, R!rows, R!JumpIsAlone
<1>13. CASE UNCHANGED R!vars
  BY <1>13, QuietIsAlone DEF R!vars, R!rows, R!JumpIsAlone
<1> QED
  BY <1>1, <1>2, <1>3, <1>4, <1>5, <1>6, <1>7, <1>8, <1>9, <1>10, <1>11, <1>12, <1>13 DEF R!Next

LEMMA InitRows ==
  ASSUME R!Init
  PROVE  R!RowsFollow
BY DEF R!Init, R!RowsFollow

LEMMA SentIs ==
  ASSUME NEW k, NEW d, NEW w, NEW o, NEW c
  PROVE  /\ R!Ask(k, d, w, o, c).kind = k /\ R!Ask(k, d, w, o, c).dir = d /\ R!Ask(k, d, w, o, c).word = w
         /\ R!Ask(k, d, w, o, c).of = o /\ R!Ask(k, d, w, o, c).cache = c
BY DEF R!Ask

\* With Exists a directory is read as what it is.
LEMMA ReadAsIs ==
  ASSUME TreeUsual, NEW p, NEW of0 \in R!ReadsOf(p)
  PROVE  of0 = p
BY DEF R!ReadsOf

\* Neither the place nor a row changes, and nothing is asked for but a search.
LEMMA SameRows ==
  ASSUME R!RowsFollow, UNCHANGED <<R!place, rootEntries, dirCache>>,
         \A r \in netR : r.kind = "root" => r \in netR',
         \A r \in netR' : r \in netR \/ r.kind = "search"
  PROVE  R!RowsFollow'
BY DEF R!RowsFollow, R!Place, R!place

LEMMA NextRows ==
  ASSUME TreeUsual, R!JumpIsAlone, R!RowsFollow, [R!Next]_(R!vars)
  PROVE  R!RowsFollow'
<1> USE DEF R!place
<1>1. ASSUME NEW r \in TreeRepos, R!SelectRepo(r)
      PROVE  R!RowsFollow'
  <2>1. netR = {} /\ dirCache = R!NoRows /\ dirCache' = R!NoRows
    BY <1>1 DEF R!SelectRepo, R!Free
  <2>2. PICK of0 \in R!ReadsOf(R!Place') : netR' = netR \cup {R!Ask("root", R!Blank, R!Blank, of0, R!NoRows)}
    BY <1>1 DEF R!SelectRepo, R!LoadRoot, R!Send, R!Place
  <2>3. of0 = R!Place'
    BY ReadAsIs
  <2>4. \A q \in netR' : q.kind = "root" /\ q.of = R!Place'
    BY <2>1, <2>2, <2>3, SentIs
  <2>5. \E q \in netR' : q.kind = "root"
    BY <2>2, <2>4
  <2> QED
    BY <2>1, <2>4, <2>5 DEF R!RowsFollow, R!NoRows
<1>2. ASSUME NEW v \in TreeLocals \cup {R!Blank}, R!CommitLocalDir(v)
      PROVE  R!RowsFollow'
  <2>1. netR = {} /\ dirCache = R!NoRows
    BY <1>2 DEF R!CommitLocalDir, R!Free
  <2>2. CASE v = R!Blank /\ selectedRepo = R!Blank
    BY <1>2, <2>1, <2>2 DEF R!CommitLocalDir, R!Emptied, R!RowsFollow, R!NoRows, R!Place
  <2>3. CASE ~(v = R!Blank /\ selectedRepo = R!Blank)
    <3>1. dirCache' = R!NoRows
      BY <1>2, <2>1, <2>3 DEF R!CommitLocalDir
    <3>2. PICK of0 \in R!ReadsOf(R!Place') : netR' = netR \cup {R!Ask("root", R!Blank, R!Blank, of0, R!NoRows)}
      BY <1>2, <2>3 DEF R!CommitLocalDir, R!LoadRoot, R!Send, R!Place
    <3>3. of0 = R!Place'
      BY ReadAsIs
    <3>4. \A q \in netR' : q.kind = "root" /\ q.of = R!Place'
      BY <2>1, <3>2, <3>3, SentIs
    <3>5. \E q \in netR' : q.kind = "root"
      BY <3>2, <3>4
    <3> QED
      BY <3>1, <3>4, <3>5 DEF R!RowsFollow, R!NoRows
  <2> QED
    BY <2>2, <2>3
<1>3. ASSUME NEW d \in TreeDirs, R!ToggleDir(d)
      PROVE  R!RowsFollow'
  <2>1. UNCHANGED <<R!place, rootEntries, dirCache>>
    BY <1>3 DEF R!ToggleDir
  <2>2. CASE netR' = netR
    BY <2>1, <2>2, SameRows
  <2>3. CASE netR' # netR
    <3>1. PICK of0 \in R!ReadsOf(R!Place) : netR' = netR \cup {R!Ask("kids", d, R!Blank, of0, R!NoRows)}
      BY <1>3, <2>3 DEF R!ToggleDir, R!Send
    <3>2. of0 = R!Place
      BY ReadAsIs
    <3>3. \A q \in netR' : q.kind # "search" => q.of = R!Place
      BY <3>1, <3>2, SentIs DEF R!RowsFollow
    <3>4. R!Place' = R!Place
      BY <2>1 DEF R!Place
    <3> QED
      BY <2>1, <3>1, <3>3, <3>4 DEF R!RowsFollow
  <2> QED
    BY <2>2, <2>3
<1>4. ASSUME NEW d \in TreeDirs \cup {R!Blank}, R!GotoPath(d)
      PROVE  R!RowsFollow'
  <2>1. UNCHANGED <<R!place, rootEntries, dirCache>> /\ R!Place' = R!Place
    BY <1>4 DEF R!GotoPath, R!rows, R!Place
  <2>2. netR' = netR \cup {R!Ask("jump", d, R!Blank, R!Place, dirCache)}
    BY <1>4 DEF R!GotoPath, R!Send
  <2>3. \A q \in netR' : q.kind # "search" => q.of = R!Place
    BY <2>2, SentIs DEF R!RowsFollow
  <2> QED
    BY <2>1, <2>2, <2>3 DEF R!RowsFollow
<1>5. ASSUME NEW p, R!OnFileClick(p) \/ R!OpenHit(p) \/ R!SearchBox
      PROVE  R!RowsFollow'
  BY <1>5, SameRows DEF R!OnFileClick, R!OpenHit, R!SearchBox, R!SetSearch, R!rows
<1>6. CASE R!RunSearch
  <2>1. UNCHANGED <<R!place, rootEntries, dirCache>>
    BY <1>6 DEF R!RunSearch, R!rows
  <2>2. netR' = netR \/ netR' = netR \cup {R!Ask("search", R!Blank, searchQ, selectedRepo, R!NoRows)}
    BY <1>6 DEF R!RunSearch, R!Send
  <2> QED
    BY <2>1, <2>2, SentIs, SameRows
<1>7. ASSUME NEW r \in netR, NEW ok \in BOOLEAN, R!GotRoot(r, ok)
      PROVE  R!RowsFollow'
  BY <1>7 DEF R!GotRoot, R!RowsFollow, R!Place
<1>8. ASSUME NEW r \in netR, NEW ok \in BOOLEAN, R!GotKids(r, ok)
      PROVE  R!RowsFollow'
  <2>1. UNCHANGED <<R!place, rootEntries>> /\ R!Place' = R!Place /\ netR' = netR \ {r} /\ r.kind = "kids"
    BY <1>8 DEF R!GotKids, R!Place
  <2>2. r.of = R!Place /\ r.dir \in TreeDirs
    BY <2>1 DEF R!RowsFollow, R!JumpIsAlone
  <2>3. \A d \in TreeDirs : dirCache'[d] \in {R!Blank, R!Bare, R!Place}
    BY <1>8, <2>1, <2>2 DEF R!GotKids, R!RowsFollow, R!JumpIsAlone
  <2> QED
    BY <2>1, <2>3 DEF R!RowsFollow
<1>9. ASSUME NEW r \in netR, NEW ok \in BOOLEAN, R!GotJump(r, ok)
      PROVE  R!RowsFollow'
  <2>1. UNCHANGED R!place /\ R!Place' = R!Place /\ netR' = netR \ {r} /\ r.kind = "jump" /\ rootEntries' = r.of
    BY <1>9 DEF R!GotJump, R!Place
  <2>2. r.of = R!Place /\ r.cache = dirCache
    BY <2>1 DEF R!RowsFollow, R!JumpIsAlone
  <2>3. dirCache' = [d \in TreeDirs |-> IF d # r.dir THEN dirCache[d] ELSE IF ok THEN R!Place ELSE R!Bare]
    BY <1>9, <2>2 DEF R!GotJump, R!Levels
  <2>4. \A d \in TreeDirs : dirCache'[d] \in {R!Blank, R!Bare, R!Place}
    BY <2>3 DEF R!RowsFollow
  <2> QED
    BY <2>1, <2>2, <2>4 DEF R!RowsFollow
<1>10. ASSUME NEW r \in netR, NEW ok \in BOOLEAN, R!GotSearch(r, ok) \/ R!JumpFails(r)
       PROVE  R!RowsFollow'
  BY <1>10, SameRows DEF R!GotSearch, R!JumpFails, R!rows
<1>11. CASE UNCHANGED R!vars
  BY <1>11, SameRows DEF R!vars, R!rows
<1> QED
  BY <1>1, <1>2, <1>3, <1>4, <1>5, <1>6, <1>7, <1>8, <1>9, <1>10, <1>11 DEF R!Next

LEMMA RowsAreRight ==
  ASSUME R!RowsFollow
  PROVE  R!RowsAreOfPlace
BY DEF R!RowsFollow, R!RowsAreOfPlace, R!RowsOf

LEMMA InitSearch ==
  ASSUME R!Init
  PROVE  R!SearchFollows
BY DEF R!Init, R!SearchFollows, R!HitsAreOfQuestion

\* Place, box and results stay, and no search comes or goes.
LEMMA SameSearch ==
  ASSUME R!SearchFollows, UNCHANGED <<R!place, R!search>>,
         \A r \in netR' : r \in netR \/ r.kind # "search",
         \A r \in netR : r.kind = "search" => r \in netR'
  PROVE  R!SearchFollows'
<1>1. R!Place' = R!Place
  BY DEF R!Place, R!place
<1>2. (\A r \in netR' : r.kind # "search") => \A r \in netR : r.kind # "search"
  OBVIOUS
<1>3. R!HitsAreOfQuestion'
  BY <1>1, <1>2 DEF R!SearchFollows, R!HitsAreOfQuestion, R!search
<1>4. \A r \in netR' : r.kind = "search" => r \in netR
  OBVIOUS
<1> QED
  BY <1>1, <1>3, <1>4 DEF R!SearchFollows, R!search, R!place

\* The place changes only when there is nothing in the box and nothing is found.
LEMMA FreeSearch ==
  ASSUME TreeUsual, R!SearchFollows, R!Free, UNCHANGED R!search, \A r \in netR' : r.kind # "search"
  PROVE  R!SearchFollows'
<1>1. netR = {} /\ searchQ = R!Blank /\ timerR = R!Off
  BY DEF R!Free
<1>2. searchResults = R!Nothing
  BY <1>1 DEF R!SearchFollows, R!HitsAreOfQuestion
<1> QED
  BY <1>1, <1>2 DEF R!SearchFollows, R!HitsAreOfQuestion, R!search

LEMMA OffIsNoPlace ==
  ASSUME "off" \notin TreeRepos \cup TreeLocals, selectedRepo \in TreeRepos \cup {R!Blank}, treeLocalDir \in TreeLocals \cup {R!Blank}
  PROVE  R!Place # "off"
<1>1. R!Blank # "off"
  BY DEF R!Blank
<1> QED
  BY <1>1 DEF R!Place

LEMMA NextSearch ==
  ASSUME TreeUsual, "off" \notin TreeRepos \cup TreeLocals,
         R!TypeOK, R!JumpIsAlone, R!RowsFollow, R!SearchFollows, [R!Next]_(R!vars)
  PROVE  R!SearchFollows'
<1> USE DEF R!place
<1>1. ASSUME NEW r \in TreeRepos, R!SelectRepo(r)
      PROVE  R!SearchFollows'
  <2>1. R!Free /\ UNCHANGED R!search
    BY <1>1 DEF R!SelectRepo, R!search
  <2>2. \A q \in netR' : q.kind = "root"
    BY <1>1, SentIs DEF R!SelectRepo, R!LoadRoot, R!Send, R!Free
  <2> QED
    BY <2>1, <2>2, FreeSearch
<1>2. ASSUME NEW v \in TreeLocals \cup {R!Blank}, R!CommitLocalDir(v)
      PROVE  R!SearchFollows'
  <2>1. R!Free /\ UNCHANGED R!search
    BY <1>2 DEF R!CommitLocalDir, R!search
  <2>2. \A q \in netR' : q.kind = "root"
    BY <1>2, SentIs DEF R!CommitLocalDir, R!LoadRoot, R!Send, R!Free, R!Emptied
  <2> QED
    BY <2>1, <2>2, FreeSearch
<1>3. ASSUME NEW d \in TreeDirs, R!ToggleDir(d)
      PROVE  R!SearchFollows'
  <2>1. UNCHANGED <<R!place, R!search>>
    BY <1>3 DEF R!ToggleDir, R!search
  <2>2. netR' = netR \/ \E of0 : netR' = netR \cup {R!Ask("kids", d, R!Blank, of0, R!NoRows)}
    BY <1>3 DEF R!ToggleDir, R!Send
  <2> QED
    BY <2>1, <2>2, SentIs, SameSearch
<1>4. ASSUME NEW d \in TreeDirs \cup {R!Blank}, R!GotoPath(d)
      PROVE  R!SearchFollows'
  BY <1>4, SentIs, SameSearch DEF R!GotoPath, R!search, R!Send
<1>5. ASSUME NEW p, R!OnFileClick(p) \/ R!OpenHit(p)
      PROVE  R!SearchFollows'
  BY <1>5, SameSearch DEF R!OnFileClick, R!OpenHit, R!search
<1>6. ASSUME NEW w \in TreeWords \cup {R!Blank}, NEW s \in {"filename", "content"}, R!SetSearch(w, s)
      PROVE  R!SearchFollows'
  <2>1. \A r \in netR : r.kind \notin {"search", "root"}
    BY <1>6 DEF R!SetSearch
  <2>2. rootEntries \in {R!Blank, R!Place} /\ \A d \in TreeDirs : dirCache[d] \in {R!Blank, R!Bare, R!Place}
    BY <2>1 DEF R!RowsFollow
  <2>3. R!RowsOf \subseteq {R!Place}
    BY <2>2 DEF R!RowsOf
  <2>4. R!Place' = R!Place /\ netR' = netR /\ timerR' = R!RowsOf /\ searchScope' = s /\ searchResults' = searchResults
    BY <1>6 DEF R!SetSearch, R!Place
  <2>5. s = "content" => treeLocalDir' = R!Blank
    BY <1>6 DEF R!SetSearch
  <2>6. timerR' # R!Off
    <3>1. R!Place # "off"
      BY OffIsNoPlace DEF R!TypeOK
    <3>2. "off" \notin R!RowsOf
      BY <2>3, <3>1
    <3> QED
      BY <2>4, <3>2 DEF R!Off
  <2> QED
    BY <2>1, <2>3, <2>4, <2>5, <2>6 DEF R!SearchFollows, R!HitsAreOfQuestion
<1>7. CASE R!RunSearch
  <2>1. R!Place' = R!Place /\ UNCHANGED <<treeLocalDir, searchQ, searchScope>> /\ timerR' = R!Off /\ timerR # R!Off
    BY <1>7 DEF R!RunSearch, R!Place
  <2>2. timerR \subseteq {R!Place} /\ \A r \in netR : r.kind # "search"
    BY <2>1 DEF R!SearchFollows
  <2>3. CASE searchQ = R!Blank
    <3>1. searchResults' = R!Nothing /\ netR' = netR
      BY <1>7, <2>3 DEF R!RunSearch
    <3> QED
      BY <2>1, <2>2, <3>1 DEF R!SearchFollows, R!HitsAreOfQuestion
  <2>4. CASE searchQ # R!Blank /\ searchScope = "filename"
    <3>1. searchResults' = [word |-> searchQ, scope |-> "filename", of |-> timerR] /\ netR' = netR
      BY <1>7, <2>4 DEF R!RunSearch
    <3>2. searchResults'.word = searchQ' /\ searchResults'.scope = searchScope' /\ searchResults'.of \subseteq {R!Place'}
      BY <2>1, <2>2, <2>4, <3>1
    <3> QED
      BY <2>1, <2>2, <2>4, <3>1, <3>2 DEF R!SearchFollows, R!HitsAreOfQuestion
  <2>5. CASE searchQ # R!Blank /\ searchScope # "filename"
    <3> DEFINE q == R!Ask("search", R!Blank, searchQ, selectedRepo, R!NoRows)
    <3>1. netR' = netR \cup {q} /\ searchResults' = searchResults
      BY <1>7, <2>5 DEF R!RunSearch, R!Send
    <3>2. q.kind = "search" /\ q.word = searchQ /\ q.of = selectedRepo
      BY SentIs
    <3> HIDE DEF q
    <3>3. searchScope = "content" /\ R!Place = selectedRepo
      BY <2>1, <2>5 DEF R!SearchFollows, R!TypeOK, R!Place
    <3>4. \E r \in netR' : r.kind = "search"
      BY <3>1, <3>2
    <3> QED
      BY <2>1, <2>2, <2>5, <3>1, <3>2, <3>3, <3>4 DEF R!SearchFollows, R!HitsAreOfQuestion
  <2> QED
    BY <2>3, <2>4, <2>5
<1>8. ASSUME NEW r \in netR, NEW ok \in BOOLEAN, R!GotSearch(r, ok)
      PROVE  R!SearchFollows'
  <2>1. r.kind = "search" /\ netR' = netR \ {r} /\ UNCHANGED <<R!place, searchQ, searchScope, timerR>> /\ R!Place' = R!Place
    BY <1>8 DEF R!GotSearch, R!Place
  <2>2. timerR = R!Off /\ r.of = R!Place /\ r.word = searchQ /\ searchQ # R!Blank /\ searchScope = "content"
    BY <2>1 DEF R!SearchFollows
  <2>3. searchResults' = R!Nothing \/ searchResults' = [word |-> r.word, scope |-> "content", of |-> {r.of}]
    BY <1>8 DEF R!GotSearch
  <2>4. searchResults' # R!Nothing => searchResults'.word = searchQ /\ searchResults'.scope = searchScope /\ searchResults'.of = {R!Place}
    BY <2>2, <2>3
  <2> QED
    BY <2>1, <2>2, <2>4 DEF R!SearchFollows, R!HitsAreOfQuestion
<1>9. ASSUME NEW r \in netR, NEW ok \in BOOLEAN, R!GotRoot(r, ok) \/ R!GotKids(r, ok) \/ R!GotJump(r, ok) \/ R!JumpFails(r)
      PROVE  R!SearchFollows'
  <2>1. UNCHANGED <<R!place, R!search>> /\ netR' = netR \ {r} /\ r.kind # "search"
    BY <1>9 DEF R!GotRoot, R!GotKids, R!GotJump, R!JumpFails
  <2> QED
    BY <2>1, SameSearch
<1>10. CASE UNCHANGED R!vars
  BY <1>10, SameSearch DEF R!vars
<1> QED
  BY <1>1, <1>2, <1>3, <1>4, <1>5, <1>6, <1>7, <1>8, <1>9, <1>10 DEF R!Next, R!SearchBox

LEMMA InitType ==
  ASSUME R!Init
  PROVE  R!TypeOK
BY DEF R!Init, R!TypeOK, R!Places, R!Nothing

LEMMA NextType ==
  ASSUME TreeUsual, R!TypeOK, R!JumpIsAlone, R!RowsFollow, R!SearchFollows, [R!Next]_(R!vars)
  PROVE  R!TypeOK'
<1> USE DEF R!place
<1>0. R!Place \in R!Places /\ R!NoRows \in [TreeDirs -> R!Places \cup {R!Bare}] /\ R!Blank \in R!Places /\ R!RowsOf \subseteq R!Places
  BY DEF R!TypeOK, R!Place, R!Places, R!NoRows, R!RowsOf
<1>1. ASSUME NEW r \in TreeRepos, R!SelectRepo(r)
      PROVE  R!TypeOK'
  <2>1. netR = {} /\ \A q \in netR' : q.kind = "root"
    BY <1>1, SentIs DEF R!SelectRepo, R!Free, R!LoadRoot, R!Send
  <2>2. UNCHANGED <<treeLocalDir, rootEntries, dirCache, expanded, jumping, jumpFocus, R!search>> /\ selectedRepo' = r
        /\ selectedFile' \in {R!Blank, selectedFile}
    BY <1>1 DEF R!SelectRepo
  <2> QED
    BY <1>0, <2>1, <2>2 DEF R!TypeOK, R!search
<1>2. ASSUME NEW v \in TreeLocals \cup {R!Blank}, R!CommitLocalDir(v)
      PROVE  R!TypeOK'
  <2>1. netR = {} /\ \A q \in netR' : q.kind = "root"
    BY <1>2, SentIs DEF R!CommitLocalDir, R!Free, R!LoadRoot, R!Send, R!Emptied
  <2>2. UNCHANGED <<selectedRepo, jumping, selectedFile, R!search>> /\ treeLocalDir' = v
    BY <1>2 DEF R!CommitLocalDir
  <2>3. \/ UNCHANGED <<rootEntries, dirCache, expanded, jumpFocus>>
        \/ rootEntries' = R!Blank /\ dirCache' = R!NoRows /\ expanded' = {} /\ jumpFocus' = R!Blank
    BY <1>2 DEF R!CommitLocalDir, R!Emptied
  <2> QED
    BY <1>0, <2>1, <2>2, <2>3 DEF R!TypeOK, R!search
<1>3. ASSUME NEW d \in TreeDirs, R!ToggleDir(d)
      PROVE  R!TypeOK'
  <2>1. UNCHANGED <<R!place, rootEntries, dirCache, treeError, jumping, jumpFocus, selectedFile, R!search>> /\ expanded' \subseteq TreeDirs
    BY <1>3 DEF R!ToggleDir, R!TypeOK
  <2>2. netR' = netR \/ \E of0 : netR' = netR \cup {R!Ask("kids", d, R!Blank, of0, R!NoRows)}
    BY <1>3 DEF R!ToggleDir, R!Send
  <2>3. (\E r \in netR' : r.kind = "jump") <=> \E r \in netR : r.kind = "jump"
    BY <2>2, SentIs
  <2> QED
    BY <2>1, <2>3 DEF R!TypeOK, R!search
<1>4. ASSUME NEW d \in TreeDirs \cup {R!Blank}, R!GotoPath(d)
      PROVE  R!TypeOK'
  <2>1. UNCHANGED <<R!place, R!rows, jumpFocus, selectedFile, R!search>> /\ jumping'
        /\ netR' = netR \cup {R!Ask("jump", d, R!Blank, R!Place, dirCache)}
    BY <1>4 DEF R!GotoPath, R!Send
  <2>2. \E r \in netR' : r.kind = "jump"
    BY <2>1, SentIs
  <2> QED
    BY <2>1, <2>2, <1>4 DEF R!TypeOK, R!rows, R!search, R!GotoPath
<1>5. ASSUME NEW p \in R!RowsOf \cup searchResults.of, R!OnFileClick(p) \/ R!OpenHit(p)
      PROVE  R!TypeOK'
  <2>1. p \in R!Places
    BY <1>0 DEF R!TypeOK
  <2> QED
    BY <1>5, <2>1 DEF R!OnFileClick, R!OpenHit, R!TypeOK, R!rows, R!search
<1>6. ASSUME NEW w \in TreeWords \cup {R!Blank}, NEW s \in {"filename", "content"}, R!SetSearch(w, s)
      PROVE  R!TypeOK'
  BY <1>6 DEF R!SetSearch, R!TypeOK, R!rows
<1>7. CASE R!RunSearch
  <2>1. UNCHANGED <<R!place, R!rows, jumping, jumpFocus, selectedFile, searchQ, searchScope>> /\ timerR # R!Off
    BY <1>7 DEF R!RunSearch
  <2>2. timerR \subseteq R!Places
    BY <1>0, <2>1 DEF R!SearchFollows
  <2>3. searchResults'.of \subseteq R!Places
    BY <1>7, <2>2 DEF R!RunSearch, R!TypeOK, R!Nothing
  <2>4. netR' = netR \/ netR' = netR \cup {R!Ask("search", R!Blank, searchQ, selectedRepo, R!NoRows)}
    BY <1>7 DEF R!RunSearch, R!Send
  <2>5. (\E r \in netR' : r.kind = "jump") <=> \E r \in netR : r.kind = "jump"
    BY <2>4, SentIs
  <2> QED
    BY <2>1, <2>3, <2>5 DEF R!TypeOK, R!rows
<1>8. ASSUME NEW r \in netR, NEW ok \in BOOLEAN, R!GotRoot(r, ok)
      PROVE  R!TypeOK'
  <2>1. r.of \in R!Places /\ netR' = netR \ {r} /\ r.kind = "root"
    BY <1>0, <1>8 DEF R!GotRoot, R!RowsFollow
  <2>2. (\E q \in netR' : q.kind = "jump") <=> \E q \in netR : q.kind = "jump"
    BY <2>1
  <2> QED
    BY <1>0, <1>8, <2>1, <2>2 DEF R!GotRoot, R!TypeOK, R!search
<1>9. ASSUME NEW r \in netR, NEW ok \in BOOLEAN, R!GotKids(r, ok)
      PROVE  R!TypeOK'
  <2>1. r.of \in R!Places /\ r.dir \in TreeDirs /\ netR' = netR \ {r} /\ r.kind = "kids"
    BY <1>0, <1>9 DEF R!GotKids, R!RowsFollow, R!JumpIsAlone
  <2>2. (\E q \in netR' : q.kind = "jump") <=> \E q \in netR : q.kind = "jump"
    BY <2>1
  <2>3. dirCache' \in [TreeDirs -> R!Places \cup {R!Bare}] /\ expanded' \subseteq TreeDirs
    BY <1>9, <2>1 DEF R!GotKids, R!TypeOK
  <2> QED
    BY <1>9, <2>2, <2>3 DEF R!GotKids, R!TypeOK, R!search
<1>10. ASSUME NEW r \in netR, NEW ok \in BOOLEAN, R!GotJump(r, ok)
       PROVE  R!TypeOK'
  <2>1. r.of \in R!Places /\ netR' = netR \ {r} /\ r.kind = "jump" /\ r.cache = dirCache /\ ~jumping'
    BY <1>0, <1>10 DEF R!GotJump, R!RowsFollow, R!JumpIsAlone
  <2>2. ~\E q \in netR' : q.kind = "jump"
    BY <2>1 DEF R!JumpIsAlone
  <2>3. dirCache' \in [TreeDirs -> R!Places \cup {R!Bare}] /\ expanded' \subseteq TreeDirs
    BY <1>10, <2>1 DEF R!GotJump, R!Levels, R!TypeOK
  <2>4. UNCHANGED <<R!place, R!search>> /\ {rootEntries', jumpFocus', selectedFile'} \subseteq R!Places
    BY <1>10, <2>1 DEF R!GotJump, R!TypeOK
  <2> QED
    BY <1>10, <2>1, <2>2, <2>3, <2>4 DEF R!GotJump, R!TypeOK, R!search
<1>11. ASSUME NEW r \in netR, R!JumpFails(r)
       PROVE  R!TypeOK'
  <2>1. netR' = netR \ {r} /\ r.kind = "jump" /\ ~jumping'
    BY <1>11 DEF R!JumpFails
  <2>2. ~\E q \in netR' : q.kind = "jump"
    BY <2>1 DEF R!JumpIsAlone
  <2> QED
    BY <1>11, <2>1, <2>2 DEF R!JumpFails, R!TypeOK, R!search
<1>12. ASSUME NEW r \in netR, NEW ok \in BOOLEAN, R!GotSearch(r, ok)
       PROVE  R!TypeOK'
  <2>1. r.of \in R!Places /\ netR' = netR \ {r} /\ r.kind = "search"
    BY <1>0, <1>12 DEF R!GotSearch, R!SearchFollows
  <2>2. (\E q \in netR' : q.kind = "jump") <=> \E q \in netR : q.kind = "jump"
    BY <2>1
  <2>3. searchResults'.of \subseteq R!Places
    BY <1>12, <2>1 DEF R!GotSearch, R!Nothing
  <2> QED
    BY <1>12, <2>2, <2>3 DEF R!GotSearch, R!TypeOK, R!rows
<1>13. CASE UNCHANGED R!vars
  BY <1>13 DEF R!vars, R!TypeOK, R!rows, R!search
<1> QED
  BY <1>1, <1>2, <1>3, <1>4, <1>5, <1>6, <1>7, <1>8, <1>9, <1>10, <1>11, <1>12, <1>13 DEF R!Next, R!SearchBox

K == INSTANCE PlainPods WITH Envs <- PodEnvs, PodNames <- Pods, Dirs <- PodDirs,
       Ordered <- PodsUsual, Patient <- PodsUsual, Loyal <- PodsUsual,
       Fresh <- PodsUsual, Calm <- PodsUsual, Short <- PodsUsual, MaxCalls <- PodCalls,
       MaxSockets <- Terminals, timers <- timersK, selected <- selectedK, net <- netK,
       sent <- sentK

(***************************************************************************)
(* What the pods keep: menu, terminal, files.                              *)
(***************************************************************************)


LEMMA PodsReqIs ==
  ASSUME NEW kind, NEW e, NEW p, NEW d
  PROVE  LET q == K!Req(kind, e, p, d) IN q.n = sentK + 1 /\ q.kind = kind /\ q.env = e /\ q.pod = p /\ q.dir = d
BY DEF K!Req

LEMMA InitPods == ASSUME K!Apart, K!Init PROVE K!PodsFollow
<1>1. env \in PodEnvs /\ K!Blank \in Pods \cup {K!Blank}
  BY DEF K!Init, K!Apart
<1>2. K!Knows(K!Blank)
  BY DEF K!Init, K!Knows
<1>3. K!OnePod
  BY <1>1, <1>2 DEF K!OnePod
<1>4. K!Numbered
  BY <1>1 DEF K!Init, K!Numbered
<1>5. K!ShellFollows
  BY DEF K!Init, K!ShellFollows
<1>6. K!FilesFollow
  BY DEF K!Init, K!FilesFollow
<1>7. K!MenuFollows
  BY DEF K!Init, K!MenuFollows
<1> QED
  BY <1>3, <1>4, <1>5, <1>6, <1>7 DEF K!PodsFollow, K!Init

LEMMA PodsMean ==
  ASSUME K!PodsFollow
  PROVE  K!TypesIntoShown /\ K!SignIsTrue /\ K!NoHarm /\ K!MenuIsOfEnv
<1> USE DEF K!PodsFollow
<1>1. PICK x \in Pods \cup {K!Blank} : K!Knows(x)
  BY DEF K!OnePod
<1>2. K!TypesIntoShown
  <2>1. SUFFICES ASSUME NEW s \in socks, s.n = ws, pod # K!Blank PROVE s.env = env /\ s.pod = pod
    BY DEF K!TypesIntoShown
  <2>2. s.pod = pod
    BY <1>1, <2>1 DEF K!Knows
  <2>3. s.n # 0
    BY DEF K!ShellFollows
  <2> QED
    BY <2>1, <2>2, <2>3 DEF K!ShellFollows
<1>3. K!SignIsTrue
  BY DEF K!SignIsTrue, K!ShellFollows
<1>4. K!NoHarm
  BY DEF K!NoHarm, K!FilesFollow
<1>5. K!NothingIdle
  BY DEF K!NothingIdle, K!ShellFollows
<1>6. K!MenuIsOfEnv
  BY DEF K!MenuIsOfEnv, K!MenuFollows, K!Idle
<1> QED
  BY <1>2, <1>3, <1>4, <1>5, <1>6

\* The terminal is left alone, or there is none any more.
LEMMA SameShell ==
  ASSUME K!ShellFollows, UNCHANGED <<socks, ws, connected, env>>, ws # 0 => sub' = sub
  PROVE  K!ShellFollows'
BY DEF K!ShellFollows

LEMMA HungShell ==
  ASSUME K!ShellFollows, K!Disconnect, UNCHANGED env
  PROVE  K!ShellFollows' /\ \A s \in socks' : s.n # ws'
<1>1. socks' = {IF s.n = ws THEN [s EXCEPT !.state = "closing"] ELSE s : s \in socks} /\ ws' = 0 /\ connected' = FALSE
  BY DEF K!Disconnect, K!Hangup
<1>2. \A s \in socks : /\ [s EXCEPT !.state = "closing"] \in [n: Nat \ {0}, env: PodEnvs, pod: Pods, state: {"connecting", "open", "closing"}]
                       /\ [s EXCEPT !.state = "closing"].state = "closing"
                       /\ s.n = ws \/ s.state = "closing"
  BY DEF K!ShellFollows
<1>3. \A s \in socks' : s \in [n: Nat \ {0}, env: PodEnvs, pod: Pods, state: {"connecting", "open", "closing"}] /\ s.state = "closing"
  BY <1>1, <1>2 DEF K!ShellFollows
<1>4. \A s, t \in socks' : s = t
  BY <1>1 DEF K!ShellFollows
<1>5. \A s \in socks' : s.n # ws'
  BY <1>1, <1>3
<1>6. connected' \in BOOLEAN /\ (connected' <=> \E s \in socks' : s.state = "open")
  BY <1>1, <1>3
<1> QED
  BY <1>1, <1>3, <1>4, <1>5, <1>6 DEF K!ShellFollows

\* What is asked for beside the pods leaves the menu alone.
LEMMA SameMenu ==
  ASSUME K!MenuFollows, UNCHANGED <<env, sub, menu>>,
         \A r : r.kind = "pods" => (r \in netK' <=> r \in netK)
  PROVE  K!MenuFollows'
BY DEF K!MenuFollows, K!Idle

\* An answer about pods, in its turn.
LEMMA NewMenu ==
  ASSUME PodsUsual, K!Numbered, K!MenuFollows, NEW r \in netK, K!Answer(r, "pods"), netK' = netK \ {r},
         UNCHANGED <<env, sub>>, K!Blank \notin PodEnvs, menu' \in {K!Blank, r.env}
  PROVE  K!MenuFollows'
<1> SUFFICES ASSUME sub \in {"shell", "files"}
             PROVE  /\ \A q \in netK' : q.kind = "pods" => q.env = env \/ \E p \in netK' : p.kind = "pods" /\ p.n > q.n
                    /\ K!Idle({"pods"})' /\ menu' \in PodEnvs => menu' = env
  BY DEF K!MenuFollows
<1>1. \A q \in netK : q.kind = "pods" => r.n <= q.n
  BY DEF K!Answer
<1>2. \A q \in netK : q.n \in Int
  BY DEF K!Numbered
<1>3. ASSUME NEW q \in netK', q.kind = "pods", q.env # env
      PROVE  \E p \in netK' : p.kind = "pods" /\ p.n > q.n
  <2>1. PICK p \in netK : p.kind = "pods" /\ p.n > q.n
    BY <1>3 DEF K!MenuFollows
  <2>2. p # r
    BY <1>1, <1>2, <1>3, <2>1
  <2> QED
    BY <2>1, <2>2
<1>4. ASSUME K!Idle({"pods"})' PROVE r.env = env
  <2>1. \A q \in netK : q.kind = "pods" => q = r
    BY <1>4 DEF K!Idle
  <2>2. \A q \in netK : ~(q.kind = "pods" /\ q.n > r.n)
    BY <1>2, <2>1
  <2> QED
    BY <2>2 DEF K!MenuFollows, K!Answer
<1> QED
  BY <1>3, <1>4

\* The list of the pods is asked for: nothing is chosen until it is there.
LEMMA MenuAsked ==
  ASSUME K!Apart, K!Numbered, NEW x \in Pods \cup {K!Blank}, K!Knows(x), K!FilesFollow, K!LoadPods(env'), env' \in PodEnvs,
         UNCHANGED <<path, rows, edit, harm>>,
         env' = env \/ (rows = K!None /\ edit = K!None /\ K!Idle({"list", "read"})),
         \A s \in socks' : s.n = ws' => \E t \in socks : t.n = ws /\ s.pod = t.pod
  PROVE  K!Numbered' /\ K!Knows(x)' /\ K!FilesFollow' /\ K!MenuFollows'
<1> DEFINE q == K!Req("pods", env', pod, K!Blank)
<1>1. q.n = sentK + 1 /\ q.kind = "pods" /\ q.env = env' /\ q.pod = pod
  BY PodsReqIs
<1>2. menu' = "loading" /\ pod' = K!Blank /\ sentK' = sentK + 1 /\ netK' = netK \cup {q}
  BY DEF K!LoadPods, K!Send
<1> HIDE DEF q
<1>3. K!Numbered'
  BY <1>1, <1>2 DEF K!Numbered
<1>4. K!Knows(x)'
  BY <1>1, <1>2 DEF K!Knows
<1>5. K!FilesFollow'
  BY <1>1, <1>2 DEF K!FilesFollow, K!Idle
<1>6. q \in netK'
  BY <1>2
<1>7. K!MenuFollows'
  BY <1>1, <1>2, <1>6 DEF K!Numbered, K!MenuFollows, K!Idle
<1> QED
  BY <1>3, <1>4, <1>5, <1>7

PodsParts == K!Numbered /\ K!ShellFollows /\ K!FilesFollow /\ K!MenuFollows /\ timersK \subseteq {sub}

\* The pages and their menu.
LEMMA MenuSteps ==
  ASSUME PodsUsual, K!Apart, PodsParts, NEW x \in Pods \cup {K!Blank}, K!Knows(x),
         \/ \E e \in PodEnvs : K!ChangeEnv(e)
         \/ \E p \in Pods \cup {K!Blank} : K!PickPod(p)
         \/ \E t \in K!Subs : K!SwitchSub(t)
         \/ \E a \in BOOLEAN : K!StartAuto(a)
         \/ \E r \in netK : K!GotPods(r)
  PROVE  PodsParts' /\ K!OnePod'
<1> USE DEF PodsParts
<1>0. K!Knows(x)' => K!OnePod'
  BY DEF K!OnePod
<1>1. ASSUME NEW e \in PodEnvs, K!ChangeEnv(e) PROVE PodsParts' /\ K!OnePod'
  <2>1. /\ env' = e /\ edit = K!None /\ ws = 0 /\ rows = K!None /\ K!Idle({"list", "read"})
        /\ UNCHANGED <<sub, timersK, socks, ws, connected, path, rows, selectedK, edit, harm>>
    BY <1>1 DEF K!ChangeEnv, K!Settled, K!Free, K!shell, K!files
  <2>2. K!ShellFollows'
    BY <2>1 DEF K!ShellFollows
  <2>3. CASE sub \in {"shell", "files"}
    <3>1. K!LoadPods(env')
      BY <1>1, <2>1, <2>3 DEF K!ChangeEnv
    <3>2. \A s \in socks' : s.n = ws' => \E t \in socks : t.n = ws /\ s.pod = t.pod
      BY <2>1
    <3> QED
      BY <1>0, <2>1, <2>2, <3>1, <3>2, MenuAsked
  <2>4. CASE sub \notin {"shell", "files"}
    <3>1. UNCHANGED <<menu, pod, netK, sentK>>
      BY <1>1, <2>4 DEF K!ChangeEnv, K!calls
    <3>2. K!Numbered' /\ K!MenuFollows' /\ K!FilesFollow' /\ K!Knows(x)'
      BY <2>1, <2>4, <3>1 DEF K!Numbered, K!MenuFollows, K!FilesFollow, K!Idle, K!Knows
    <3> QED
      BY <1>0, <2>1, <2>2, <3>2
  <2> QED
    BY <2>3, <2>4
<1>2. ASSUME NEW p \in Pods \cup {K!Blank}, K!PickPod(p) PROVE PodsParts' /\ K!OnePod'
  <2>1. /\ edit = K!None /\ rows = K!None /\ K!Idle({"pods"}) /\ K!Idle({"list", "read"}) /\ pod' = p
        /\ UNCHANGED <<env, sub, menu, timersK, path, rows, selectedK, edit, netK, sentK, harm>>
    BY <1>2 DEF K!PickPod, K!Free, K!files, K!calls
  <2>2. K!ShellFollows' /\ \A s \in socks' : s.n # ws'
    <3>1. CASE ws # 0
      BY <1>2, <2>1, <3>1, HungShell DEF K!PickPod
    <3>2. CASE ws = 0
      <4>1. UNCHANGED <<socks, ws, connected>>
        BY <1>2, <3>2 DEF K!PickPod, K!shell
      <4>2. \A s \in socks : s.n # 0
        BY DEF K!ShellFollows
      <4> QED
        BY <2>1, <3>2, <4>1, <4>2, SameShell
    <3> QED
      BY <3>1, <3>2
  <2>3. K!Numbered' /\ K!FilesFollow'
    BY <2>1 DEF K!Numbered, K!FilesFollow
  <2>4. K!MenuFollows'
    BY <2>1, SameMenu
  <2>5. K!Knows(p)'
    BY <2>1, <2>2 DEF K!Knows, K!Idle
  <2> QED
    BY <2>1, <2>2, <2>3, <2>4, <2>5 DEF K!OnePod
<1>3. ASSUME NEW t \in K!Subs, K!SwitchSub(t) PROVE PodsParts' /\ K!OnePod'
  <2>1. sub' = t /\ timersK' = {} /\ UNCHANGED <<env, path, rows, selectedK, edit, harm>>
    BY <1>3 DEF K!SwitchSub, K!files
  <2>2. K!ShellFollows' /\ \A s \in socks' : s.n = ws' => \E u \in socks : u.n = ws /\ s.pod = u.pod
    <3>1. CASE t # "shell" /\ ws # 0
      BY <1>3, <2>1, <3>1, HungShell DEF K!SwitchSub
    <3>2. CASE ~(t # "shell" /\ ws # 0)
      <4>1. UNCHANGED <<socks, ws, connected>>
        BY <1>3, <3>2 DEF K!SwitchSub, K!shell
      <4>2. ws # 0 => sub' = sub
        BY <2>1, <3>2 DEF K!ShellFollows
      <4> QED
        BY <2>1, <4>1, <4>2, SameShell
    <3> QED
      BY <3>1, <3>2
  <2>3. CASE t \in {"shell", "files"}
    <3>1. K!LoadPods(env')
      BY <1>3, <2>1, <2>3 DEF K!SwitchSub
    <3>2. env' \in PodEnvs
      BY <2>1 DEF K!Numbered
    <3>3. K!Numbered' /\ K!Knows(x)' /\ K!FilesFollow' /\ K!MenuFollows'
      BY <2>1, <2>2, <3>1, <3>2, MenuAsked
    <3> QED
      BY <1>0, <2>1, <2>2, <3>3
  <2>4. CASE t \notin {"shell", "files"}
    <3>1. UNCHANGED <<menu, pod, netK, sentK>>
      BY <1>3, <2>4 DEF K!SwitchSub, K!calls
    <3>2. K!Numbered' /\ K!MenuFollows' /\ K!FilesFollow'
      BY <2>1, <2>4, <3>1 DEF K!Numbered, K!MenuFollows, K!FilesFollow
    <3>3. K!Knows(x)'
      BY <2>1, <2>2, <3>1 DEF K!Knows
    <3> QED
      BY <1>0, <2>1, <2>2, <3>2, <3>3
  <2> QED
    BY <2>3, <2>4
<1>4. ASSUME NEW a \in BOOLEAN, K!StartAuto(a) PROVE PodsParts' /\ K!OnePod'
  <2>1. /\ sub = "events" /\ timersK' \subseteq {"events"}
        /\ UNCHANGED <<env, sub, menu, pod, socks, ws, connected, path, rows, selectedK, edit, netK, sentK, harm>>
    BY <1>4 DEF K!StartAuto, K!place, K!shell, K!files, K!calls
  <2>2. K!Numbered' /\ K!FilesFollow' /\ K!Knows(x)'
    BY <2>1 DEF K!Numbered, K!FilesFollow, K!Knows
  <2> QED
    BY <1>0, <2>1, <2>2, SameShell, SameMenu
<1>5. ASSUME NEW r \in netK, K!GotPods(r) PROVE PodsParts' /\ K!OnePod'
  <2>1. /\ r.kind = "pods" /\ netK' = netK \ {r} /\ K!Answer(r, "pods") /\ menu' \in {K!Blank, r.env} /\ pod' \in {K!Blank, r.pod}
        /\ UNCHANGED <<env, sub, timersK, socks, ws, connected, path, rows, selectedK, edit, sentK, harm>>
    BY <1>5 DEF K!GotPods, K!Answer, K!shell, K!files
  <2>2. K!Numbered' /\ K!FilesFollow'
    BY <2>1 DEF K!Numbered, K!FilesFollow
  <2>3. K!Knows(x)'
    BY <2>1 DEF K!Knows
  <2>4. K!MenuFollows'
    <3>1. K!Blank \notin PodEnvs
      BY DEF K!Apart
    <3> QED
      BY <2>1, <3>1, NewMenu
  <2> QED
    BY <1>0, <2>1, <2>2, <2>3, <2>4, SameShell
<1> QED
  BY <1>1, <1>2, <1>3, <1>4, <1>5

\* The terminal.
LEMMA ShellSteps ==
  ASSUME PodsUsual, K!Apart, PodsParts, NEW x \in Pods \cup {K!Blank}, K!Knows(x), pod \in Pods \cup {K!Blank},
         K!Connect \/ K!PressDisconnect \/ \E s \in socks : K!Ready(s) \/ K!OnClose(s)
  PROVE  PodsParts' /\ K!OnePod'
<1> USE DEF PodsParts
<1>1. UNCHANGED <<env, sub, menu, pod, timersK, path, rows, selectedK, edit, netK, sentK, harm>>
  BY DEF K!Connect, K!PressDisconnect, K!Ready, K!OnClose, K!place, K!files, K!calls
<1>2. K!Numbered' /\ K!FilesFollow' /\ K!MenuFollows'
  BY <1>1, SameMenu DEF K!Numbered, K!FilesFollow
<1>3. ASSUME K!ShellFollows', \A s \in socks' : s.n = ws' => s.pod = x
      PROVE  PodsParts' /\ K!OnePod'
  <2>1. K!Knows(x)'
    BY <1>1, <1>3 DEF K!Knows
  <2> QED
    BY <1>1, <1>2, <1>3, <2>1 DEF K!OnePod
<1>4. CASE K!Connect
  <2>1. /\ sub = "shell" /\ pod # K!Blank /\ socks = {} /\ ~connected /\ connected' = connected
        /\ \E n \in 1..Terminals : socks' = {[n |-> n, env |-> env, pod |-> pod, state |-> "connecting"]} /\ ws' = n
    <3>1. \A s \in socks : FALSE
      BY <1>4 DEF K!Connect
    <3>2. (CHOOSE k \in 1..Terminals : \A s \in socks : s.n # k) \in 1..Terminals
      BY <3>1 DEF K!Apart
    <3> QED
      BY <1>4, <3>1, <3>2 DEF K!Connect, K!Hangup
  <2>2. PICK n \in 1..Terminals : socks' = {[n |-> n, env |-> env, pod |-> pod, state |-> "connecting"]} /\ ws' = n
    BY <2>1
  <2>3. pod = x /\ pod \in Pods /\ n \in Nat \ {0} /\ env \in PodEnvs
    BY <2>1 DEF K!Knows, K!Apart, K!Numbered
  <2>4. K!ShellFollows'
    BY <1>1, <2>1, <2>2, <2>3 DEF K!ShellFollows
  <2> QED
    BY <1>3, <2>2, <2>3, <2>4
<1>5. CASE K!PressDisconnect
  <2>1. K!Disconnect
    BY <1>5 DEF K!PressDisconnect
  <2> QED
    BY <1>1, <1>3, <2>1, HungShell
<1>6. ASSUME NEW s \in socks, K!Ready(s) PROVE PodsParts' /\ K!OnePod'
  <2> DEFINE t == [s EXCEPT !.state = "open"]
  <2>1. s.state = "connecting" /\ socks' = (socks \ {s}) \cup {t} /\ connected' = TRUE /\ ws' = ws
    BY <1>6 DEF K!Ready
  <2>2. /\ t \in [n: Nat \ {0}, env: PodEnvs, pod: Pods, state: {"connecting", "open", "closing"}]
        /\ t.state = "open" /\ t.n = s.n /\ t.pod = s.pod /\ t.env = s.env
    BY DEF K!ShellFollows
  <2> HIDE DEF t
  <2>3. \A u \in socks' : u = t
    BY <2>1 DEF K!ShellFollows
  <2>4. ws = s.n /\ s.env = env
    BY <2>1 DEF K!ShellFollows
  <2>5. K!ShellFollows'
    BY <1>1, <2>1, <2>2, <2>3, <2>4 DEF K!ShellFollows
  <2>6. \A u \in socks' : u.n = ws' => u.pod = x
    BY <2>1, <2>2, <2>3, <2>4 DEF K!Knows
  <2> QED
    BY <1>3, <2>5, <2>6
<1>7. ASSUME NEW s \in socks, K!OnClose(s) PROVE PodsParts' /\ K!OnePod'
  <2>1. socks' = {} /\ connected' = FALSE /\ ws' = 0
    BY <1>7 DEF K!OnClose, K!ShellFollows
  <2>2. K!ShellFollows'
    BY <1>1, <2>1 DEF K!ShellFollows
  <2> QED
    BY <1>3, <2>1, <2>2
<1> QED
  BY <1>4, <1>5, <1>6, <1>7

LEMMA AnswersLeave ==
  ASSUME K!Numbered, K!MenuFollows, netK' \subseteq netK, UNCHANGED <<env, sub, menu, sentK>>,
         \A r \in netK : r.kind = "pods" => r \in netK'
  PROVE  K!Numbered' /\ K!MenuFollows'
<1>1. K!Numbered'
  BY DEF K!Numbered
<1>2. \A r : r.kind = "pods" => (r \in netK' <=> r \in netK)
  OBVIOUS
<1> QED
  BY <1>1, <1>2, SameMenu

\* A request about files is sent, perhaps behind the answer to another one.
LEMMA FilesAsk ==
  ASSUME K!Numbered, K!MenuFollows, UNCHANGED <<env, sub, menu>>, NEW q, q.n = sentK + 1, sentK' = sentK + 1,
         q.kind \in {"list", "read", "write", "delete"},
         \E gone \in SUBSET netK : netK' = (netK \ gone) \cup {q} /\ \A r \in gone : r.kind # "pods"
  PROVE  K!Numbered' /\ K!MenuFollows'
<1>1. K!Numbered'
  BY DEF K!Numbered
<1>2. \A r : r.kind = "pods" => (r \in netK' <=> r \in netK)
  OBVIOUS
<1> QED
  BY <1>1, <1>2, SameMenu

LEMMA FilesSteps ==
  ASSUME PodsUsual, K!Apart, PodsParts, NEW x \in Pods \cup {K!Blank}, K!Knows(x),
         \/ \E d \in PodDirs : K!FilesList(d)
         \/ \E r \in netK : K!GotList(r) \/ K!GotRead(r) \/ K!GotChange(r)
         \/ K!SelectRow \/ K!FileOpen \/ K!FileSave \/ K!FileEditClose \/ K!FilesDelete
  PROVE  PodsParts' /\ K!OnePod'
<1> USE DEF PodsParts
<1>1. UNCHANGED <<env, sub, menu, pod, timersK, socks, ws, connected>>
  BY DEF K!FilesList, K!GotList, K!GotRead, K!GotChange, K!SelectRow, K!FileOpen, K!FileSave, K!FileEditClose, K!FilesDelete, K!place, K!shell
<1>2. ASSUME K!Knows(x)', K!Numbered', K!MenuFollows', K!FilesFollow'
      PROVE  PodsParts' /\ K!OnePod'
  BY <1>1, <1>2, SameShell DEF K!OnePod
<1>3. ASSUME NEW d \in PodDirs, K!FilesList(d) PROVE PodsParts' /\ K!OnePod'
  <2> DEFINE q == K!Req("list", env, pod, d)
  <2>1. q.n = sentK + 1 /\ q.kind = "list" /\ q.env = env /\ q.pod = pod /\ q.dir = d
    BY PodsReqIs
  <2>2. /\ path' = d /\ rows' = K!None /\ sentK' = sentK + 1 /\ netK' = netK \cup {q} /\ K!Idle({"list", "pods"})
        /\ UNCHANGED <<edit, harm>>
    BY <1>3 DEF K!FilesList, K!List, K!Send
  <2>6. pod = x
    BY <1>3 DEF K!FilesList, K!List, K!Knows
  <2> HIDE DEF q
  <2>3. K!Numbered' /\ K!MenuFollows'
    <3>1. netK' = (netK \ {}) \cup {q} /\ {} \in SUBSET netK
      BY <2>2
    <3> QED
      BY <1>1, <2>1, <2>2, <3>1, FilesAsk
  <2>4. K!Knows(x)'
    BY <1>1, <2>1, <2>2, <2>6 DEF K!Knows
  <2>5. K!FilesFollow'
    BY <1>1, <2>1, <2>2 DEF K!FilesFollow, K!Idle
  <2> QED
    BY <1>2, <2>3, <2>4, <2>5
<1>4. ASSUME NEW r \in netK, K!GotList(r) PROVE PodsParts' /\ K!OnePod'
  <2>1. /\ r.kind = "list" /\ netK' = netK \ {r} /\ rows' \in {<<r.env, r.pod, r.dir>>, K!None}
        /\ UNCHANGED <<path, edit, sentK, harm>>
    BY <1>4 DEF K!GotList, K!Answer
  <2>2. K!Numbered' /\ K!MenuFollows'
    BY <1>1, <2>1, AnswersLeave
  <2>3. r.env = env /\ r.dir = path /\ r.pod = x
    BY <2>1 DEF K!FilesFollow, K!Knows
  <2>4. K!FilesFollow'
    BY <1>1, <2>1, <2>3 DEF K!FilesFollow
  <2>5. K!Knows(x)'
    BY <1>1, <2>1, <2>3 DEF K!Knows
  <2> QED
    BY <1>2, <2>2, <2>4, <2>5
<1>5. ASSUME NEW r \in netK, K!GotRead(r) PROVE PodsParts' /\ K!OnePod'
  <2>1. /\ r.kind = "read" /\ netK' = netK \ {r} /\ edit' \in {edit, <<r.env, r.pod, r.dir, FALSE>>}
        /\ UNCHANGED <<path, rows, sentK, harm>>
    BY <1>5 DEF K!GotRead, K!Answer
  <2>2. K!Numbered' /\ K!MenuFollows'
    BY <1>1, <2>1, AnswersLeave
  <2>3. r.env = env /\ r.pod = x
    BY <2>1 DEF K!FilesFollow, K!Knows
  <2>6. edit' = edit \/ (edit'[1] = env /\ edit'[2] = x /\ edit'[4] = FALSE)
    <3>1. CASE edit' = <<r.env, r.pod, r.dir, FALSE>>
      <4>1. edit'[1] = r.env /\ edit'[2] = r.pod /\ edit'[4] = FALSE
        BY <3>1
      <4> QED
        BY <2>3, <4>1
    <3> QED
      BY <2>1, <3>1
  <2>4. K!FilesFollow'
    BY <1>1, <2>1, <2>6 DEF K!FilesFollow
  <2>5. K!Knows(x)'
    BY <1>1, <2>1, <2>6 DEF K!Knows
  <2> QED
    BY <1>2, <2>2, <2>4, <2>5
<1>6. ASSUME NEW r \in netK, K!GotChange(r) PROVE PodsParts' /\ K!OnePod'
  <2>1. r.kind \in {"write", "delete"} /\ UNCHANGED <<path, edit, harm>>
    BY <1>6 DEF K!GotChange
  <2>2. CASE netK' = netK \ {r} /\ UNCHANGED <<sentK, rows>>
    <3>1. K!Numbered' /\ K!MenuFollows'
      BY <1>1, <2>1, <2>2, AnswersLeave
    <3>2. K!FilesFollow' /\ K!Knows(x)'
      BY <1>1, <2>1, <2>2 DEF K!FilesFollow, K!Knows
    <3> QED
      BY <1>2, <3>1, <3>2
  <2>3. CASE pod # K!Blank /\ rows' = K!None /\ K!SendsOn(r, K!Req("list", env, pod, path))
    <3> DEFINE q == K!Req("list", env, pod, path)
    <3>1. q.n = sentK + 1 /\ q.kind = "list" /\ q.env = env /\ q.pod = pod /\ q.dir = path
      BY PodsReqIs
    <3>2. sentK' = sentK + 1 /\ netK' = (netK \ {r}) \cup {q}
      BY <2>3 DEF K!SendsOn
    <3> HIDE DEF q
    <3>3. K!Numbered' /\ K!MenuFollows'
      <4>1. {r} \in SUBSET netK /\ \A g \in {r} : g.kind # "pods"
        BY <2>1
      <4> QED
        BY <1>1, <3>1, <3>2, <4>1, FilesAsk
    <3>4. K!Knows(x)'
      BY <1>1, <2>1, <2>3, <3>1, <3>2 DEF K!Knows
    <3>5. K!FilesFollow'
      BY <1>1, <2>1, <2>3, <3>1, <3>2 DEF K!FilesFollow
    <3> QED
      BY <1>2, <3>3, <3>4, <3>5
  <2> QED
    BY <1>6, <2>2, <2>3 DEF K!GotChange
<1>7. CASE K!SelectRow \/ K!FileEditClose
  <2>1. UNCHANGED <<path, rows, netK, sentK, harm>> /\ edit' \in {edit, K!None}
    BY <1>7 DEF K!SelectRow, K!FileEditClose, K!calls
  <2>2. K!Numbered' /\ K!MenuFollows'
    BY <1>1, <2>1, AnswersLeave
  <2>3. K!FilesFollow' /\ K!Knows(x)'
    BY <1>1, <2>1 DEF K!FilesFollow, K!Knows
  <2> QED
    BY <1>2, <2>2, <2>3
<1>8. ASSUME NEW kind \in {"read", "write", "delete"}, kind = "read" => pod # K!Blank, K!Send(K!Req(kind, env, pod, path)), UNCHANGED <<path, rows, edit>>, harm' = FALSE
      PROVE  PodsParts' /\ K!OnePod'
  <2> DEFINE q == K!Req(kind, env, pod, path)
  <2>1. q.n = sentK + 1 /\ q.kind = kind /\ q.env = env /\ q.pod = pod /\ q.dir = path
    BY PodsReqIs
  <2>2. sentK' = sentK + 1 /\ netK' = netK \cup {q}
    BY <1>8 DEF K!Send
  <2> HIDE DEF q
  <2>3. K!Numbered' /\ K!MenuFollows'
    <3>1. netK' = (netK \ {}) \cup {q} /\ {} \in SUBSET netK
      BY <2>2
    <3> QED
      BY <1>1, <2>1, <2>2, <3>1, FilesAsk
  <2>4. K!Knows(x)'
    BY <1>1, <1>8, <2>1, <2>2 DEF K!Knows
  <2>5. K!FilesFollow'
    BY <1>1, <1>8, <2>1, <2>2 DEF K!FilesFollow
  <2> QED
    BY <1>2, <2>3, <2>4, <2>5
<1>9. CASE K!FileOpen
  <2>1. rows = <<env, pod, path>>
    <3>1. rows # K!None /\ pod # K!Blank
      BY <1>9 DEF K!FileOpen
    <3>2. rows = <<env, rows[2], path>> /\ rows[2] = x
      BY <3>1 DEF K!FilesFollow, K!Knows
    <3> QED
      BY <3>1, <3>2 DEF K!Knows
  <2>2. harm' = FALSE
    BY <1>9, <2>1 DEF K!FileOpen, K!Shown, K!FilesFollow
  <2>3. pod # K!Blank /\ K!Send(K!Req("read", env, pod, path)) /\ UNCHANGED <<path, rows, edit>>
    BY <1>9 DEF K!FileOpen, K!files
  <2> QED
    BY <1>8, <2>2, <2>3
<1>10. CASE K!FileSave
  <2>1. edit # K!None
    BY <1>10 DEF K!FileSave
  <2>2. edit[1] = env /\ edit[4] = FALSE /\ (pod # K!Blank => edit[2] = pod)
    BY <2>1 DEF K!FilesFollow, K!Knows
  <2>3. harm' = FALSE
    BY <1>10, <2>2 DEF K!FileSave, K!FilesFollow
  <2> QED
    BY <1>8, <1>10, <2>3 DEF K!FileSave, K!files
<1>11. CASE K!FilesDelete
  <2>1. selectedK # K!None /\ selectedK = rows /\ pod # K!Blank
    BY <1>11 DEF K!FilesDelete
  <2>2. rows = <<env, pod, path>>
    <3>1. rows = <<env, rows[2], path>> /\ rows[2] = x
      BY <2>1 DEF K!FilesFollow, K!Knows
    <3> QED
      BY <2>1, <3>1 DEF K!Knows
  <2>3. harm' = FALSE
    BY <1>11, <2>1, <2>2 DEF K!FilesDelete, K!Shown, K!FilesFollow
  <2> QED
    BY <1>8, <1>11, <2>3 DEF K!FilesDelete, K!files
<1> QED
  BY <1>3, <1>4, <1>5, <1>6, <1>7, <1>9, <1>10, <1>11

LEMMA NextPods ==
  ASSUME PodsUsual, K!Apart, K!PodsFollow, [K!Next]_(K!vars)
  PROVE  K!PodsFollow'
<1>1. PodsParts /\ K!OnePod
  BY DEF K!PodsFollow, PodsParts
<1>2. PICK x \in Pods \cup {K!Blank} : K!Knows(x)
  BY <1>1 DEF K!OnePod
<1>3. pod \in Pods \cup {K!Blank}
  BY <1>2 DEF K!Knows
<1>4. CASE UNCHANGED K!vars
  <2>1. UNCHANGED <<env, sub, menu, pod, timersK, socks, ws, connected, path, rows, selectedK, edit, netK, sentK, harm>>
    BY <1>4 DEF K!vars, K!place, K!shell, K!files, K!calls
  <2>2. K!Numbered' /\ K!FilesFollow' /\ K!Knows(x)' /\ K!MenuFollows' /\ K!ShellFollows'
    BY <1>1, <1>2, <2>1, SameShell, SameMenu DEF K!Numbered, K!FilesFollow, K!Knows, PodsParts
  <2> QED
    BY <1>1, <2>1, <2>2 DEF K!PodsFollow, K!OnePod, PodsParts
<1>5. CASE K!Next
  <2>1. PodsParts' /\ K!OnePod'
    BY <1>1, <1>2, <1>3, <1>5, MenuSteps, ShellSteps, FilesSteps DEF K!Next, K!User, K!Answers
  <2> QED
    BY <2>1 DEF K!PodsFollow, PodsParts
<1> QED
  BY <1>4, <1>5

J == INSTANCE Kibana WITH Sites <- QuerySites, Ranges <- QueryRanges,
       Words <- QueryWords, Depth <- QueryDepth, Ordered <- QueryUsual,
       Held <- QueryUsual, Calm <- QueryUsual, Picked <- QueryUsual,
       MaxCalls <- QueryCalls, selected <- selectedJ, rows <- rowsJ, busy <- busyJ,
       net <- netJ, sent <- sentJ

(***************************************************************************)
(* What the queries of the cluster's logs keep.                            *)
(***************************************************************************)

LEMMA InitParts == J!Init => J!Counted /\ J!PodsFollow /\ J!HistFollows /\ J!RowsFollow /\ J!ZoomFollows
<1> SUFFICES ASSUME J!Init PROVE J!Counted /\ J!PodsFollow /\ J!HistFollows /\ J!RowsFollow /\ J!ZoomFollows
  OBVIOUS
<1>1. /\ memo = site /\ draft = query /\ trail = stack /\ podsOf = <<site, query>> /\ histOf = <<site, query>>
      /\ netJ = {} /\ sentJ = 0 /\ rowsJ = <<[of |-> <<site, query, selectedJ>>, from |-> 0]>>
  BY DEF J!Init
<1>2. rowsJ \in Seq({rowsJ[k] : k \in DOMAIN rowsJ}) /\ DOMAIN rowsJ = {1} /\ rowsJ[1] = [of |-> <<site, query, selectedJ>>, from |-> 1 - 1]
  BY <1>1
<1> QED
  BY <1>1, <1>2 DEF J!Counted, J!PodsFollow, J!HistFollows, J!RowsFollow, J!ZoomFollows, J!Follows

LEMMA QueryReqIs ==
  ASSUME NEW k, NEW kind, NEW what
  PROVE  /\ J!Req(k, kind, what).n = sentJ + k /\ J!Req(k, kind, what).kind = kind /\ J!Req(k, kind, what).of = what
         /\ (kind = "more" => J!Req(k, kind, what).from = Len(rowsJ))
BY DEF J!Req

LEMMA SamePods ==
  ASSUME J!PodsFollow, UNCHANGED <<site, memo, query, podsOf>>, "pods" \in errs => "pods" \in errs',
         \A r \in netJ' : r \in netJ \/ r.kind # "pods", \A r \in netJ : r.kind = "pods" => r \in netJ'
  PROVE  J!PodsFollow'
BY DEF J!PodsFollow, J!Gone

\* The last request for the tree is for what is chosen.
LEMMA NewPods ==
  ASSUME memo' = site', NEW q \in netJ', q.kind = "pods", q.of[1] = site', q.of[2] = query',
         \A r \in netJ' : r.kind = "pods" => r = q \/ r.n < q.n
  PROVE  J!PodsFollow'
BY DEF J!PodsFollow, J!Gone

LEMMA SameHist ==
  ASSUME J!HistFollows, UNCHANGED <<site, query, histOf>>, "hist" \in errs => "hist" \in errs',
         \A r \in netJ' : r \in netJ \/ r.kind # "hist", \A r \in netJ : r.kind = "hist" => r \in netJ'
  PROVE  J!HistFollows'
BY DEF J!HistFollows, J!Follows, J!Gone

LEMMA NewHist ==
  ASSUME NEW q \in netJ', q.kind = "hist", q.of = <<site', query'>>,
         \A r \in netJ' : r.kind = "hist" => r = q \/ r.n < q.n
  PROVE  J!HistFollows'
BY DEF J!HistFollows, J!Follows, J!Gone

LEMMA QuerySameRows ==
  ASSUME J!RowsFollow, UNCHANGED <<site, query, selectedJ, rowsJ>>, "rows" \in errs => "rows" \in errs',
         netJ' \subseteq netJ \/ \A r \in netJ : r.kind # "more",
         \A r \in netJ' : r \in netJ \/ r.kind \notin J!Rows, \A r \in netJ : r.kind \in J!Rows => r \in netJ'
  PROVE  J!RowsFollow'
<1>1. rowsJ' \in Seq({rowsJ'[k] : k \in DOMAIN rowsJ'})
  BY DEF J!RowsFollow
<1>2. J!Follows(J!Rows, <<site, query, selectedJ>>)'
  BY DEF J!RowsFollow, J!Follows
<1>3. \A r \in netJ' : r.kind = "more" => netJ' = {r} /\ r.from = Len(rowsJ')
  BY DEF J!RowsFollow, J!Rows
<1>4. J!Gone({"rows", "silent"})' => J!Gone({"rows", "silent"})
  BY DEF J!Gone, J!Rows
<1> QED
  BY <1>1, <1>2, <1>3, <1>4 DEF J!RowsFollow

LEMMA NewRows ==
  ASSUME J!RowsFollow, rowsJ' = rowsJ, NEW q \in netJ', q.kind \in {"rows", "silent"},
         q.of = <<site', query', selectedJ'>>,
         \A r \in netJ' : r.kind # "more", \A r \in netJ' : r.kind \in J!Rows => r = q \/ r.n < q.n
  PROVE  J!RowsFollow'
<1>1. rowsJ' \in Seq({rowsJ'[k] : k \in DOMAIN rowsJ'})
  BY DEF J!RowsFollow
<1>2. J!Follows(J!Rows, <<site, query, selectedJ>>)'
  BY DEF J!Follows, J!Rows
<1> QED
  BY <1>1, <1>2 DEF J!RowsFollow, J!Gone

LEMMA SameZoom ==
  ASSUME J!ZoomFollows, UNCHANGED <<stack, trail, draft, query>>
  PROVE  J!ZoomFollows'
BY DEF J!ZoomFollows

QueryParts == J!Counted /\ J!PodsFollow /\ J!HistFollows /\ J!RowsFollow /\ J!ZoomFollows

\* Requests are counted as they are sent.
LEMMA MoreCounted ==
  ASSUME J!Counted, NEW c \in Nat, sentJ' = sentJ + c,
         \A r \in netJ' : r \in netJ \/ (r.n \in sentJ + 1..sentJ + c /\ r.kind \in {"pods", "hist"} \cup J!Rows)
  PROVE  J!Counted'
BY DEF J!Counted

LEMMA NextParts ==
  ASSUME QueryUsual, QueryParts, [J!Next]_(J!vars)
  PROVE  QueryParts'
<1> USE DEF J!asked, J!place, J!shown, J!calls
<1>0. /\ J!Counted /\ J!PodsFollow /\ J!HistFollows /\ J!RowsFollow /\ J!ZoomFollows
      /\ sentJ \in Nat /\ (\A r \in netJ : r.n \in 1..sentJ) /\ memo = site
  BY DEF QueryParts, J!Counted, J!PodsFollow
<1>1. ASSUME NEW s \in QuerySites, J!SetSite(s)
      PROVE  QueryParts'
  <2> DEFINE q1 == J!Req(1, "pods", <<memo, query, selectedJ>>)
             q2 == J!Req(2, "hist", <<s, query>>)
             q3 == J!Req(3, "rows", <<s, query, selectedJ>>)
             q4 == J!Req(4, "pods", <<s, query, "all">>)
             q5 == J!Req(5, "rows", <<s, query, "all">>)
  <2>1. /\ q1.n = sentJ + 1 /\ q1.kind = "pods" /\ q2.n = sentJ + 2 /\ q2.kind = "hist" /\ q2.of = <<s, query>>
        /\ q3.n = sentJ + 3 /\ q3.kind = "rows" /\ q4.n = sentJ + 4 /\ q4.kind = "pods" /\ q4.of = <<s, query, "all">>
        /\ q5.n = sentJ + 5 /\ q5.kind = "rows" /\ q5.of = <<s, query, "all">>
    BY QueryReqIs
  <2>2. q4.of[1] = s /\ q4.of[2] = query
    BY <2>1
  <2>3. /\ site' = s /\ memo' = s /\ selectedJ' = "all" /\ sentJ' = sentJ + 5
        /\ netJ' = netJ \cup {q1, q2, q3, q4, q5} /\ (\A r \in netJ : r.kind # "more")
        /\ UNCHANGED <<query, draft, stack, trail, podsOf, histOf, rowsJ>>
    BY <1>1 DEF J!SetSite, J!Send
  <2> HIDE DEF q1, q2, q3, q4, q5
  <2>4. q2 \in netJ' /\ q4 \in netJ' /\ q5 \in netJ'
    BY <2>3
  <2>5. J!Counted'
    BY <1>0, <2>1, <2>3, MoreCounted DEF J!Rows
  <2>6. J!PodsFollow'
    BY <1>0, <2>1, <2>2, <2>3, <2>4, NewPods
  <2>7. J!HistFollows'
    BY <1>0, <2>1, <2>3, <2>4, NewHist
  <2>8. J!RowsFollow'
    <3>1. \A r \in netJ' : r.kind # "more"
      BY <2>1, <2>3
    <3>2. \A r \in netJ' : r.kind \in J!Rows => r = q5 \/ r.n < q5.n
      BY <1>0, <2>1, <2>3 DEF J!Rows
    <3> QED
      BY <1>0, <2>1, <2>3, <2>4, <3>1, <3>2, NewRows
  <2> QED
    BY <1>0, <2>3, <2>5, <2>6, <2>7, <2>8, SameZoom DEF QueryParts
<1>2. CASE J!SelectPod
  <2> DEFINE q1 == J!Req(1, "pods", <<site, query, "p">>)
             q2 == J!Req(2, "rows", <<site, query, "p">>)
  <2>1. /\ q1.n = sentJ + 1 /\ q1.kind = "pods" /\ q1.of = <<site, query, "p">>
        /\ q2.n = sentJ + 2 /\ q2.kind = "rows" /\ q2.of = <<site, query, "p">>
    BY QueryReqIs
  <2>2. q1.of[1] = site /\ q1.of[2] = query
    BY <2>1
  <2>3. /\ site' = site /\ memo' = site /\ selectedJ' = "p" /\ sentJ' = sentJ + 2
        /\ netJ' = netJ \cup {q1, q2} /\ (\A r \in netJ : r.kind # "more")
        /\ UNCHANGED <<query, draft, stack, trail, podsOf, histOf, rowsJ>> /\ errs' = errs \ {"pods", "rows"}
    BY <1>2 DEF J!SelectPod, J!Send, J!Asks
  <2> HIDE DEF q1, q2
  <2>4. q1 \in netJ' /\ q2 \in netJ'
    BY <2>3
  <2>5. J!Counted'
    BY <1>0, <2>1, <2>3, MoreCounted DEF J!Rows
  <2>6. J!PodsFollow'
    BY <1>0, <2>1, <2>2, <2>3, <2>4, NewPods
  <2>7. J!HistFollows'
    BY <1>0, <2>1, <2>3, SameHist
  <2>8. J!RowsFollow'
    <3>1. \A r \in netJ' : r.kind # "more"
      BY <2>1, <2>3
    <3>2. \A r \in netJ' : r.kind \in J!Rows => r = q2 \/ r.n < q2.n
      BY <1>0, <2>1, <2>3 DEF J!Rows
    <3> QED
      BY <1>0, <2>1, <2>3, <2>4, <3>1, <3>2, NewRows
  <2> QED
    BY <1>0, <2>3, <2>5, <2>6, <2>7, <2>8, SameZoom DEF QueryParts
<1>3. CASE J!LoadPods
  <2> DEFINE q1 == J!Req(1, "pods", <<memo, query, selectedJ>>)
  <2>1. /\ q1.n = sentJ + 1 /\ q1.kind = "pods" /\ q1.of = <<memo, query, selectedJ>>
    BY QueryReqIs
  <2>2. q1.of[1] = site /\ q1.of[2] = query
    BY <1>0, <2>1
  <2>3. /\ UNCHANGED <<site, memo, selectedJ, rowsJ>> /\ sentJ' = sentJ + 1
        /\ netJ' = netJ \cup {q1} /\ (\A r \in netJ : r.kind # "more")
        /\ UNCHANGED <<query, draft, stack, trail, podsOf, histOf>> /\ errs' = errs \ {"pods"}
    BY <1>3 DEF J!LoadPods, J!Send, J!Asks
  <2> HIDE DEF q1
  <2>4. q1 \in netJ'
    BY <2>3
  <2>5. J!Counted'
    BY <1>0, <2>1, <2>3, MoreCounted DEF J!Rows
  <2>6. J!PodsFollow'
    BY <1>0, <2>1, <2>2, <2>3, <2>4, NewPods
  <2>7. J!HistFollows'
    BY <1>0, <2>1, <2>3, SameHist
  <2>8. J!RowsFollow'
    BY <1>0, <2>1, <2>3, QuerySameRows DEF J!Rows
  <2> QED
    BY <1>0, <2>3, <2>5, <2>6, <2>7, <2>8, SameZoom DEF QueryParts
<1>4. ASSUME UNCHANGED <<site, memo, selectedJ, query, podsOf, histOf, rowsJ, errs, netJ, sentJ>>, J!ZoomFollows'
      PROVE  QueryParts'
  BY <1>0, <1>4, SamePods, SameHist, QuerySameRows DEF QueryParts, J!Counted
<1>5. ASSUME NEW q \in [range : QueryRanges, word : QueryWords], J!ChangeDraft(q)
      PROVE  QueryParts'
  <2>1. J!ZoomFollows'
    BY <1>0, <1>5 DEF J!ChangeDraft, J!ZoomFollows
  <2> QED
    BY <1>4, <1>5, <2>1 DEF J!ChangeDraft
<1>6. ASSUME NEW next, J!Apply(next), J!ZoomFollows'
      PROVE  QueryParts'
  <2>1. CASE next = query
    <3> DEFINE q1 == J!Req(1, "pods", <<memo, query, selectedJ>>)
               q2 == J!Req(2, "hist", <<site, query>>)
    <3>1. /\ q1.n = sentJ + 1 /\ q1.kind = "pods" /\ q1.of = <<memo, query, selectedJ>>
          /\ q2.n = sentJ + 2 /\ q2.kind = "hist" /\ q2.of = <<site, query>>
      BY QueryReqIs
    <3>2. q1.of[1] = site /\ q1.of[2] = query
      BY <1>0, <3>1
    <3>3. /\ UNCHANGED <<site, memo, selectedJ, query, podsOf, histOf, rowsJ>> /\ sentJ' = sentJ + 2
          /\ netJ' = netJ \cup {q1, q2} /\ (\A r \in netJ : r.kind # "more") /\ errs' = errs \ {"pods"}
      BY <1>6, <2>1 DEF J!Apply, J!Send, J!Asks
    <3> HIDE DEF q1, q2
    <3>4. q1 \in netJ' /\ q2 \in netJ'
      BY <3>3
    <3>5. J!Counted'
      BY <1>0, <3>1, <3>3, MoreCounted DEF J!Rows
    <3>6. J!PodsFollow'
      BY <1>0, <3>1, <3>2, <3>3, <3>4, NewPods
    <3>7. J!HistFollows'
      BY <1>0, <3>1, <3>3, <3>4, NewHist
    <3>8. J!RowsFollow'
      BY <1>0, <3>1, <3>3, QuerySameRows DEF J!Rows
    <3> QED
      BY <1>6, <3>5, <3>6, <3>7, <3>8 DEF QueryParts
  <2>2. CASE next # query
    <3> DEFINE q1 == J!Req(1, "pods", <<site, next, selectedJ>>)
               q2 == J!Req(2, "hist", <<site, next>>)
               q3 == J!Req(3, "rows", <<site, next, selectedJ>>)
    <3>1. /\ q1.n = sentJ + 1 /\ q1.kind = "pods" /\ q1.of = <<site, next, selectedJ>>
          /\ q2.n = sentJ + 2 /\ q2.kind = "hist" /\ q2.of = <<site, next>>
          /\ q3.n = sentJ + 3 /\ q3.kind = "rows" /\ q3.of = <<site, next, selectedJ>>
      BY QueryReqIs
    <3>2. q1.of[1] = site /\ q1.of[2] = next
      BY <3>1
    <3>3. /\ UNCHANGED <<site, selectedJ, podsOf, histOf, rowsJ>> /\ memo' = site /\ query' = next /\ sentJ' = sentJ + 3
          /\ netJ' = netJ \cup {q1, q2, q3} /\ (\A r \in netJ : r.kind # "more")
      BY <1>6, <2>2 DEF J!Apply, J!Send
    <3> HIDE DEF q1, q2, q3
    <3>4. q1 \in netJ' /\ q2 \in netJ' /\ q3 \in netJ'
      BY <3>3
    <3>5. J!Counted'
      BY <1>0, <3>1, <3>3, MoreCounted DEF J!Rows
    <3>6. J!PodsFollow'
      BY <1>0, <3>1, <3>2, <3>3, <3>4, NewPods
    <3>7. J!HistFollows'
      BY <1>0, <3>1, <3>3, <3>4, NewHist
    <3>8. J!RowsFollow'
      <4>1. \A r \in netJ' : r.kind # "more"
        BY <3>1, <3>3
      <4>2. \A r \in netJ' : r.kind \in J!Rows => r = q3 \/ r.n < q3.n
        BY <1>0, <3>1, <3>3 DEF J!Rows
      <4> QED
        BY <1>0, <3>1, <3>3, <3>4, <4>1, <4>2, NewRows
    <3> QED
      BY <1>6, <3>5, <3>6, <3>7, <3>8 DEF QueryParts
  <2> QED
    BY <2>1, <2>2
<1>7. CASE J!ApplyDraft
  <2>1. trail' = J!Pushed(trail, draft.range) /\ stack' = stack /\ draft' = draft /\ query' = draft
    BY <1>7 DEF J!ApplyDraft, J!Apply
  <2>2. draft.range = query.range
    BY <1>0 DEF J!ZoomFollows
  <2>3. J!ZoomFollows'
    BY <1>0, <2>1, <2>2 DEF J!ZoomFollows, J!Pushed
  <2> QED
    BY <1>6, <1>7, <2>3 DEF J!ApplyDraft
<1>8. CASE J!PopRange
  <2>1. /\ stack' = J!Front(stack) /\ trail' = J!Front(trail) /\ J!Apply([draft EXCEPT !.range = J!Last(stack)])
    BY <1>8 DEF J!PopRange
  <2>2. draft' = query'
    BY <2>1 DEF J!Apply
  <2>3. J!ZoomFollows'
    BY <1>0, <2>1, <2>2 DEF J!ZoomFollows
  <2> QED
    BY <1>6, <2>1, <2>3
<1>9. ASSUME NEW r \in QueryRanges, J!PickRange(r)
      PROVE  QueryParts'
  <2>1. stack' = J!Pushed(stack, r) /\ trail' = J!Pushed(trail, r) /\ J!Apply([draft EXCEPT !.range = r])
    BY <1>9 DEF J!PickRange
  <2>2. draft' = query'
    BY <2>1 DEF J!Apply
  <2>3. J!ZoomFollows'
    BY <1>0, <2>1, <2>2 DEF J!ZoomFollows
  <2> QED
    BY <1>6, <2>1, <2>3
<1>10. CASE J!Search \/ J!Tick
  <2>1. PICK kind \in {"rows", "silent"} :
          /\ netJ' = netJ \cup {J!Req(1, kind, <<site, query, selectedJ>>)} /\ sentJ' = sentJ + 1
          /\ \A r \in netJ : r.kind # "more"
    BY <1>10 DEF J!Search, J!Tick, J!Send
  <2> DEFINE q1 == J!Req(1, kind, <<site, query, selectedJ>>)
  <2>2. q1.n = sentJ + 1 /\ q1.kind = kind /\ q1.of = <<site, query, selectedJ>>
    BY QueryReqIs
  <2>3. UNCHANGED <<site, memo, selectedJ, query, draft, stack, trail, podsOf, histOf, rowsJ>> /\ errs' = errs \ {"rows"}
    BY <1>10 DEF J!Search, J!Tick, J!Asks
  <2>4. netJ' = netJ \cup {q1}
    BY <2>1
  <2> HIDE DEF q1
  <2>5. J!Counted'
    BY <1>0, <2>1, <2>2, <2>4, MoreCounted DEF J!Rows
  <2>6. J!PodsFollow' /\ J!HistFollows'
    BY <1>0, <2>2, <2>3, <2>4, SamePods, SameHist
  <2>7. J!RowsFollow'
    <3>1. \A r \in netJ' : r.kind # "more"
      BY <2>1, <2>2, <2>4
    <3>2. \A r \in netJ' : r.kind \in J!Rows => r = q1 \/ r.n < q1.n
      BY <1>0, <2>2, <2>4
    <3> QED
      BY <1>0, <2>2, <2>3, <2>4, <3>1, <3>2, NewRows
  <2> QED
    BY <1>0, <2>3, <2>5, <2>6, <2>7, SameZoom DEF QueryParts
<1>11. CASE J!LoadMore
  <2> DEFINE q1 == J!Req(1, "more", <<site, query, selectedJ>>)
  <2>1. q1.n = sentJ + 1 /\ q1.kind = "more" /\ q1.of = <<site, query, selectedJ>> /\ q1.from = Len(rowsJ)
    BY QueryReqIs
  <2>2. /\ UNCHANGED <<site, memo, selectedJ, query, draft, stack, trail, podsOf, histOf, rowsJ, errs>>
        /\ netJ = {} /\ netJ' = {q1} /\ sentJ' = sentJ + 1
    BY <1>11 DEF J!LoadMore, J!Send
  <2> HIDE DEF q1
  <2>3. J!Counted'
    BY <1>0, <2>1, <2>2, MoreCounted DEF J!Rows
  <2>4. J!PodsFollow' /\ J!HistFollows'
    BY <1>0, <2>1, <2>2, SamePods, SameHist
  <2>5. J!RowsFollow'
    BY <1>0, <2>1, <2>2 DEF J!RowsFollow, J!Follows, J!Gone
  <2> QED
    BY <1>0, <2>2, <2>3, <2>4, <2>5, SameZoom DEF QueryParts
<1>12. ASSUME NEW r \in netJ, J!GotPods(r)
       PROVE  QueryParts'
  <2>1. r.kind = "pods" /\ UNCHANGED <<site, query, draft, stack, trail, histOf, rowsJ>>
    BY <1>12 DEF J!GotPods
  <2>2. \A q \in netJ : q.kind = "pods" => r.n <= q.n
    BY <1>12, <2>1 DEF J!GotPods, J!Next1, J!Line
  <2>3. \A q \in netJ : q.kind # "more"
    BY <1>0, <2>1 DEF J!RowsFollow
  <2>4. ASSUME netJ' = netJ \ {r}, UNCHANGED <<memo, selectedJ, sentJ>>,
               \/ errs' = errs \cup {"pods"} /\ podsOf' = podsOf
               \/ errs' = errs /\ podsOf' = <<r.of[1], r.of[2]>>
        PROVE  QueryParts'
    <3>1. \A q \in netJ' : q.kind = "pods" =>
            (q.of[1] = site /\ q.of[2] = query) \/ \E p \in netJ' : p.kind = "pods" /\ p.n > q.n
      <4>1. SUFFICES ASSUME NEW q \in netJ', q.kind = "pods", ~(q.of[1] = site /\ q.of[2] = query)
                     PROVE  \E p \in netJ' : p.kind = "pods" /\ p.n > q.n
        OBVIOUS
      <4>2. PICK p \in netJ : p.kind = "pods" /\ p.n > q.n
        BY <1>0, <2>4, <4>1 DEF J!PodsFollow
      <4>3. p # r
        BY <1>0, <2>2, <2>4, <4>1, <4>2
      <4> QED
        BY <2>4, <4>2, <4>3
    <3>2. ASSUME J!Gone({"pods"})', podsOf' = <<r.of[1], r.of[2]>>
          PROVE  podsOf' = <<site, query>>
      <4>1. \A q \in netJ : q.kind = "pods" => q = r
        BY <2>4, <3>2 DEF J!Gone
      <4>2. \A q \in netJ : ~(q.kind = "pods" /\ q.n > r.n)
        BY <1>0, <4>1
      <4>3. r.of[1] = site /\ r.of[2] = query
        BY <1>0, <2>1, <4>2 DEF J!PodsFollow
      <4> QED
        BY <3>2, <4>3
    <3>3. J!PodsFollow'
      BY <1>0, <2>1, <2>4, <3>1, <3>2 DEF J!PodsFollow
    <3>4. J!HistFollows' /\ J!RowsFollow'
      BY <1>0, <2>1, <2>4, SameHist, QuerySameRows DEF J!Rows
    <3>5. J!Counted'
      BY <1>0, <2>4 DEF J!Counted
    <3> QED
      BY <1>0, <2>1, <3>3, <3>4, <3>5, SameZoom DEF QueryParts
  <2>5. ASSUME selectedJ' = "all", memo' = site, errs' = errs \ {"pods", "rows"}, sentJ' = sentJ + 2,
               netJ' = (netJ \ {r}) \cup {J!Req(1, "pods", <<site, query, "all">>), J!Req(2, "rows", <<site, query, "all">>)}
        PROVE  QueryParts'
    <3> DEFINE q1 == J!Req(1, "pods", <<site, query, "all">>)
               q2 == J!Req(2, "rows", <<site, query, "all">>)
    <3>1. /\ q1.n = sentJ + 1 /\ q1.kind = "pods" /\ q1.of = <<site, query, "all">>
          /\ q2.n = sentJ + 2 /\ q2.kind = "rows" /\ q2.of = <<site, query, "all">>
      BY QueryReqIs
    <3>2. q1.of[1] = site /\ q1.of[2] = query
      BY <3>1
    <3>3. netJ' = (netJ \ {r}) \cup {q1, q2}
      BY <2>5
    <3> HIDE DEF q1, q2
    <3>4. q1 \in netJ' /\ q2 \in netJ'
      BY <3>3
    <3>5. J!Counted'
      BY <1>0, <2>5, <3>1, <3>3, MoreCounted DEF J!Rows
    <3>6. J!PodsFollow'
      BY <1>0, <2>1, <2>5, <3>1, <3>2, <3>3, <3>4, NewPods
    <3>7. J!HistFollows'
      BY <1>0, <2>1, <2>5, <3>1, <3>3, SameHist
    <3>8. J!RowsFollow'
      <4>1. \A q \in netJ' : q.kind # "more"
        BY <2>3, <3>1, <3>3
      <4>2. \A q \in netJ' : q.kind \in J!Rows => q = q2 \/ q.n < q2.n
        BY <1>0, <3>1, <3>3 DEF J!Rows
      <4> QED
        BY <1>0, <2>1, <2>5, <3>1, <3>4, <4>1, <4>2, NewRows
    <3> QED
      BY <1>0, <2>1, <3>5, <3>6, <3>7, <3>8, SameZoom DEF QueryParts
  <2> QED
    BY <1>12, <2>4, <2>5 DEF J!GotPods, J!SendsOn, J!Asks
<1>13. ASSUME NEW r \in netJ, J!GotHist(r)
       PROVE  QueryParts'
  <2>1. /\ r.kind = "hist" /\ UNCHANGED <<site, memo, selectedJ, query, draft, stack, trail, podsOf, rowsJ, sentJ>>
        /\ netJ' = netJ \ {r}
        /\ \/ histOf' = r.of /\ errs' = errs \ {"hist"}
           \/ errs' = errs \cup {"hist"} /\ histOf' = histOf
    BY <1>13 DEF J!GotHist
  <2>2. \A q \in netJ : q.kind = "hist" => r.n <= q.n
    BY <1>13, <2>1 DEF J!GotHist, J!Next1, J!Line
  <2>3. J!Follows({"hist"}, <<site, query>>)'
    <3>1. SUFFICES ASSUME NEW q \in netJ', q.kind = "hist", q.of # <<site, query>>
                   PROVE  \E p \in netJ' : p.kind = "hist" /\ p.n > q.n
      BY <2>1 DEF J!Follows
    <3>2. PICK p \in netJ : p.kind = "hist" /\ p.n > q.n
      BY <1>0, <2>1, <3>1 DEF J!HistFollows, J!Follows
    <3>3. p # r
      BY <1>0, <2>1, <2>2, <3>1, <3>2
    <3> QED
      BY <2>1, <3>2, <3>3
  <2>4. ASSUME J!Gone({"hist"})' PROVE r.of = <<site, query>>
    <3>1. \A q \in netJ : q.kind = "hist" => q = r
      BY <2>1, <2>4 DEF J!Gone
    <3>2. \A q \in netJ : ~(q.kind = "hist" /\ q.n > r.n)
      BY <1>0, <3>1
    <3> QED
      BY <1>0, <2>1, <3>2 DEF J!HistFollows, J!Follows
  <2>5. J!HistFollows'
    BY <1>0, <2>1, <2>3, <2>4 DEF J!HistFollows
  <2>6. J!PodsFollow' /\ J!RowsFollow'
    BY <1>0, <2>1, SamePods, QuerySameRows DEF J!Rows
  <2>7. J!Counted'
    BY <1>0, <2>1 DEF J!Counted
  <2> QED
    BY <1>0, <2>1, <2>5, <2>6, <2>7, SameZoom DEF QueryParts
<1>14. ASSUME NEW r \in netJ, J!GotRows(r)
       PROVE  QueryParts'
  <2>1. /\ r.kind \in {"rows", "silent"} /\ UNCHANGED <<site, memo, selectedJ, query, draft, stack, trail, podsOf, histOf, sentJ>>
        /\ netJ' = netJ \ {r}
        /\ \/ rowsJ' = <<[of |-> r.of, from |-> 0]>> /\ errs' = errs
           \/ errs' = errs \cup {"rows"} /\ rowsJ' \in {rowsJ, <<>>}
    BY <1>14 DEF J!GotRows
  <2>2. \A q \in netJ : q.kind \in J!Rows => r.n <= q.n
    BY <1>14, <2>1 DEF J!GotRows, J!Next1, J!Line, J!Rows
  <2>3. \A q \in netJ : q.kind # "more"
    BY <1>0, <2>1 DEF J!RowsFollow
  <2>4. J!Follows(J!Rows, <<site, query, selectedJ>>)'
    <3>1. SUFFICES ASSUME NEW q \in netJ', q.kind \in J!Rows, q.of # <<site, query, selectedJ>>
                   PROVE  \E p \in netJ' : p.kind \in J!Rows /\ p.n > q.n
      BY <2>1 DEF J!Follows
    <3>2. PICK p \in netJ : p.kind \in J!Rows /\ p.n > q.n
      BY <1>0, <2>1, <3>1 DEF J!RowsFollow, J!Follows
    <3>3. p # r
      BY <1>0, <2>1, <2>2, <3>1, <3>2
    <3> QED
      BY <2>1, <3>2, <3>3
  <2>5. ASSUME J!Gone({"rows", "silent"})' PROVE r.of = <<site, query, selectedJ>>
    <3>1. \A q \in netJ : q.kind \in J!Rows => q = r
      BY <2>1, <2>3, <2>5 DEF J!Gone, J!Rows
    <3>2. \A q \in netJ : ~(q.kind \in J!Rows /\ q.n > r.n)
      BY <1>0, <3>1
    <3> QED
      BY <1>0, <2>1, <3>2 DEF J!RowsFollow, J!Follows, J!Rows
  <2>6. rowsJ' \in Seq({rowsJ'[k] : k \in DOMAIN rowsJ'})
    <3>1. CASE rowsJ' = rowsJ
      BY <1>0, <3>1 DEF J!RowsFollow
    <3>2. CASE rowsJ' = <<>>
      BY <3>2
    <3>3. CASE rowsJ' = <<[of |-> r.of, from |-> 0]>>
      <4> DEFINE e0 == [of |-> r.of, from |-> 0]
      <4>1. rowsJ' = <<e0>>
        BY <3>3
      <4> HIDE DEF e0
      <4>2. DOMAIN rowsJ' = {1} /\ rowsJ'[1] = e0 /\ rowsJ' \in Seq({e0})
        BY <4>1
      <4>3. {rowsJ'[k] : k \in DOMAIN rowsJ'} = {e0}
        BY <4>2
      <4> QED
        BY <4>2, <4>3
    <3> QED
      BY <2>1, <3>1, <3>2, <3>3
  <2>7. ASSUME rowsJ' = <<[of |-> r.of, from |-> 0]>>, J!Gone({"rows", "silent"})'
        PROVE  \A k \in DOMAIN rowsJ' : rowsJ'[k] = [of |-> <<site, query, selectedJ>>, from |-> k - 1]
    BY <2>5, <2>7
  <2>8. J!RowsFollow'
    BY <1>0, <2>1, <2>3, <2>4, <2>6, <2>7 DEF J!RowsFollow
  <2>9. J!PodsFollow' /\ J!HistFollows'
    BY <1>0, <2>1, SamePods, SameHist
  <2>10. J!Counted'
    BY <1>0, <2>1 DEF J!Counted
  <2> QED
    BY <1>0, <2>1, <2>8, <2>9, <2>10, SameZoom DEF QueryParts
<1>15. ASSUME NEW r \in netJ, J!GotMore(r)
       PROVE  QueryParts'
  <2>1. /\ r.kind = "more" /\ UNCHANGED <<site, memo, selectedJ, query, draft, stack, trail, podsOf, histOf, sentJ, errs>>
        /\ netJ' = netJ \ {r} /\ rowsJ' \in {rowsJ, Append(rowsJ, [of |-> r.of, from |-> r.from])}
    BY <1>15 DEF J!GotMore
  <2>2. netJ = {r} /\ netJ' = {} /\ r.from = Len(rowsJ)
    BY <1>0, <2>1 DEF J!RowsFollow
  <2>3. r.of = <<site, query, selectedJ>>
    BY <1>0, <2>1, <2>2 DEF J!RowsFollow, J!Follows, J!Rows, J!Counted
  <2>4. ASSUME rowsJ' = rowsJ PROVE J!RowsFollow'
    BY <1>0, <2>1, <2>2, <2>4 DEF J!RowsFollow, J!Follows, J!Gone
  <2>5. ASSUME rowsJ' = Append(rowsJ, [of |-> <<site, query, selectedJ>>, from |-> Len(rowsJ)]) PROVE J!RowsFollow'
    <3> DEFINE S == {rowsJ[k] : k \in DOMAIN rowsJ}
               e0 == [of |-> <<site, query, selectedJ>>, from |-> Len(rowsJ)]
    <3>1. rowsJ \in Seq(S)
      BY <1>0 DEF J!RowsFollow
    <3>2. rowsJ' = Append(rowsJ, e0)
      BY <2>5
    <3> HIDE DEF S, e0
    <3>3. /\ Len(rowsJ) \in Nat /\ rowsJ' \in Seq(S \cup {e0}) /\ Len(rowsJ') = Len(rowsJ) + 1
          /\ rowsJ'[Len(rowsJ) + 1] = e0 /\ \A k \in 1..Len(rowsJ) : rowsJ'[k] = rowsJ[k]
      BY <3>1, <3>2
    <3>4. DOMAIN rowsJ = 1..Len(rowsJ) /\ DOMAIN rowsJ' = 1..(Len(rowsJ) + 1)
      BY <3>1, <3>3
    <3>5. rowsJ' \in Seq({rowsJ'[k] : k \in DOMAIN rowsJ'})
      BY <3>3, <3>4
    <3>6. e0 = [of |-> <<site, query, selectedJ>>, from |-> (Len(rowsJ) + 1) - 1]
      BY <3>3 DEF e0
    <3>7. ASSUME "rows" \notin errs
          PROVE  \A k \in DOMAIN rowsJ' : rowsJ'[k] = [of |-> <<site, query, selectedJ>>, from |-> k - 1]
      <4>1. \A k \in DOMAIN rowsJ : rowsJ[k] = [of |-> <<site, query, selectedJ>>, from |-> k - 1]
        BY <1>0, <2>1, <2>2, <3>7 DEF J!RowsFollow, J!Gone
      <4> QED
        BY <3>3, <3>4, <3>6, <4>1
    <3> QED
      BY <2>1, <2>2, <3>5, <3>7 DEF J!RowsFollow, J!Follows
  <2>6. J!RowsFollow'
    <3>1. CASE rowsJ' = rowsJ
      BY <2>4, <3>1
    <3>2. CASE rowsJ' = Append(rowsJ, [of |-> r.of, from |-> r.from])
      <4>1. [of |-> r.of, from |-> r.from] = [of |-> <<site, query, selectedJ>>, from |-> Len(rowsJ)]
        BY <2>2, <2>3
      <4>2. rowsJ' = Append(rowsJ, [of |-> <<site, query, selectedJ>>, from |-> Len(rowsJ)])
        BY <3>2, <4>1
      <4> QED
        BY <2>5, <4>2
    <3> QED
      BY <2>1, <3>1, <3>2
  <2>7. J!PodsFollow' /\ J!HistFollows'
    BY <1>0, <2>1, SamePods, SameHist
  <2>8. J!Counted'
    BY <1>0, <2>1 DEF J!Counted
  <2> QED
    BY <1>0, <2>1, <2>6, <2>7, <2>8, SameZoom DEF QueryParts
<1>16. CASE UNCHANGED J!vars
  <2>1. J!ZoomFollows'
    BY <1>0, <1>16, SameZoom DEF J!vars
  <2> QED
    BY <1>4, <1>16, <2>1 DEF J!vars
<1> QED
  BY <1>1, <1>2, <1>3, <1>5, <1>7, <1>8, <1>9, <1>10, <1>11, <1>12, <1>13, <1>14, <1>15, <1>16
     DEF J!Next, J!User, J!Conditions, J!Answers

LEMMA PartsMean ==
  ASSUME QueryParts
  PROVE  J!TreeIsOfSite /\ J!HistIsOfQuery /\ J!RowsAreOfQuery /\ J!ZoomGoesBack
BY DEF QueryParts, J!PodsFollow, J!HistFollows, J!RowsFollow, J!ZoomFollows, J!TreeIsOfSite, J!HistIsOfQuery, J!RowsAreOfQuery, J!ZoomGoesBack, J!Quiet, J!Gone

U == INSTANCE Diagnosis WITH Envs <- CheckEnvs, Urls <- CheckUrls,
       Settled <- CheckUsual, Patient <- CheckUsual, Whole <- CheckUsual,
       MaxCalls <- CheckCalls, loading <- loadingU, result <- resultU, net <- netU,
       sent <- sentU, picked <- pickedU, typed <- typedU

(***************************************************************************)
(* What the diagnosis keeps: its choices, its one request.                 *)
(***************************************************************************)
\* What is asked for with the form is no diagnosis.
LEMMA BothAre ==
  ASSUME NEW n, NEW u
  PROVE  \A r \in U!Both(n, u) : r.kind # "diagnose" /\ r.n \in {n, n + 1} /\ (r.kind = "accounts" => r.url = u)
<1> DEFINE a == [n |-> n, kind |-> "envs"]
           b == [n |-> n + 1, kind |-> "accounts", url |-> u]
<1>1. a.kind = "envs" /\ a.n = n /\ b.kind = "accounts" /\ b.n = n + 1 /\ b.url = u
  OBVIOUS
<1>2. U!Both(n, u) = {a, b}
  BY DEF U!Both
<1> HIDE DEF a, b
<1> QED
  BY <1>1, <1>2

LEMMA InitChoice ==
  ASSUME U!Init
  PROVE  U!NothingFills
BY DEF U!Init, U!NothingFills, U!ChoiceStays

\* What was chosen is as it was, and no list is asked for that was not.
LEMMA SameChoice ==
  ASSUME U!NothingFills, UNCHANGED <<k8sEnv, serverUrl, U!said>>,
         \A r \in netU' : r \in netU \/ r.kind = "diagnose"
  PROVE  U!NothingFills'
BY DEF U!NothingFills, U!ChoiceStays, U!Loads, U!said

LEMMA NextChoice ==
  ASSUME CheckUsual, U!NothingFills, [U!Next]_(U!vars)
  PROVE  U!NothingFills'
<1>1. ASSUME NEW e \in CheckEnvs \cup {U!Blank}, U!PickEnv(e)
      PROVE  U!NothingFills'
  BY <1>1 DEF U!PickEnv, U!NothingFills, U!ChoiceStays, U!Loads, U!calls
<1>2. ASSUME NEW u \in CheckUrls \cup {U!Blank}, U!EditServer(u)
      PROVE  U!NothingFills'
  <2>1. U!Loads = {} /\ pickedU = "?" /\ pickedU' = pickedU /\ serverUrl' = u /\ typedU' = u /\ u # U!Blank /\ u # serverUrl
    BY <1>2 DEF U!EditServer
  <2>2. netU' = netU \cup U!Both(sentU + 1, u)
    BY <1>2, <2>1 DEF U!EditServer, U!LoadLists
  <2>3. \A r \in netU : r.kind = "diagnose"
    BY <2>1 DEF U!Loads
  <2>5. \A r \in netU' : r.kind = "accounts" => r.url # U!Blank
    <3>1. \A r \in U!Both(sentU + 1, u) : r.kind = "accounts" => r.url = u
      BY BothAre
    <3> QED
      BY <2>1, <2>2, <2>3, <3>1
  <2> QED
    BY <2>1, <2>5 DEF U!NothingFills, U!ChoiceStays
<1>3. ASSUME NEW f \in U!Filters, U!EditFilter(f)
      PROVE  U!NothingFills'
  BY <1>3, SameChoice DEF U!EditFilter, U!calls
<1>4. ASSUME NEW s \in {"summary", "k8s"}, U!SetSection(s)
      PROVE  U!NothingFills'
  BY <1>4, SameChoice DEF U!SetSection, U!calls, U!form
<1>5. CASE U!EditText \/ U!Clear
  BY <1>5, SameChoice DEF U!EditText, U!Clear, U!calls
<1>6. CASE U!DoDiagnose
  BY <1>6, SameChoice DEF U!DoDiagnose, U!form
<1>7. ASSUME NEW r \in netU, U!GotDiagnosis(r) \/ U!NoDiagnosis(r) \/ U!NoEnvs(r)
      PROVE  U!NothingFills'
  BY <1>7, SameChoice DEF U!GotDiagnosis, U!NoDiagnosis, U!NoEnvs, U!form
<1>8. ASSUME NEW r \in netU, U!GotEnvs(r)
      PROVE  U!NothingFills'
  <2>1. pickedU = "?" /\ UNCHANGED <<serverUrl, U!said>> /\ netU' \subseteq netU
    BY <1>8 DEF U!GotEnvs, U!NothingFills, U!Loads
  <2> QED
    BY <2>1 DEF U!NothingFills, U!ChoiceStays, U!said
<1>9. ASSUME NEW r \in netU, U!GotAccounts(r)
      PROVE  U!NothingFills'
  <2>1. UNCHANGED <<k8sEnv, U!said>> /\ pickedU = "?"
    BY <1>9 DEF U!GotAccounts, U!NothingFills, U!Loads
  <2>2. CASE netU' = netU \ {r} /\ serverUrl' = serverUrl
    BY <2>1, <2>2, SameChoice
  <2>3. CASE r.url = U!Blank
    <3>1. typedU = "?"
      BY <1>9, <2>3 DEF U!GotAccounts, U!NothingFills
    <3> QED
      BY <2>1, <3>1 DEF U!NothingFills, U!ChoiceStays, U!said
  <2> QED
    BY <1>9, <2>2, <2>3 DEF U!GotAccounts
<1>10. CASE UNCHANGED U!vars
  BY <1>10, SameChoice DEF U!vars, U!form, U!calls
<1> QED
  BY <1>1, <1>2, <1>3, <1>4, <1>5, <1>6, <1>7, <1>8, <1>9, <1>10 DEF U!Next, U!User, U!Answers

\* What the rules conclude from a cluster that fits them.
LEMMA ReassuresTruly ==
  ASSUME NEW n, NEW e, NEW f \in U!Filters, NEW c \in U!Clusters, U!Fits(c, f)
  PROVE  /\ U!Summary(n, e, f, c).n = n
         /\ U!Summary(n, e, f, c).status = "healthy" => ~U!Summary(n, e, f, c).sick
         /\ U!Summary(n, e, f, c).fine => ~U!Summary(n, e, f, c).ill
<1> DEFINE known == ~(e = U!Blank \/ ~c.listed)
           sick == U!Sick(c) \/ c.events # {}
           status0 == IF known THEN U!InfraStatus(c, f) ELSE "unknown"
           fine == e # U!Blank /\ c.listed /\ ~U!Abnormal(c, f)
<1>1. U!Summary(n, e, f, c) = [n |-> n, ill |-> U!Sick(c), sick |-> sick, status |-> status0, fine |-> fine]
  BY DEF U!Summary
<1>2. U!Abnormal(c, f) <=> U!Sick(c) \/ f = "this"
  BY DEF U!Fits, U!Abnormal
<1>3. c.events \subseteq U!Reasons /\ c.read /\ c.phase \in U!Phases
  BY DEF U!Clusters, U!Fits
<1>4. ASSUME status0 = "healthy"
      PROVE  ~sick
  <2>1. U!InfraStatus(c, f) = "healthy"
    BY <1>4
  <2>2. ~(U!Abnormal(c, f) /\ "OOMKilling" \in c.events) /\ ~(U!Abnormal(c, f) /\ (c.phase = "Failed" \/ c.many))
        /\ "NodeNotReady" \notin c.events /\ "Unhealthy" \notin c.events
    BY <2>1, <1>3 DEF U!InfraStatus, U!Warnings
  <2>3. ~U!Sick(c)
    BY <1>2, <1>3, <2>2 DEF U!Sick, U!Fits, U!Phases
  <2>4. c.events = {}
    BY <1>3, <2>2, <2>3 DEF U!Fits, U!Reasons
  <2> QED
    BY <2>3, <2>4
<1>5. fine => ~U!Sick(c)
  BY <1>2
<1> HIDE DEF known, sick, status0, fine
<1> QED
  BY <1>1, <1>4, <1>5

LEMMA InitOne ==
  ASSUME U!Init
  PROVE  U!OneDiagnosis
<1>1. resultU = U!None /\ filter = U!Blank
  BY DEF U!Init
<1>2. \A r \in netU : r.kind # "diagnose"
  BY BothAre DEF U!Init
<1> QED
  BY <1>1, <1>2 DEF U!OneDiagnosis, U!ResultIsOfLast, U!Reassures, U!Filters

\* No diagnosis is asked for, and none comes.
LEMMA SameOne ==
  ASSUME U!OneDiagnosis, UNCHANGED <<loadingU, resultU, last>>, filter' \in U!Filters,
         \A r \in netU' : r \in netU \/ r.kind # "diagnose"
  PROVE  U!OneDiagnosis'
<1>1. \A r \in netU' : r.kind = "diagnose" => r \in netU
  OBVIOUS
<1> QED
  BY <1>1 DEF U!OneDiagnosis, U!ResultIsOfLast, U!Reassures

LEMMA NextOne ==
  ASSUME CheckUsual, U!OneDiagnosis, [U!Next]_(U!vars)
  PROVE  U!OneDiagnosis'
<1>0. filter \in U!Filters
  BY DEF U!OneDiagnosis
<1>1. ASSUME NEW e \in CheckEnvs \cup {U!Blank}, U!PickEnv(e)
      PROVE  U!OneDiagnosis'
  BY <1>0, <1>1, SameOne DEF U!PickEnv, U!diag, U!calls
<1>2. ASSUME NEW u \in CheckUrls \cup {U!Blank}, U!EditServer(u)
      PROVE  U!OneDiagnosis'
  <2>1. \A r \in netU' : r \in netU \/ r.kind # "diagnose"
    <3>1. \A r \in U!Both(sentU + 1, u) : r.kind # "diagnose"
      BY BothAre
    <3>2. netU' = netU \/ netU' = netU \cup U!Both(sentU + 1, u)
      BY <1>2, Zenon DEF U!EditServer, U!LoadLists, U!calls
    <3> QED
      BY <3>1, <3>2
  <2> QED
    BY <1>0, <1>2, <2>1, SameOne DEF U!EditServer, U!diag
<1>3. ASSUME NEW f \in U!Filters, U!EditFilter(f)
      PROVE  U!OneDiagnosis'
  BY <1>3, SameOne DEF U!EditFilter, U!diag, U!calls
<1>4. ASSUME NEW s \in {"summary", "k8s"}, U!SetSection(s)
      PROVE  U!OneDiagnosis'
  BY <1>0, <1>4, SameOne DEF U!SetSection, U!diag, U!calls, U!form
<1>5. CASE U!EditText
  BY <1>0, <1>5, SameOne DEF U!EditText, U!diag, U!calls
<1>6. CASE U!Clear
  <2>1. ~loadingU /\ netU' = netU /\ resultU' = U!None /\ filter' = filter
    BY <1>6 DEF U!Clear, U!calls
  <2>2. \A r \in netU' : r.kind # "diagnose"
    BY <2>1 DEF U!OneDiagnosis
  <2> QED
    BY <1>0, <2>1, <2>2 DEF U!OneDiagnosis, U!ResultIsOfLast, U!Reassures
<1>7. CASE U!DoDiagnose
  <2> DEFINE q == [n |-> sentU + 1, kind |-> "diagnose", env |-> k8sEnv, filter |-> filter]
  <2>1. ~loadingU /\ loadingU' /\ netU' = netU \cup {q} /\ resultU' = U!None /\ last' = sentU + 1 /\ filter' = filter
    BY <1>7 DEF U!DoDiagnose, U!form
  <2>2. q.n = sentU + 1 /\ q.filter = filter
    OBVIOUS
  <2>3. \A r \in netU : r.kind # "diagnose"
    BY <2>1 DEF U!OneDiagnosis
  <2> HIDE DEF q
  <2> QED
    BY <1>0, <2>1, <2>2, <2>3 DEF U!OneDiagnosis, U!ResultIsOfLast, U!Reassures
<1>8. ASSUME NEW r \in netU, U!GotDiagnosis(r)
      PROVE  U!OneDiagnosis'
  <2>1. r.kind = "diagnose" /\ netU' = netU \ {r} /\ filter' = filter /\ last' = last
    BY <1>8 DEF U!GotDiagnosis, U!form
  <2>2. r.n = last /\ r.filter \in U!Filters /\ \A q \in netU' : q.kind # "diagnose"
    BY <2>1 DEF U!OneDiagnosis
  <2>3. PICK c \in U!Clusters : U!Fits(c, r.filter) /\ resultU' = U!Summary(r.n, r.env, r.filter, c)
    BY <1>8 DEF U!GotDiagnosis
  <2>4. resultU'.n = last /\ (resultU'.status = "healthy" => ~resultU'.sick) /\ (resultU'.fine => ~resultU'.ill)
    BY <2>2, <2>3, ReassuresTruly
  <2> QED
    BY <1>0, <2>1, <2>2, <2>4 DEF U!OneDiagnosis, U!ResultIsOfLast, U!Reassures
<1>9. ASSUME NEW r \in netU, U!NoDiagnosis(r)
      PROVE  U!OneDiagnosis'
  <2>1. r.kind = "diagnose" /\ netU' = netU \ {r} /\ filter' = filter /\ last' = last /\ resultU' = resultU
    BY <1>9 DEF U!NoDiagnosis, U!form
  <2>2. \A q \in netU' : q.kind # "diagnose"
    BY <2>1 DEF U!OneDiagnosis
  <2> QED
    BY <1>0, <2>1, <2>2 DEF U!OneDiagnosis, U!ResultIsOfLast, U!Reassures
<1>10. ASSUME NEW r \in netU, U!GotEnvs(r) \/ U!NoEnvs(r)
       PROVE  U!OneDiagnosis'
  BY <1>0, <1>10, SameOne DEF U!GotEnvs, U!NoEnvs, U!diag, U!form
<1>11. ASSUME NEW r \in netU, U!GotAccounts(r)
       PROVE  U!OneDiagnosis'
  <2>1. \A q \in netU' : q \in netU \/ q.kind # "diagnose"
    <3>1. \A u : \A q \in U!Both(sentU + 1, u) : q.kind # "diagnose"
      BY BothAre
    <3>2. netU' = netU \ {r} \/ \E u : netU' = (netU \ {r}) \cup U!Both(sentU + 1, u)
      BY <1>11, Zenon DEF U!GotAccounts
    <3> QED
      BY <3>1, <3>2
  <2> QED
    BY <1>0, <1>11, <2>1, SameOne DEF U!GotAccounts, U!diag
<1>12. CASE UNCHANGED U!vars
  BY <1>0, <1>12, SameOne DEF U!vars, U!form, U!diag, U!calls
<1> QED
  BY <1>1, <1>2, <1>3, <1>4, <1>5, <1>6, <1>7, <1>8, <1>9, <1>10, <1>11, <1>12 DEF U!Next, U!User, U!Answers

LEMMA OneMeans ==
  ASSUME U!OneDiagnosis
  PROVE  U!ResultIsOfLast /\ U!HealthyIsTrue
BY DEF U!OneDiagnosis, U!Reassures, U!HealthyIsTrue

L == INSTANCE Link WITH Events <- StreamEvents, MaxOutages <- StreamOutages,
       timer <- timerL

(***************************************************************************)
(* What the event stream keeps: its books.                                 *)
(***************************************************************************)
LEMMA InitBook ==
  ASSUME L!Init
  PROVE  L!BookIsTrue
BY DEF L!Init, L!BookIsTrue

\* A new stream is bound to all names.
LEMMA ConnectKeepsBook ==
  ASSUME L!BookIsTrue, L!Connect, UNCHANGED <<names, handlers>>
  PROVE  L!BookIsTrue'
<1>1. CASE es # "none"
  BY <1>1 DEF L!Connect, L!BookIsTrue
<1>2. CASE es = "none"
  <2>1. es' = "opening" /\ esBound' = names
    BY <1>2 DEF L!Connect, L!BindEs, L!BookIsTrue
  <2>2. attached' = [e \in StreamEvents |-> IF e \in names THEN 1 ELSE 0]
    <3>1. attached' = [e \in StreamEvents |-> attached[e] + IF e \in names \ esBound THEN 1 ELSE 0]
      BY <1>2 DEF L!Connect, L!BindEs
    <3>2. \A e \in StreamEvents : attached[e] = 0 /\ e \notin esBound
      BY <1>2 DEF L!BookIsTrue
    <3> QED
      BY <3>1, <3>2
  <2> QED
    BY <2>1, <2>2 DEF L!BookIsTrue
<1> QED
  BY <1>1, <1>2

LEMMA CloseKeepsBook ==
  ASSUME L!BookIsTrue, L!CloseEs, UNCHANGED <<names, handlers>>
  PROVE  L!BookIsTrue'
BY DEF L!CloseEs, L!BookIsTrue

\* A late panel binds its name alone.
LEMMA OnKeepsBook ==
  ASSUME L!BookIsTrue, NEW evt \in StreamEvents, L!On(evt), es' = es
  PROVE  L!BookIsTrue'
<1>1. names' = names \cup {evt} /\ handlers' = handlers \cup {evt}
  BY DEF L!On
<1>2. CASE es = "none"
  BY <1>1, <1>2 DEF L!On, L!BookIsTrue
<1>3. CASE es # "none"
  <2>1. esBound' = names \cup {evt}
    BY <1>3 DEF L!On, L!BindEs, L!BookIsTrue
  <2>2. attached' = [e \in StreamEvents |-> attached[e] + IF e \in {evt} \ esBound THEN 1 ELSE 0]
    BY <1>3 DEF L!On, L!BindEs
  <2>3. \A e \in StreamEvents : attached[e] = IF e \in esBound THEN 1 ELSE 0
    BY DEF L!BookIsTrue
  <2>4. esBound = names
    BY <1>3 DEF L!BookIsTrue
  <2>5. attached' = [e \in StreamEvents |-> IF e \in names \cup {evt} THEN 1 ELSE 0]
    BY <2>2, <2>3, <2>4
  <2> QED
    BY <1>1, <1>3, <2>1, <2>5 DEF L!BookIsTrue
<1> QED
  BY <1>2, <1>3

LEMMA SameBook ==
  ASSUME L!BookIsTrue, UNCHANGED <<es, attached, esBound, names>>, handlers' \subseteq handlers
  PROVE  L!BookIsTrue'
BY DEF L!BookIsTrue

LEMMA NextKeepsBook ==
  ASSUME L!BookIsTrue, [L!Next]_(L!vars)
  PROVE  L!BookIsTrue'
<1>1. CASE L!Mount
  BY <1>1, ConnectKeepsBook DEF L!Mount
<1>2. CASE L!Opened
  BY <1>2 DEF L!Opened, L!BookIsTrue
<1>3. CASE L!OnError
  BY <1>3, CloseKeepsBook DEF L!OnError
<1>4. CASE L!Reconnect
  BY <1>4, ConnectKeepsBook DEF L!Reconnect
<1>5. ASSUME NEW e \in StreamEvents, L!Subscribe(e)
      PROVE  L!BookIsTrue'
  BY <1>5, OnKeepsBook DEF L!Subscribe
<1>6. ASSUME NEW e \in StreamEvents, L!Unsubscribe(e)
      PROVE  L!BookIsTrue'
  BY <1>6, SameBook DEF L!Unsubscribe
<1>7. CASE L!Call \/ L!Retry \/ L!Dismiss \/ \E k \in L!Kinds : L!Failed(k)
  BY <1>7, SameBook DEF L!Call, L!Retry, L!Dismiss, L!Failed, L!link
<1>8. ASSUME NEW k \in L!Kinds, L!Answered(k)
      PROVE  L!BookIsTrue'
  <2>1. names' = names /\ handlers' = handlers
    BY <1>8 DEF L!Answered
  <2>2. L!Connect \/ UNCHANGED <<es, attached, esBound>>
    BY <1>8 DEF L!Answered
  <2> QED
    BY <2>1, <2>2, ConnectKeepsBook, SameBook
<1>9. CASE L!GoesDown \/ L!ComesUp \/ UNCHANGED L!vars
  BY <1>9, SameBook DEF L!GoesDown, L!ComesUp, L!vars, L!link
<1> QED
  BY <1>1, <1>2, <1>3, <1>4, <1>5, <1>6, <1>7, <1>8, <1>9 DEF L!Next, L!Stream, L!Panels, L!Requests

LEMMA BookMeansHeard ==
  ASSUME L!BookIsTrue
  PROVE  L!HeardOnce
BY DEF L!BookIsTrue, L!HeardOnce

D == INSTANCE Desktop
T == INSTANCE TextTools WITH Lines <- {"x", "y", "z"}, MaxLines <- 2, MaxRows <- 3,
       Dashed <- FALSE

-----------------------------------------------------------------------------
(***************************************************************************)
(* The sum: one of the parts moves, the others stand still.                *)
(***************************************************************************)
varsD == <<phase, alive, killed, owner, exits, pyProc, timer, count, waiters, main,
           windows, told, spawned, crashes>>
varsL == <<up, outages, es, attached, esBound, names, handlers, timerL, calls,
           mounted, apiDown>>
varsW == <<sel, status, srv, net, sent, root, kids, open, checked, file, shown, token,
           loading, jobs, started, events, bar>>
varsC == <<target, listed, of, selected, html, history, conflicts, dirty, asking,
           busy, resolving, scanning, barC, netC, sentC, eventsC, settled>>
varsT == <<task, given, result>>
varsP == <<selP, srvP, tree, dir, input, typed, localDir, entries, picked, pane,
           button, netP, sentP, listedP, writes, upP, esP, timers, outagesP, post,
           job, barP, hides, scan, diffBar, diffDone, eventsP, tasks>>
varsK == <<env, sub, menu, pod, timersK, socks, ws, connected, path, rows, selectedK,
           edit, netK, sentK, harm>>
varsG == <<server, asked, resultG, table, canExport, sorting, netG, sentG, faithful>>
varsJ == <<site, memo, query, draft, stack, trail, selectedJ, podsOf, histOf, rowsJ,
           busyJ, errs, netJ, sentJ>>
varsH == <<ips, defaultIps, lanDevice, cfgPath, applied, applying, patchingAll, gen,
           netH, sentH, jobsH, routes, marks, made, mine, named, askedH>>
varsU == <<k8sEnv, serverUrl, filter, text, envs, alert, loadingU, resultU, section,
           netU, sentU, pickedU, typedU, last>>
varsR == <<selectedRepo, treeLocalDir, rootEntries, dirCache, expanded, treeError,
           jumping, jumpFocus, selectedFile, searchQ, searchScope, timerR,
           searchResults, netR, callsR>>
vars == <<focus, varsD, varsL, varsW, varsC, varsT, varsP, varsK, varsG, varsJ, varsH, varsU, varsR>>

\* The variables of a component that is not looked at.
NoD == phase = 0 /\ alive = 0 /\ killed = 0 /\ owner = 0 /\ exits = 0 /\ pyProc = 0
  /\ timer = 0 /\ count = 0 /\ waiters = 0 /\ main = 0 /\ windows = 0 /\ told = 0
  /\ spawned = 0 /\ crashes = 0
NoL == up = 0 /\ outages = 0 /\ es = 0 /\ attached = 0 /\ esBound = 0 /\ names = 0
  /\ handlers = 0 /\ timerL = 0 /\ calls = 0 /\ mounted = 0 /\ apiDown = 0
NoW == sel = 0 /\ status = 0 /\ srv = 0 /\ net = 0 /\ sent = 0 /\ root = 0 /\ kids = 0
  /\ open = 0 /\ checked = 0 /\ file = 0 /\ shown = 0 /\ token = 0 /\ loading = 0
  /\ jobs = 0 /\ started = 0 /\ events = 0 /\ bar = 0
NoC == target = 0 /\ listed = 0 /\ of = 0 /\ selected = 0 /\ html = 0 /\ history = 0
  /\ conflicts = 0 /\ dirty = 0 /\ asking = 0 /\ busy = 0 /\ resolving = 0
  /\ scanning = 0 /\ barC = 0 /\ netC = 0 /\ sentC = 0 /\ eventsC = 0 /\ settled = 0
NoT == task = 0 /\ given = 0 /\ result = 0
NoP == selP = 0 /\ srvP = 0 /\ tree = 0 /\ dir = 0 /\ input = 0 /\ typed = 0
  /\ localDir = 0 /\ entries = 0 /\ picked = 0 /\ pane = 0 /\ button = 0 /\ netP = 0
  /\ sentP = 0 /\ listedP = 0 /\ writes = 0 /\ upP = 0 /\ esP = 0 /\ timers = 0
  /\ outagesP = 0 /\ post = 0 /\ job = 0 /\ barP = 0 /\ hides = 0 /\ scan = 0
  /\ diffBar = 0 /\ diffDone = 0 /\ eventsP = 0 /\ tasks = 0
NoK == env = 0 /\ sub = 0 /\ menu = 0 /\ pod = 0 /\ timersK = 0 /\ socks = 0 /\ ws = 0
  /\ connected = 0 /\ path = 0 /\ rows = 0 /\ selectedK = 0 /\ edit = 0 /\ netK = 0
  /\ sentK = 0 /\ harm = 0
NoG == server = 0 /\ asked = 0 /\ resultG = 0 /\ table = 0 /\ canExport = 0
  /\ sorting = 0 /\ netG = 0 /\ sentG = 0 /\ faithful = 0
NoJ == site = 0 /\ memo = 0 /\ query = 0 /\ draft = 0 /\ stack = 0 /\ trail = 0
  /\ selectedJ = 0 /\ podsOf = 0 /\ histOf = 0 /\ rowsJ = 0 /\ busyJ = 0 /\ errs = 0
  /\ netJ = 0 /\ sentJ = 0
NoH == ips = 0 /\ defaultIps = 0 /\ lanDevice = 0 /\ cfgPath = 0 /\ applied = 0
  /\ applying = 0 /\ patchingAll = 0 /\ gen = 0 /\ netH = 0 /\ sentH = 0 /\ jobsH = 0
  /\ routes = 0 /\ marks = 0 /\ made = 0 /\ mine = 0 /\ named = 0 /\ askedH = 0
NoU == k8sEnv = 0 /\ serverUrl = 0 /\ filter = 0 /\ text = 0 /\ envs = 0 /\ alert = 0
  /\ loadingU = 0 /\ resultU = 0 /\ section = 0 /\ netU = 0 /\ sentU = 0
  /\ pickedU = 0 /\ typedU = 0 /\ last = 0
NoR == selectedRepo = 0 /\ treeLocalDir = 0 /\ rootEntries = 0 /\ dirCache = 0
  /\ expanded = 0 /\ treeError = 0 /\ jumping = 0 /\ jumpFocus = 0 /\ selectedFile = 0
  /\ searchQ = 0 /\ searchScope = 0 /\ timerR = 0 /\ searchResults = 0 /\ netR = 0
  /\ callsR = 0

Init ==
  \/ focus = "desktop" /\ D!Init /\ NoL /\ NoW /\ NoC /\ NoT /\ NoP /\ NoK /\ NoG /\ NoJ /\ NoH /\ NoU /\ NoR
  \/ focus = "link" /\ L!Init /\ NoD /\ NoW /\ NoC /\ NoT /\ NoP /\ NoK /\ NoG /\ NoJ /\ NoH /\ NoU /\ NoR
  \/ focus = "work" /\ W!Init /\ NoD /\ NoL /\ NoC /\ NoT /\ NoP /\ NoK /\ NoG /\ NoJ /\ NoH /\ NoU /\ NoR
  \/ focus = "diff" /\ C!Init /\ NoD /\ NoL /\ NoW /\ NoT /\ NoP /\ NoK /\ NoG /\ NoJ /\ NoH /\ NoU /\ NoR
  \/ focus = "text" /\ T!Init /\ NoD /\ NoL /\ NoW /\ NoC /\ NoP /\ NoK /\ NoG /\ NoJ /\ NoH /\ NoU /\ NoR
  \/ focus = "plain" /\ P!Init /\ NoD /\ NoL /\ NoW /\ NoC /\ NoT /\ NoK /\ NoG /\ NoJ /\ NoH /\ NoU /\ NoR
  \/ focus = "pods" /\ K!Init /\ NoD /\ NoL /\ NoW /\ NoC /\ NoT /\ NoP /\ NoG /\ NoJ /\ NoH /\ NoU /\ NoR
  \/ focus = "feed" /\ P!Init /\ NoD /\ NoL /\ NoW /\ NoC /\ NoT /\ NoK /\ NoG /\ NoJ /\ NoH /\ NoU /\ NoR
  \/ focus = "logs" /\ G!Init /\ NoD /\ NoL /\ NoW /\ NoC /\ NoT /\ NoP /\ NoK /\ NoJ /\ NoH /\ NoU /\ NoR
  \/ focus = "kibana" /\ J!Init /\ NoD /\ NoL /\ NoW /\ NoC /\ NoT /\ NoP /\ NoK /\ NoG /\ NoH /\ NoU /\ NoR
  \/ focus = "clash" /\ H!Init /\ NoD /\ NoL /\ NoW /\ NoC /\ NoT /\ NoP /\ NoK /\ NoG /\ NoJ /\ NoU /\ NoR
  \/ focus = "diagnosis" /\ U!Init /\ NoD /\ NoL /\ NoW /\ NoC /\ NoT /\ NoP /\ NoK /\ NoG /\ NoJ /\ NoH /\ NoR
  \/ focus = "tree" /\ R!Init /\ NoD /\ NoL /\ NoW /\ NoC /\ NoT /\ NoP /\ NoK /\ NoG /\ NoJ /\ NoH /\ NoU

\* A step of one component leaves the others alone.
InD(A) == focus = "desktop" /\ A /\ UNCHANGED <<focus, varsL, varsW, varsC, varsT, varsP, varsK, varsG, varsJ, varsH, varsU, varsR>>
InL(A) == focus = "link" /\ A /\ UNCHANGED <<focus, varsD, varsW, varsC, varsT, varsP, varsK, varsG, varsJ, varsH, varsU, varsR>>
InW(A) == focus = "work" /\ A /\ UNCHANGED <<focus, varsD, varsL, varsC, varsT, varsP, varsK, varsG, varsJ, varsH, varsU, varsR>>
InC(A) == focus = "diff" /\ A /\ UNCHANGED <<focus, varsD, varsL, varsW, varsT, varsP, varsK, varsG, varsJ, varsH, varsU, varsR>>
InT(A) == focus = "text" /\ A /\ UNCHANGED <<focus, varsD, varsL, varsW, varsC, varsP, varsK, varsG, varsJ, varsH, varsU, varsR>>
InP(A) == focus = "plain" /\ A /\ UNCHANGED <<focus, varsD, varsL, varsW, varsC, varsT, varsK, varsG, varsJ, varsH, varsU, varsR>>
InK(A) == focus = "pods" /\ A /\ UNCHANGED <<focus, varsD, varsL, varsW, varsC, varsT, varsP, varsG, varsJ, varsH, varsU, varsR>>
InE(A) == focus = "feed" /\ A /\ UNCHANGED <<focus, varsD, varsL, varsW, varsC, varsT, varsK, varsG, varsJ, varsH, varsU, varsR>>
InG(A) == focus = "logs" /\ A /\ UNCHANGED <<focus, varsD, varsL, varsW, varsC, varsT, varsP, varsK, varsJ, varsH, varsU, varsR>>
InJ(A) == focus = "kibana" /\ A /\ UNCHANGED <<focus, varsD, varsL, varsW, varsC, varsT, varsP, varsK, varsG, varsH, varsU, varsR>>
InH(A) == focus = "clash" /\ A /\ UNCHANGED <<focus, varsD, varsL, varsW, varsC, varsT, varsP, varsK, varsG, varsJ, varsU, varsR>>
InU(A) == focus = "diagnosis" /\ A /\ UNCHANGED <<focus, varsD, varsL, varsW, varsC, varsT, varsP, varsK, varsG, varsJ, varsH, varsR>>
InR(A) == focus = "tree" /\ A /\ UNCHANGED <<focus, varsD, varsL, varsW, varsC, varsT, varsP, varsK, varsG, varsJ, varsH, varsU>>

Next == InD(D!Next) \/ InL(L!Next) \/ InW(W!Next) \/ InC(C!Next) \/ InT(T!Next) \/ InP(P!PageNext) \/ InK(K!Next) \/ InE(P!FeedNext) \/ InG(G!Next) \/ InJ(J!Next) \/ InH(H!Next) \/ InU(U!Next) \/ InR(R!Next)

\* The fairness that the components state for themselves.
Fairness ==
  /\ WF_vars(InD(D!WhenReady)) /\ WF_vars(InD(D!RestartTimer)) /\ WF_vars(InD(D!Gone))
  /\ WF_vars(InD(D!Waiting)) /\ (\A p \in D!Procs : WF_vars(InD(D!Exit(p))))
  /\ (\A p \in D!Procs : WF_vars(InD(D!Bind(p))))
  /\ (\A p \in D!Procs : WF_vars(InD(D!Terminates(p)))) /\ WF_vars(InL(L!Mount))
  /\ WF_vars(InL(L!ComesUp)) /\ WF_vars(InL(L!Opened)) /\ WF_vars(InL(L!OnError))
  /\ WF_vars(InL(L!Reconnect)) /\ WF_vars(InW(W!Server)) /\ WF_vars(InW(W!Answers))
  /\ WF_vars(InW(W!HandleEvent)) /\ WF_vars(InW(W!JobEnds)) /\ WF_vars(InE(P!Feed(P!ConnectSSE)))
  /\ WF_vars(InE(P!Feed(P!Opened))) /\ WF_vars(InE(P!Feed(P!OnError)))
  /\ WF_vars(InE(P!Feed(P!ComesUp))) /\ WF_vars(InE(P!Feed(P!GotPost)))
  /\ WF_vars(InE(P!Feed(P!JobEnds))) /\ WF_vars(InE(P!Feed(P!HideTimer)))
  /\ WF_vars(InE(P!Feed(P!Handle)))

Spec == Init /\ [][Next]_vars /\ Fairness

-----------------------------------------------------------------------------
\* The types of the component that is looked at.
TypeOK ==
  /\ focus = "desktop" => D!TypeOK
  /\ focus = "link" => L!TypeOK
  /\ focus = "work" => W!TypeOK
  /\ focus = "diff" => C!TypeOK
  /\ focus = "plain" => P!TypeOK
  /\ focus = "pods" => K!TypeOK
  /\ focus = "feed" => P!TypeOK
  /\ focus = "logs" => G!TypeOK
  /\ focus = "kibana" => J!TypeOK
  /\ focus = "clash" => H!TypeOK
  /\ focus = "diagnosis" => U!TypeOK
  /\ focus = "tree" => R!TypeOK

(***************************************************************************)
(* The shell never has two live backends behind one port, and none is left *)
(* behind when it quits.                                                   *)
(***************************************************************************)
OneBackend ==
  /\ focus = "desktop" => D!OneBackend /\ D!NoOrphan

(***************************************************************************)
(* With the conditions of the modules, which keep answers of one kind in   *)
(* order and users from going on before them: what a pane shows is what    *)
(* was chosen last, the tree that of the open repository, jobs of the one  *)
(* they were started on, the diff of the selected file; what is merged was *)
(* listed.  Without them panes do show what is gone: the code asks no late *)
(* answer whom it is for, but in the preview (InAnyOrder).                 *)
(***************************************************************************)
ShownIsCurrent ==
  /\ focus = "work" => W!TreeIsOfRepo /\ W!JobIsOfRepo /\ W!Restored
  /\ focus = "diff" => C!ShownIsSelected
  /\ focus = "plain" => P!TreeIsOfRepo /\ P!MergesShown /\ P!MergesListed
  /\ focus = "pods" => K!TypesIntoShown /\ K!SignIsTrue /\ K!NoHarm /\ K!MenuIsOfEnv
  /\ focus = "tree" => R!RowsAreOfPlace /\ R!HitsAreOfQuestion
  /\ focus = "feed" => P!BarsStay
  /\ focus = "kibana" => J!TreeIsOfSite /\ J!HistIsOfQuery /\ J!RowsAreOfQuery /\ J!ZoomGoesBack
  /\ focus = "logs" => G!SortsAll /\ G!TableIsOfQuery /\ G!ExportIsShown
  /\ focus = "clash" => H!GenIsLatest
  /\ focus = "diagnosis" => U!ResultIsOfLast /\ U!HealthyIsTrue

(***************************************************************************)
(* What holds however the users click and in whatever order the answers    *)
(* come: the preview is never of another file, a bar has something that    *)
(* ends it, what a sub-page runs ends with it, an event is heard once.     *)
(***************************************************************************)
InAnyOrder ==
  /\ focus = "work" => W!PreviewIsOfFile
  /\ focus = "diff" => C!BarGoes
  /\ focus = "pods" => K!NothingIdle
  /\ focus = "link" => L!HeardOnce

(***************************************************************************)
(* Each event is heard by a handler once, under no condition.  With those  *)
(* of the modules, an open folder keeps its rows, a form keeps what was    *)
(* typed and chosen, and what was applied to the machine can be undone.    *)
(***************************************************************************)
NothingLost ==
  /\ focus = "link" => L!HeardOnce
  /\ focus = "plain" => P!TypedStays
  /\ focus = "tree" => R!OpenHasRows
  /\ focus = "clash" => H!ListStays /\ H!PathStays /\ H!UndoneWhole
  /\ focus = "diagnosis" => U!ChoiceStays

(***************************************************************************)
(* The conflict editor keeps every edit and merges each line in its place; *)
(* the diff draws every row.                                               *)
(***************************************************************************)
TextIsWhole ==
  /\ focus = "text" => T!NoEditLost /\ T!MergesInPlace /\ T!ShowsEveryRow

(***************************************************************************)
(* An entry leaves the list of differences only when it was merged, with   *)
(* the answer to a decision that was asked for it, even one that failed,   *)
(* or with the whole list at a new scan, for users who keep the target.    *)
(***************************************************************************)
LeavesWhenSettled ==
  /\ [][focus = "diff" => C!LeavesWhenSettledStep]_vars

\* What is under way, and what it comes to.
Pending ==
  \/ focus = "desktop" /\ D!Down
  \/ focus = "feed" /\ P!BarShown
  \/ focus = "work" /\ W!Busy
Settled ==
  \/ focus = "desktop" /\ D!Healed
  \/ focus = "feed" /\ ~P!BarShown
  \/ focus = "work" /\ ~W!Busy

(***************************************************************************)
(* After a crash the backend comes back or the user is told; the event     *)
(* stream returns for good once the server stays up; the busy bar goes     *)
(* away.                                                                   *)
(***************************************************************************)
Recovers ==
  /\ Pending ~> Settled
  /\ <>[]((focus = "link" => es = "open") /\ (focus = "feed" => P!StreamOpen))

-----------------------------------------------------------------------------
(*************************************************************************)
(* The shell inside the sum: what Desktop proves of its own steps holds  *)
(* while the sum looks at it, for any values of its constants.           *)
(*************************************************************************)
ShellInv == focus = "desktop" => D!TypeOK /\ D!Held

LEMMA InitShell ==
  ASSUME D!Bounds, Init
  PROVE  ShellInv
<1> SUFFICES ASSUME focus = "desktop" PROVE D!TypeOK /\ D!Held
  BY DEF ShellInv
<1>1. D!Init
  BY DEF Init
<1> QED
  BY <1>1, D!InitTypes, D!InitHeld

LEMMA NextShell ==
  ASSUME D!Bounds, ~Hasty, ShellInv, [Next]_vars
  PROVE  ShellInv'
<1> SUFFICES ASSUME focus' = "desktop" PROVE (D!TypeOK /\ D!Held)'
  BY DEF ShellInv
<1>1. focus = "desktop" /\ [D!Next]_(D!vars)
  BY DEF Next, InD, InL, InW, InC, InT, InP, InE, InK, InG, InJ, InH, InU, InR,
         vars, varsD, D!vars
<1> QED
  BY <1>1, D!NextTypes, D!NextHeld DEF ShellInv

\* The shell of the desktop app never has two live backends behind its port and
\* leaves none behind, as long as the dock icon is not clicked while a start or a
\* restart is due.
THEOREM OneBackendAlways ==
  ASSUME D!Bounds, ~Hasty
  PROVE  Spec => []OneBackend
<1>1. Init => ShellInv
  BY InitShell
<1>2. ShellInv /\ [Next]_vars => ShellInv'
  BY NextShell
<1>3. ShellInv => OneBackend
  BY D!HeldMeansOne DEF ShellInv, OneBackend
<1> QED
  BY <1>1, <1>2, <1>3, PTL DEF Spec

(*************************************************************************)
(* The compare tab inside the sum.                                       *)
(*************************************************************************)
DiffInv == focus = "diff" => C!Settling

LEMMA InitDiff == Init => DiffInv
<1> SUFFICES ASSUME Init, focus = "diff" PROVE C!Settling
  BY DEF DiffInv
<1>1. C!Init
  BY DEF Init
<1> QED
  BY <1>1, InitSettling

LEMMA NextDiff ==
  ASSUME Steady, DiffInv, [Next]_vars
  PROVE  DiffInv' /\ (focus = "diff" => C!LeavesWhenSettledStep)
<1>1. ASSUME focus = "diff" PROVE [C!Next]_(C!vars)
  BY <1>1 DEF Next, InD, InL, InW, InC, InT, InP, InE, InK, InG, InJ, InH, InU, InR,
              vars, varsC, C!vars, C!list, C!look, C!dialog
<1>2. focus' = focus
  BY DEF Next, InD, InL, InW, InC, InT, InP, InE, InK, InG, InJ, InH, InU, InR, vars
<1> QED
  BY <1>1, <1>2, NextKeepsSettling, LeavesSettled DEF DiffInv

\* An entry leaves the list of differences only when it was merged on the server,
\* with the answer to a decision that was asked for it, be it done or failed, or
\* with the whole list at a new scan, as long as the user keeps directory and
\* repository while something is listed or asked for (Steady).
THEOREM EntriesStayUntilSettled ==
  ASSUME Steady
  PROVE  Spec => LeavesWhenSettled
<1>1. Init => DiffInv
  BY InitDiff
<1>2. DiffInv /\ [Next]_vars => DiffInv'
  BY NextDiff
<1>3. DiffInv /\ [Next]_vars => (focus = "diff" => C!LeavesWhenSettledStep)
  BY NextDiff
<1> QED
  BY <1>1, <1>2, <1>3, PTL DEF Spec, LeavesWhenSettled

(*************************************************************************)
(* What is not lost: the event stream, the plain page, the tree, the     *)
(* addresses, the diagnosis.                                             *)
(*************************************************************************)
LostInv ==
  /\ focus = "link" => L!BookIsTrue
  /\ focus = "plain" => P!NothingFills
  /\ focus = "tree" => R!JumpIsAlone
  /\ focus = "clash" => H!NothingFills /\ H!Undoable
  /\ focus = "diagnosis" => U!NothingFills

LEMMA InitLost ==
  ASSUME H!Apart, Init
  PROVE  LostInv
<1>1. /\ focus = "link" => L!Init
      /\ focus = "plain" => P!Init
      /\ focus = "tree" => R!Init
      /\ focus = "clash" => H!Init
      /\ focus = "diagnosis" => U!Init
  BY DEF Init
<1> QED
  BY <1>1, InitBook, InitTyped, InitAlone, InitList, InitUndoable, InitChoice DEF LostInv

LEMMA NextLost ==
  ASSUME PageUsual, TreeUsual, RouteUsual, CheckUsual, R!Blank \notin TreeRepos, H!Apart, LostInv, [Next]_vars
  PROVE  LostInv'
<1>0. focus' = focus
  BY DEF Next, InD, InL, InW, InC, InT, InP, InE, InK, InG, InJ, InH, InU, InR, vars
<1>1. ASSUME focus = "link" PROVE L!BookIsTrue'
  <2>1. [L!Next]_(L!vars)
    BY <1>1 DEF Next, InD, InL, InW, InC, InT, InP, InE, InK, InG, InJ, InH, InU, InR, vars, varsL, L!vars, L!link, L!page
  <2> QED
    BY <1>1, <2>1, NextKeepsBook DEF LostInv
<1>2. ASSUME focus = "plain" PROVE P!NothingFills'
  <2>1. [P!PageNext]_(P!vars)
    BY <1>2 DEF Next, InD, InL, InW, InC, InT, InP, InE, InK, InG, InJ, InH, InU, InR, vars, varsP,
                P!vars, P!page, P!feed, P!list, P!calls, P!link, P!jobs, P!diff
  <2> QED
    BY <1>2, <2>1, NextTyped DEF LostInv
<1>3. ASSUME focus = "tree" PROVE R!JumpIsAlone'
  <2>1. [R!Next]_(R!vars)
    BY <1>3 DEF Next, InD, InL, InW, InC, InT, InP, InE, InK, InG, InJ, InH, InU, InR, vars, varsR,
                R!vars, R!place, R!rows, R!search
  <2> QED
    BY <1>3, <2>1, NextAlone DEF LostInv
<1>4. ASSUME focus = "clash" PROVE (H!NothingFills /\ H!Undoable)'
  <2>1. [H!Next]_(H!vars)
    BY <1>4 DEF Next, InD, InL, InW, InC, InT, InP, InE, InK, InG, InJ, InH, InU, InR, vars, varsH,
                H!vars, H!form, H!flags, H!calls, H!machine, H!said
  <2> QED
    BY <1>4, <2>1, NextList, NextUndoable DEF LostInv
<1>5. ASSUME focus = "diagnosis" PROVE U!NothingFills'
  <2>1. [U!Next]_(U!vars)
    BY <1>5 DEF Next, InD, InL, InW, InC, InT, InP, InE, InK, InG, InJ, InH, InU, InR, vars, varsU,
                U!vars, U!form, U!lists, U!diag, U!calls, U!said
  <2> QED
    BY <1>5, <2>1, NextChoice DEF LostInv
<1> QED
  BY <1>0, <1>1, <1>2, <1>3, <1>4, <1>5 DEF LostInv

LEMMA LostInvMeans ==
  ASSUME LostInv
  PROVE  NothingLost
<1>1. focus = "link" => L!HeardOnce
  BY BookMeansHeard DEF LostInv
<1>2. focus = "plain" => P!TypedStays
  BY DEF LostInv, P!NothingFills, P!TypedStays
<1>3. focus = "tree" => R!OpenHasRows
  BY DEF LostInv, R!JumpIsAlone
<1>4. focus = "clash" => H!ListStays /\ H!PathStays /\ H!UndoneWhole
  BY DEF LostInv, H!NothingFills, H!Undoable, H!ListStays, H!PathStays
<1>5. focus = "diagnosis" => U!ChoiceStays
  BY DEF LostInv, U!NothingFills
<1> QED
  BY <1>1, <1>2, <1>3, <1>4, <1>5 DEF NothingLost

\* A handler hears each event once; a field that was filled in stays as the user left it;
\* an open folder keeps its rows; what was applied to the machine can be undone as long
\* as it is there.  Hypotheses are the conditions of the plain page, the tree, the
\* addresses (what was applied is undone before it is changed, answers arrive, one
\* writer at a time) and the diagnosis, and names that differ.
THEOREM NothingIsLost ==
  ASSUME PageUsual, TreeUsual, RouteUsual, CheckUsual, R!Blank \notin TreeRepos, H!Apart
  PROVE  Spec => []NothingLost
<1>1. Init => LostInv
  BY InitLost
<1>2. LostInv /\ [Next]_vars => LostInv'
  BY NextLost
<1>3. LostInv => NothingLost
  BY LostInvMeans
<1> QED
  BY <1>1, <1>2, <1>3, PTL DEF Spec

(*************************************************************************)
(* What needs no condition: users, servers and answers as they come.     *)
(*************************************************************************)
LEMMA InitPane0 ==
  ASSUME W!Apart, W!Init
  PROVE  W!PaneHolds
<1> DEFINE a == [n |-> 1, kind |-> "status", arg |-> W!None, reply |-> "pending"]
           b == [n |-> 2, kind |-> "repos", arg |-> W!None, reply |-> "pending"]
<1>1. /\ a.n = 1 /\ a.kind = "status" /\ {"n", "kind", "arg"} \subseteq DOMAIN a
      /\ b.n = 2 /\ b.kind = "repos" /\ {"n", "kind", "arg"} \subseteq DOMAIN b
  OBVIOUS
<1>2. net = {a, b} /\ sent = 2 /\ file = W!NoFile
  BY DEF W!Init
<1> HIDE DEF a, b
<1>3. W!Numbers
  BY <1>1, <1>2 DEF W!Numbers
<1>4. \A r \in net : r.kind \notin BenchFiles
  BY <1>1, <1>2 DEF W!Apart, W!Kinds
<1> QED
  BY <1>2, <1>3, <1>4 DEF W!PaneHolds, W!PaneFollows

\* A request, as it is sent, and its reply.
LEMMA WorkFormed ==
  ASSUME NEW k, NEW kind, NEW arg, NEW r, NEW v
  PROVE  /\ LET q == W!Request(k, kind, arg) IN
              q.n = sent + k /\ q.kind = kind /\ q.arg = arg /\ {"n", "kind", "arg"} \subseteq DOMAIN q
         /\ {"n", "kind", "arg"} \subseteq DOMAIN r =>
              LET q == [r EXCEPT !.reply = v] IN
              q.n = r.n /\ q.kind = r.kind /\ q.arg = r.arg /\ {"n", "kind", "arg"} \subseteq DOMAIN q
BY DEF W!Request

\* The pane stands still, and no new request is for a file.
Copies(q) == \E r \in net : q.n = r.n /\ q.kind = r.kind /\ q.arg = r.arg
Elsewhere(q) == q.n \in 1..sent' /\ q.kind \notin BenchFiles
LEMMA SamePane ==
  ASSUME W!PaneHolds, UNCHANGED <<file, shown, token, loading>>, sent' \in Nat, sent' >= sent,
         \A q \in net' : {"n", "kind", "arg"} \subseteq DOMAIN q /\ (Copies(q) \/ Elsewhere(q))
  PROVE  W!PaneHolds'
<1>1. W!Numbers'
  BY DEF W!PaneHolds, W!Numbers, Copies, Elsewhere
<1>2. \A q \in net' : q.kind \in BenchFiles /\ q.n = token' => file' = <<q.arg, q.kind>>
  BY DEF W!PaneHolds, W!PaneFollows, Copies, Elsewhere
<1> QED
  BY <1>1, <1>2 DEF W!PaneHolds, W!PaneFollows

LEMMA LateAnswers ==
  ASSUME W!Apart, W!PaneHolds, [W!Next]_(W!vars)
  PROVE  W!PaneHolds'
<1> USE DEF W!tree, W!pane, W!work
<1>0. /\ sent \in Nat
      /\ \A r \in net : r.n \in 1..sent /\ {"n", "kind", "arg"} \subseteq DOMAIN r /\ Copies(r)
      /\ {"status", "select", "tree", "kids", "clone", "download"} \cap BenchFiles = {}
  BY DEF W!PaneHolds, W!Numbers, Copies, W!Apart, W!Kinds
<1>1. ASSUME NEW r \in BenchRepos, W!OpenRepo(r)
      PROVE  W!PaneHolds'
  <2>1. file' = W!NoFile /\ token' = 0 /\ sent' \in Nat /\ sent' >= sent
    BY <1>0, <1>1 DEF W!OpenRepo, W!PaneCleared, W!Send
  <2>2. \A q \in net' : q \in net \/ q = W!Request(1, "select", r) \/ (q = W!Request(2, "tree", r) /\ sent' = sent + 2)
    BY <1>1 DEF W!OpenRepo, W!Asked, W!Send
  <2>3. sent' = sent + 1 \/ sent' = sent + 2
    BY <1>1 DEF W!OpenRepo, W!Send
  <2>4. \A q \in net' : q.n \in 1..sent' /\ {"n", "kind", "arg"} \subseteq DOMAIN q
    BY <1>0, <2>2, <2>3, WorkFormed
  <2>5. \A q \in net' : q.n # token'
    BY <2>1, <2>4
  <2> QED
    BY <2>1, <2>4, <2>5 DEF W!PaneHolds, W!Numbers, W!PaneFollows
<1>2. CASE W!ToggleDir
  <2>1. CASE UNCHANGED <<net, sent>>
    BY <1>0, <1>2, <2>1, SamePane DEF W!ToggleDir
  <2>2. CASE W!Send(1, {W!Request(1, "kids", W!None)})
    <3>1. sent' = sent + 1 /\ net' = net \cup {W!Request(1, "kids", W!None)}
      BY <2>2 DEF W!Send
    <3>2. \A q \in net' : {"n", "kind", "arg"} \subseteq DOMAIN q /\ (Copies(q) \/ Elsewhere(q))
      BY <1>0, <3>1, WorkFormed DEF Elsewhere
    <3> QED
      BY <1>0, <1>2, <3>1, <3>2, SamePane DEF W!ToggleDir
  <2> QED
    BY <1>2, <2>1, <2>2 DEF W!ToggleDir
<1>3. ASSUME NEW r \in BenchRepos, W!Tick(r)
      PROVE  W!PaneHolds'
  BY <1>0, <1>3, SamePane DEF W!Tick
<1>4. ASSUME NEW r \in BenchRepos, NEW f \in BenchFiles, W!PickFile(r, f)
      PROVE  W!PaneHolds'
  <2> DEFINE a == W!Request(1, f, r)
  <2>1. /\ file' = <<r, f>> /\ token' = sent + 1 /\ loading' = TRUE
        /\ sent' = sent + 1 /\ net' = net \cup {a}
    BY <1>4 DEF W!PickFile, W!Send
  <2>2. a.n = sent + 1 /\ a.kind = f /\ a.arg = r /\ {"n", "kind", "arg"} \subseteq DOMAIN a
    BY WorkFormed
  <2> HIDE DEF a
  <2>3. W!Numbers'
    BY <1>0, <2>1, <2>2 DEF W!Numbers
  <2>4. \A q \in net' : q.n = token' => q = a
    BY <1>0, <2>1
  <2> QED
    BY <2>1, <2>2, <2>3, <2>4 DEF W!PaneHolds, W!PaneFollows
<1>5. CASE W!CloneRepo \/ W!DownloadSelected
  <2>1. PICK kind \in {"clone", "download"}, arg \in {W!None} \cup {checked} \cup {file[1]} :
          sent' = sent + 1 /\ net' = net \cup {W!Request(1, kind, arg)}
    BY <1>5 DEF W!CloneRepo, W!DownloadSelected, W!Send
  <2>2. \A q \in net' : {"n", "kind", "arg"} \subseteq DOMAIN q /\ (Copies(q) \/ Elsewhere(q))
    BY <1>0, <2>1, WorkFormed DEF Elsewhere
  <2> QED
    BY <1>0, <1>5, <2>1, <2>2, SamePane DEF W!CloneRepo, W!DownloadSelected
<1>6. CASE W!CloseBar \/ W!Working \/ W!HandleEvent
  <2>1. UNCHANGED <<net, sent, file, shown, token, loading>>
    BY <1>6 DEF W!CloseBar, W!Working, W!JobSteps, W!HandleEvent
  <2> QED
    BY <1>0, <2>1, SamePane
<1>7. ASSUME NEW r \in net, W!Serve(r) \/ W!Refuse(r)
      PROVE  W!PaneHolds'
  <2>1. PICK v : net' = (net \ {r}) \cup {[r EXCEPT !.reply = v]}
    <3>1. CASE W!Refuse(r)
      BY <3>1 DEF W!Refuse, W!Reply
    <3>2. CASE W!Serve(r)
      <4>1. \E v \in {"ok", srv} : W!Reply(r, v)
        BY <3>2 DEF W!Serve, W!Starts
      <4> QED
        BY <4>1 DEF W!Reply
    <3> QED
      BY <1>7, <3>1, <3>2
  <2>2. UNCHANGED <<file, shown, token, loading, sent>>
    BY <1>7 DEF W!Serve, W!Refuse
  <2>3. \A q \in net' : {"n", "kind", "arg"} \subseteq DOMAIN q /\ Copies(q)
    BY <1>0, <2>1, WorkFormed DEF Copies
  <2> QED
    BY <1>0, <2>2, <2>3, SamePane
<1>8. ASSUME NEW r \in net, W!GotStatus(r) \/ W!GotTree(r) \/ W!GotKids(r) \/ W!GotJob(r)
      PROVE  W!PaneHolds'
  <2>1. net' = net \ {r} /\ UNCHANGED <<file, shown, token, loading, sent>>
    BY <1>8 DEF W!GotStatus, W!GotTree, W!GotKids, W!GotJob, W!Takes
  <2>2. \A q \in net' : {"n", "kind", "arg"} \subseteq DOMAIN q /\ Copies(q)
    BY <1>0, <2>1
  <2> QED
    BY <1>0, <2>1, <2>2, SamePane
<1>9. ASSUME NEW r \in net, W!GotRepos(r) \/ W!GotSelect(r)
      PROVE  W!PaneHolds'
  <2>1. UNCHANGED <<file, shown, token, loading>>
    BY <1>9 DEF W!GotRepos, W!GotSelect
  <2>2. \/ net' = net \ {r} /\ sent' = sent
        \/ \E kind \in {"tree", "status"}, arg \in {status, W!None} :
             sent' = sent + 1 /\ net' = (net \ {r}) \cup {W!Request(1, kind, arg)}
    BY <1>9 DEF W!GotRepos, W!GotSelect
  <2>3. \A q \in net' : {"n", "kind", "arg"} \subseteq DOMAIN q /\ (Copies(q) \/ Elsewhere(q))
    BY <1>0, <2>2, WorkFormed DEF Elsewhere
  <2>4. sent' \in Nat /\ sent' >= sent
    BY <1>0, <2>2
  <2> QED
    BY <2>1, <2>3, <2>4, SamePane
<1>10. ASSUME NEW r \in net, W!GotFile(r)
       PROVE  W!PaneHolds'
  <2>1. net' = net \ {r} /\ UNCHANGED <<sent, file, token>> /\ r.kind \in BenchFiles
    BY <1>10 DEF W!GotFile, W!Takes
  <2>2. W!Numbers'
    BY <1>0, <2>1 DEF W!Numbers
  <2>3. CASE r.n = token
    <3>1. shown' = <<r.arg, r.kind>> /\ file = <<r.arg, r.kind>>
      BY <1>10, <2>1, <2>3 DEF W!GotFile, W!PaneHolds, W!PaneFollows
    <3> QED
      BY <2>1, <2>2, <3>1 DEF W!PaneHolds, W!PaneFollows
  <2>4. CASE r.n # token
    <3>1. UNCHANGED <<shown, loading>>
      BY <1>10, <2>4 DEF W!GotFile
    <3> QED
      BY <2>1, <2>2, <3>1 DEF W!PaneHolds, W!PaneFollows
  <2> QED
    BY <2>3, <2>4
<1>11. CASE UNCHANGED W!vars
  BY <1>0, <1>11, SamePane DEF W!vars
<1> QED
  BY <1>1, <1>2, <1>3, <1>4, <1>5, <1>6, <1>7, <1>8, <1>9, <1>10, <1>11
  DEF W!Next, W!User, W!Server, W!Answers

\* The sub-pages of the pods: what runs for one stops with it.
LEMMA NextIdle ==
  ASSUME K!NothingIdle, [K!Next]_(K!vars)
  PROVE  K!NothingIdle'
<1> USE DEF K!NothingIdle, K!place, K!shell
<1>1. ASSUME NEW t \in K!Subs, K!SwitchSub(t)
      PROVE  K!NothingIdle'
  BY <1>1 DEF K!SwitchSub, K!Disconnect
<1>2. ASSUME NEW p \in Pods \cup {K!Blank}, K!PickPod(p)
      PROVE  K!NothingIdle'
  BY <1>2 DEF K!PickPod, K!Disconnect
<1>3. CASE K!Connect \/ K!PressDisconnect
  BY <1>3 DEF K!Connect, K!PressDisconnect, K!Disconnect
<1>4. ASSUME NEW s \in socks, K!Ready(s) \/ K!OnClose(s)
      PROVE  K!NothingIdle'
  BY <1>4 DEF K!Ready, K!OnClose
<1>5. ASSUME NEW e \in PodEnvs, K!ChangeEnv(e)
      PROVE  K!NothingIdle'
  BY <1>5 DEF K!ChangeEnv
<1>6. ASSUME NEW a \in BOOLEAN, K!StartAuto(a)
      PROVE  K!NothingIdle'
  BY <1>6 DEF K!StartAuto
<1>7. ASSUME NEW d \in PodDirs, K!FilesList(d)
      PROVE  K!NothingIdle'
  BY <1>7 DEF K!FilesList
<1>8. CASE K!SelectRow \/ K!FileOpen \/ K!FileSave \/ K!FileEditClose \/ K!FilesDelete
  BY <1>8 DEF K!SelectRow, K!FileOpen, K!FileSave, K!FileEditClose, K!FilesDelete
<1>9. CASE K!Answers
  BY <1>9 DEF K!Answers, K!GotPods, K!GotList, K!GotRead, K!GotChange
<1>10. CASE UNCHANGED K!vars
  BY <1>10 DEF K!vars
<1> QED
  BY <1>1, <1>2, <1>3, <1>4, <1>5, <1>6, <1>7, <1>8, <1>9, <1>10 DEF K!Next, K!User

OrderInv ==
  /\ focus = "work" => W!PaneHolds
  /\ focus = "diff" => C!BarFollows
  /\ focus = "pods" => K!NothingIdle
  /\ focus = "link" => L!BookIsTrue

LEMMA InitOrder ==
  ASSUME W!Apart, Init
  PROVE  OrderInv
<1>1. /\ focus = "work" => W!Init
      /\ focus = "diff" => C!Init
      /\ focus = "pods" => K!Init
      /\ focus = "link" => L!Init
  BY DEF Init
<1>2. focus = "work" => W!PaneHolds
  BY <1>1, InitPane0
<1>3. focus = "diff" => C!BarFollows
  BY <1>1, InitPage
<1>4. focus = "pods" => K!NothingIdle
  BY <1>1 DEF K!Init, K!NothingIdle
<1>5. focus = "link" => L!BookIsTrue
  BY <1>1, InitBook
<1> QED
  BY <1>2, <1>3, <1>4, <1>5 DEF OrderInv

LEMMA NextOrder ==
  ASSUME W!Apart, OrderInv, [Next]_vars
  PROVE  OrderInv'
<1>0. focus' = focus
  BY DEF Next, InD, InL, InW, InC, InT, InP, InE, InK, InG, InJ, InH, InU, InR, vars
<1>1. ASSUME focus = "work" PROVE W!PaneHolds'
  <2>1. [W!Next]_(W!vars)
    BY <1>1 DEF Next, InD, InL, InW, InC, InT, InP, InE, InK, InG, InJ, InH, InU, InR, vars, varsW,
                W!vars, W!tree, W!pane, W!work
  <2> QED
    BY <1>1, <2>1, LateAnswers DEF OrderInv
<1>2. ASSUME focus = "diff" PROVE C!BarFollows'
  <2>1. [C!Next]_(C!vars)
    BY <1>2 DEF Next, InD, InL, InW, InC, InT, InP, InE, InK, InG, InJ, InH, InU, InR, vars, varsC,
                C!vars, C!list, C!look, C!dialog
  <2> QED
    BY <1>2, <2>1, NextBar DEF OrderInv
<1>3. ASSUME focus = "pods" PROVE K!NothingIdle'
  <2>1. [K!Next]_(K!vars)
    BY <1>3 DEF Next, InD, InL, InW, InC, InT, InP, InE, InK, InG, InJ, InH, InU, InR, vars, varsK,
                K!vars, K!place, K!shell, K!files, K!calls
  <2> QED
    BY <1>3, <2>1, NextIdle DEF OrderInv
<1>4. ASSUME focus = "link" PROVE L!BookIsTrue'
  <2>1. [L!Next]_(L!vars)
    BY <1>4 DEF Next, InD, InL, InW, InC, InT, InP, InE, InK, InG, InJ, InH, InU, InR, vars, varsL, L!vars, L!link, L!page
  <2> QED
    BY <1>4, <2>1, NextKeepsBook DEF OrderInv
<1> QED
  BY <1>0, <1>1, <1>2, <1>3, <1>4 DEF OrderInv

\* However late and in whatever order answers, events and closed sockets come, and
\* whatever is clicked meanwhile: the preview is of its file, the bar of the compare
\* tab goes, no sub-page of the pods runs unseen, and no event is heard twice.  It
\* takes no condition on users or servers, only names that differ.
THEOREM LateAnswersDoNoHarm ==
  ASSUME W!Apart
  PROVE  Spec => []InAnyOrder
<1>1. Init => OrderInv
  BY InitOrder
<1>2. OrderInv /\ [Next]_vars => OrderInv'
  BY NextOrder
<1>3. OrderInv => InAnyOrder
  BY BarMeans, BookMeansHeard DEF OrderInv, InAnyOrder, W!PaneHolds, W!PaneFollows, W!PreviewIsOfFile
<1> QED
  BY <1>1, <1>2, <1>3, PTL DEF Spec

(*************************************************************************)
(* All of them together.                                                 *)
(*************************************************************************)
\* The names the code keeps for itself are no names of the user's: the empty text, the
\* reply that is not there yet, the rows that are being loaded, the search that is off.
Reserved ==
  /\ W!Apart /\ K!Apart /\ G!Sized
  /\ P!Blank \notin PageRepos /\ "loading" \notin PageRepos
  /\ R!Blank \notin TreeRepos /\ "off" \notin TreeRepos \cup TreeLocals

ShownInv ==
  /\ focus = "work" => W!WorkFollows
  /\ focus = "diff" => C!LookFollows /\ C!BarFollows
  /\ focus = "plain" => P!TreeFollows /\ P!DrawnFollows /\ P!ListFollows
  /\ focus = "pods" => K!PodsFollow
  /\ focus = "tree" => R!TypeOK /\ R!JumpIsAlone /\ R!RowsFollow /\ R!SearchFollows
  /\ focus = "feed" => P!BarsFollow
  /\ focus = "kibana" => QueryParts
  /\ focus = "logs" => G!LogsFollow
  /\ focus = "clash" => H!GenFollows
  /\ focus = "diagnosis" => U!OneDiagnosis

LEMMA InitShown ==
  ASSUME Reserved, Init
  PROVE  ShownInv
<1>1. /\ focus = "work" => W!Init
      /\ focus = "diff" => C!Init
      /\ focus = "plain" => P!Init
      /\ focus = "pods" => K!Init
      /\ focus = "tree" => R!Init
      /\ focus = "feed" => P!Init
      /\ focus = "kibana" => J!Init
      /\ focus = "logs" => G!Init
      /\ focus = "clash" => H!Init
      /\ focus = "diagnosis" => U!Init
  BY DEF Init
<1>2. focus = "work" => W!WorkFollows
  BY <1>1, InitWork DEF Reserved
<1>3. focus = "diff" => C!LookFollows /\ C!BarFollows
  BY <1>1, InitPage
<1>4. focus = "plain" => P!TreeFollows /\ P!DrawnFollows /\ P!ListFollows
  BY <1>1, InitTree, InitPane DEF Reserved
<1>5. focus = "pods" => K!PodsFollow
  BY <1>1, InitPods DEF Reserved
<1>6. focus = "tree" => R!TypeOK /\ R!JumpIsAlone /\ R!RowsFollow /\ R!SearchFollows
  BY <1>1, InitType, InitAlone, InitRows, InitSearch
<1>7. focus = "feed" => P!BarsFollow
  BY <1>1, InitBars
<1>8. focus = "kibana" => QueryParts
  BY <1>1, InitParts DEF QueryParts
<1>9. focus = "logs" => G!LogsFollow
  BY <1>1, InitLogs DEF Reserved
<1>10. focus = "clash" => H!GenFollows
  BY <1>1, InitGen
<1>11. focus = "diagnosis" => U!OneDiagnosis
  BY <1>1, InitOne
<1> QED
  BY <1>2, <1>3, <1>4, <1>5, <1>6, <1>7, <1>8, <1>9, <1>10, <1>11 DEF ShownInv

LEMMA NextShown ==
  ASSUME BenchUsual, PodsUsual, LogsUsual, QueryUsual, PageUsual, TreeUsual, RouteUsual, CheckUsual, Patient, Reserved, ShownInv, [Next]_vars
  PROVE  ShownInv'
<1>0. focus' = focus
  BY DEF Next, InD, InL, InW, InC, InT, InP, InE, InK, InG, InJ, InH, InU, InR, vars
<1>1. ASSUME focus = "work" PROVE W!WorkFollows'
  <2>1. [W!Next]_(W!vars)
    BY <1>1 DEF Next, InD, InL, InW, InC, InT, InP, InE, InK, InG, InJ, InH, InU, InR, vars, varsW,
                W!vars, W!tree, W!pane, W!work
  <2>2. W!WorkFollows
    BY <1>1 DEF ShownInv
  <2> QED
    BY <2>1, <2>2, NextWork DEF Reserved
<1>2. ASSUME focus = "diff" PROVE (C!LookFollows /\ C!BarFollows)'
  <2>1. [C!Next]_(C!vars)
    BY <1>2 DEF Next, InD, InL, InW, InC, InT, InP, InE, InK, InG, InJ, InH, InU, InR, vars, varsC,
                C!vars, C!list, C!look, C!dialog
  <2>2. C!LookFollows /\ C!BarFollows
    BY <1>2 DEF ShownInv
  <2> QED
    BY <2>1, <2>2, NextLook, NextBar DEF Reserved
<1>3. ASSUME focus = "plain" PROVE (P!TreeFollows /\ P!DrawnFollows /\ P!ListFollows)'
  <2>1. [P!PageNext]_(P!vars)
    BY <1>3 DEF Next, InD, InL, InW, InC, InT, InP, InE, InK, InG, InJ, InH, InU, InR, vars, varsP,
                P!vars, P!page, P!feed, P!list, P!calls, P!link, P!jobs, P!diff
  <2>2. P!TreeFollows /\ P!DrawnFollows /\ P!ListFollows
    BY <1>3 DEF ShownInv
  <2> QED
    BY <2>1, <2>2, NextTree, NextDrawn, PlainNextList DEF Reserved
<1>4. ASSUME focus = "pods" PROVE K!PodsFollow'
  <2>1. [K!Next]_(K!vars)
    BY <1>4 DEF Next, InD, InL, InW, InC, InT, InP, InE, InK, InG, InJ, InH, InU, InR, vars, varsK,
                K!vars, K!place, K!shell, K!files, K!calls
  <2>2. K!PodsFollow
    BY <1>4 DEF ShownInv
  <2> QED
    BY <2>1, <2>2, NextPods DEF Reserved
<1>5. ASSUME focus = "tree" PROVE (R!TypeOK /\ R!JumpIsAlone /\ R!RowsFollow /\ R!SearchFollows)'
  <2>1. [R!Next]_(R!vars)
    BY <1>5 DEF Next, InD, InL, InW, InC, InT, InP, InE, InK, InG, InJ, InH, InU, InR, vars, varsR,
                R!vars, R!place, R!rows, R!search
  <2>2. R!TypeOK /\ R!JumpIsAlone /\ R!RowsFollow /\ R!SearchFollows
    BY <1>5 DEF ShownInv
  <2>3. R!Blank \notin TreeRepos /\ "off" \notin TreeRepos \cup TreeLocals
    BY DEF Reserved
  <2>4. R!JumpIsAlone'
    BY <2>1, <2>2, <2>3, NextAlone
  <2>5. R!RowsFollow'
    BY <2>1, <2>2, NextRows
  <2>6. R!SearchFollows'
    BY <2>1, <2>2, <2>3, NextSearch
  <2>7. R!TypeOK'
    BY <2>1, <2>2, NextType
  <2> QED
    BY <2>4, <2>5, <2>6, <2>7
<1>6. ASSUME focus = "feed" PROVE P!BarsFollow'
  <2>1. [P!FeedNext]_(P!vars)
    BY <1>6 DEF Next, InD, InL, InW, InC, InT, InP, InE, InK, InG, InJ, InH, InU, InR, vars, varsP,
                P!vars, P!page, P!feed, P!list, P!calls, P!link, P!jobs, P!diff
  <2>2. P!BarsFollow
    BY <1>6 DEF ShownInv
  <2> QED
    BY <2>1, <2>2, NextBars DEF Reserved
<1>7. ASSUME focus = "kibana" PROVE QueryParts'
  <2>1. [J!Next]_(J!vars)
    BY <1>7 DEF Next, InD, InL, InW, InC, InT, InP, InE, InK, InG, InJ, InH, InU, InR, vars, varsJ,
                J!vars, J!asked, J!place, J!shown, J!calls
  <2>2. QueryParts
    BY <1>7 DEF ShownInv
  <2> QED
    BY <2>1, <2>2, NextParts DEF Reserved
<1>8. ASSUME focus = "logs" PROVE G!LogsFollow'
  <2>1. [G!Next]_(G!vars)
    BY <1>8 DEF Next, InD, InL, InW, InC, InT, InP, InE, InK, InG, InJ, InH, InU, InR, vars, varsG,
                G!vars
  <2>2. G!LogsFollow
    BY <1>8 DEF ShownInv
  <2> QED
    BY <2>1, <2>2, NextLogs DEF Reserved
<1>9. ASSUME focus = "clash" PROVE H!GenFollows'
  <2>1. [H!Next]_(H!vars)
    BY <1>9 DEF Next, InD, InL, InW, InC, InT, InP, InE, InK, InG, InJ, InH, InU, InR, vars, varsH,
                H!vars, H!form, H!flags, H!calls, H!machine, H!said
  <2>2. H!GenFollows
    BY <1>9 DEF ShownInv
  <2> QED
    BY <2>1, <2>2, NextGen DEF Reserved
<1>10. ASSUME focus = "diagnosis" PROVE U!OneDiagnosis'
  <2>1. [U!Next]_(U!vars)
    BY <1>10 DEF Next, InD, InL, InW, InC, InT, InP, InE, InK, InG, InJ, InH, InU, InR, vars, varsU,
                U!vars, U!form, U!lists, U!diag, U!calls, U!said
  <2>2. U!OneDiagnosis
    BY <1>10 DEF ShownInv
  <2> QED
    BY <2>1, <2>2, NextOne DEF Reserved
<1> QED
  BY <1>0, <1>1, <1>2, <1>3, <1>4, <1>5, <1>6, <1>7, <1>8, <1>9, <1>10 DEF ShownInv

LEMMA ShownInvMeans ==
  ASSUME Reserved, ShownInv
  PROVE  ShownIsCurrent
<1>1. focus = "work" => W!TreeIsOfRepo /\ W!JobIsOfRepo /\ W!Restored
  BY WorkMeans DEF ShownInv, Reserved
<1>2. focus = "diff" => C!ShownIsSelected
  BY BarMeans DEF ShownInv, C!LookFollows
<1>3. focus = "plain" => P!TreeIsOfRepo /\ P!MergesShown /\ P!MergesListed
  BY TreeMeans DEF ShownInv, Reserved, P!DrawnFollows, P!ListFollows, P!MergesShown
<1>4. focus = "pods" => K!TypesIntoShown /\ K!SignIsTrue /\ K!NoHarm /\ K!MenuIsOfEnv
  BY PodsMean DEF ShownInv
<1>5. focus = "tree" => R!RowsAreOfPlace /\ R!HitsAreOfQuestion
  BY RowsAreRight DEF ShownInv, R!SearchFollows
<1>6. focus = "feed" => P!BarsStay
  BY BarsMean DEF ShownInv
<1>7. focus = "kibana" => J!TreeIsOfSite /\ J!HistIsOfQuery /\ J!RowsAreOfQuery /\ J!ZoomGoesBack
  BY PartsMean DEF ShownInv
<1>8. focus = "logs" => G!SortsAll /\ G!TableIsOfQuery /\ G!ExportIsShown
  BY LogsMean DEF ShownInv, Reserved
<1>9. focus = "clash" => H!GenIsLatest
  BY DEF ShownInv, H!GenFollows, H!GenIsLatest
<1>10. focus = "diagnosis" => U!ResultIsOfLast /\ U!HealthyIsTrue
  BY OneMeans DEF ShownInv
<1> QED
  BY <1>1, <1>2, <1>3, <1>4, <1>5, <1>6, <1>7, <1>8, <1>9, <1>10 DEF ShownIsCurrent

\* What a pane shows is what was chosen last: the tree and the jobs of the repository
\* tab, the file of the compare tab, the lists and tables of the plain page, of the pods,
\* the logs, the queries, the addresses, the diagnosis and the tree.  Hypotheses are
\* all conditions of the modules: answers of one kind in order, users who wait for them.
THEOREM ShownStaysCurrent ==
  ASSUME BenchUsual, PodsUsual, LogsUsual, QueryUsual, PageUsual, TreeUsual, RouteUsual, CheckUsual, Patient, Reserved
  PROVE  Spec => []ShownIsCurrent
<1>1. Init => ShownInv
  BY InitShown
<1>2. ShownInv /\ [Next]_vars => ShownInv'
  BY NextShown
<1>3. ShownInv => ShownIsCurrent
  BY ShownInvMeans
<1> QED
  BY <1>1, <1>2, <1>3, PTL DEF Spec
=============================================================================
