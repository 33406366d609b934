------------------------------ MODULE PlainPage ------------------------------
(***************************************************************************)
(* The page of the Tauri shell (tauri/web/app.js): repository, file tree,  *)
(* local directory, differences and their merge.  The server reads the     *)
(* repository that was selected last there (srv), whatever the page shows. *)
(*                                                                         *)
(* Next to it, and on its own, the event stream of the page and the bars   *)
(* it drives: of a clone or download, and of a scan or batch of merges.    *)
(***************************************************************************)
EXTENDS Integers, Sequences, FiniteSets

CONSTANTS
  Repos, Paths,
  Mapped,       \* repository -> local directory, or Blank (repoMappings)
  Found,        \* repository -> the one candidate the server finds
  Ordered,      \* requests are served and answered in the order they were sent
  Reliable,     \* requests do not fail
  Single,       \* no directory is clicked while rows of the tree are loading, no file while another is
  Loyal,        \* with differences listed or drawn the user keeps repository and directory
  Unhurried,    \* the user types no directory and scans nothing while candidates are looked for
  MaxCalls,     \* bound: requests
  Calm,         \* no job is started within two seconds of the end of another
  Late,         \* a job ends after the request that started it was answered
  Steady,       \* no outage once a job was started
  MaxOutages, MaxTasks \* bounds

VARIABLES
  sel, srv,     \* selectedRepo; the server's repository
  tree,         \* repository of the rows, or Blank, "loading", "failed"
  dir,          \* the node of a directory: known, loaded, its boxes, whose entries, how often
  input, typed, \* text of diff-local-dir; what the user typed there
  localDir,     \* diffState.localDir
  entries,      \* repository, directory and paths of the list
  picked, pane, button, \* selectedPath, path of the diff that is drawn, merge button is shown
  net, sent,    \* requests under way, so far
  listed, writes, \* what was ever listed, what was merged: repository, directory, path
  up, es, timers, outages, \* the server; state.sse; timers that connect again; outages so far
  post, job, bar, hides,   \* request and job at the server; the bar, timers that hide it
  scan, diffBar, diffDone, \* scan or merge at the server; its bar, diffDoneTimer
  events, tasks            \* on their way; jobs and scans so far

\* No name.
Blank == ""
list == <<entries, picked, pane, button>>
calls == <<net, sent>>
page == <<sel, srv, tree, dir, input, typed, localDir, list, calls, listed, writes>>
link == <<up, es, timers, outages>>
jobs == <<post, job, bar, hides>>
diff == <<scan, diffBar, diffDone>>
feed == <<link, jobs, diff, events, tasks>>
vars == <<page, feed>>

NoNode == [known |-> FALSE, loaded |-> FALSE, boxes |-> 0, of |-> Blank, copies |-> 0]
NoList == [repo |-> Blank, dir |-> Blank, paths |-> {}]
Dirs == {Found[r] : r \in Repos} \cup ({Mapped[r] : r \in Repos} \ {Blank})

Init ==
  /\ sel = Blank /\ srv \in Repos /\ tree = Blank /\ dir = NoNode
  /\ input = Blank /\ typed = Blank /\ localDir = Blank /\ entries = NoList /\ picked = Blank /\ pane = Blank /\ button = FALSE
  /\ net = {} /\ sent = 0 /\ listed = {} /\ writes = {}
  /\ up = TRUE /\ es = "connecting" /\ timers = 0 /\ outages = 0
  /\ post = FALSE /\ job = FALSE /\ bar = FALSE /\ hides = 0
  /\ scan = FALSE /\ diffBar = FALSE /\ diffDone = FALSE /\ events = <<>> /\ tasks = 0

-----------------------------------------------------------------------------
Req(kind, repo, d, paths) ==
  [n |-> sent + 1, kind |-> kind, repo |-> repo, dir |-> d, paths |-> paths, got |-> Blank, ok |-> FALSE]
Send(r) == sent < MaxCalls /\ sent' = sent + 1 /\ net' = net \cup {r}
\* The answer r is handled, and another request is sent behind it.
SendsOn(r, q) == sent < MaxCalls /\ sent' = sent + 1 /\ net' = (net \ {r}) \cup {q}
First(r) == Ordered => \A q \in net : q.n < r.n => q.got # Blank /\ r.got = Blank
None(kinds) == \A r \in net : r.kind \notin kinds

Unlisted == entries.paths = {} /\ ~button /\ None({"scan", "file", "merge"})

\* The server works on its repository; a file of a batch may fail.
Serve(r) ==
  /\ r.got = Blank /\ First(r)
  /\ \E ok \in BOOLEAN, done \in (IF r.repo = "all" THEN SUBSET r.paths ELSE {r.paths}) :
       /\ Reliable => ok
       /\ net' = (net \ {r}) \cup {[r EXCEPT !.ok = ok, !.got = srv, !.paths = done]}
       /\ srv' = IF ok /\ r.kind = "select" THEN r.repo ELSE srv
       /\ writes' = IF ok /\ r.kind = "merge" THEN writes \cup ({srv} \X {r.dir} \X done) ELSE writes
  /\ UNCHANGED <<sel, tree, dir, input, typed, localDir, list, sent, listed>>
Answered(r, kind) == r.kind = kind /\ r.got # Blank /\ (Ordered => \A q \in net : r.n <= q.n)

-----------------------------------------------------------------------------
\* selectRepo, openRepo
OpenRepo(r) ==
  /\ (Loyal => Unlisted) /\ sel' = r /\ Send(Req("select", r, Blank, {}))
  /\ UNCHANGED <<srv, tree, dir, input, typed, localDir, list, listed, writes>>

\* autoFillLocalDir: a mapping at once, else what the server finds.
Fill == IF sel = Blank \/ input # Blank \/ Mapped[sel] = Blank THEN UNCHANGED <<input, localDir>>
        ELSE input' = Mapped[sel] /\ localDir' = Mapped[sel]
Seeks == sel # Blank /\ input = Blank /\ Mapped[sel] = Blank

\* Behind a failure nothing is loaded; otherwise the tree is.
GotSelect(r) ==
  /\ Answered(r, "select")
  /\ IF ~r.ok THEN net' = net \ {r} /\ UNCHANGED <<tree, dir, input, localDir, sent>>
     ELSE /\ tree' = "loading" /\ dir' = NoNode /\ Fill
          /\ sent + 2 <= MaxCalls /\ sent' = sent + (IF Seeks THEN 2 ELSE 1)
          /\ net' = (net \ {r}) \cup {Req("tree", Blank, Blank, {})}
               \cup (IF Seeks THEN {[Req("discover", sel, Blank, {}) EXCEPT !.n = sent + 2]} ELSE {})
  /\ UNCHANGED <<sel, srv, typed, list, listed, writes>>

AutoDir ==
  /\ Fill /\ IF Seeks THEN Send(Req("discover", sel, Blank, {})) ELSE UNCHANGED calls
  /\ UNCHANGED <<sel, srv, tree, dir, typed, list, listed, writes>>
TypeDir(d) ==
  /\ d # input /\ (Unhurried => None({"select", "discover"})) /\ (Loyal => Unlisted)
  /\ input' = d /\ typed' = d
  /\ UNCHANGED <<sel, srv, tree, dir, localDir, list, calls, listed, writes>>

\* The only candidate is taken, whatever the field holds by now.
GotDiscover(r) ==
  /\ Answered(r, "discover") /\ net' = net \ {r}
  /\ IF r.ok THEN input' = Found[r.repo] /\ localDir' = Found[r.repo] ELSE UNCHANGED <<input, localDir>>
  /\ UNCHANGED <<sel, srv, tree, dir, typed, list, sent, listed, writes>>

-----------------------------------------------------------------------------
\* toggleDir: a box for the entries, and a request, unless they are loaded.
ToggleDir ==
  /\ tree \in Repos /\ dir.known /\ ~dir.loaded /\ (Single => None({"select", "tree", "kids"}))
  /\ dir' = [dir EXCEPT !.boxes = IF dir.boxes < 2 THEN @ + 1 ELSE @]
  /\ Send(Req("kids", Blank, Blank, {}))
  /\ UNCHANGED <<sel, srv, tree, input, typed, localDir, list, listed, writes>>

\* A failure anywhere takes the place of the whole tree.
GotTree(r) ==
  /\ Answered(r, "tree") /\ net' = net \ {r}
  /\ IF r.ok THEN tree' = r.got /\ dir' = [NoNode EXCEPT !.known = TRUE]
     ELSE tree' = "failed" /\ UNCHANGED dir
  /\ UNCHANGED <<sel, srv, input, typed, localDir, list, sent, listed, writes>>
GotKids(r) ==
  /\ Answered(r, "kids") /\ net' = net \ {r}
  /\ IF ~r.ok THEN tree' = "failed" /\ UNCHANGED dir
     ELSE /\ dir' = IF dir.known THEN [dir EXCEPT !.loaded = TRUE, !.of = r.got, !.copies = @ + 1] ELSE dir
          /\ UNCHANGED tree
  /\ UNCHANGED <<sel, srv, input, typed, localDir, list, sent, listed, writes>>

-----------------------------------------------------------------------------
ScanDiff ==
  /\ input # Blank /\ sel # Blank /\ None({"scan"}) /\ (Loyal => None({"select"})) /\ (Unhurried => None({"discover"}))
  /\ Send(Req("scan", sel, input, {}))
  /\ UNCHANGED <<sel, srv, tree, dir, input, typed, localDir, list, listed, writes>>
GotScan(r) ==
  /\ Answered(r, "scan") /\ net' = net \ {r}
  /\ IF ~r.ok THEN entries' = NoList /\ UNCHANGED <<localDir, listed>>
     ELSE /\ \E ps \in SUBSET Paths : entries' = [repo |-> r.got, dir |-> r.dir, paths |-> ps]
          /\ localDir' = r.dir
          /\ listed' = listed \cup ({entries'.repo} \X {entries'.dir} \X entries'.paths)
  /\ UNCHANGED <<sel, srv, tree, dir, input, typed, picked, pane, button, sent, writes>>

OpenDiffFileOnly(p) ==               \* mutant: the button stays
  /\ p \in entries.paths /\ None({"scan"}) /\ (Single => None({"file"})) /\ picked' = p /\ pane' = pane /\ button' = button
  /\ Send(Req("file", Blank, localDir, {p}))
  /\ UNCHANGED <<sel, srv, tree, dir, input, typed, localDir, entries, listed, writes>>
OpenDiffFile(p) ==
  /\ p \in entries.paths /\ None({"scan"}) /\ (Single => None({"file"})) /\ picked' = p /\ pane' = Blank /\ button' = FALSE
  /\ Send(Req("file", Blank, localDir, {p}))
  /\ UNCHANGED <<sel, srv, tree, dir, input, typed, localDir, entries, listed, writes>>
GotFile(r) ==
  /\ Answered(r, "file") /\ net' = net \ {r}
  /\ IF r.ok THEN pane' = (CHOOSE p \in r.paths : TRUE) /\ button' = TRUE ELSE pane' = Blank /\ UNCHANGED button
  /\ UNCHANGED <<sel, srv, tree, dir, input, typed, localDir, entries, picked, sent, listed, writes>>

\* mergeOne takes the path that was picked, mergeAll what the list holds.
MergeOne ==
  /\ button /\ None({"merge"}) /\ Send(Req("merge", "one", localDir, {picked}))
  /\ UNCHANGED <<sel, srv, tree, dir, input, typed, localDir, list, listed, writes>>
MergeAll ==
  /\ entries.paths # {} /\ None({"merge", "scan"}) /\ Send(Req("merge", "all", localDir, entries.paths))
  /\ UNCHANGED <<sel, srv, tree, dir, input, typed, localDir, list, listed, writes>>
GotMerge(r) ==
  /\ Answered(r, "merge") /\ net' = net \ {r}
  /\ IF r.ok THEN entries' = [entries EXCEPT !.paths = @ \ r.paths] ELSE UNCHANGED entries
  /\ IF r.ok /\ r.repo = "one" THEN pane' = Blank /\ button' = FALSE ELSE UNCHANGED <<pane, button>>
  /\ UNCHANGED <<sel, srv, tree, dir, input, typed, localDir, picked, sent, listed, writes>>

User == \/ AutoDir \/ ToggleDir \/ ScanDiff \/ MergeOne \/ MergeAll
        \/ \E r \in Repos : OpenRepo(r)
        \/ \E d \in Dirs \cup {Blank} : TypeDir(d)
        \/ \E p \in Paths : OpenDiffFile(p)
Answers == \E r \in net : \/ Serve(r) \/ GotSelect(r) \/ GotDiscover(r) \/ GotTree(r) \/ GotKids(r)
                          \/ GotScan(r) \/ GotFile(r) \/ GotMerge(r)
PageNext == (User \/ Answers) /\ UNCHANGED feed

-----------------------------------------------------------------------------
\* connectSSE closes the stream that is there, a good one too.
ConnectSSE ==
  /\ timers > 0 /\ timers' = timers - 1 /\ es' = "connecting"
  /\ events' = <<>> /\ UNCHANGED <<up, outages, jobs, diff, tasks>>
Opened == up /\ es = "connecting" /\ es' = "open" /\ UNCHANGED <<up, timers, outages, jobs, diff, events, tasks>>
\* The browser may try again by itself; a failure sets a timer.
Resumed == up /\ es = "down" /\ es' = "open" /\ UNCHANGED <<up, timers, outages, jobs, diff, events, tasks>>
OnErrorOnce ==                       \* mutant: it is left to the browser
  /\ ~up /\ es # "down" /\ es' = "down" /\ timers' = timers
  /\ events' = <<>> /\ UNCHANGED <<up, outages, jobs, diff, tasks>>
OnError ==
  /\ ~up /\ es # "down" /\ es' = "down" /\ timers' = timers + 1
  /\ events' = <<>> /\ UNCHANGED <<up, outages, jobs, diff, tasks>>
GoesDown ==
  /\ up /\ outages < MaxOutages /\ (Steady => tasks = 0) /\ up' = FALSE /\ outages' = outages + 1
  /\ UNCHANGED <<es, timers, jobs, diff, events, tasks>>
ComesUp == ~up /\ up' = TRUE /\ UNCHANGED <<es, timers, outages, jobs, diff, events, tasks>>

Settled == up /\ es = "open" /\ timers = 0
Publish(new) == events' = events \o new

-----------------------------------------------------------------------------
\* cloneRepo, downloadSelected, downloadAll: the bar comes with the answer.
StartJob ==
  /\ Settled /\ ~post /\ ~job /\ tasks < MaxTasks /\ (Calm => hides = 0 /\ events = <<>>)
  /\ post' = TRUE /\ job' = TRUE /\ tasks' = tasks + 1
  /\ UNCHANGED <<link, bar, hides, diff, events>>
GotPost == post /\ post' = FALSE /\ bar' = TRUE /\ UNCHANGED <<link, job, hides, diff, events, tasks>>
JobEnds ==
  /\ job /\ (Late => ~post) /\ job' = FALSE /\ Publish(<<"job_done">>)
  /\ UNCHANGED <<link, post, bar, hides, diff, tasks>>
HideTimer == hides > 0 /\ hides' = hides - 1 /\ bar' = FALSE /\ UNCHANGED <<link, post, job, diff, events, tasks>>

\* scanDiff, mergeAll: the server tells each stage.
StartScan ==
  /\ Settled /\ ~scan /\ tasks < MaxTasks /\ tasks' = tasks + 1
  /\ scan' = TRUE /\ Publish(<<"stage">>) /\ UNCHANGED <<link, jobs, diffBar, diffDone>>
ScanEnds ==
  /\ scan /\ scan' = FALSE /\ (\E e \in {"done", "error"} : Publish(<<e>>))
  /\ UNCHANGED <<link, jobs, diffBar, diffDone, tasks>>
DiffDone ==
  /\ diffDone /\ diffDone' = FALSE /\ diffBar' = FALSE /\ UNCHANGED <<link, jobs, scan, events, tasks>>

\* A stage stops the timer that a scan before it set.
StageKeepsTimer == diffBar' = TRUE /\ UNCHANGED diffDone   \* mutant
Stage == diffBar' = TRUE /\ diffDone' = FALSE
Handle ==
  /\ events # <<>> /\ events' = Tail(events) /\ LET e == Head(events) IN
     /\ hides' = IF e = "job_done" THEN hides + 1 ELSE hides
     /\ CASE e = "stage" -> Stage
          [] e = "done"  -> diffDone' = TRUE /\ UNCHANGED diffBar
          [] e = "error" -> diffBar' = TRUE /\ diffDone' = FALSE
          [] OTHER       -> UNCHANGED <<diffBar, diffDone>>
  /\ UNCHANGED <<link, post, job, bar, scan, tasks>>

Events == \/ ConnectSSE \/ Opened \/ Resumed \/ OnError \/ GoesDown \/ ComesUp
          \/ StartJob \/ GotPost \/ JobEnds \/ HideTimer \/ StartScan \/ ScanEnds \/ DiffDone \/ Handle
Feed(A) == A /\ UNCHANGED page
FeedNext == Feed(Events)

-----------------------------------------------------------------------------
Next == PageNext \/ FeedNext

Spec == Init /\ [][Next]_vars
          /\ WF_vars(Feed(ConnectSSE)) /\ WF_vars(Feed(Opened)) /\ WF_vars(Feed(OnError))
          /\ WF_vars(Feed(ComesUp)) /\ WF_vars(Feed(GotPost)) /\ WF_vars(Feed(JobEnds))
          /\ WF_vars(Feed(HideTimer)) /\ WF_vars(Feed(Handle))
-----------------------------------------------------------------------------
TypeOK ==
  /\ sel \in Repos \cup {Blank} /\ srv \in Repos /\ sent \in 0..MaxCalls /\ {r.n : r \in net} \subseteq 1..sent
  /\ {input, typed, localDir} \subseteq Dirs \cup {Blank} /\ {picked, pane} \subseteq Paths \cup {Blank}
  /\ es \in {"connecting", "open", "down"} /\ timers \in 0..3 * MaxOutages /\ hides \in 0..MaxTasks
  /\ Len(events) <= 2 * MaxTasks

\* With nothing under way the tree is of the selected repository, and each entry is in it once.
TreeIsOfRepo ==
  net = {} /\ tree \in Repos =>
    /\ tree = sel /\ sel = srv
    /\ dir.loaded => dir.of = tree /\ dir.copies = 1
    /\ dir.boxes > 0 => dir.loaded /\ dir.boxes = 1

\* A directory that the user typed stays.
TypedStays == typed # Blank => input = typed

\* Nor is anything under way that would fill in another.
NothingFills == /\ typed # Blank => input = typed /\ None({"discover"})
                /\ \A r \in net : "kind" \in DOMAIN r

\* The merge button is there for the diff that is drawn.
MergesShown == button => pane = picked

\* What is merged into a directory was listed as a difference of that repository to that directory.
MergesListed == writes \subseteq listed

(***************************************************************************)
(* Why the tree is of the repository: requests are served and answered in  *)
(* the order they were sent, so that the last selection is the server's    *)
(* before anything sent behind it is read, and the rows of a directory are *)
(* asked for once.                                                         *)
(***************************************************************************)
Requests ==
  [n : Nat, kind : {"select", "tree", "kids", "discover", "scan", "file", "merge"},
   repo : Repos \cup {Blank, "one", "all"}, dir : Dirs \cup {Blank},
   paths : SUBSET (Paths \cup {Blank}), got : Repos \cup {Blank}, ok : BOOLEAN]
Form ==
  /\ sel \in Repos \cup {Blank} /\ srv \in Repos /\ {input, localDir} \subseteq Dirs \cup {Blank}
  /\ picked \in Paths \cup {Blank}
  /\ entries \in [repo : Repos \cup {Blank}, dir : Dirs \cup {Blank}, paths : SUBSET Paths]
  /\ \A r \in net : r.kind = "discover" => r.repo \in Repos
Queue ==
  /\ net \subseteq Requests /\ sent \in Nat /\ \A r \in net : r.n \in 1..sent
  /\ \A r, q \in net : r.n = q.n => r = q
  /\ \A r, q \in net : q.n < r.n /\ r.got # Blank => q.got # Blank
  /\ \A r \in net : r.got # Blank => r.ok

Chosen(r) == r.kind = "select" /\ r.got = Blank
ServerFollows ==
  /\ sel = Blank => None({"select", "tree", "kids"}) /\ tree = Blank
  /\ \A q \in net : q.kind = "select" => q.repo \in Repos
  /\ \A q \in net : Chosen(q) => q.repo = sel \/ \E p \in net : Chosen(p) /\ p.n > q.n
  /\ sel # Blank /\ (\A q \in net : ~Chosen(q)) => srv = sel
  /\ \A r \in net : r.kind \in {"tree", "kids"} /\ r.got # Blank
       => r.got = sel \/ \E q \in net : q.kind = "select" /\ q.n > r.n
  /\ tree \in Repos => tree = sel \/ ~None({"select"})
KidsFollow ==
  /\ dir \in [known : BOOLEAN, loaded : BOOLEAN, boxes : Nat, of : Repos \cup {Blank}, copies : Nat]
  /\ \A r, q \in net : r.kind = "kids" /\ q.kind = "select" => r.n < q.n
  /\ \A r, q \in net : r.kind = "kids" => q.kind # "tree" /\ (q.kind = "kids" => r = q)
  /\ ~None({"kids"}) /\ None({"select"})
       => tree \in Repos /\ dir.known /\ ~dir.loaded /\ dir.boxes = 1 /\ dir.copies = 0
  /\ None({"select", "tree", "kids"}) /\ tree \in Repos
       => IF dir.loaded THEN dir.of = tree /\ dir.copies = 1 /\ dir.boxes = 1 ELSE dir.copies = 0 /\ dir.boxes = 0
TreeFollows == Form /\ Queue /\ ServerFollows /\ KidsFollow

\* Why the button is there for what is drawn: one file at a time is loaded.
DrawnFollows ==
  /\ button => pane = picked
  /\ \A r \in net : r.kind = "file" => r.paths = {picked} /\ r.repo # "all" /\ ~button
  /\ \A r, q \in net : r.kind = "file" /\ q.kind = "file" => r = q

\* Why what is merged was listed: with a list, a drawn file or a scan nothing is under way
\* that would change repository or directory.
Drawn == button \/ ~None({"file"})
ListFollows ==
  /\ ~Unlisted => None({"select", "discover"}) /\ input # Blank
  /\ \A r \in net : r.kind = "scan" => r.dir = input /\ (r.got # Blank => r.got = srv)
  /\ entries.paths # {} \/ Drawn \/ ~None({"merge"}) => localDir = input
  /\ \A p \in entries.paths : <<srv, localDir, p>> \in listed
  /\ Drawn => <<srv, localDir, picked>> \in listed
  /\ \A r \in net : r.kind = "merge" => \A p \in r.paths : <<srv, r.dir, p>> \in listed
  /\ MergesListed

\* While a job or scan runs its bar is there, and no timer of an earlier one hides it.
BarsStay == /\ job /\ ~post => bar
            /\ scan /\ events = <<>> => diffBar /\ ~diffDone

\* Why: no timer of an earlier job is left when one starts, and the stage of a scan is the last
\* thing said about it; the stream stays open once something was started.
Only(es0) == \A i \in DOMAIN events : events[i] \in es0
StageComes == \E i \in DOMAIN events : /\ events[i] = "stage"
                                      /\ \A j \in DOMAIN events : j > i => events[j] = "job_done"
BarsFollow ==
  /\ events \in Seq({"job_done", "stage", "done", "error"}) /\ hides \in Nat /\ tasks \in Nat
  /\ tasks > 0 => Settled
  /\ scan => tasks > 0
  /\ post \/ job => hides = 0 /\ Only({"stage", "done", "error"})
  /\ job /\ ~post => bar
  /\ scan => StageComes \/ (Only({"job_done"}) /\ diffBar /\ ~diffDone)

\* The stream comes back and stays, and the bar of a job goes.
StreamOpen == es = "open"
BarShown == bar
Heals == <>[]StreamOpen
BarGoes == BarShown ~> ~BarShown
=============================================================================
