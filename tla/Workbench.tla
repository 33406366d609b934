------------------------------ MODULE Workbench -----------------------------
(***************************************************************************)
(* The repository tab: RepoList, FileTree, Preview, ActionBar and App's    *)
(* progress handlers around the zustand store, against the one backend     *)
(* whose selected repository (client.repo_id) every request works on.      *)
(*                                                                         *)
(* All repositories have the same names, so what the tree and the ticks    *)
(* show is just the repository it was read from.  A request is handled by  *)
(* the server and comes back as two steps.                                 *)
(***************************************************************************)
EXTENDS Integers, FiniteSets, Sequences, SequencesExt, FiniteSetsExt

CONSTANTS
  Repos,       \* repositories
  Files,       \* the two files a preview may be of
  Ordered,     \* the server handles requests in the order they were sent, and
               \* the answer to status is there before the one to repos
  Prompt,      \* a job's events come after the answer that started it
  Careful,     \* the user waits for answers and opens no folder of one
               \* repository before going to another
  MaxCalls,    \* bound: requests sent
  MaxJobs      \* bound: clones and downloads

None == "none"
NoFile == <<>>
Failure == "failure"

VARIABLES
  sel,       \* store.selectedRepo
  status,    \* store.status.repo_id, what the top bar shows
  srv,       \* client.repo_id of the backend
  net,       \* requests sent and not come back
  sent,      \* requests sent so far
  root,      \* FileTree.rootEntries: the repository they list, or none
  kids,      \* FileTree.dirCache of the directory
  open,      \* the directory is in FileTree.expanded
  checked,   \* checkedPaths: the repository the ticked file was listed in
  file,      \* selectedFilePath, with the repository it was listed in
  shown,     \* Preview.content: the file it belongs to
  token,     \* the request of Preview's current effect, 0 when there is none
  loading,   \* Preview.loading
  jobs,      \* clones and downloads that run on the server
  started,   \* jobs so far
  events,    \* server-sent events of the jobs, in order
  bar        \* store.progress: hidden, busy or error

tree == <<root, kids, open>>
pane == <<file, shown, token, loading>>
work == <<jobs, started, events>>
vars == <<sel, status, srv, net, sent, tree, checked, pane, work, bar>>

Pending == {r \in net : r.reply = "pending"}
Request(k, kind, arg) == [n |-> sent + k, kind |-> kind, arg |-> arg, reply |-> "pending"]
Send(k, rs) == net' = net \cup rs /\ sent' = sent + k
MaySend(k) == sent + k <= MaxCalls

Init ==
  /\ srv \in Repos \cup {None}
  /\ sel = None /\ status = None
  /\ net = {[n |-> 1, kind |-> "status", arg |-> None, reply |-> "pending"],
            [n |-> 2, kind |-> "repos", arg |-> None, reply |-> "pending"]}
  /\ sent = 2
  /\ root = None /\ kids = None /\ open = FALSE /\ checked = None
  /\ file = NoFile /\ shown = NoFile /\ token = 0 /\ loading = FALSE
  /\ jobs = {} /\ started = 0 /\ events = <<>> /\ bar = "hidden"

-----------------------------------------------------------------------------
(***************************************************************************)
(* The user.  openRepo selects in the store, which clears the ticks, drops *)
(* the selected file, posts the selection and, because the store changed,  *)
(* FileTree's effect asks for the root.  Neither children nor expansion    *)
(* of the previous repository are dropped.                                 *)
(***************************************************************************)
Unhurried == Careful => net = {}

PaneCleared ==                       \* Preview's effect for no file
  /\ file' = NoFile /\ shown' = NoFile /\ token' = 0
  /\ UNCHANGED loading

SelectOnly(r) == {Request(1, "select", r)}   \* mutant: the effect does not depend on the repository
Asked(r) == {Request(1, "select", r)} \cup IF r # sel THEN {Request(2, "tree", r)} ELSE {}

SameTicks == checked                 \* mutant: setSelectedRepo leaves the ticks
NoTicks == None

OpenRepo(r) ==
  /\ MaySend(2) /\ Unhurried
  /\ Careful => kids = None /\ ~loading /\ jobs = {}
  /\ sel' = r /\ checked' = NoTicks
  /\ PaneCleared
  /\ Send(IF r # sel THEN 2 ELSE 1, Asked(r))
  /\ UNCHANGED <<status, srv, tree, work, bar>>

ToggleDir ==
  /\ root # None
  /\ IF ~open /\ kids = None
     THEN MaySend(1) /\ Unhurried /\ Send(1, {Request(1, "kids", None)}) /\ UNCHANGED open
     ELSE open' = ~open /\ UNCHANGED <<net, sent>>
  /\ UNCHANGED <<sel, status, srv, root, kids, checked, pane, work, bar>>

\* The rows of the root and of the open directory have a tick box and a name.
Rows == {root} \cup (IF open THEN {kids} ELSE {})

Tick(r) ==
  /\ r \in Rows \ {None} /\ Unhurried
  /\ checked' = IF checked = None THEN r ELSE None
  /\ UNCHANGED <<sel, status, srv, net, sent, tree, pane, work, bar>>

PickFile(r, f) ==
  /\ r \in Rows \ {None}
  /\ <<r, f>> # file                 \* the effect runs when the path changes
  /\ MaySend(1)
  /\ Careful => root = sel /\ \A q \in net : q.kind \in Files
  /\ file' = <<r, f>>
  /\ token' = sent + 1 /\ loading' = TRUE
  /\ Send(1, {Request(1, f, r)})
  /\ UNCHANGED <<sel, status, srv, tree, checked, shown, work, bar>>

\* cloneRepo, downloadAll: what the server has selected; downloadSelected: the
\* ticked paths, or the selected file.
CloneRepo ==
  /\ sel # None /\ MaySend(1) /\ Unhurried
  /\ Send(1, {Request(1, "clone", None)})
  /\ UNCHANGED <<sel, status, srv, tree, checked, pane, work, bar>>

DownloadSelected ==
  /\ sel # None /\ MaySend(1) /\ Unhurried
  /\ LET paths == IF checked # None \/ file = NoFile THEN checked ELSE file[1] IN
     paths # None /\ Send(1, {Request(1, "download", paths)})
  /\ UNCHANGED <<sel, status, srv, tree, checked, pane, work, bar>>

CloseBar == bar = "error" /\ bar' = "hidden"
            /\ UNCHANGED <<sel, status, srv, net, sent, tree, checked, pane, work>>

-----------------------------------------------------------------------------
\* The server.  A select, a clone or a download may be refused or get lost.
Reply(r, value) == net' = (net \ {r}) \cup {[r EXCEPT !.reply = value]}

Starts(r, paths) ==
  /\ started < MaxJobs
  /\ started' = started + 1
  /\ jobs' = jobs \cup {[n |-> r.n, repo |-> srv, paths |-> paths]}
  /\ Reply(r, "ok")

Serve(r) ==
  /\ r \in Pending
  /\ Ordered => \A q \in Pending : r.n <= q.n
  /\ CASE r.kind = "select" -> srv' = r.arg /\ Reply(r, "ok") /\ UNCHANGED work
       [] r.kind = "clone" -> Starts(r, None) /\ UNCHANGED <<srv, events>>
       [] r.kind = "download" -> Starts(r, r.arg) /\ UNCHANGED <<srv, events>>
       [] OTHER -> Reply(r, srv) /\ UNCHANGED <<srv, work>>
  /\ UNCHANGED <<sel, status, sent, tree, checked, pane, bar>>

Refuse(r) ==
  /\ r \in Pending
  /\ ~Careful \/ r.kind \in {"clone", "download", "kids"} \cup Files
  /\ Reply(r, Failure)
  /\ UNCHANGED <<sel, status, srv, sent, tree, checked, pane, work, bar>>

JobSteps(j) ==
  /\ j \in jobs
  /\ \/ Len(events) < 2 /\ events' = Append(events, [n |-> j.n, is |-> "progress"]) /\ jobs' = jobs
     \/ /\ jobs' = jobs \ {j}
        /\ \E end \in {"done", "failed"} : events' = Append(events, [n |-> j.n, is |-> end])
  /\ UNCHANGED <<sel, status, srv, net, sent, tree, checked, pane, started, bar>>

-----------------------------------------------------------------------------
\* The answers, each with its .then of the page.
Takes(r, kind) == r \in net /\ r.kind = kind /\ r.reply # "pending" /\ net' = net \ {r}

GotStatus(r) ==
  /\ Takes(r, "status")
  /\ status' = IF r.reply = Failure THEN status ELSE r.reply
  /\ UNCHANGED <<sel, srv, sent, tree, checked, pane, work, bar>>

\* The list of repositories restores the selection the backend still has.
NeverHits(r) == r.reply # Failure /\ sel = status /\ status # None   \* mutant: the guard the wrong way round
Hits(r) == r.reply # Failure /\ sel = None /\ status # None

GotRepos(r) ==
  /\ r \in net /\ r.kind = "repos" /\ r.reply # "pending"
  /\ Ordered => \A q \in net : q.kind # "status"
  /\ IF Hits(r)
     THEN /\ sel' = status /\ checked' = NoTicks
          /\ sent' = sent + 1
          /\ net' = (net \ {r}) \cup {Request(1, "tree", status)}
     ELSE net' = net \ {r} /\ UNCHANGED <<sel, checked, sent>>
  /\ UNCHANGED <<status, srv, tree, pane, work, bar>>

GotSelect(r) ==
  /\ r \in net /\ r.kind = "select" /\ r.reply # "pending"
  /\ IF r.reply = Failure THEN net' = net \ {r} /\ UNCHANGED sent
     ELSE /\ sent' = sent + 1
          /\ net' = (net \ {r}) \cup {Request(1, "status", None)}
  /\ UNCHANGED <<sel, status, srv, tree, checked, pane, work, bar>>

GotTree(r) ==
  /\ Takes(r, "tree")
  /\ root' = IF r.reply = Failure THEN None ELSE r.reply
  /\ UNCHANGED <<sel, status, srv, sent, kids, open, checked, pane, work, bar>>

GotKids(r) ==
  /\ Takes(r, "kids")
  /\ IF r.reply = Failure THEN UNCHANGED <<kids, open>> ELSE kids' = r.reply /\ open' = TRUE
  /\ UNCHANGED <<sel, status, srv, sent, root, checked, pane, work, bar>>

GotFileAlways(r) ==                  \* mutant: the cancelled flag is not looked at
  /\ r.kind \in Files /\ Takes(r, r.kind)
  /\ shown' = <<r.arg, r.kind>> /\ loading' = FALSE
  /\ UNCHANGED <<sel, status, srv, sent, tree, checked, file, token, work, bar>>

GotFile(r) ==
  /\ r.kind \in Files /\ Takes(r, r.kind)
  /\ IF r.n = token THEN shown' = <<r.arg, r.kind>> /\ loading' = FALSE ELSE UNCHANGED <<shown, loading>>
  /\ UNCHANGED <<sel, status, srv, sent, tree, checked, file, token, work, bar>>

\* A download that was accepted drops the ticks; both show the progress bar.
GotJob(r) ==
  /\ r.kind \in {"clone", "download"}
  /\ Takes(r, r.kind)
  /\ bar' = IF r.reply = Failure THEN bar ELSE "busy"
  /\ checked' = IF r.kind = "download" /\ r.reply # Failure THEN None ELSE checked
  /\ UNCHANGED <<sel, status, srv, sent, tree, pane, work>>

\* App's handlers of progress, clone_done and download_done.
HandlerForgetsDone(e) == CASE e.is = "progress" -> "busy"   \* mutant
                           [] e.is = "failed" -> "error"
                           [] OTHER -> bar

Handler(e) == CASE e.is = "progress" -> "busy"
                [] e.is = "failed" -> "error"
                [] OTHER -> "hidden"

HandleEvent ==
  /\ events # <<>>
  /\ Prompt => \A r \in net : r.n # Head(events).n
  /\ bar' = Handler(Head(events))
  /\ events' = Tail(events)
  /\ UNCHANGED <<sel, status, srv, net, sent, tree, checked, pane, jobs, started>>

-----------------------------------------------------------------------------
User ==
  \/ \E r \in Repos : OpenRepo(r) \/ Tick(r) \/ \E f \in Files : PickFile(r, f)
  \/ ToggleDir \/ CloneRepo \/ DownloadSelected \/ CloseBar
Server == \E r \in net : Serve(r) \/ Refuse(r)
Working == \E j \in jobs : JobSteps(j)
Answers ==
  \E r \in net : GotStatus(r) \/ GotRepos(r) \/ GotSelect(r) \/ GotTree(r)
                 \/ GotKids(r) \/ GotFile(r) \/ GotJob(r)

Next == User \/ Server \/ Working \/ Answers \/ HandleEvent

JobEnds == \E j \in jobs : JobSteps(j) /\ jobs' # jobs
Fairness == WF_vars(Server) /\ WF_vars(Answers) /\ WF_vars(HandleEvent) /\ WF_vars(JobEnds)
Spec == Init /\ [][Next]_vars /\ Fairness
-----------------------------------------------------------------------------
Some == Repos \cup {None}
Req == [n: 1..MaxCalls+2, kind: {"status", "repos", "select", "tree", "kids", "clone", "download"} \cup Files,
        arg: Some, reply: Some \cup {"pending", "ok", Failure}]

TypeOK ==
  /\ {sel, status, srv, root, kids, checked} \subseteq Some
  /\ {file, shown} \subseteq {NoFile} \cup (Repos \X Files)
  /\ net \subseteq Req /\ sent \in Nat /\ open \in BOOLEAN /\ token \in Nat /\ loading \in BOOLEAN
  /\ jobs \subseteq [n: Nat, repo: Some, paths: Some] /\ started \in 0..MaxJobs
  /\ bar \in {"hidden", "busy", "error"}

(***************************************************************************)
(* The preview never shows one file under the name of another, however     *)
(* late an answer comes: the effect's cancelled flag sorts them out.       *)
(***************************************************************************)
PreviewIsOfFile == file # NoFile /\ ~loading => shown = file

(***************************************************************************)
(* When nothing is on its way, the tree is the selected repository's.      *)
(***************************************************************************)
TreeIsOfRepo == net = {} /\ root # None => root = sel

(***************************************************************************)
(* A clone or a download works on the repository that its paths and the    *)
(* page's selection belong to: what is saved is what the user ticked.      *)
(***************************************************************************)
JobIsOfRepo == \A j \in jobs : j.repo = sel /\ j.paths \in {None, j.repo}

Busy == bar = "busy"

(***************************************************************************)
(* A progress bar always ends: it goes, or it turns into an error.         *)
(***************************************************************************)
BarEnds == Busy ~> ~Busy

(***************************************************************************)
(* Once status and list have come back, the repository that the backend    *)
(* still has is the selected one (App.tsx, where the list restores it).    *)
(***************************************************************************)
Restored == (\A r \in net : r.kind \notin {"status", "repos"}) /\ status # None => sel # None

(***************************************************************************)
(* Why: the server has the page's repository unless it is told of it just  *)
(* now, and the tree is asked for behind that; everything else waits until *)
(* nothing is on its way.                                                  *)
(***************************************************************************)
Kinds == {"status", "repos", "select", "tree", "kids", "clone", "download"}
Calls == [n: Nat \ {0}, kind: Kinds \cup Files, arg: Some, reply: Some \cup {"pending", "ok", Failure}]
\* What stands for no repository or for a reply is no name of one, and files are no requests.
Apart == {None, "pending", Failure} \cap Repos = {} /\ Kinds \cap Files = {}
Formed ==
  /\ sel \in Some /\ srv \in Some /\ sent \in Nat
  /\ net \subseteq Calls /\ \A r \in net : r.n <= sent
Told == \A r \in Pending : r.kind # "select"
ServerFollows ==
  /\ \A r \in net : r.kind = "select" => r.arg = sel
  /\ Told /\ sel # None => srv = sel
  /\ \A q, r \in net : q.kind = "select" /\ r.kind = "tree" => q.n < r.n
  /\ \A q, r \in net : q.kind = "select" => r.kind \notin {"kids", "clone", "download"}
NoneYet == sel = None =>
  /\ root = None /\ kids = None /\ file = NoFile /\ jobs = {}
  /\ \A r \in net : (r.kind = "repos" /\ r.reply # Failure) \/ (r.kind = "status" /\ r.reply \in {"pending", srv})
  /\ status \in {None, srv}
  /\ status = None \/ \E r \in net : r.kind = "repos"
  /\ (\E r \in net : r.kind = "status") => \E r \in net : r.kind = "repos"
TreeFollows ==
  /\ root # None => root = sel \/ \E r \in net : r.kind = "tree"
  /\ \A r \in net : r.kind = "tree" => r.reply \in {"pending", sel}
  /\ kids # None => kids = sel
  /\ \A r \in net : r.kind = "kids" => r.reply \in {"pending", Failure, sel}
JobsFollow ==
  /\ checked \in {None, sel} /\ (file # NoFile => file[1] = sel)
  /\ \A r \in net : r.kind \in {"clone", "download"} => r.arg \in {None, sel}
  /\ \A j \in jobs : j.repo = sel /\ j.paths \in {None, sel}
PaneFollows ==
  /\ \A r \in net : r.kind \in Files /\ r.n = token => file = <<r.arg, r.kind>>
  /\ file # NoFile /\ ~loading => shown = file
WorkFollows == Formed /\ ServerFollows /\ NoneYet /\ TreeFollows /\ JobsFollow /\ PaneFollows

\* What holds of the pane whatever the user and the server do: requests are numbered.
Numbers == sent \in Nat /\ \A r \in net : r.n \in 1..sent /\ {"n", "kind", "arg"} \subseteq DOMAIN r
PaneHolds == Numbers /\ PaneFollows
=============================================================================
