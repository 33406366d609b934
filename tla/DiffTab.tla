------------------------------- MODULE DiffTab ------------------------------
(***************************************************************************)
(* The compare tab (components/DiffPanel.tsx): scan, look at a file or at  *)
(* an older version of it, merge one, some or all, decide the conflicts.   *)
(*                                                                         *)
(* A target stands for local directory, repository and sub-directory: the  *)
(* list keeps the one it was scanned for, a request sends the current one. *)
(***************************************************************************)
EXTENDS Integers, FiniteSets, Sequences

CONSTANTS
  Targets, Paths,
  Steady,       \* the user leaves the target alone while something is listed or asked for
  Patient,      \* the user waits for a file's answer and for a single merge
  MaxRequests   \* bound

None == "none"

VARIABLES
  target,       \* localDir, compareDir and the selected repository
  listed,       \* paths of entries
  of,           \* the target that entries were scanned for
  selected,     \* selectedPath
  html,         \* the path whose comparison fileHtml shows, or none
  history,      \* history: the path, or none
  conflicts,    \* paths in the conflict dialog
  dirty,        \* conflictDirty
  asking,       \* the open question of ConfirmHost: none, merge, close
  busy, resolving, scanning,
  bar,          \* the store's progress is visible
  net, sent,    \* requests on their way, requests so far
  events,       \* server-sent events on their way
  settled       \* <<target, path>> merged or decided on the server

list == <<listed, of>>
look == <<selected, html, history>>
dialog == <<conflicts, dirty, asking, resolving>>
vars == <<target, list, look, dialog, busy, scanning, bar, net, sent, events, settled>>

Init ==
  /\ target \in Targets
  /\ listed = {} /\ of = None
  /\ selected = None /\ html = None /\ history = None
  /\ conflicts = {} /\ dirty = FALSE /\ asking = None /\ resolving = FALSE
  /\ busy = FALSE /\ scanning = FALSE /\ bar = FALSE
  /\ net = {} /\ sent = 0 /\ events = <<>> /\ settled = {}

Send(kind, paths) ==
  /\ sent < MaxRequests /\ sent' = sent + 1
  /\ net' = net \cup {[n |-> sent + 1, kind |-> kind, to |-> target, paths |-> paths,
                       done |-> FALSE, ok |-> {}, clash |-> {}]}
Quiet == UNCHANGED <<net, sent>>
Waiting(kinds) == \E r \in net : r.kind \in kinds
Free == asking = None                \* a confirm dialog covers the page
Open == Free /\ conflicts = {}       \* so does the conflict dialog

\* What the page offers: the settings, the rows, the buttons over a file, and
\* the files of the recent commits.
Settings == Open
Rows == IF Open THEN listed ELSE {}
Buttons == Open /\ history = None /\ ~busy
CommitFiles == IF Open THEN Paths ELSE {}

-----------------------------------------------------------------------------
\* The toolbar.  Changing a directory or the repository keeps the list.
EditTarget(x) ==
  /\ Settings /\ x # target
  /\ Steady => listed = {} /\ selected = None /\ conflicts = {} /\ net = {}
  /\ target' = x
  /\ Quiet /\ UNCHANGED <<list, look, dialog, busy, scanning, bar, events, settled>>

OldHtml == html                      \* mutant: the comparison is left standing
NoHtml == None

Scan ==
  /\ Settings /\ ~busy
  /\ Patient => ~Waiting({"file", "one"})
  /\ busy' = TRUE /\ scanning' = TRUE /\ bar' = TRUE
  /\ listed' = {} /\ of' = None /\ selected' = None /\ html' = NoHtml
  /\ Send("scan", {})
  /\ UNCHANGED <<target, history, dialog, events, settled>>

OpenFile(p) ==
  /\ p \in Rows
  /\ Patient => ~Waiting({"file", "one"})
  /\ selected' = p /\ html' = None   \* "loading"
  /\ Send("file", {p})
  /\ UNCHANGED <<target, list, history, dialog, busy, scanning, bar, events, settled>>

OpenHistory(p) ==
  /\ p \in CommitFiles
  /\ Patient => ~Waiting({"history"})
  /\ history' = p
  /\ Send("history", {p})
  /\ UNCHANGED <<target, list, selected, html, dialog, busy, scanning, bar, events, settled>>

BackToDiff ==
  /\ Open /\ history # None
  /\ Patient => ~Waiting({"history"})
  /\ history' = None
  /\ Quiet /\ UNCHANGED <<target, list, selected, html, dialog, busy, scanning, bar, events, settled>>

\* mergeOne does not set busy.
MergeOne ==
  /\ Buttons /\ selected # None
  /\ Patient => ~Waiting({"file", "one"})
  /\ Send("one", {selected})
  /\ UNCHANGED <<target, list, look, dialog, busy, scanning, bar, events, settled>>

AskMergeAll ==
  /\ Buttons /\ listed # {}
  /\ asking' = "merge"
  /\ Quiet /\ UNCHANGED <<target, list, look, conflicts, dirty, resolving, busy, scanning, bar, events, settled>>

RunMerge(paths) ==
  /\ busy' = TRUE
  /\ Send("batch", paths)

MergeAll ==
  /\ asking = "merge" /\ asking' = None
  /\ RunMerge(listed)
  /\ UNCHANGED <<target, list, look, conflicts, dirty, resolving, scanning, bar, events, settled>>

\* The ticked paths of the tree that are in the list.
MergeSelected ==
  /\ Buttons
  /\ \E ticked \in SUBSET listed : ticked # {} /\ RunMerge(ticked)
  /\ UNCHANGED <<target, list, look, dialog, scanning, bar, events, settled>>

EditConflict == conflicts # {} /\ Free /\ ~dirty /\ dirty' = TRUE
  /\ Quiet /\ UNCHANGED <<target, list, look, conflicts, asking, resolving, busy, scanning, bar, events, settled>>

\* closeConflicts asks when the text was touched.
CloseConflicts ==
  /\ conflicts # {} /\ Free
  /\ IF dirty THEN asking' = "close" /\ UNCHANGED <<conflicts, dirty>>
              ELSE conflicts' = {} /\ dirty' = FALSE /\ UNCHANGED asking
  /\ Quiet /\ UNCHANGED <<target, list, look, resolving, busy, scanning, bar, events, settled>>

ConfirmClose ==
  /\ asking = "close" /\ asking' = None
  /\ conflicts' = {} /\ dirty' = FALSE
  /\ Quiet /\ UNCHANGED <<target, list, look, resolving, busy, scanning, bar, events, settled>>

Decline == ~Free /\ asking' = None
  /\ Quiet /\ UNCHANGED <<target, list, look, conflicts, dirty, resolving, busy, scanning, bar, events, settled>>

ResolveConflicts ==
  /\ conflicts # {} /\ Free /\ ~resolving
  /\ resolving' = TRUE
  /\ Send("resolve", conflicts)
  /\ UNCHANGED <<target, list, look, conflicts, dirty, asking, busy, scanning, bar, events, settled>>

-----------------------------------------------------------------------------
\* The server: a merge may find conflicts and fail for some files; a batch
\* reports on the event stream before it answers.
Serve(r) ==
  /\ r \in net /\ ~r.done
  /\ \E ok \in SUBSET r.paths : \E clash \in SUBSET (r.paths \ ok) :
       /\ r.kind \notin {"one", "batch"} => clash = {}
       /\ r.kind \in {"file", "history", "scan"} => ok = r.paths
       /\ net' = (net \ {r}) \cup {[r EXCEPT !.done = TRUE, !.ok = ok, !.clash = clash]}
       /\ settled' = IF r.kind \in {"one", "batch", "resolve"}
                     THEN settled \cup {<<r.to, p>> : p \in ok} ELSE settled
       /\ events' = CASE r.kind = "batch" -> events \o <<"merge_progress", "merge_done">>
                      [] r.kind = "scan" -> events \o <<"scan_progress", "scan_done">>
                      [] OTHER -> events
  /\ UNCHANGED <<target, list, look, dialog, busy, scanning, bar, sent>>

-----------------------------------------------------------------------------
Got(r, kind) == r \in net /\ r.kind = kind /\ r.done /\ net' = net \ {r}

\* The answer or a failed request: finally clears busy either way.
GotScan(r) ==
  /\ Got(r, "scan")
  /\ \/ \E found \in SUBSET Paths : listed' = found /\ of' = r.to
     \/ UNCHANGED list
  /\ bar' = FALSE /\ scanning' = FALSE /\ busy' = FALSE
  /\ UNCHANGED <<target, look, dialog, sent, events, settled>>

GotFile(r) ==
  /\ Got(r, "file")
  /\ html' = CHOOSE p \in r.paths : TRUE
  /\ UNCHANGED <<target, list, selected, history, dialog, busy, scanning, bar, sent, events, settled>>

GotHistory(r) ==
  /\ Got(r, "history")
  /\ history' = CHOOSE p \in r.paths : TRUE
  /\ UNCHANGED <<target, list, selected, html, dialog, busy, scanning, bar, sent, events, settled>>

OpenConflicts(paths) == conflicts' = paths /\ dirty' = FALSE

GotOne(r) ==
  /\ Got(r, "one")
  /\ IF r.clash # {}
     THEN OpenConflicts(r.clash) /\ UNCHANGED <<listed, selected, html>>
     ELSE /\ listed' = listed \ r.ok
          /\ IF r.ok # {} THEN selected' = None /\ html' = None ELSE UNCHANGED <<selected, html>>
          /\ UNCHANGED <<conflicts, dirty>>
  /\ UNCHANGED <<target, of, history, asking, resolving, busy, scanning, bar, sent, events, settled>>

DropAll(r) == r.paths                \* mutant: conflicts leave the list too
Drop(r) == r.ok

GotBatch(r) ==
  /\ Got(r, "batch")
  /\ listed' = listed \ Drop(r)
  /\ html' = None
  /\ IF r.clash # {} THEN OpenConflicts(r.clash) ELSE UNCHANGED <<conflicts, dirty>>
  /\ busy' = FALSE /\ bar' = FALSE
  /\ UNCHANGED <<target, of, selected, history, asking, resolving, scanning, sent, events, settled>>

\* All of them leave list and dialog, the ones that failed included; when the
\* whole request fails, all stay.
GotResolve(r) ==
  /\ Got(r, "resolve")
  /\ \/ listed' = listed \ r.paths /\ conflicts' = {}
     \/ UNCHANGED <<listed, conflicts>>
  /\ resolving' = FALSE
  /\ UNCHANGED <<target, of, look, dirty, asking, busy, scanning, bar, sent, events, settled>>

\* The handlers of the event stream; those of a scan look at scanningRef.
LateBar(e) == CASE e \in {"merge_progress", "scan_progress"} -> TRUE   \* mutant: no look at it
                [] e = "merge_done" -> FALSE
                [] e = "scan_done" -> bar /\ ~scanning

Bar(e) == CASE e = "merge_progress" -> TRUE
            [] e = "merge_done" -> FALSE
            [] e = "scan_progress" -> scanning \/ bar
            [] e = "scan_done" -> bar /\ ~scanning

HandleEvent ==
  /\ events # <<>> /\ events' = Tail(events)
  /\ bar' = Bar(Head(events))
  /\ Quiet /\ UNCHANGED <<target, list, look, dialog, busy, scanning, settled>>

-----------------------------------------------------------------------------
User ==
  \/ \E x \in Targets : EditTarget(x)
  \/ \E p \in Paths : OpenFile(p) \/ OpenHistory(p)
  \/ Scan \/ BackToDiff \/ MergeOne \/ AskMergeAll \/ MergeAll \/ MergeSelected
  \/ EditConflict \/ CloseConflicts \/ ConfirmClose \/ Decline \/ ResolveConflicts
Server == \E r \in net : Serve(r)
Answers == \E r \in net : GotScan(r) \/ GotFile(r) \/ GotHistory(r) \/ GotOne(r) \/ GotBatch(r) \/ GotResolve(r)
Next == User \/ Server \/ Answers \/ HandleEvent

Spec == Init /\ [][Next]_vars
-----------------------------------------------------------------------------
TypeOK ==
  /\ target \in Targets /\ of \in Targets \cup {None}
  /\ listed \subseteq Paths /\ conflicts \subseteq Paths
  /\ {selected, html, history} \subseteq Paths \cup {None}
  /\ asking \in {None, "merge", "close"}
  /\ \A b \in {dirty, busy, resolving, scanning, bar} : b \in BOOLEAN
  /\ settled \subseteq Targets \X Paths

\* The comparison that is shown is the selected file's, the one MergeOne merges.
ShownIsSelected == html # None => html = selected

\* What is merged is what was compared: no request of a merge or a decision
\* goes to another directory or repository than the list came from.
MergesWhatWasScanned ==
  \A r \in net : r.kind \in {"one", "batch", "resolve"} /\ of # None => r.to = of

Settles(p) == <<of, p>> \in settled'
Rescans == of' = None
Decides(p) == \E r \in net \ net' : r.kind = "resolve" /\ r.done /\ p \in r.paths

\* A file leaves the list of a scan only when it is merged or decided: all that
\* a decision was asked for leave with its answer, those it failed for too.
LeavesWhenSettledStep == \A p \in listed \ listed' : Settles(p) \/ Rescans \/ Decides(p)
LeavesWhenSettled == [][LeavesWhenSettledStep]_vars

\* "Entries in conflict stay, until they are decided" (DiffPanel.tsx:720): one
\* that no merge and no decision has settled on the server is still listed.
\* The answer to a decision that failed takes it off the list all the same.
ConflictsStay ==
  [][\A p \in listed \ listed' : Settles(p) \/ Rescans]_vars

(***************************************************************************)
(* Why: a request goes to the target that the list is of; a scan or a      *)
(* batch keeps the page busy, so that a scan finds the list empty and is   *)
(* never beside a batch; and what an answer calls done the server settled. *)
(***************************************************************************)
Requests ==
  [n : Nat, kind : {"scan", "file", "history", "one", "batch", "resolve"}, to : Targets,
   paths : SUBSET Paths, done : BOOLEAN, ok : SUBSET Paths, clash : SUBSET Paths]
Heavy(r) == r.kind \in {"scan", "batch"}
Told(r) ==
  /\ r.to = target
  /\ Heavy(r) => busy
  /\ r.kind = "scan" => listed = {}
  /\ r.done /\ r.kind \in {"one", "batch", "resolve"} => \A p \in r.ok : <<r.to, p>> \in settled
Shapes ==
  /\ target \in Targets /\ listed \subseteq Paths /\ conflicts \subseteq Paths
  /\ selected \in Paths \cup {None} /\ busy \in BOOLEAN /\ sent \in Nat /\ net \subseteq Requests
Settling ==
  /\ Shapes
  /\ listed # {} => of = target
  /\ asking = "merge" => ~busy
  /\ \A r \in net : Told(r)
  /\ \A r, q \in net : Heavy(r) /\ Heavy(q) => r = q

\* With nothing on its way no progress bar is left on the page.
BarGoes == net = {} /\ events = <<>> => ~bar

\* Why: the file or the merge the page waits for is the only one, of the selected path.
LookFollows ==
  /\ ShownIsSelected
  /\ \A r \in net : r.kind = "file" => r.paths = {selected}
  /\ \A r, q \in net : r.kind \in {"file", "one"} /\ q.kind \in {"file", "one"} => r = q

\* Why: a visible bar has an answer to come, or the event that ends a merge; a scan
\* that is shown as running is on its way.
EndComes == \E i \in DOMAIN events : events[i] = "merge_done"
BarFollows ==
  /\ events \in Seq({"merge_progress", "merge_done", "scan_progress", "scan_done"})
  /\ scanning => Waiting({"scan"})
  /\ bar => Waiting({"scan", "batch"}) \/ EndComes
  /\ \A i \in DOMAIN events : events[i] = "merge_progress"
       => i < Len(events) /\ events[i + 1] = "merge_done"
=============================================================================
