------------------------------ MODULE K8sFiles ------------------------------
(***************************************************************************)
(* The file panel of a pod (components/k8s/K8sFiles.tsx): the list of a    *)
(* directory, the editor of one file, deletion behind a confirmation,      *)
(* hits of a search.  Each handler keeps pod and path of its render.       *)
(***************************************************************************)
EXTENDS Integers, FiniteSets

CONSTANTS
  Pods, Dirs, Names,
  Patient,      \* the user waits for lists, reads and saves before the next step
  Careful,      \* edits are not left for the view mode
  Local,        \* hits that are opened lie in the directory that is shown
  MaxCalls, MaxEdits \* bounds

VARIABLES
  pod, path,    \* target.pod, path
  entries,      \* <<pod, dir>> that the list shows, or none
  selected,     \* <<pod, dir, name>> of the row as it was shown, or none
  ed,           \* the editor: file it came from, text, loaded text, mode, truncated; or none
  asks,         \* the confirmation that is open: none, close or delete
  net, sent,    \* requests under way, made so far
  harm          \* steps that hit another file than the one the user saw

vars == <<pod, path, entries, selected, ed, asks, net, sent, harm>>

None == <<>>
Files == Pods \X Dirs \X Names

Init ==
  /\ pod = (CHOOSE p \in Pods : TRUE) /\ path = (CHOOSE d \in Dirs : TRUE)
  /\ entries = None /\ selected = None /\ ed = None /\ asks = "none"
  /\ net = {} /\ sent = 0 /\ harm = {}

-----------------------------------------------------------------------------
Ask(r) == sent < MaxCalls /\ sent' = sent + 1 /\ net' = net \cup {[n |-> sent + 1, req |-> r]}
Free == asks = "none" /\ (Patient => net = {})
Behind == ed = None                  \* the editor's overlay covers the panel

\* listFiles(d) takes the selection away; the list stays until the answer.
ListFiles(p, d) ==
  /\ selected' = None /\ path' = d
  /\ Ask([kind |-> "list", at |-> <<p, d>>])

Browse(d) ==
  /\ Free /\ Behind /\ ListFiles(pod, d)
  /\ UNCHANGED <<pod, entries, ed, asks, harm>>

\* The effect of another pod.
SelectPod(p) ==
  /\ Free /\ Behind /\ p # pod /\ pod' = p
  /\ ListFiles(p, path)
  /\ UNCHANGED <<entries, ed, asks, harm>>

GotList(r, ok) ==
  /\ r \in net /\ r.req.kind = "list" /\ net' = net \ {r}
  /\ entries' = IF ok THEN r.req.at ELSE None
  /\ UNCHANGED <<pod, path, selected, ed, asks, sent, harm>>

SelectRow(n) ==
  /\ Free /\ Behind /\ entries # None
  /\ selected' = <<entries[1], entries[2], n>>
  /\ UNCHANGED <<pod, path, entries, ed, asks, net, sent, harm>>

-----------------------------------------------------------------------------
\* openFile reads path and name, the row came from the list.
Read(file, seen) == Ask([kind |-> "read", at |-> file, seen |-> seen])
OpenFile(n) ==
  /\ Free /\ Behind /\ entries # None
  /\ Read(<<pod, path, n>>, <<entries[1], entries[2], n>>)
  /\ UNCHANGED <<pod, path, entries, selected, ed, asks, harm>>

\* A hit of the search: its directory is listed, then its name is read - in
\* the directory of the render in which the hit was clicked.
OpenHit(d, n) ==
  /\ Free /\ Behind /\ (Local => d = path)
  /\ Ask([kind |-> "hit", at |-> <<pod, d>>, old |-> <<pod, path, n>>, seen |-> <<pod, d, n>>])
  /\ selected' = None /\ path' = d
  /\ UNCHANGED <<pod, entries, ed, asks, harm>>

GotHit(r, ok) ==
  /\ r \in net /\ r.req.kind = "hit"
  /\ sent < MaxCalls /\ sent' = sent + 1
  /\ net' = (net \ {r}) \cup {[n |-> sent + 1, req |-> [kind |-> "read", at |-> r.req.old, seen |-> r.req.seen]]}
  /\ entries' = IF ok THEN r.req.at ELSE None
  /\ UNCHANGED <<pod, path, selected, ed, asks, harm>>

\* Binary files and failures open nothing.
GotRead(r, ok) ==
  /\ r \in net /\ r.req.kind = "read" /\ net' = net \ {r}
  /\ \E cut \in BOOLEAN :
       ed' = IF ok THEN [file |-> r.req.at, text |-> 0, loaded |-> IF cut THEN -1 ELSE 0,
                         edit |-> FALSE, cut |-> cut]
             ELSE ed
  /\ harm' = harm \cup {h \in {"open"} : ok /\ r.req.at # r.req.seen}
                  \cup {h \in {"lost"} : ok /\ ed # None /\ ed.text # ed.loaded /\ ~ed.cut}
  /\ UNCHANGED <<pod, path, entries, selected, asks, sent>>

EditDirty == ed.loaded # -1 /\ ed.text # ed.loaded

\* View and edit mode; in view mode closeEditor does not see the edits.
EditMode == /\ ed # None /\ asks = "none" /\ (Careful => ~EditDirty) /\ ed' = [ed EXCEPT !.edit = ~@]
            /\ UNCHANGED <<pod, path, entries, selected, asks, net, sent, harm>>
Type == /\ ed # None /\ asks = "none" /\ ed.edit /\ ed.text < MaxEdits /\ ed' = [ed EXCEPT !.text = @ + 1]
        /\ UNCHANGED <<pod, path, entries, selected, asks, net, sent, harm>>

\* saveFile writes to the chosen pod what the editor holds; not a cut text.
CanSaveCut == ed.edit /\ (ed.text # ed.loaded)   \* mutant: a cut text may be saved
CanSave == ed.edit /\ EditDirty /\ ~ed.cut
SaveFile ==
  /\ ed # None /\ asks = "none" /\ (Patient => net = {}) /\ CanSave
  /\ Ask([kind |-> "write", at |-> <<pod, ed.file[2], ed.file[3]>>, text |-> ed.text, list |-> <<pod, path>>])
  /\ harm' = harm \cup {h \in {"cut"} : ed.cut} \cup {h \in {"write"} : ed.file[1] # pod}
  /\ UNCHANGED <<pod, path, entries, selected, ed, asks>>

\* Saved: what was sent is the loaded text of the editor, whichever file is
\* in it now; the list of that render is fetched again.
GotWrite(r, ok) ==
  /\ r \in net /\ r.req.kind = "write"
  /\ IF ok
     THEN /\ sent < MaxCalls /\ sent' = sent + 1
          /\ net' = (net \ {r}) \cup {[n |-> sent + 1, req |-> [kind |-> "list", at |-> r.req.list]]}
          /\ selected' = None /\ path' = r.req.list[2]
          /\ ed' = IF ed = None THEN None ELSE [ed EXCEPT !.loaded = r.req.text]
          /\ harm' = harm \cup {h \in {"moved"} : path # r.req.list[2]}
     ELSE net' = net \ {r} /\ UNCHANGED <<sent, selected, path, ed, harm>>
  /\ UNCHANGED <<pod, entries, asks>>

\* closeEditor asks when there are edits.
CloseOnClick == ed # None /\ asks = "none" /\ ed' = None    \* mutant: without asking
  /\ harm' = harm \cup {h \in {"lost"} : ed.edit /\ EditDirty}
  /\ UNCHANGED <<pod, path, entries, selected, asks, net, sent>>
CloseEditor ==
  /\ ed # None /\ asks = "none"
  /\ IF ed.edit /\ EditDirty THEN asks' = "close" /\ UNCHANGED ed ELSE ed' = None /\ UNCHANGED asks
  /\ harm' = harm \cup {h \in {"lost"} : ed' = None /\ EditDirty}
  /\ UNCHANGED <<pod, path, entries, selected, net, sent>>

Del ==
  /\ Free /\ Behind /\ selected # None /\ asks' = "delete"
  /\ UNCHANGED <<pod, path, entries, selected, ed, net, sent, harm>>

Answer(yes) ==
  /\ asks # "none" /\ asks' = "none"
  /\ IF yes /\ asks = "delete"
     THEN /\ Ask([kind |-> "change", list |-> <<pod, path>>])
          /\ harm' = harm \cup {h \in {"delete"} : selected # <<pod, path, selected[3]>>}
          /\ UNCHANGED ed
     ELSE ed' = (IF yes THEN None ELSE ed) /\ UNCHANGED <<net, sent, harm>>
  /\ UNCHANGED <<pod, path, entries, selected>>

\* mkdir, upload.
Make ==
  /\ Free /\ Behind /\ Ask([kind |-> "change", list |-> <<pod, path>>])
  /\ UNCHANGED <<pod, path, entries, selected, ed, asks, harm>>

\* del, mkdir, upload come back; the list is fetched again.
GotChange(r, ok) ==
  /\ r \in net /\ r.req.kind = "change"
  /\ IF ok
     THEN /\ sent < MaxCalls /\ sent' = sent + 1
          /\ net' = (net \ {r}) \cup {[n |-> sent + 1, req |-> [kind |-> "list", at |-> r.req.list]]}
          /\ selected' = None /\ path' = r.req.list[2]
          /\ harm' = harm \cup {h \in {"moved"} : path # r.req.list[2]}
     ELSE net' = net \ {r} /\ UNCHANGED <<sent, selected, path, harm>>
  /\ UNCHANGED <<pod, entries, ed, asks>>

-----------------------------------------------------------------------------
User ==
  \/ \E d \in Dirs : Browse(d) \/ \E n \in Names : OpenHit(d, n)
  \/ \E p \in Pods : SelectPod(p)
  \/ \E n \in Names : SelectRow(n) \/ OpenFile(n)
  \/ EditMode \/ Type \/ SaveFile \/ CloseEditor \/ Del \/ Make \/ \E yes \in BOOLEAN : Answer(yes)
Answers == \E r \in net, ok \in BOOLEAN :
  GotList(r, ok) \/ GotHit(r, ok) \/ GotRead(r, ok) \/ GotWrite(r, ok) \/ GotChange(r, ok)
Next == User \/ Answers

Spec == Init /\ [][Next]_vars
-----------------------------------------------------------------------------
TypeOK ==
  /\ pod \in Pods /\ path \in Dirs /\ entries \in {None} \cup (Pods \X Dirs)
  /\ selected \in {None} \cup Files /\ asks \in {"none", "close", "delete"} /\ sent \in 0..MaxCalls
  /\ ed # None => ed.file \in Files

\* When nothing is on its way the list is of the chosen pod and directory.
ListIsOfPath == net = {} => entries \in {None, <<pod, path>>}

(***************************************************************************)
(* What is opened, written and deleted is the file that the user saw and   *)
(* chose; a cut text is never written back; edits go only when the user    *)
(* says so; nobody is taken to another directory by a late answer.         *)
(***************************************************************************)
NoHarm == harm = {}
=============================================================================
