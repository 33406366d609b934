------------------------------- MODULE FileTree -------------------------------
(***************************************************************************)
(* The file tree (components/FileTree.tsx) of the selected repository or   *)
(* of a local directory, the jump to a pasted path and the search.  All    *)
(* places have the same names, so rows are just the place they were read   *)
(* from; the server's selection follows the page's (see Workbench).        *)
(***************************************************************************)
EXTENDS Integers, FiniteSets

CONSTANTS
  Repos, LocalDirs, Dirs, Words,
  Patient,      \* no folder is toggled while the page jumps, no place is changed while anything is under way
  Folded,       \* no folder has been opened and nothing searched when the place is changed
  Remote,       \* contents are searched only when the tree is the repository's
  Exists,       \* a local directory that is named is there
  Prompt,       \* a search is answered, and the rows are there, before the box is edited again
  MaxCalls      \* bound

VARIABLES
  selectedRepo, treeLocalDir,
  rootEntries, dirCache, expanded, treeError, \* places of the rows, open folders
  jumping, jumpFocus, selectedFile, \* places of the highlighted and of the selected row
  searchQ, searchScope, timer,  \* the timer has the places of the rows its render saw
  searchResults,                \* none, or the question and the places of the hits
  net, calls

\* No name, no place.
Blank == ""
place == <<selectedRepo, treeLocalDir>>
rows == <<rootEntries, dirCache, expanded, treeError>>
search == <<searchQ, searchScope, timer, searchResults>>
vars == <<place, rows, jumping, jumpFocus, selectedFile, search, net, calls>>

Nothing == [word |-> Blank, scope |-> "filename", of |-> {}]
Off == {"off"}
Place == IF treeLocalDir # Blank THEN treeLocalDir ELSE selectedRepo
Bare == "bare"                       \* a folder that was read and has no rows
RowsOf == ({rootEntries} \cup {dirCache[d] : d \in Dirs}) \ {Blank, Bare}
\* A local directory that is not there is read as if none was named.
ReadsOf(p) == {p} \cup IF ~Exists /\ p \in LocalDirs /\ selectedRepo # Blank THEN {selectedRepo} ELSE {}

Init ==
  /\ selectedRepo = Blank /\ treeLocalDir = Blank
  /\ rootEntries = Blank /\ dirCache = [d \in Dirs |-> Blank] /\ expanded = {} /\ treeError = FALSE
  /\ jumping = FALSE /\ jumpFocus = Blank /\ selectedFile = Blank
  /\ searchQ = Blank /\ searchScope = "filename" /\ timer = Off /\ searchResults = Nothing
  /\ net = {} /\ calls = 0

Ask(kind, dir, word, of, cache) ==
  [n |-> calls + 1, kind |-> kind, dir |-> dir, word |-> word, of |-> of, cache |-> cache]
Send(r) == calls < MaxCalls /\ calls' = calls + 1 /\ net' = net \cup {r}
NoRows == [d \in Dirs |-> Blank]
Free == /\ (Patient => net = {})
        /\ (Folded => expanded = {} /\ dirCache = NoRows /\ searchQ = Blank /\ timer = Off)

-----------------------------------------------------------------------------
\* loadRoot, in the effect of repository and local directory.
LoadRoot(p) == treeError' = FALSE /\ \E of \in ReadsOf(p) : Send(Ask("root", Blank, Blank, of, NoRows))
Emptied ==
  /\ rootEntries' = Blank /\ dirCache' = NoRows /\ expanded' = {} /\ jumpFocus' = Blank
  /\ UNCHANGED <<treeError, net, calls>>

SelectRepo(r) ==
  /\ Free /\ r # selectedRepo /\ selectedRepo' = r /\ selectedFile' \in {Blank, selectedFile}
  /\ LoadRoot(IF treeLocalDir # Blank THEN treeLocalDir ELSE r)
  /\ UNCHANGED <<treeLocalDir, rootEntries, dirCache, expanded, jumping, jumpFocus, search>>
\* The draft of the field is taken when the user leaves it.
CommitLocalDir(v) ==
  /\ Free /\ v # treeLocalDir /\ treeLocalDir' = v
  /\ IF v = Blank /\ selectedRepo = Blank THEN Emptied
     ELSE LoadRoot(IF v # Blank THEN v ELSE selectedRepo) /\ UNCHANGED <<rootEntries, dirCache, expanded, jumpFocus>>
  /\ UNCHANGED <<selectedRepo, jumping, selectedFile, search>>

GotRoot(r, ok) ==
  /\ r.kind = "root" /\ net' = net \ {r}
  /\ rootEntries' = (IF ok THEN r.of ELSE Blank) /\ treeError' = ~ok
  /\ UNCHANGED <<place, dirCache, expanded, jumping, jumpFocus, selectedFile, search, calls>>

ToggleDir(d) ==
  /\ rootEntries # Blank /\ (Patient => ~jumping)
  /\ IF d \in expanded \/ dirCache[d] # Blank
     THEN expanded' = (IF d \in expanded THEN expanded \ {d} ELSE expanded \cup {d}) /\ UNCHANGED <<net, calls>>
     ELSE (\E of \in ReadsOf(Place) : Send(Ask("kids", d, Blank, of, NoRows))) /\ UNCHANGED expanded
  /\ UNCHANGED <<place, rootEntries, dirCache, treeError, jumping, jumpFocus, selectedFile, search>>
\* An answer that names an error is taken for a folder without rows.
GotKids(r, ok) ==
  /\ r.kind = "kids" /\ net' = net \ {r}
  /\ IF ok THEN /\ \E of \in {r.of, Bare} : dirCache' = [dirCache EXCEPT ![r.dir] = of]
                /\ expanded' = expanded \cup {r.dir}
           ELSE UNCHANGED <<dirCache, expanded>>
  /\ UNCHANGED <<place, rootEntries, treeError, jumping, jumpFocus, selectedFile, search, calls>>
OnFileClick(p) == p \in RowsOf /\ p # selectedFile /\ selectedFile' = p
                  /\ UNCHANGED <<place, rows, jumping, jumpFocus, search, net, calls>>

-----------------------------------------------------------------------------
\* The path of something in folder d.  The request goes with the folders that
\* the render of the click had.
GotoPath(d) ==
  /\ Place # Blank /\ ~jumping /\ (Patient => net = {})
  /\ jumping' = TRUE /\ Send(Ask("jump", d, Blank, Place, dirCache))
  /\ UNCHANGED <<place, rows, jumpFocus, selectedFile, search>>
\* All levels come, those that are not there without rows.
LevelsDropOthers(r, there) ==        \* mutant: the folders of before are left out
  /\ dirCache' = [d \in Dirs |-> IF d # r.dir THEN Blank ELSE IF there THEN r.of ELSE Bare]
  /\ expanded' = expanded \cup ({r.dir} \cap Dirs)
Levels(r, there) ==
  /\ dirCache' = [d \in Dirs |-> IF d # r.dir THEN r.cache[d] ELSE IF there THEN r.of ELSE Bare]
  /\ expanded' = expanded \cup ({r.dir} \cap Dirs)
GotJump(r, there) ==
  /\ r.kind = "jump" /\ net' = net \ {r} /\ jumping' = FALSE
  /\ rootEntries' = r.of /\ Levels(r, there)
  /\ \/ UNCHANGED <<selectedFile, jumpFocus>>
     \/ there /\ jumpFocus' = r.of /\ selectedFile' \in {r.of, selectedFile}
  /\ UNCHANGED <<place, treeError, search, calls>>
JumpFails(r) ==
  /\ r.kind = "jump" /\ net' = net \ {r} /\ jumping' = FALSE
  /\ treeError' \in {treeError, TRUE}
  /\ UNCHANGED <<place, rootEntries, dirCache, expanded, jumpFocus, selectedFile, search, calls>>

-----------------------------------------------------------------------------
\* Word and scope start the timer anew.
SetSearch(w, s) ==
  /\ <<w, s>> # <<searchQ, searchScope>>
  /\ searchQ' = w /\ searchScope' = s /\ timer' = RowsOf
  /\ (Prompt => \A r \in net : r.kind \notin {"search", "root"})
  /\ (Remote /\ s = "content" => treeLocalDir = Blank /\ selectedRepo # Blank)
  /\ UNCHANGED <<place, rows, jumping, jumpFocus, selectedFile, searchResults, net, calls>>
RunSearch ==
  /\ timer # Off /\ timer' = Off
  /\ IF searchQ = Blank THEN searchResults' = Nothing /\ UNCHANGED <<net, calls>>
     ELSE IF searchScope = "filename"
     THEN searchResults' = [word |-> searchQ, scope |-> "filename", of |-> timer] /\ UNCHANGED <<net, calls>>
     ELSE Send(Ask("search", Blank, searchQ, selectedRepo, NoRows)) /\ UNCHANGED searchResults
  /\ UNCHANGED <<place, rows, jumping, jumpFocus, selectedFile, searchQ, searchScope>>
GotSearch(r, ok) ==
  /\ r.kind = "search" /\ net' = net \ {r} /\ (ok => r.of # Blank)
  /\ searchResults' = IF ok THEN [word |-> r.word, scope |-> "content", of |-> {r.of}] ELSE Nothing
  /\ UNCHANGED <<place, rows, jumping, jumpFocus, selectedFile, searchQ, searchScope, timer, calls>>
OpenHit(p) ==
  /\ p \in searchResults.of /\ p # selectedFile /\ selectedFile' = p
  /\ UNCHANGED <<place, rows, jumping, jumpFocus, search, net, calls>>

SearchBox == \E w \in Words \cup {Blank} : \E s \in {"filename", "content"} : SetSearch(w, s)
Next ==
  \/ \E r \in Repos : SelectRepo(r)
  \/ \E v \in LocalDirs \cup {Blank} : CommitLocalDir(v)
  \/ (\E d \in Dirs : ToggleDir(d)) \/ \E d \in Dirs \cup {Blank} : GotoPath(d)
  \/ \E p \in RowsOf \cup searchResults.of : OnFileClick(p) \/ OpenHit(p)
  \/ SearchBox \/ RunSearch
  \/ \E r \in net : JumpFails(r) \/ \E ok \in BOOLEAN : GotRoot(r, ok) \/ GotKids(r, ok) \/ GotJump(r, ok) \/ GotSearch(r, ok)

Spec == Init /\ [][Next]_vars
-----------------------------------------------------------------------------
Places == Repos \cup LocalDirs \cup {Blank}
TypeOK ==
  /\ selectedRepo \in Repos \cup {Blank} /\ treeLocalDir \in LocalDirs \cup {Blank}
  /\ {rootEntries, jumpFocus, selectedFile} \subseteq Places /\ dirCache \in [Dirs -> Places \cup {Bare}]
  /\ expanded \subseteq Dirs /\ searchQ \in Words \cup {Blank} /\ searchScope \in {"filename", "content"} /\ searchResults.of \subseteq Places
  /\ (jumping <=> \E r \in net : r.kind = "jump")

\* When nothing is under way, all rows are of the place the tree is of.
RowsAreOfPlace == net = {} => RowsOf \subseteq {Place}

\* An open folder has its rows: what was read stays.
OpenHasRows == \A d \in expanded : dirCache[d] # Blank

\* A jump is under way alone, but for a search, and knows the folders as they are.
JumpIsAlone ==
  /\ OpenHasRows /\ \A r \in net : r.kind = "kids" => r.of # Blank /\ r.dir \in Dirs
  /\ DOMAIN dirCache = Dirs /\ expanded \subseteq Dirs
  /\ Place = Blank => rootEntries = Blank /\ \A r \in net : r.kind = "search"
  /\ \A r \in net : r.kind = "jump" => /\ jumping /\ r.cache = dirCache /\ r.of # Blank
                                      /\ \A q \in net : q = r \/ q.kind = "search"

\* Hits are for the question that is in the box, and of the place the tree is of.
HitsAreOfQuestion ==
  timer = Off /\ searchResults # Nothing /\ (\A r \in net : r.kind # "search") =>
    /\ searchResults.word = searchQ /\ searchResults.scope = searchScope
    /\ searchResults.of \subseteq {Place}
\* Rows, requests for rows and the rows a search is about to look through are of the place,
\* but for the root while it is read anew; a search on its way is for what the box says.
RowsFollow ==
  /\ \A d \in Dirs : dirCache[d] \in {Blank, Bare, Place}
  /\ rootEntries \in {Blank, Place} \/ \E r \in net : r.kind = "root"
  /\ \A r \in net : r.kind # "search" => r.of = Place
SearchFollows ==
  /\ timer # Off => timer \subseteq {Place} /\ (searchScope = "content" => treeLocalDir = Blank)
  /\ \A r \in net : r.kind = "search" =>
       timer = Off /\ r.of = Place /\ r.word = searchQ /\ searchQ # Blank /\ searchScope = "content"
  /\ searchResults # Nothing => searchResults.word # Blank
  /\ HitsAreOfQuestion
=============================================================================
