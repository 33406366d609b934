------------------------------ MODULE MetaFiles ------------------------------
(***************************************************************************)
(* The meta files of an HCM model (HcmMetaFileBrowser.tsx), a file's       *)
(* content, the query that is run with it, and the meta data of the model  *)
(* that the window around it shows (HcmModelDetail.tsx).                   *)
(***************************************************************************)
EXTENDS Integers, FiniteSets

CONSTANTS
  Models, Names,  \* models; names of files, which models may share
  Patient,        \* one request for a file, a query or the list at a time, and the form rests meanwhile
  Relisted,       \* what is read and run is of the model that is typed
  Reliable,       \* what is asked for with a whole token can be read
  Signed,         \* the token is whole before anything is asked with it
  MaxCalls        \* bound: requests

Types == {"list", "info"}          \* KNOWN_BIZ_TYPES
Files == [model : Models, name : Names, type : Types]
Tokens == {"", "part", "whole"}
None == [model |-> "", name |-> "", type |-> ""]
Unlisted == [model |-> "", range |-> "", ok |-> FALSE]

VARIABLES
  model, bizType,       \* what is typed; the range, "" for all
  files, selected, file, body, result,
  loading, fileLoading, runLoading,
  token, meta, metaErr, metaLoading, \* "" for none, "part" while it is typed; the model's own meta data
  net, sent

form == <<model, bizType>>
chosen == <<selected, file, body, result>>
busy == <<loading, fileLoading, runLoading>>
detail == <<token, meta, metaErr, metaLoading>>
calls == <<net, sent>>
vars == <<form, files, chosen, busy, detail, calls>>

\* The window loads the meta data, and the files of the model that its address names.
Asked(n, kind, m, f, t) == [n |-> n, kind |-> kind, model |-> m, range |-> "", file |-> f, token |-> t]
Init ==
  /\ model \in Models /\ bizType = "" /\ files = Unlisted /\ selected = None /\ file = None /\ body = None /\ result = None
  /\ fileLoading = FALSE /\ runLoading = FALSE /\ token \in {"", "whole"} /\ meta = FALSE
  /\ metaErr = (token = "") /\ metaLoading = (token # "") /\ loading = (token # "")
  /\ net = IF token = "" THEN {} ELSE {Asked(0, k, model, None, token) : k \in {"files", "meta"}}
  /\ sent = 0

-----------------------------------------------------------------------------
Quiet == Patient => \A r \in net : r.kind = "meta"
Sends(kind, f) ==
  /\ sent < MaxCalls /\ sent' = sent + 1
  /\ net' = net \cup {[Asked(sent + 1, kind, model, f, token) EXCEPT !.range = bizType]}

EditModel(m) ==
  /\ m # model /\ Quiet /\ model' = m /\ UNCHANGED <<bizType, files, chosen, busy, detail, calls>>
PickRange(b) ==
  /\ b # bizType /\ Quiet /\ bizType' = b /\ UNCHANGED <<model, files, chosen, busy, detail, calls>>
\* "All" asks for every known type and puts the answers together.
LoadFiles ==
  /\ ~loading /\ token # "" /\ Quiet /\ Sends("files", None) /\ loading' = TRUE
  /\ UNCHANGED <<form, files, chosen, fileLoading, runLoading, detail>>
\* The rows: what was listed, narrowed to the range.
Listed == {f \in Files : files.ok /\ f.model = files.model /\ f.type \in (IF files.range = "" THEN Types ELSE {files.range})}
Shown == {f \in Listed : bizType \in {"", f.type}}
Fresh(f) == Relisted => f.model = model

LoadFileKeeps(f) ==                  \* mutant: the answer of the query stays
  /\ f \in Shown /\ Quiet /\ Fresh(f) /\ Sends("file", f) /\ selected' = f /\ fileLoading' = TRUE /\ file' = None
  /\ UNCHANGED <<form, files, result, body, loading, runLoading, detail>>
LoadFile(f) ==
  /\ f \in Shown /\ Quiet /\ Fresh(f) /\ Sends("file", f) /\ selected' = f /\ fileLoading' = TRUE /\ file' = None /\ result' = None
  /\ UNCHANGED <<form, files, body, loading, runLoading, detail>>
\* The body goes out as it stands, with the model that is typed; an empty one asks for the type of the file.
RunQuery ==
  /\ ~runLoading /\ selected # None /\ Quiet /\ Fresh(selected) /\ Sends("run", IF body = None THEN selected ELSE body) /\ runLoading' = TRUE
  /\ UNCHANGED <<form, files, chosen, loading, fileLoading, detail>>
\* The detail window loads anew with every key that is struck in the token, and on request.
LoadMeta(t) ==
  /\ sent < MaxCalls /\ token' = t /\ metaErr' = (t = "") /\ UNCHANGED <<form, files, chosen, busy, meta>>
  /\ IF t = "" THEN UNCHANGED <<net, sent, metaLoading>>
     ELSE sent' = sent + 1 /\ net' = net \cup {Asked(sent + 1, "meta", model, None, t)} /\ metaLoading' = TRUE
EditToken(t) == t # token /\ (Signed => t = "whole") /\ LoadMeta(t)
Refresh == ~metaLoading /\ token # "" /\ LoadMeta(token)

-----------------------------------------------------------------------------
Answered(r) == net' = net \ {r} /\ UNCHANGED <<form, sent>>
\* A token that is not whole opens nothing.
Succeeds(r) == IF r.token = "whole" THEN IF Reliable THEN {TRUE} ELSE BOOLEAN ELSE {FALSE}
\* One type that fails takes the others with it.
GotFiles(r) ==
  /\ r.kind = "files" /\ Answered(r) /\ loading' = FALSE /\ UNCHANGED <<chosen, fileLoading, runLoading, detail>>
  /\ \E ok \in Succeeds(r) : files' = [model |-> r.model, range |-> r.range, ok |-> ok]
\* An empty file falls back to the meta data of the model that is typed; a failed one leaves file and body.
GotFile(r) ==
  /\ r.kind = "file" /\ Answered(r) /\ fileLoading' = FALSE /\ UNCHANGED <<files, selected, result, loading, runLoading, detail>>
  /\ \E ok \in Succeeds(r), empty \in BOOLEAN :
       /\ file' = IF ok THEN [r.file EXCEPT !.model = IF empty THEN r.model ELSE @] ELSE file
       /\ body' = IF ok THEN r.file ELSE body
GotRun(r) ==
  /\ r.kind = "run" /\ Answered(r) /\ runLoading' = FALSE /\ UNCHANGED <<files, selected, file, body, loading, fileLoading, detail>>
  /\ \/ r.token = "whole" /\ result' = [r.file EXCEPT !.model = r.model]
     \/ result' = None
GotMeta(r) ==
  /\ r.kind = "meta" /\ Answered(r) /\ metaLoading' = FALSE /\ UNCHANGED <<files, chosen, busy, token>>
  /\ \E ok \in Succeeds(r) : meta' = (meta \/ ok) /\ metaErr' = (metaErr \/ ~ok)

User == \/ LoadFiles \/ RunQuery \/ Refresh
        \/ \E m \in Models : EditModel(m)
        \/ \E b \in Types \cup {""} : PickRange(b)
        \/ \E f \in Files : LoadFile(f)
        \/ \E t \in Tokens : EditToken(t)
Answers == \E r \in net : GotFiles(r) \/ GotFile(r) \/ GotRun(r) \/ GotMeta(r)
Next == User \/ Answers

Spec == Init /\ [][Next]_vars
-----------------------------------------------------------------------------
TypeOK ==
  /\ model \in Models /\ bizType \in Types \cup {""} /\ files.model \in Models \cup {""}
  /\ \A f \in {selected, file, body} : f \in Files \cup {None}
  /\ \A b \in {loading, fileLoading, runLoading, meta, metaErr, metaLoading} : b \in BOOLEAN
  /\ token \in Tokens /\ sent \in 0..MaxCalls

\* The content, and what the query brought, are of the file that the head names.
FileIsOfSelected == file # None => file = selected
ResultIsOfSelected == result # None => result = selected

\* With a whole token the window does not say that the model cannot be read.
ErrorIsOfToken == metaErr => token # "whole"
=============================================================================
