------------------------------ MODULE HcmObjects -----------------------------
(***************************************************************************)
(* The object browser of the HCM tab (components/hcm/HcmObjectBrowser.tsx):*)
(* list of objects, metadata and records of one, export of its records.    *)
(* Each request goes to the server that was chosen when it was made.       *)
(***************************************************************************)
EXTENDS Integers, FiniteSets

CONSTANTS
  Envs, Objects,
  Ordered,      \* answers come back in the order of their requests
  Reliable,     \* requests for metadata do not fail
  Linked,       \* the object that the window was opened for (hcm-model), or none
  MaxCalls, MaxOpen \* bounds: requests in all, and under way at once

None == "none"
Nothing == <<>>

VARIABLES
  env,          \* selectedEnv
  token,        \* fresh, expired or blank
  page,         \* page of the list
  due,          \* the list's timer (250 ms) runs
  linkDue,      \* the timer (700 ms) of the window's own object runs
  items,        \* <<server, page>> the list shows, or none
  selected, meta, \* the object, the object and server that meta describes
  data,         \* <<object, server, page>> of dataResult, or none
  dataPage,
  flags,        \* loading, metaLoading, dataLoading, dataLogBusy
  busy,         \* dataExportBusy
  net, sent     \* requests under way, so far

look == <<selected, meta, data, dataPage>>
vars == <<env, token, page, due, linkDue, items, look, flags, busy, net, sent>>

Init ==
  /\ env = (CHOOSE e \in Envs : TRUE) /\ token = "expired" /\ page = 1 /\ due = TRUE /\ linkDue = (Linked # None)
  /\ items = Nothing /\ selected = None /\ meta = Nothing /\ data = Nothing /\ dataPage = 1
  /\ flags = {} /\ busy = FALSE
  /\ net = {} /\ sent = 0

-----------------------------------------------------------------------------
\* directCall, directCallRaw: the closure keeps server and object.
DirectCall(kind, obj, pg) ==
  /\ sent < MaxCalls /\ Cardinality(net) < MaxOpen /\ sent' = sent + 1
  /\ net' = net \cup {[n |-> sent + 1, kind |-> kind, env |-> env, obj |-> obj, page |-> pg]}
Quiet == UNCHANGED <<net, sent>>

\* loadList, run by its timer; without a token it leaves the list as it is.
LoadList ==
  /\ due /\ due' = FALSE
  /\ IF token = "blank" THEN Quiet /\ UNCHANGED flags
     ELSE DirectCall("list", None, page) /\ flags' = flags \cup {"list"}
  /\ UNCHANGED <<env, token, page, linkDue, items, look, busy>>

\* loadMeta resets all that belongs to the object before, the export's flag too.
LoadMeta(o) ==
  /\ selected' = o /\ meta' = Nothing /\ data' = Nothing /\ dataPage' = 1 /\ busy' = FALSE
  /\ DirectCall("meta", o, 0) /\ flags' = flags \cup {"meta"}

SelectObject(o) ==
  /\ items # Nothing
  /\ LoadMeta(o)
  /\ UNCHANGED <<env, token, page, due, linkDue, items>>

\* Another kind of the metadata of the same object.
PickKind == selected # None /\ LoadMeta(selected) /\ UNCHANGED <<env, token, page, due, linkDue, items>>

\* The window's own object; every new list starts this timer again.
LinkTimer ==
  /\ linkDue /\ linkDue' = FALSE
  /\ LoadMeta(Linked)
  /\ UNCHANGED <<env, token, page, due, items>>

LoadData(pg) ==
  /\ dataPage' = pg
  /\ IF token = "blank" THEN Quiet /\ UNCHANGED flags
     ELSE DirectCall("data", selected, pg) /\ flags' = flags \cup {"data"}
  /\ UNCHANGED <<env, token, page, due, linkDue, items, selected, meta, data, busy>>
RowsShown == selected # None /\ data # Nothing /\ "data" \notin flags

\* The data tab loads once, a query, another page or another size of it again; the
\* Enter key does not wait for the rows that are loading.
EnsureData == selected # None /\ data = Nothing /\ "data" \notin flags /\ LoadData(dataPage)
ApplyDataQuery == selected # None /\ LoadData(1)
ResizePage == RowsShown /\ LoadData(1)
TurnDataPage(pg) == RowsShown /\ pg # dataPage /\ LoadData(pg)

\* exportCurrentResult, copyCurrentResult: object, server and fields of the file
\* are those of the click, which the closure keeps while the rows come in.
ExportCurrentResult ==
  /\ RowsShown /\ ~busy
  /\ busy' = TRUE /\ DirectCall("export", selected, 0)
  /\ UNCHANGED <<env, token, page, due, linkDue, items, look, flags>>

\* The log or the profile that the server has kept of the query.
DownloadTempFile ==
  /\ RowsShown /\ "log" \notin flags
  /\ flags' = flags \cup {"log"} /\ DirectCall("temp", selected, 0)
  /\ UNCHANGED <<env, token, page, due, linkDue, items, look, busy>>

\* Another server: the list is due; object, metadata and records stay.
SelectEnv(e) ==
  /\ e # env /\ env' = e /\ due' = TRUE
  /\ Quiet /\ UNCHANGED <<token, page, linkDue, items, look, flags, busy>>

TurnPageOn(p) ==                     \* mutant: "next" on the last page too
  /\ items # Nothing /\ page' = page + 1 /\ due' = TRUE
  /\ Quiet /\ UNCHANGED <<env, token, linkDue, items, look, flags, busy>>
TurnPage(p) == p # page /\ items # Nothing /\ page' = p /\ due' = TRUE
  /\ Quiet /\ UNCHANGED <<env, token, linkDue, items, look, flags, busy>>

\* Another text or category to look for: from the first page.
Search == page' = 1 /\ due' = TRUE
  /\ Quiet /\ UNCHANGED <<env, token, linkDue, items, look, flags, busy>>

ClearToken == token # "blank" /\ token' = "blank" /\ due' = TRUE
  /\ Quiet /\ UNCHANGED <<env, page, linkDue, items, look, flags, busy>>

-----------------------------------------------------------------------------
\* ensureFreshToken signs in again before the request, which makes the list due.
EnsureFreshToken ==
  /\ token = "expired" /\ net # {}
  /\ token' = "fresh" /\ due' = TRUE
  /\ Quiet /\ UNCHANGED <<env, page, linkDue, items, look, flags, busy>>

\* The answer, ok or not (the server's refusal, no connection, a failed sign-in).
Got(r, kind, ok) ==
  /\ r \in net /\ r.kind = kind
  /\ Ordered => \A s \in net : s.kind = kind => s.n >= r.n
  /\ Reliable /\ kind = "meta" => ok
  /\ net' = net \ {r}
Done(flag) == flags' = flags \ {flag}

\* Any answer to the list, also a failed one (which empties it), changes
\* items and starts the window's timer.
GotList(r, ok) ==
  /\ Got(r, "list", ok) /\ Done("list")
  /\ items' = IF ok THEN <<r.env, r.page>> ELSE Nothing
  /\ linkDue' = (Linked # None)
  /\ UNCHANGED <<env, token, page, due, look, busy, sent>>

GotMetaOnce(r, ok) ==                    \* mutant: the first answer stays
  /\ Got(r, "meta", ok) /\ Done("meta")
  /\ meta' = IF ok /\ meta = Nothing THEN <<r.obj, r.env>> ELSE meta
  /\ UNCHANGED <<env, token, page, due, linkDue, items, selected, data, dataPage, busy, sent>>

GotMeta(r, ok) ==
  /\ Got(r, "meta", ok) /\ Done("meta")
  /\ meta' = IF ok THEN <<r.obj, r.env>> ELSE meta
  /\ UNCHANGED <<env, token, page, due, linkDue, items, selected, data, dataPage, busy, sent>>

GotData(r, ok) ==
  /\ Got(r, "data", ok) /\ Done("data")
  /\ data' = IF ok THEN <<r.obj, r.env, r.page>> ELSE Nothing
  /\ UNCHANGED <<env, token, page, due, linkDue, items, selected, meta, dataPage, busy, sent>>

GotTemp(r, ok) ==
  /\ Got(r, "temp", ok) /\ Done("log")
  /\ UNCHANGED <<env, token, page, due, linkDue, items, look, busy, sent>>

GotRows(r, ok) ==
  /\ Got(r, "export", ok)
  /\ busy' = FALSE
  /\ UNCHANGED <<env, token, page, due, linkDue, items, look, flags, sent>>

-----------------------------------------------------------------------------
ListPane == Search \/ (\E o \in Objects : SelectObject(o)) \/ (\E p \in 1..2 : TurnPage(p))
Tabs == EnsureData \/ PickKind
Footer == ResizePage \/ ExportCurrentResult \/ DownloadTempFile \/ \E p \in 1..2 : TurnDataPage(p)
User == ListPane \/ Tabs \/ ApplyDataQuery \/ Footer \/ ClearToken \/ \E e \in Envs : SelectEnv(e)
Timers == LoadList \/ LinkTimer
Answers == \E r \in net, ok \in BOOLEAN :
  GotList(r, ok) \/ GotMeta(r, ok) \/ GotData(r, ok) \/ GotTemp(r, ok) \/ GotRows(r, ok)
Next == User \/ Timers \/ EnsureFreshToken \/ Answers

Spec == Init /\ [][Next]_vars
-----------------------------------------------------------------------------
TypeOK ==
  /\ env \in Envs /\ token \in {"fresh", "expired", "blank"} /\ page \in 1..2 /\ dataPage \in 1..2
  /\ due \in BOOLEAN /\ linkDue \in BOOLEAN /\ selected \in Objects \cup {None}
  /\ items \in {Nothing} \cup (Envs \X (1..2)) /\ meta \in {Nothing} \cup (Objects \X Envs)
  /\ data \in {Nothing} \cup (Objects \X Envs \X (1..2))
  /\ flags \subseteq {"list", "meta", "data", "log"} /\ busy \in BOOLEAN
  /\ sent \in 0..MaxCalls

(***************************************************************************)
(* When nothing is on its way, list and metadata are those of the chosen   *)
(* server, page and object (without a token the list is left as it was).   *)
(***************************************************************************)
ShownIsChosen ==
  net = {} /\ ~due =>
    /\ token # "blank" => items \in {Nothing, <<env, page>>}
    /\ meta # Nothing => meta[1] = selected

\* Also the records (broken when the object is changed while they load).
DataIsOfSelected == net = {} /\ data # Nothing => data[1] = selected

\* No waiting sign is left when nothing is on its way.
SignsGo == net = {} => flags = {} /\ ~busy
=============================================================================
