------------------------------ MODULE PlainLogs ------------------------------
(***************************************************************************)
(* The cloud function logs of the Tauri page (tauri/web/app.js): a query   *)
(* for one page, the search within what was loaded, the order by time,     *)
(* which first loads the other pages, and the export.                      *)
(***************************************************************************)
EXTENDS Integers, Sequences, FiniteSets

CONSTANTS
  Servers, PageSize,
  Total,        \* server -> number of its logs
  FromFirst,    \* the order is changed only on the first page
  Steady,       \* queries are answered, in their order
  MaxCalls      \* bound: requests

VARIABLES
  server, asked, \* the form's server; what was asked for last: server and page
  result,       \* CF_LAST_LOG_RESULT: server, page, rows, whether loading stopped early; or None
  table,        \* a text, or what is drawn: server, page, rows
  canExport,    \* the button of the export
  sorting,      \* ensureAllCfLogs: its next page, and whether its result is still the one of the page
  net, sent,    \* requests under way, so far
  faithful      \* each export so far was of the rows that are drawn

vars == <<server, asked, result, table, canExport, sorting, net, sent, faithful>>

None == <<>>
Blank == ""
Text(t) == [text |-> t, server |-> Blank, page |-> 0, rows |-> <<>>]
Rendered(r) == [text |-> "rows", server |-> r.server, page |-> r.page, rows |-> r.rows]
Idle == [next |-> 0, live |-> FALSE, rows |-> <<>>, server |-> Blank]

Init ==
  /\ server = (CHOOSE s \in Servers : TRUE) /\ asked = None /\ result = None /\ table = Text(Blank) /\ canExport = FALSE
  /\ sorting = Idle /\ net = {} /\ sent = 0 /\ faithful = TRUE

-----------------------------------------------------------------------------
Least(a, b) == IF a < b THEN a ELSE b
Pages == 1..3
PageRows(s, p) ==
  LET from == (p - 1) * PageSize
      n == Least(PageSize, Total[s] - from)
  IN [k \in 1..(IF n < 0 THEN 0 ELSE n) |-> from + k]
Full(s, rows) == Len(rows) >= Total[s]

Req(kind, s, p) == [n |-> sent + 1, kind |-> kind, server |-> s, page |-> p]
Answer(r, kind) == r.kind = kind /\ (Steady => \A q \in net : q.kind = kind => r.n <= q.n)

SetServer(s) ==
  /\ s # server /\ server' = s
  /\ UNCHANGED <<asked, result, table, canExport, sorting, net, sent, faithful>>

\* The button waits for the answer, the keyboard and the buttons of the pages do not.
Query(p) ==
  /\ sent < MaxCalls /\ sent' = sent + 1 /\ net' = net \cup {Req("query", server, p)}
  /\ asked' = <<server, p>> /\ table' = Text("loading")
  /\ UNCHANGED <<server, result, canExport, sorting, faithful>>

GotQuery(r) ==
  /\ Answer(r, "query") /\ net' = net \ {r}
  /\ \/ LET new == [server |-> r.server, page |-> r.page, rows |-> PageRows(r.server, r.page), cut |-> FALSE] IN
        /\ result' = new /\ canExport' = (new.rows # <<>>)
        /\ table' = IF new.rows = <<>> THEN Text(Blank) ELSE Rendered(new)
        /\ sorting' = [sorting EXCEPT !.live = FALSE]
     \/ ~Steady /\ table' = Text("failed") /\ canExport' = FALSE /\ UNCHANGED <<result, sorting>>
  /\ UNCHANGED <<server, asked, sent, faithful>>

\* renderCfResults draws what was loaded last, also behind a query that failed or still runs.
Drawn == result # None /\ result.rows # <<>>
Search ==
  /\ Drawn /\ (Steady => net = {}) /\ table' = Rendered(result)
  /\ UNCHANGED <<server, asked, result, canExport, sorting, net, sent, faithful>>

-----------------------------------------------------------------------------
\* ensureAllCfLogs: the pages behind as many rows as were loaded, whichever page they are of.
NextPageAgain(r) == LET k == Len(r.rows) \div PageSize IN IF k < 1 THEN 1 ELSE k  \* mutant: off by one
NextPage(r) == LET k == Len(r.rows) \div PageSize + 1 IN IF k < 2 THEN 2 ELSE k

SortTime ==
  /\ Drawn /\ sorting = Idle /\ (FromFirst => result.page = 1) /\ (Steady => net = {})
  /\ IF Full(result.server, result.rows) THEN table' = Rendered(result) /\ UNCHANGED <<sorting, net, sent>>
     ELSE /\ sent < MaxCalls /\ sent' = sent + 1 /\ net' = net \cup {Req("more", result.server, NextPage(result))}
          /\ sorting' = [next |-> NextPage(result), live |-> TRUE, rows |-> result.rows, server |-> result.server]
          /\ UNCHANGED table
  /\ UNCHANGED <<server, asked, result, canExport, faithful>>

\* Rows are appended to the result that was there at the click.
GotMore(r) ==
  /\ Answer(r, "more")
  /\ \E new \in {PageRows(r.server, r.page)} \cup (IF Steady THEN {} ELSE {<<>>}) :
       LET rows == sorting.rows \o new
           kept == IF sorting.live THEN [result EXCEPT !.rows = rows, !.cut = (new = <<>>)] ELSE result
       IN /\ result' = kept
          /\ IF new # <<>> /\ ~Full(r.server, rows)
             THEN /\ sent < MaxCalls /\ sent' = sent + 1
                  /\ net' = (net \ {r}) \cup {Req("more", r.server, sorting.next + 1)}
                  /\ sorting' = [sorting EXCEPT !.next = @ + 1, !.rows = rows] /\ UNCHANGED table
             ELSE /\ net' = net \ {r} /\ sorting' = Idle /\ table' = Rendered(kept) /\ UNCHANGED sent
  /\ UNCHANGED <<server, asked, canExport, faithful>>

Export ==
  /\ canExport /\ Drawn /\ (Steady => net = {}) /\ faithful' = (faithful /\ table.rows = result.rows)
  /\ UNCHANGED <<server, asked, result, table, canExport, sorting, net, sent>>

User == (\E s \in Servers : SetServer(s)) \/ (\E p \in Pages : Query(p)) \/ Search \/ SortTime \/ Export
Next == User \/ \E r \in net : GotQuery(r) \/ GotMore(r)

Spec == Init /\ [][Next]_vars
-----------------------------------------------------------------------------
Rows(s) == 1..Total[s]
TypeOK ==
  /\ server \in Servers /\ sent \in 0..MaxCalls /\ sorting.next \in 0..4
  /\ result # None => result.server \in Servers /\ result.page \in Pages /\ \A k \in 1..Len(result.rows) : result.rows[k] \in Rows(result.server)

(***************************************************************************)
(* Rows that are called all of the logs are all of them, each once: the    *)
(* pages that the order by time loads begin where the rows at hand end.    *)
(***************************************************************************)
SortsAll ==
  Drawn /\ Full(result.server, result.rows) =>
    /\ Len(result.rows) = Total[result.server]
    /\ \A k \in Rows(result.server) : \E j \in 1..Len(result.rows) : result.rows[j] = k

\* Rows in the table are the answer to what was asked for last, if that is answered.
TableIsOfQuery == table.text = "rows" /\ net = {} => <<table.server, table.page>> = asked

\* An export holds the rows that the table is drawn from.
ExportIsShown == faithful

(***************************************************************************)
(* Why: the rows of the first page and of those that the sort appends are  *)
(* the first so many logs, a whole number of pages until they are all; the *)
(* sort has one request under way, for the page behind them.               *)
(***************************************************************************)
Sized == Total \in [Servers -> Nat] /\ PageSize \in Nat \ {0} /\ Servers # {}
Upto(n) == [k \in 1..n |-> k]
Numbered ==
  /\ server \in Servers /\ sent \in Nat
  /\ \A r \in net : r.n \in 1..sent /\ r.kind \in {"query", "more"} /\ r.server \in Servers /\ r.page \in Nat \ {0}
Loads ==
  /\ sorting \in [next: Nat \ {0, 1}, live: BOOLEAN, rows: Seq(Nat), server: Servers]
  /\ (sorting.next - 1) * PageSize < Total[sorting.server]
  /\ sorting.rows = Upto((sorting.next - 1) * PageSize)
  /\ result # None
  /\ sorting.live => result.page = 1 /\ result.server = sorting.server /\ result.rows = sorting.rows
  /\ \E r \in net : /\ r.kind = "more" /\ r.server = sorting.server /\ r.page = sorting.next
                     /\ \A q \in net : q.kind = "more" => q = r
SortFollows == (sorting = Idle /\ \A r \in net : r.kind = "query") \/ Loads
ResultFollows == result # None =>
  /\ result \in [server: Servers, page: Nat \ {0}, rows: Seq(Nat), cut: BOOLEAN]
  /\ IF result.page = 1
     THEN \E n \in 0..Total[result.server] : /\ result.rows = Upto(n)
                                             /\ n \in {PageSize, Total[result.server]} \/ sorting.live
     ELSE result.rows = PageRows(result.server, result.page)
Answered == \A r \in net : r.kind # "query"
QueryFollows ==
  /\ \A r \in net : r.kind = "query" =>
       <<r.server, r.page>> = asked \/ \E q \in net : q.kind = "query" /\ q.n > r.n
  /\ Answered /\ result # None => asked = <<result.server, result.page>>
  /\ Answered /\ table.text = "rows" => <<table.server, table.page>> = asked
  /\ Answered /\ sorting = Idle /\ Drawn => table.rows = result.rows
LogsFollow == Numbered /\ SortFollows /\ ResultFollows /\ QueryFollows /\ faithful
=============================================================================
