---------------------------- MODULE LedgerExport ----------------------------
(***************************************************************************)
(* Query and export of a model's rows (HcmObjectBrowser.tsx and            *)
(* utils/hcmObjectFilters.ts): the field a keyword is looked for, the one  *)
(* filter_dict made of the ledger's fields, the user's conditions and the  *)
(* keyword, the loop that fetches all rows of the query page by page       *)
(* (fetchAllRows) and the columns of the exported table.  A row is its     *)
(* number and the set of its keys; the server caps the page size and may   *)
(* leave out the number of rows.                                           *)
(***************************************************************************)
EXTENDS Integers, Sequences, FiniteSets, TLC, SequencesExt

CONSTANTS
  MaxTable, MaxSize,   \* rows of the table, rows of a page
  MaxRows, MaxPages,   \* limits of the export
  Sample,              \* rows that are looked at for columns (50)
  Keys, Listed, RawKey, \* keys of a row, business keys of the metadata, u_raw_json
  Honest,              \* rows have ids, a page past the end is empty, all rows have the
                       \* same keys, no field is asked for twice
  Marked,              \* fields of the framework are not marked for fuzzy search
  Untouched            \* the text of the request is not edited after the query

VARIABLES
  server,              \* the query: keys of each row, cap, count, what is past the end
  meta,                \* the model's fields
  form,                \* what the user filled in
  dict,                \* filter_dict of the rows that are shown
  payload,             \* filter_dict of the request's text, or Broken
  asked,               \* filter_dict the export asks for
  at, effective, rows, total, prev, truncated,   \* locals of fetchAllRows
  cols,                \* columns of the table
  pc

loop == <<at, effective, rows, total, prev, truncated>>
chosen == <<server, meta, form>>
vars == <<chosen, dict, payload, asked, loop, cols, pc>>

None == ""
Tables == UNION {IF Honest THEN {[i \in 1..n |-> ks] : ks \in SUBSET Keys} ELSE [1..n -> SUBSET Keys] : n \in 0..MaxTable}
Broken == [f \in {"broken"} |-> <<>>] \* a text that is no JSON

-----------------------------------------------------------------------------
\* Fields of a model: key, and which of the metadata's marks it has.
Flags == {"filter", "blur", "text", "encrypt", "business"}
NameLike == {"name"}
SelectHcmFilterFields(fs) ==
  LET set == SelectSeq(fs, LAMBDA f : "filter" \in f.flags) IN IF set = <<>> THEN fs ELSE set
\* The business's fields first.
MetaFilterCandidates(fs) ==
  LET all == SelectHcmFilterFields(fs)
  IN SelectSeq(all, LAMBDA f : "business" \in f.flags) \o SelectSeq(all, LAMBDA f : "business" \notin f.flags)
Ok(f) == "encrypt" \notin f.flags /\ f.key # "id"

First(fs, Test(_)) == LET s == SelectSeq(fs, Test) IN IF s = <<>> THEN {} ELSE {s[1].key}
AnyOf(sets) == LET s == SelectSeq(sets, LAMBDA x : x # {}) IN IF s = <<>> THEN None ELSE CHOOSE k \in s[1] : TRUE
\* Marked for fuzzy search and text; named like a name; business text; text; any.
PickDefaultFilterKey(fs) == AnyOf(<<
  First(fs, LAMBDA f : {"blur", "text"} \subseteq f.flags /\ Ok(f)),
  First(fs, LAMBDA f : Ok(f) /\ f.key \in NameLike),
  First(fs, LAMBDA f : Ok(f) /\ {"business", "text"} \subseteq f.flags),
  First(fs, LAMBDA f : Ok(f) /\ "text" \in f.flags),
  First(fs, Ok),
  First(fs, LAMBDA f : TRUE)>>)
ResolvedQuickFilterField ==
  LET c == MetaFilterCandidates(meta) IN
    IF \E i \in DOMAIN c : c[i].key = form.quick THEN form.quick ELSE PickDefaultFilterKey(c)

-----------------------------------------------------------------------------
\* The form: values of the ledger's fields, of which "kind" is a select and
\* "name" a text; conditions; keyword and its field.
Condition == [field: {None, "name", "f"}, op: {"eq", "contains"}, value: {"", "u"}]
Blank == [ledger |-> [f \in {"kind", "name"} |-> ""], conds |-> <<>>, kw |-> "", quick |-> None, raw |-> FALSE]
LedgerForm == [{"kind", "name"} -> {"", "v"}]
Conditions == UNION {[1..n -> Condition] : n \in 0..2} \* the exactness is chosen with the field, or after it
Forms == [ledger: LedgerForm, conds: Conditions, kw: {"", "k"}, quick: {None}, raw: {FALSE}]
Ledger == <<[key |-> "kind", flags |-> {"business"}], [key |-> "name", flags |-> {"business", "text"}]>>
FieldPairs == {<<[key |-> k[1], flags |-> a], [key |-> k[2], flags |-> b]>> :
                k \in {p \in {"id", "name", "x"} \X {"id", "name", "x"} : p[1] # p[2]},
                a \in SUBSET Flags, b \in SUBSET {"text", "encrypt", "business"}}

\* What is given in the form, in the order it is laid over each other.
SyncFields == {f \in {"kind", "name"} : \E i \in DOMAIN meta : meta[i].key = f}
IsSyncLedger == SyncFields # {}
FromLedger == [f \in {g \in SyncFields : form.ledger[g] # ""} |->
                 <<IF f = "kind" THEN "eq" ELSE "contains", form.ledger[f]>>]
Named == {i \in DOMAIN form.conds : form.conds[i].field # None}
FirstOnly ==                         \* mutant: the first condition only
  [f \in {form.conds[i].field : i \in Named \cap {1}} |-> <<form.conds[1].op, form.conds[1].value>>]
BuildHcmFilterDict ==
  LET last(f) == CHOOSE i \in Named : form.conds[i].field = f /\ \A j \in Named : form.conds[j].field = f => j <= i
  IN [f \in {form.conds[i].field : i \in Named} |-> <<form.conds[last(f)].op, form.conds[last(f)].value>>]
FromKeyword == IF form.kw = "" \/ ResolvedQuickFilterField = None THEN <<>>
               ELSE [f \in {ResolvedQuickFilterField} |-> <<"contains", form.kw>>]

\* Every condition of the form, with its field.
Pairs(d) == {<<f, d[f]>> : f \in DOMAIN d}
Given == Pairs(FromLedger) \cup Pairs(FromKeyword)
           \cup {<<form.conds[i].field, <<form.conds[i].op, form.conds[i].value>>>> : i \in Named}
Once == \A p, q \in Given : p[1] = q[1] => p = q

Init ==
  /\ server \in [table: Tables, cap: 1..MaxSize, count: BOOLEAN, ids: BOOLEAN, clamp: BOOLEAN]
  /\ Honest => server.ids /\ ~server.clamp
  /\ \/ server.table # <<>> /\ meta \in {<<>>, Ledger} /\ form \in {Blank, [Blank EXCEPT !.raw = TRUE]}
     \/ /\ server.table = <<>> /\ server.cap = 1 /\ server.count
        /\ \/ meta = Ledger /\ form \in Forms
           \/ meta \in FieldPairs /\ form \in {[Blank EXCEPT !.kw = "k", !.quick = q] : q \in {None, "x"}}
  /\ Honest => Once
  /\ dict = <<>> /\ payload = <<>> /\ asked = <<>> /\ cols = <<>> /\ pc = "filter"
  /\ at = 1 /\ effective \in 1..MaxSize /\ (server.table = <<>> => effective = 1)
  /\ rows = <<>> /\ total = 0 /\ prev = <<>> /\ truncated = FALSE

-----------------------------------------------------------------------------
\* applyDataQuery; FromKeyword over conditions over the ledger's fields.
Lacks == \E i \in Named : form.conds[i].op = "contains" /\ form.conds[i].value = ""
Refuse == /\ pc = "filter" /\ Lacks
          /\ pc' = "refused"
          /\ UNCHANGED <<chosen, dict, payload, asked, loop, cols>>
ApplyDataQuery ==
  /\ pc = "filter" /\ ~Lacks
  /\ dict' = FromKeyword @@ BuildHcmFilterDict @@ (IF IsSyncLedger THEN FromLedger ELSE <<>>)
  /\ payload' = dict' /\ pc' = "shown"
  /\ UNCHANGED <<chosen, asked, loop, cols>>

\* collectCurrentResult reads the text of the request, which can have been
\* edited since; one that cannot be read leaves no filter.
Texts == {dict} \cup (IF Untouched THEN {} ELSE {Broken, [f \in {"other"} |-> <<"eq", "u">>]})
CollectCurrentResult ==
  /\ pc = "shown" /\ payload' \in Texts
  /\ asked' = (IF payload' = Broken THEN <<>> ELSE payload') /\ pc' = "fetch"
  /\ UNCHANGED <<chosen, dict, loop, cols>>

-----------------------------------------------------------------------------
\* A page of the server: at most cap rows of the query.
N == Len(server.table)
Size(wanted) == IF wanted < server.cap THEN wanted ELSE server.cap
LastPage(size) == IF N = 0 THEN 1 ELSE ((N - 1) \div size) + 1
Page(i, wanted) ==
  LET size == Size(wanted)
      j == IF server.clamp /\ i > LastPage(size) THEN LastPage(size) ELSE i
      to == IF j * size < N THEN j * size ELSE N IN
  [k \in 1..(IF (j - 1) * size < to THEN to - (j - 1) * size ELSE 0) |-> (j - 1) * size + k]

Signature(list) == <<Len(list), IF server.ids THEN Head(list) ELSE 0>>

StepAsked(list) == effective         \* mutant: the server's cap is not learnt
StepLearnt(list) == IF at = 1 /\ Len(list) < effective THEN Len(list) ELSE effective

\* One turn of the loop; the reasons to stop in the order of the code.
FetchPage ==
  /\ pc = "fetch" /\ at <= MaxPages
  /\ LET list == Page(at, effective)
         step == StepLearnt(list)
         all == rows \o list
         known == IF at = 1 /\ server.count THEN N ELSE total IN
     /\ total' = known
     /\ effective' = IF list = <<>> THEN effective ELSE step
     /\ rows' = IF Len(all) >= MaxRows THEN SubSeq(all, 1, MaxRows) ELSE all
     /\ truncated' = (list # <<>> /\ Len(all) >= MaxRows)
     /\ prev' = IF list = <<>> THEN prev ELSE Signature(list)
     /\ IF \/ list = <<>> \/ Len(all) >= MaxRows
           \/ known > 0 /\ Len(all) >= known
           \/ Len(list) < step \/ Signature(list) = prev
        THEN pc' = "columns" /\ UNCHANGED at
        ELSE pc' = pc /\ at' = at + 1
  /\ UNCHANGED <<chosen, dict, payload, asked, cols>>

\* maxPages is reached: truncated stays false.
OutOfPages == pc = "fetch" /\ at > MaxPages /\ pc' = "columns"
              /\ UNCHANGED <<chosen, dict, payload, asked, loop, cols>>

-----------------------------------------------------------------------------
\* syncLedgerExportColumns: the business keys first, then the other keys of
\* the first rows, each once.
Exclude == IF form.raw \/ ~IsSyncLedger THEN {} ELSE {RawKey}
Seen == UNION {server.table[rows[i]] : i \in {i \in DOMAIN rows : i <= Sample}}
OnlyListed == SetToSeq((Seen \cap Listed) \ Exclude)   \* mutant: business keys only
Columns == SetToSeq((Seen \cap Listed) \ Exclude) \o SetToSeq(Seen \ (Listed \cup Exclude))
\* buildSyncLedgerJson: the keys of each row.
JsonRows == [i \in DOMAIN rows |-> server.table[rows[i]] \ Exclude]

SyncLedgerExportColumns ==
  /\ pc = "columns" /\ pc' = "done"
  /\ cols' = Columns
  /\ UNCHANGED <<chosen, dict, payload, asked, loop>>

Next == \/ Refuse \/ ApplyDataQuery \/ CollectCurrentResult
        \/ FetchPage \/ OutOfPages \/ SyncLedgerExportColumns
Spec == Init /\ [][Next]_vars /\ WF_vars(Next)
-----------------------------------------------------------------------------
(***************************************************************************)
(* The filter asks for all conditions of the form together and for nothing *)
(* else (the comments of applyDataQuery and buildHcmFilterDict: rows are   *)
(* combined by AND).                                                       *)
(***************************************************************************)
FilterIsAnd == pc \notin {"filter", "refused"} => Pairs(dict) = Given

(***************************************************************************)
(* A keyword is looked for in a field where it can be found: not in an     *)
(* encrypted one or the id, and in one the business fills rather than in   *)
(* one of the framework's (hcmObjectFilters.ts:421).                       *)
(***************************************************************************)
KeywordIsUseful ==
  LET c == MetaFilterCandidates(meta)
      has(Test(_)) == \E i \in DOMAIN c : Test(c[i])
      is(Test(_)) == \E i \in DOMAIN c : Test(c[i]) /\ c[i].key \in DOMAIN FromKeyword
      business(f) == Ok(f) /\ ({"business", "text"} \subseteq f.flags)
      framework(f) == "business" \notin f.flags /\ ("blur" \in f.flags \/ f.key \in NameLike)
  IN form.kw # "" /\ form.quick = None =>
       /\ has(Ok) => is(Ok)
       /\ has(business) /\ (Marked => ~has(framework)) => is(LAMBDA f : "business" \in f.flags)

(***************************************************************************)
(* What is exported is what the data view shows (the comment of            *)
(* collectCurrentResult).                                                  *)
(***************************************************************************)
ExportIsView == pc \in {"fetch", "columns", "done"} => asked = dict

(***************************************************************************)
(* An export that does not say it is cut holds every row of the query      *)
(* once and every key of these rows that was not excluded in one column,   *)
(* whatever page size the server allows and whether or not it counts; the  *)
(* JSON file holds the same keys.                                          *)
(***************************************************************************)
ExportIsComplete ==
  pc = "done" /\ ~truncated =>
    /\ rows = [i \in 1..N |-> i]
    /\ ToSet(cols) = UNION ToSet(server.table) \ Exclude
    /\ Cardinality(ToSet(cols)) = Len(cols)
    /\ UNION ToSet(JsonRows) = ToSet(cols)

\* A cut export says so and holds the limit.
CutExportIsFull == truncated => Len(rows) = MaxRows

\* The loop ends, also with a server that repeats pages.
ExportEnds == <>(pc \in {"done", "refused"})
=============================================================================
