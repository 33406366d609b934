------------------------------- MODULE Kibana --------------------------------
(***************************************************************************)
(* The Kibana panel (kibana/KibanaPanel.tsx): the conditions of a query as *)
(* draft and as applied, the ranges to zoom out to, the tree of pods, the  *)
(* histogram and the pages of log rows, each with requests of its own.     *)
(***************************************************************************)
EXTENDS Integers, Sequences, FiniteSets, SequencesExt

CONSTANTS
  Sites, Ranges, Words, \* sites; time ranges; the other conditions
  Depth,      \* ranges that are kept (10 in the code)
  Ordered,    \* answers of a kind come in the order of the requests
  Held,       \* the site is changed only while a pod is selected
  Calm,       \* more rows are asked for, and come, with nothing else under way
  Picked,     \* a range is picked, never typed
  MaxCalls    \* bound: requests

VARIABLES
  site, memo,   \* the site chosen; the site that loadPods was made with
  query, draft, \* [range, word] as applied, as shown in the filters
  stack, trail, \* ranges to zoom out to; the last ones that were left (history)
  selected,     \* "p" for a pod of the tree, "all" for all
  podsOf, histOf, rows, \* what each part shows: <<site, query>>; pages of rows
  busy, errs,   \* parts that show an error
  net, sent

asked == <<query, draft, stack, trail>>
place == <<site, memo, selected>>
shown == <<podsOf, histOf, rows, busy, errs>>
calls == <<net, sent>>
vars == <<asked, place, shown, calls>>

\* The panel once it has shown its first query, with or without a pod selected,
\* perhaps zoomed in.
Init ==
  /\ site = (CHOOSE s \in Sites : TRUE) /\ memo = site /\ query = (CHOOSE q \in [range : Ranges, word : Words] : TRUE)
  /\ draft = query /\ stack \in {<<>>} \cup {<<r>> : r \in Ranges \ {query.range}} /\ trail = stack /\ selected \in {"all", "p"}
  /\ podsOf = <<site, query>> /\ histOf = <<site, query>> /\ busy = FALSE /\ errs = {} /\ net = {} /\ sent = 0
  /\ rows = <<[of |-> <<site, query, selected>>, from |-> 0]>>

-----------------------------------------------------------------------------
Req(k, kind, of) == [n |-> sent + k, kind |-> kind, of |-> of, from |-> IF kind = "more" THEN Len(rows) ELSE 0]
Send(c, Rs) == (Calm => \A r \in net : r.kind # "more") /\ sent' = sent + c /\ sent' <= MaxCalls /\ net' = net \cup Rs
SendsOn(q, c, Rs) == sent' = sent + c /\ sent' <= MaxCalls /\ net' = (net \ {q}) \cup Rs
Line(kind) == IF kind \in {"more", "silent"} THEN "rows" ELSE kind
Next1(r) == ~Ordered \/ \A q \in net : Line(q.kind) = Line(r.kind) => r.n <= q.n
Asks(what) == errs' = errs \ what

\* The site is not among the things that loadPods is made anew for.
SetSite(s) ==
  /\ s # site /\ (Held => selected # "all") /\ site' = s /\ selected' = "all" /\ busy' = TRUE /\ Asks({"pods", "rows"})
  /\ memo' = (IF selected # "all" THEN s ELSE memo)
  /\ Send(IF selected = "all" THEN 3 ELSE 5,
          {Req(1, "pods", <<memo, query, selected>>), Req(2, "hist", <<s, query>>), Req(3, "rows", <<s, query, selected>>)}
          \cup (IF selected = "all" THEN {} ELSE {Req(4, "pods", <<s, query, "all">>), Req(5, "rows", <<s, query, "all">>)}))
  /\ UNCHANGED <<asked, podsOf, histOf, rows>>

SelectPod ==
  /\ podsOf # <<>> /\ selected = "all" /\ selected' = "p" /\ memo' = site /\ busy' = TRUE /\ Asks({"pods", "rows"})
  /\ Send(2, {Req(1, "pods", <<site, query, "p">>), Req(2, "rows", <<site, query, "p">>)})
  /\ UNCHANGED <<site, asked, podsOf, histOf, rows>>
LoadPods ==                          \* the button of the tree
  /\ ~\E r \in net : r.kind = "pods"
  /\ Asks({"pods"}) /\ Send(1, {Req(1, "pods", <<memo, query, selected>>)}) /\ UNCHANGED <<place, asked, podsOf, histOf, rows, busy>>

ChangeDraft(q) ==
  /\ q # draft /\ (Picked => q.range = draft.range) /\ draft' = q
  /\ UNCHANGED <<place, query, stack, trail, shown, calls>>

\* What is applied a second time is asked for again by the tree and the histogram.
Apply(next) ==
  /\ draft' = next /\ query' = next
  /\ IF next = query
     THEN Send(2, {Req(1, "pods", <<memo, query, selected>>), Req(2, "hist", <<site, query>>)}) /\ Asks({"pods"}) /\ UNCHANGED <<memo, busy>>
     ELSE /\ Send(3, {Req(1, "pods", <<site, next, selected>>), Req(2, "hist", <<site, next>>), Req(3, "rows", <<site, next, selected>>)})
          /\ memo' = site /\ busy' = TRUE /\ Asks({"pods", "rows"})
  /\ UNCHANGED <<site, selected, podsOf, histOf, rows>>
LastOf(s, k) == SubSeq(s, IF Len(s) > k THEN Len(s) - k + 1 ELSE 1, Len(s))
Pushed(s, r) == IF r = query.range THEN s ELSE Append(LastOf(s, Depth - 1), query.range)

ApplyDraft == trail' = Pushed(trail, draft.range) /\ UNCHANGED stack /\ Apply(draft)
PickRange(r) ==                      \* a preset, a bar of the histogram
  /\ stack' = Pushed(stack, r) /\ trail' = Pushed(trail, r) /\ Apply([draft EXCEPT !.range = r])
PopRangePushes ==                    \* mutant: zooming out is remembered as well
  /\ stack # <<>> /\ stack' = Pushed(Front(stack), Last(stack)) /\ trail' = Front(trail) /\ Apply([draft EXCEPT !.range = Last(stack)])
PopRange ==
  /\ stack # <<>> /\ stack' = Front(stack) /\ trail' = Front(trail) /\ Apply([draft EXCEPT !.range = Last(stack)])

-----------------------------------------------------------------------------
Search ==
  /\ ~busy /\ busy' = TRUE /\ Asks({"rows"}) /\ Send(1, {Req(1, "rows", <<site, query, selected>>)})
  /\ UNCHANGED <<place, asked, podsOf, histOf, rows>>
Tick ==                              \* the clock: silently, whatever is under way
  /\ Asks({"rows"}) /\ Send(1, {Req(1, "silent", <<site, query, selected>>)}) /\ UNCHANGED <<place, asked, podsOf, histOf, rows, busy>>
LoadMore ==
  /\ ~busy /\ rows # <<>> /\ (Calm => net = {})
  /\ busy' = TRUE /\ Send(1, {Req(1, "more", <<site, query, selected>>)})
  /\ UNCHANGED <<place, asked, podsOf, histOf, rows, errs>>

GotPods(r) ==
  /\ r.kind = "pods" /\ Next1(r) /\ UNCHANGED <<site, asked, histOf, rows>>
  /\ \/ errs' = errs \cup {"pods"} /\ net' = net \ {r} /\ UNCHANGED <<memo, selected, podsOf, busy, sent>>
     \/ podsOf' = <<r.of[1], r.of[2]>> /\ net' = net \ {r} /\ UNCHANGED <<memo, selected, busy, errs, sent>>
     \/ /\ selected # "all" /\ r.of[3] # "all" /\ podsOf' = <<r.of[1], r.of[2]>>      \* the pod is not in the list
        /\ selected' = "all" /\ memo' = site /\ busy' = TRUE /\ Asks({"pods", "rows"})
        /\ SendsOn(r, 2, {Req(1, "pods", <<site, query, "all">>), Req(2, "rows", <<site, query, "all">>)})
GotHist(r) ==
  /\ r.kind = "hist" /\ Next1(r) /\ net' = net \ {r}
  /\ \/ histOf' = r.of /\ errs' = errs \ {"hist"}
     \/ errs' = errs \cup {"hist"} /\ UNCHANGED histOf
  /\ UNCHANGED <<place, asked, podsOf, rows, busy, sent>>
GotRows(r) ==
  /\ r.kind \in {"rows", "silent"} /\ Next1(r) /\ net' = net \ {r} /\ busy' = (busy /\ r.kind = "silent")
  /\ \/ rows' = <<[of |-> r.of, from |-> 0]>> /\ UNCHANGED errs
     \/ errs' = errs \cup {"rows"} /\ rows' = (IF r.kind = "silent" THEN rows ELSE <<>>)
  /\ UNCHANGED <<place, asked, podsOf, histOf, sent>>
GotMore(r) ==
  /\ r.kind = "more" /\ Next1(r) /\ net' = net \ {r} /\ busy' = FALSE
  /\ rows' \in {rows, Append(rows, [of |-> r.of, from |-> r.from])}
  /\ UNCHANGED <<place, asked, podsOf, histOf, errs, sent>>

Conditions == \/ ApplyDraft \/ PopRange \/ \E r \in Ranges : PickRange(r)
              \/ \E q \in [range : Ranges, word : Words] : ChangeDraft(q)
User == Conditions \/ SelectPod \/ LoadPods \/ Search \/ LoadMore \/ \E s \in Sites : SetSite(s)
Answers == \E r \in net : GotPods(r) \/ GotHist(r) \/ GotRows(r) \/ GotMore(r)
Next == User \/ Tick \/ Answers

Spec == Init /\ [][Next]_vars
-----------------------------------------------------------------------------
TypeOK ==
  /\ {site, memo} \subseteq Sites /\ {query, draft} \subseteq [range : Ranges, word : Words] /\ selected \in {"all", "p"}
  /\ Len(stack) <= Depth /\ busy \in BOOLEAN /\ errs \subseteq {"pods", "hist", "rows"} /\ sent \in 0..MaxCalls

Quiet == net = {}

(***************************************************************************)
(* Once the answers are there, the tree of pods and the histogram are of   *)
(* the site and the query that are chosen, and the rows too: page after    *)
(* page, without a gap and of the selected pod.                            *)
(***************************************************************************)
TreeIsOfSite == Quiet /\ "pods" \notin errs => podsOf = <<site, query>>
HistIsOfQuery == Quiet /\ "hist" \notin errs => histOf = <<site, query>>
RowsAreOfQuery ==
  Quiet /\ "rows" \notin errs => \A k \in DOMAIN rows : rows[k] = [of |-> <<site, query, selected>>, from |-> k - 1]

\* Zooming out leads to the ranges that were left, the last one first.
ZoomGoesBack == stack = trail

(***************************************************************************)
(* Why: answers of a kind come in order, and the last request of each kind *)
(* is for what is chosen; rows are added with nothing else under way.      *)
(***************************************************************************)
Follows(kinds, of) ==
  \A r \in net : r.kind \in kinds => r.of = of \/ \E q \in net : q.kind \in kinds /\ q.n > r.n
Gone(kinds) == \A r \in net : r.kind \notin kinds
Rows == {"rows", "silent", "more"}
Counted ==
  /\ sent \in Nat /\ \A r \in net : r.n \in 1..sent
  /\ \A r \in net : r.kind \in {"pods", "hist"} \cup Rows
PodsFollow ==
  /\ memo = site
  /\ \A r \in net : r.kind = "pods" =>
       (r.of[1] = site /\ r.of[2] = query) \/ \E q \in net : q.kind = "pods" /\ q.n > r.n
  /\ Gone({"pods"}) /\ "pods" \notin errs => podsOf = <<site, query>>
HistFollows ==
  /\ Follows({"hist"}, <<site, query>>)
  /\ Gone({"hist"}) /\ "hist" \notin errs => histOf = <<site, query>>
RowsFollow ==
  /\ rows \in Seq({rows[k] : k \in DOMAIN rows})
  /\ Follows(Rows, <<site, query, selected>>)
  /\ \A r \in net : r.kind = "more" => net = {r} /\ r.from = Len(rows)
  /\ Gone({"rows", "silent"}) /\ "rows" \notin errs
       => \A k \in DOMAIN rows : rows[k] = [of |-> <<site, query, selected>>, from |-> k - 1]
ZoomFollows == stack = trail /\ (Picked => draft.range = query.range)
=============================================================================
