------------------------------- MODULE CfView --------------------------------
(***************************************************************************)
(* What the log page shows of the rows it holds (components/CfPanel.tsx):  *)
(* the filtered and paged table, the walk through the matches of a search, *)
(* the export, and the chart of times and types (CfDistribution.tsx,       *)
(* utils/cfDist.ts) whose bars narrow the window. The companion query,     *)
(* whose rows the chart shows beside a type filter, is in CfLogs.          *)
(***************************************************************************)
EXTENDS Integers, Sequences, FiniteSets, SequencesExt

CONSTANTS
  Inputs,       \* tuples of rows: time (or NoTime), type, matches of the searched word
  Types, Palette, \* 0 is the type of a row that has none
  Steps, TargetBars, MaxBars, Minute, Hour, \* candidates of a bar's width in ascending order; limits
  MaxTypeBars, MaxTicks,
  Hashes,       \* values of cfNameHash for the types
  MaxPick,      \* bound of the types picked at once
  PageSize, MaxStack,
  Coarse,       \* bars that are clicked are a minute wide or more
  Plain,        \* no type is picked, and a search filters
  Titled,       \* a query for one type finds rows that carry a type
  OnePage       \* what is shown fits on a page

VARIABLES
  rows, hash,   \* result.rows; cfNameHash
  logType,      \* result.log_type
  win, stack,   \* time_start and time_end, or none; rangeStack
  typePick, search, filterOn, desc,
  localPage, activeMatch,
  picked        \* rows of the bar that was clicked last

filter == <<win, stack, typePick, search, filterOn, picked>>
loaded == <<rows, hash, logType>>
vars == <<loaded, filter, desc, localPage, activeMatch>>

NoTime == -1
Unknown == 0
Grey == -1
All == <<>>
Ids == DOMAIN rows

-----------------------------------------------------------------------------
TypeOf(i) == IF rows[i].type = Unknown THEN logType ELSE rows[i].type

\* The chain of filters, of the chart and, with the type asked for, the table.
InWindow(i) == win = All \/ (rows[i].time # NoTime /\ win[1] <= rows[i].time /\ rows[i].time <= win[2])
Charted == {i \in Ids : /\ InWindow(i)
                        /\ typePick = {} \/ TypeOf(i) \in typePick
                        /\ (search /\ filterOn) => rows[i].hits > 0}
MatchesType(i) == logType # Unknown => rows[i].type \in {Unknown, logType} \* logRowMatchesType
Filtered == {i \in Charted : MatchesType(i)}
Before(i, j) ==
  \/ rows[i].time # rows[j].time /\ (desc <=> rows[i].time > rows[j].time)
  \/ rows[i].time = rows[j].time /\ i < j
Sorted == SetToSortSeq(Filtered, Before)

TotalPages == LET n == Cardinality(Filtered) IN IF n > PageSize THEN (n + PageSize - 1) \div PageSize ELSE 1
Page == IF localPage > TotalPages THEN TotalPages ELSE localPage
Display == LET s == Sorted  p == Page IN
  SubSeq(s, (p - 1) * PageSize + 1, IF p * PageSize > Len(s) THEN Len(s) ELSE p * PageSize)
HitsOf(s) == FoldSeq(LAMBDA i, n : n + rows[i].hits, 0, s)
MatchTotal == IF search THEN FoldSet(LAMBDA i, n : n + rows[i].hits, 0, Filtered) ELSE 0

ExportAll == Ids                     \* mutant: what is loaded
\* exportLogs filters by itself: a search always, types never.
ExportRows == {i \in Ids : InWindow(i) /\ MatchesType(i) /\ (search => rows[i].hits > 0)}

-----------------------------------------------------------------------------
\* pickStepMs, buildTimeBuckets
Dated == {i \in Charted : rows[i].time # NoTime}
Oldest == CHOOSE t \in {rows[i].time : i \in Dated} : \A i \in Dated : t <= rows[i].time
Newest == CHOOSE t \in {rows[i].time : i \in Dated} : \A i \in Dated : t >= rows[i].time
Span == IF Oldest < Newest THEN Newest - Oldest ELSE Hour
Step ==
  LET span == Span
      fits == {k \in DOMAIN Steps : span <= TargetBars * Steps[k]} IN
    IF fits = {} THEN Steps[Len(Steps)] ELSE Steps[CHOOSE k \in fits : \A l \in fits : k <= l]
Start == LET step == Step IN (Oldest \div step) * step
BarsShort ==                         \* mutant: the last bar is missing
  LET n == Newest \div Step - Oldest \div Step IN IF n > MaxBars THEN MaxBars ELSE IF n = 0 THEN 1 ELSE n
Bars == LET step == Step  n == Newest \div step - Oldest \div step + 1 IN IF n > MaxBars THEN MaxBars ELSE n
BarOf(i) == LET k == (rows[i].time - Start) \div Step  n == Bars IN IF k > n - 1 THEN n - 1 ELSE k

\* A bar's segments, by the type a row has of itself; the list of types, by
\* the type it is counted under.
CountBy(S, type(_)) == [ty \in {type(i) : i \in S} |-> Cardinality({i \in S : type(i) = ty})]
InBar(b) == {i \in Dated : BarOf(i) = b}
Segs(b) == CountBy(InBar(b), LAMBDA i : rows[i].type)
CountByType == CountBy(Charted, TypeOf)
Sizes(f, S) == FoldSet(LAMBDA ty, n : n + f[ty], 0, S)

ByCount ==
  LET c == CountByType IN
  SetToSortSeq(DOMAIN c, LAMBDA a, b : \/ c[a] > c[b]
                                       \/ c[a] = c[b] /\ a < b)
ShownTypes == LET ranked == ByCount IN {ranked[k] : k \in {l \in DOMAIN ranked : l <= MaxTypeBars}}
RestCount == Sizes(CountByType, DOMAIN CountByType \ ShownTypes)
RestLen == IF Len(ByCount) > MaxTypeBars THEN Len(ByCount) - MaxTypeBars ELSE 0

TickIdx ==
  LET n == Bars
      step == IF n <= MaxTicks THEN 1 ELSE (n + MaxTicks - 1) \div MaxTicks IN
  {k \in 0..(n - 1) : k % step = 0 \/ k = n - 1}

\* assignTypeColors: in alphabetical order, the next free colour behind the
\* one the name hashes to; hashed colours when there are too many names.
Names == SetToSortSeq({TypeOf(i) : i \in Charted} \ {Unknown}, LAMBDA a, b : a < b)
AssignTypeColors ==
  LET names == Names
      colours[n \in 0..Len(names)] ==
        IF n = 0 THEN <<>>
        ELSE LET used == Range(colours[n - 1])
                 free == {k \in 0..(Palette - 1) : (hash[names[n]] + k) % Palette \notin used}
                 step == CHOOSE k \in free : \A l \in free : k <= l
             IN Append(colours[n - 1], (hash[names[n]] + step) % Palette)
  IN [ty \in Range(names) |->
        IF Len(names) > Palette THEN hash[ty]
        ELSE colours[Len(names)][CHOOSE n \in DOMAIN names : names[n] = ty]]
CfTypeColorVar(ty) == IF ty = Unknown THEN Grey ELSE hash[ty]
TypeColor(assigned, ty) == IF ty \in DOMAIN assigned THEN assigned[ty] ELSE CfTypeColorVar(ty)

-----------------------------------------------------------------------------
Init ==
  /\ rows \in Inputs /\ hash \in Hashes
  /\ logType \in {Unknown, 1}
  /\ win = All /\ stack = <<>> /\ typePick = {} /\ search = FALSE /\ filterOn = TRUE /\ desc = TRUE
  /\ localPage = 1 /\ activeMatch = 0 /\ picked = {}

ConvergesUp(a) ==                    \* mutant: the number may stay too large
  activeMatch' = IF ~search' \/ MatchTotal' = 0 THEN 0 ELSE IF a >= 1 THEN a ELSE 1
\* The effect of another search or another number of matches.
Converges(a) == activeMatch' = IF ~search' \/ MatchTotal' = 0 THEN 0 ELSE IF a \in 1..MatchTotal' THEN a ELSE 1
Narrowed == UNCHANGED <<loaded, desc>> /\ localPage' = 1 /\ Converges(activeMatch)

ToMinute(t) == (t \div Minute) * Minute
BarWindowAtPoint(b) == <<ToMinute(Start + b * Step), ToMinute(Start + b * Step)>> \* mutant
BarWindow(b) == <<ToMinute(Start + b * Step), ToMinute(Start + (b + 1) * Step)>>

Clickable(b) == Dated # {} /\ b \in 0..(Bars - 1) /\ InBar(b) # {}
\* onDistTimePick, of a bar that is not empty; the inputs hold minutes.
PickBucket(b) ==
  /\ Clickable(b) /\ (Coarse => Step % Minute = 0) /\ picked' = InBar(b)
  /\ stack' = (IF Len(stack) < MaxStack THEN stack ELSE Tail(stack)) \o <<win>>
  /\ win' = BarWindow(b)
  /\ UNCHANGED <<typePick, search, filterOn>> /\ Narrowed

PopDistRange ==
  /\ stack # <<>> /\ win' = stack[Len(stack)] /\ stack' = SubSeq(stack, 1, Len(stack) - 1) /\ picked' = {}
  /\ UNCHANGED <<typePick, search, filterOn>> /\ Narrowed

OnPresetChange == /\ win # All /\ win' = All /\ picked' = {}
                  /\ UNCHANGED <<stack, typePick, search, filterOn>> /\ Narrowed

ToggleTypePick(ty) ==
  /\ typePick' = IF ty \in typePick THEN typePick \ {ty} ELSE typePick \cup {ty}
  /\ Cardinality(typePick') <= MaxPick
  /\ UNCHANGED <<win, stack, search, filterOn, picked>> /\ Narrowed
ClearTypePick == /\ typePick # {} /\ typePick' = {}
                 /\ UNCHANGED <<win, stack, search, filterOn, picked>> /\ Narrowed

Search(on) ==
  /\ search' = on /\ localPage' = 1
  /\ UNCHANGED <<loaded, win, stack, typePick, filterOn, picked, desc>>
  /\ Converges(IF on THEN 1 ELSE 0)
FilterToggle == filterOn' = ~filterOn /\ UNCHANGED <<win, stack, typePick, search, picked>> /\ Narrowed
ToggleSort == desc' = ~desc /\ UNCHANGED <<loaded, filter, localPage>> /\ Converges(activeMatch)
GoLocalPage(p) == p \in 1..TotalPages /\ p \in {Page - 1, Page + 1} /\ localPage' = p
                  /\ UNCHANGED <<loaded, filter, desc, activeMatch>>

\* gotoMatch counts the matches of the page that is shown.
GotoMatch(dir) ==
  LET next == ((activeMatch - 1 + dir) % MatchTotal) + 1
      at   == {k \in DOMAIN Display : HitsOf(SubSeq(Display, 1, k)) >= next}
      k    == CHOOSE x \in at : \A y \in at : x <= y
  IN
  /\ MatchTotal > 0 /\ activeMatch' = next
  /\ localPage' = IF at # {} /\ TotalPages > 1 THEN (k - 1) \div PageSize + 1 ELSE localPage
  /\ UNCHANGED <<loaded, filter, desc>>

\* The page from top to bottom.
CfDistribution ==
  \/ \E b \in 0..MaxBars : PickBucket(b)
  \/ PopDistRange \/ ClearTypePick
  \/ \E ty \in Types : ToggleTypePick(ty)
SearchBar ==
  \/ FilterToggle \/ ToggleSort
  \/ \E on \in BOOLEAN : Search(on)
  \/ \E dir \in {-1, 1} : GotoMatch(dir)
Results == \E p \in 1..Len(rows) : GoLocalPage(p)
Next == OnPresetChange \/ CfDistribution \/ SearchBar \/ Results

Spec == Init /\ [][Next]_vars
-----------------------------------------------------------------------------
TypeOK ==
  /\ Len(stack) <= MaxStack /\ typePick \subseteq Types /\ localPage \in 1..Len(rows)
  /\ activeMatch \in Nat

(***************************************************************************)
(* A row stands in the bar of its time, and types have colours of their    *)
(* own as long as the palette lasts; rows without a type are grey, never   *)
(* a colour that means something. Both ends of the axis are labelled.      *)
(***************************************************************************)
ChartIsTrue ==
  LET dated == Dated  step == Step  start == Start  colours == AssignTypeColors  ticks == TickIdx IN
  /\ \A i \in dated : LET at == start + BarOf(i) * step IN at <= rows[i].time /\ rows[i].time < at + step
  /\ Cardinality(DOMAIN colours) <= Palette => IsInjective(colours)
  /\ \A ty \in DOMAIN CountByType : TypeColor(colours, ty) = Grey <=> ty = Unknown
  /\ dated # {} => {0, Bars - 1} \subseteq ticks /\ Cardinality(ticks) <= MaxTicks + 1

(***************************************************************************)
(* The chart loses no row: the bars hold all that have a time, a bar's     *)
(* segments all of the bar, the types shown and the rest all rows; and the *)
(* two halves prove each other, for a segment's type stands in the list    *)
(* (CfDistribution.tsx:58).                                                *)
(***************************************************************************)
ChartCountsAll ==
  LET counts == CountByType  dated == Dated IN
  /\ dated # {} => Cardinality(dated) =
       FoldSet(LAMBDA b, n : LET segs == Segs(b) IN n + Sizes(segs, DOMAIN segs), 0, 0..(Bars - 1))
  /\ Sizes(counts, ShownTypes) + RestCount = Cardinality(Charted)
  /\ RestCount >= RestLen
  /\ (Titled => (logType = Unknown \/ \A i \in Ids : rows[i].type # Unknown)) =>
       \A i \in dated : DOMAIN Segs(BarOf(i)) \subseteq DOMAIN counts

\* Clicking a bar keeps the bar's rows.
PickKeepsBar == \A i \in picked : InWindow(i)

\* What is exported is what is shown, on all pages.
ExportIsShown == (Plain => typePick = {} /\ (search => filterOn)) => ExportRows = Filtered

\* The match that is walked to is on the page that is shown.
MatchIsShown == (OnePage => TotalPages = 1) => activeMatch <= HitsOf(Display) /\ (MatchTotal > 0 => activeMatch > 0)
=============================================================================
