------------------------------ MODULE TextTools -----------------------------
(***************************************************************************)
(* Two functions of the compare tab on lines of text: the three-way merge  *)
(* that fills the conflict dialog, which goes line by line at the same     *)
(* number, and the table that is drawn from a unified diff.                *)
(***************************************************************************)
EXTENDS Integers, Sequences, FiniteSets, FiniteSetsExt, SequencesExt

CONSTANTS Lines, MaxLines, MaxRows,
          Dashed      \* removed and added lines may begin with -- and ++

VARIABLES task, given, result

vars == <<task, given, result>>

Texts == UNION {[1..n -> Lines] : n \in 1..MaxLines}   \* split never gives an empty list
Blank == ""
Null == <<"null">>                    \* no base: the file is new on both sides

Line(text, i) == IF i <= Len(text) THEN text[i] ELSE Blank
Conflict(o, t) == <<"<<<<<<<", o, "===", t, ">>>>>>>">>

\* mutant: a line that ours left alone is kept, also where theirs changed it
MergedLineOurs(b, o, t) == IF o \in {t, b} \/ t = b THEN <<o>> ELSE Conflict(o, t)

\* mutant: every difference is a conflict
MergedLineWary(b, o, t) == IF o = t THEN <<o>> ELSE Conflict(o, t)

MergedLine(b, o, t) ==
  IF o = t THEN <<o>> ELSE IF o = b THEN <<t>> ELSE IF t = b THEN <<o>> ELSE Conflict(o, t)

ThreeWayMerge(base, ours, theirs) ==
  CASE base = Null -> theirs
    [] base # Null /\ ours = theirs -> ours
    [] base # Null /\ ours # theirs /\ ours = base -> theirs
    [] base # Null /\ ours # theirs /\ theirs = base -> ours
    [] OTHER -> FlattenSeq([i \in 1..Max({Len(base), Len(ours), Len(theirs)}) |->
                              MergedLine(Line(base, i), Line(ours, i), Line(theirs, i))])

-----------------------------------------------------------------------------
\* A unified diff: file headers, then hunks.  A removed line that begins with
\* -- looks like a header, an added one with ++ likewise.
Row == [kind: {"ctx", "del", "add"}, dashed: IF Dashed THEN BOOLEAN ELSE {FALSE}]
Hunk == [kind: {"hunk"}, old: {1, 3}, new: {1, 4}]
Header == [kind |-> "header"]

IsHeader(r) == r.kind = "header" \/ (r.kind \in {"del", "add"} /\ r.dashed)

\* What is drawn of the row: its two line numbers, 0 for an empty cell.
\* mutant: a context line counts on one side only
StepForgetsNew(n, r) == IF r.kind = "add" THEN [n EXCEPT !.new = @ + 1] ELSE [n EXCEPT !.old = @ + 1]
Step(n, r) ==
  CASE r.kind = "add" -> [n EXCEPT !.new = @ + 1]
    [] r.kind = "del" -> [n EXCEPT !.old = @ + 1]
    [] OTHER -> [old |-> n.old + 1, new |-> n.new + 1]

\* What has been drawn so far, and the numbers of its last lines.
Draw(done, r) ==
  IF IsHeader(r) THEN done
  ELSE IF r.kind = "hunk" THEN [done EXCEPT !.at = [old |-> r.old - 1, new |-> r.new - 1]]
  ELSE LET m == Step(done.at, r) IN
       [at |-> m,
        rows |-> Append(done.rows, [kind |-> r.kind,
                                    old |-> IF r.kind = "add" THEN 0 ELSE m.old,
                                    new |-> IF r.kind = "del" THEN 0 ELSE m.new])]

RenderUnifiedDiff(rows) ==
  FoldLeft(Draw, [at |-> [old |-> 0, new |-> 0], rows |-> <<>>], rows).rows

-----------------------------------------------------------------------------
Diffs == {<<Header, h>> \o body : h \in Hunk, body \in UNION {[1..n -> Row] : n \in 1..MaxRows}}
Conflicts == {[base |-> b, ours |-> o, theirs |-> t] : b \in Texts \cup {Null}, o \in Texts, t \in Texts}

Init ==
  /\ result = <<>>
  /\ \/ task = "merge" /\ given \in Conflicts
     \/ task = "view" /\ given \in Diffs

Merge == task = "merge" /\ task' = "merged"
         /\ result' = ThreeWayMerge(given.base, given.ours, given.theirs) /\ UNCHANGED given
View == task = "view" /\ task' = "viewed"
        /\ result' = RenderUnifiedDiff(given) /\ UNCHANGED given
Next == Merge \/ View

Spec == Init /\ [][Next]_vars
-----------------------------------------------------------------------------
Changed(text, base) == {i \in 1..Max({Len(text), Len(base)}) : Line(text, i) # Line(base, i)}

(***************************************************************************)
(* No edit is lost: a line that one side has and its base has not is in    *)
(* the text the user is offered, alone or in a conflict block.             *)
(***************************************************************************)
NoEditLost ==
  task = "merged" /\ given.base # Null =>
    \A text \in {given.ours, given.theirs} :
      ToSet(text) \ ToSet(given.base) \subseteq ToSet(result)

(***************************************************************************)
(* Edits that do not move lines: the merge has a block only where both     *)
(* sides changed a line, and otherwise each line is the changed one.       *)
(***************************************************************************)
MergesInPlace ==
  task = "merged" /\ given.base # Null /\ Len(given.ours) = Len(given.base) /\ Len(given.theirs) = Len(given.base) =>
    LET both == {i \in Changed(given.ours, given.base) \cap Changed(given.theirs, given.base) :
                   given.ours[i] # given.theirs[i]} IN
      /\ both = {} <=> "===" \notin ToSet(result)
      /\ both = {} => \A i \in 1..Len(given.base) :
                        result[i] = IF i \in Changed(given.ours, given.base) THEN given.ours[i] ELSE given.theirs[i]

\* The table shows every row of the diff, each with its number in its file.
ShowsEveryRow ==
  task = "viewed" =>
    LET rows == SelectSeq(given, LAMBDA r : r.kind \in {"ctx", "del", "add"})
        at(side, skip, i) == given[2][side] + Cardinality({j \in 1..i-1 : rows[j].kind # skip}) IN
      /\ Len(result) = Len(rows)
      /\ \A i \in 1..Len(rows) :
           /\ rows[i].kind # "add" => result[i].old = at("old", "add", i)
           /\ rows[i].kind # "del" => result[i].new = at("new", "del", i)
=============================================================================
