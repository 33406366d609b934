CONSTANTS
  Files = {f1}
  Tabs = {t1, t2}
  EmptyText = empty
  Texts = {empty, a, b}
  LineEnds <- Lf
  None = none
  Kinds = {"single","batch"}
  UseCache = {TRUE, FALSE}
  Choices = {"ours","theirs","merged"}
  Failures = {"fetch", "write", "manifest"}
  RacyEdits = TRUE
  Budget <- StormBudget
SPECIFICATION Spec
SYMMETRY Symmetry
INVARIANTS TypeOK BaseBeforeSnapshot NeverTruncated CutIsNotMerged
CHECK_DEADLOCK FALSE
