CONSTANTS
  Files = {f1, f2}
  Tabs = {t1}
  EmptyText = empty
  Texts = {empty, a, b}
  LineEnds <- Lf
  None = none
  Kinds = {"single","batch"}
  UseCache = {FALSE}
  Choices = {"theirs"}
  Failures = {}
  RacyEdits = FALSE
  Budget <- QuietBudget
SPECIFICATION Spec
SYMMETRY Symmetry
PROPERTIES NoSilentOverwrite ConflictIsReal
CHECK_DEADLOCK FALSE
