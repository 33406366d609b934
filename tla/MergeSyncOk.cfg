CONSTANTS
  Files = {f1}
  Tabs = {t1}
  EmptyText = empty
  Texts = {empty, a, b}
  LineEnds <- Lf
  None = none
  Kinds = {"single", "batch"}
  UseCache = {FALSE, TRUE}
  Choices = {}
  Failures = {}
  RacyEdits = FALSE
  Budget <- ShortBudget
SPECIFICATION Spec
PROPERTY OkMeansSynced
CHECK_DEADLOCK FALSE
