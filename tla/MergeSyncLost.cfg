CONSTANTS
  Files = {f1}
  Tabs = {t1, t2}
  EmptyText = empty
  Texts = {empty, a, b}
  LineEnds <- Lf
  None = none
  Kinds = {"single", "batch"}
  UseCache = {FALSE}
  Choices = {}
  Failures = {}
  RacyEdits = FALSE
  Budget <- FailureBudget
SPECIFICATION Spec
PROPERTY NoSilentOverwrite
CHECK_DEADLOCK FALSE
