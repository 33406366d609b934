CONSTANTS
  Files = {f1}
  Tabs = {t1, t2}
  EmptyText = empty
  Texts = {empty, a}
  LineEnds <- Lf
  None = none
  Kinds = {"single", "batch"}
  UseCache = {FALSE}
  Choices = {"theirs"}
  Failures = {"fetch", "write", "base", "manifest"}
  RacyEdits = FALSE
  Budget <- FailureBudget
SPECIFICATION FairSpec
PROPERTY RequestsEnd
CHECK_DEADLOCK FALSE
