CONSTANTS
  Repos = {r1, r2}
  Paths = {p1}
  Slots = {p1}
  SlotOf <- OwnSlot
  Threads = {t1, t2}
  Inodes = {i1, i2, i3, i4, i5, i6}
  MaxPushes = 1
  MaxSwitches = 1
  MaxCrashes = 1
  RacySwitch = TRUE
  Clears = {"namespace", "diff"}
  None = none
  Torn = torn
SPECIFICATION Spec
VIEW WithoutFloor
SYMMETRY Symmetry
INVARIANTS
  TypeOK
  NeverTorn
  AnswersBelong
CHECK_DEADLOCK FALSE
