CONSTANTS
  Scans = {s1, s2, s3}
  Floor = 3
  Rates = {1, 2, 4, 5}
  RacyKnob = FALSE
  None = none
SPECIFICATION Spec
INVARIANTS
  TypeOK
  CountsScans
  RateComesBack
  ScansRunFast
CHECK_DEADLOCK FALSE
