SPECIFICATION Spec
INVARIANTS
  TypeOK
  ShownIsChosen
  ActsOnShown
  FilesAreWhole
PROPERTIES
  Returns
CHECK_DEADLOCK FALSE
