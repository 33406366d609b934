CONSTANTS
  Items = {i1, i2, i3, i4, i5}
  Writers = {w1, w2}
  FetchWorkers = 1
  PipeSize = 1
  Unreadable = {i1}
  Stop = stop
  Undecided = undecided
SPECIFICATION FairSpec
INVARIANTS
  TypeOK
  
  MemoryIsBounded
PROPERTIES
  KeepsPromise
  Answered
CHECK_DEADLOCK FALSE
