CONSTANTS
  Producers = {p1, p2}
  Tabs = {t1}
  MaxSize = 2
  MaxItems = 2
SPECIFICATION FairSpec
INVARIANTS
  TypeOK
  ProducerOrder
PROPERTIES
  OverflowDropsOne
  EveryEventArrives
CHECK_DEADLOCK FALSE
