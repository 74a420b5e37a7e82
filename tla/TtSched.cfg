SPECIFICATION FairSpec
CONSTANTS
  t1 = t1  t2 = t2  ch1 = ch1  ch2 = ch2  ch3 = ch3
  Tasks = {t1, t2}
  Name <- SomeNames
  NameLen = 2
  NUL = NUL
  Apps = {t1}
  Tables <- SomeTables
  TIMPANI_MAX_TASKS = 2
  CounterMod = 3
  MaxUpdates = 2
  MaxObjects = 2
  MaxStarts = 2
  None = None
INVARIANTS
  LookupFindsOwnSlot
  SlotWasOwn
  NoLostFire
PROPERTY
  Served
CHECK_DEADLOCK FALSE
