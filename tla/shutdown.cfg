SPECIFICATION FairSpec
CONSTANTS
  Stream = {s1, s2, s3}
  Url = {u1}
  Elf = Elf
  Nil = Nil
CHECK_DEADLOCK FALSE
INVARIANTS TypeOK StoreOutlivesCalls ExitIsClean RegisteredAfterUpload
PROPERTIES ImplementsDraining SignalEndsProcess
