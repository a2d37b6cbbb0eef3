\* Four threads, up to three readonly locks, two of them in one thread.
CONSTANTS
  T1 = T1
  T2 = T2
  T3 = T3
  T4 = T4
  Threads <- Four
  MaxLocks = 3
  Nesting = 2
SPECIFICATION FairSpec
INVARIANTS
  TypeOK
  Conservation
  FlagsTell
  NoLostWakeup
PROPERTIES
  KeepsPromise
  NoStandstill
