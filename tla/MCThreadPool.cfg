\* Two workers and a client; a pool that has been destroyed does nothing any more.
CONSTANTS
  W1 = W1
  W2 = W2
  C1 = C1
  Workers <- TwoWorkers
  Clients <- OneClient
  Owner = C1
  NoThread = NoThread
  MaxTasks = 2
SPECIFICATION FairSpec
CHECK_DEADLOCK FALSE
INVARIANTS
  TypeOK
  OneWorker
  ExceptionsKept
  NoLostWakeup
  NothingLeftBehind
PROPERTIES
  TasksEnd
  CallsReturn
