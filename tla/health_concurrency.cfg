SPECIFICATION FairSpec
CONSTANTS
  AppThreads = {a1, a2}
  RestThreads = {r1}
  NoThread = NoThread
  Sinks = {s1}
  NoSink = NoSink
  Names = {"n1", "n2"}
  IdLimit = 2
  Statuses = {"OK"}
  Codes = {}
  BadCodes = {}
  ErrCodes = {}
  MaxUpdates = 1
  Env = {}
INVARIANTS TypeOK CycleOwnsMutex MutexHasUser StoreProtected ReadsSettledTree NoNullRoot
PROPERTY MutexReleased
