SPECIFICATION Spec
CONSTANTS
  AppThreads = {a1}
  RestThreads = {r1}
  NoThread = NoThread
  Sinks = {s1}
  NoSink = NoSink
  Names = {"n1"}
  IdLimit = 3
  Statuses = {"OK", "FAILED"}
  Codes = {1}
  BadCodes = {}
  ErrCodes = {0}
  MaxUpdates = 1
  Env = {"unmap"}
\* A sink emptied just before its post leaves the mutex locked: the system may stop.
CHECK_DEADLOCK FALSE
INVARIANTS PropagatedReference SinkHeardLatest TreeWellFormed ReturnsChange
