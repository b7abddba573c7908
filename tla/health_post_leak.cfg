SPECIFICATION Spec
CONSTANTS
  AppThreads = {a1, a2}
  RestThreads = {r1}
  NoThread = NoThread
  Sinks = {s1}
  NoSink = NoSink
  Names = {"n1"}
  IdLimit = 2
  Statuses = {"OK"}
  Codes = {}
  BadCodes = {}
  ErrCodes = {}
  MaxUpdates = 1
  Env = {"throw"}
INVARIANT MutexHasUser
SYMMETRY Symmetry
\* The run stops at its counterexample; a leaked mutex may stop the system before.
CHECK_DEADLOCK FALSE
