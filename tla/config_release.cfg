SPECIFICATION Spec
CONSTANTS
  RestThreads = {r1}
  NoThread = NoThread
  Names = {"n1"}
  InitialName = "InitialName"
  Owners = {o1}
  InvalidID = InvalidID
  Absent = Absent
  MaxRequests = 2
  MaxBoots = 2
  Env = {"keepcfg"}
CHECK_DEADLOCK FALSE
INVARIANT QuietAgrees
