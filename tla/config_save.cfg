SPECIFICATION FairSpec
CONSTANTS
  RestThreads = {r1, r2}
  NoThread = NoThread
  Names = {"n1"}
  InitialName = "InitialName"
  Owners = {o1}
  InvalidID = InvalidID
  Absent = Absent
  MaxRequests = 3
  MaxBoots = 3
  Env = {"crash"}
\* Requests and boots are bounded: the system stops when they are used up.
CHECK_DEADLOCK FALSE
INVARIANTS TypeOK WholeCopyExists IdentityStable QuietAgrees
PROPERTY ChangeSaved
