SPECIFICATION FairSpec
CONSTANTS
  Kinds = {"announce", "browse"}
  MaxStarts = 3
  MaxRenames = 2
  Env = {"fail", "nodaemon", "earlyfail"}
\* Starts are bounded, and a process that has ended or waits for itself stops.
CHECK_DEADLOCK FALSE
INVARIANTS TypeOK FaultsOnlyInStart ServiceOffered NothingLeftBehind
PROPERTY ShutdownReturns
