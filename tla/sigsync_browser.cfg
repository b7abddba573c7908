SPECIFICATION Spec
CONSTANTS
  Records = {e1, e2, e3, e4, e5}
  NoRecord = NoRecord
  MaxEvents = 5
  MaxRestarts = 1
\* The events are bounded: the system stops when all have been consumed.
CHECK_DEADLOCK FALSE
INVARIANTS TypeOK RecordInOnePlace NoNullRecord NoEventStranded
PROPERTY ImplementsChannel
