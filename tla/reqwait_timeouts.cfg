SPECIFICATION FairSpec
CONSTANTS
  Requesters = {q1, q2}
  Workers = {w1, w2}
  MaxPosts = 3
  Env = {"timeout", "reinit"}
\* The posts are bounded: the system stops when they are used up.
CHECK_DEADLOCK FALSE
INVARIANTS TypeOK AnswerIsOwn
PROPERTIES WaitEnds QueueDrains
