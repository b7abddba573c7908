-------------------------- MODULE ReqWaitQueue_proofs --------------------------
(***************************************************************************)
(* Theorems about ReqWaitQueue, for any requesters, workers and number of  *)
(* posts.                                                                  *)
(***************************************************************************)
EXTENDS ReqWaitQueue, TLAPS

(***************************************************************************)
(* Counts. aquireRecord trusts m_postCnt: the head of the list is taken and*)
(* the count decremented because the count says so, and types depend on it.*)
(***************************************************************************)
CountInv ==
  /\ TypeOK
  /\ postCnt = Len(postQueue)
  /\ efd = IF eventFD THEN Len(postQueue) ELSE 0
  /\ watched => eventFD
  /\ \A w \in Workers : wpc[w] = "working" => work[w] \in Entries

\* The counts agree before the first call.
LEMMA CountInit == Init => CountInv
<1> SUFFICES ASSUME Init PROVE CountInv
  OBVIOUS
<1>1. 0 \in 0 .. MaxPosts
  BY ReqWaitAssumption
<1>2. <<>> \in Seq(Entries) /\ Len(<<>>) = 0
  OBVIOUS
<1>3. /\ resCode \in [Requesters -> Results] /\ seen \in [Requesters -> Results]
      /\ pc \in [Requesters -> {"idle", "waiting", "returned"}]
      /\ last \in [Requesters -> 0 .. MaxPosts]
      /\ doneBy \in [Requesters -> 0 .. MaxPosts]
  BY <1>1 DEF Init, Results
<1>4. /\ wpc \in [Workers -> {"asleep", "awake", "working"}]
      /\ work \in [Workers -> Entries \cup {NoEntry}]
      /\ \A w \in Workers : wpc[w] # "working"
  BY DEF Init
<1>5. /\ eventFD = FALSE /\ watched = FALSE /\ efd = 0 /\ postCnt = 0
      /\ postQueue = <<>> /\ tickets = 0
  BY DEF Init
<1>6. TypeOK
  BY <1>1, <1>2, <1>3, <1>4, <1>5 DEF TypeOK
<1>7. QED
  BY <1>2, <1>4, <1>5, <1>6 DEF CountInv

\* Each step keeps the types, the count and the semaphore in agreement with the list.
LEMMA CountStep ==
  ASSUME CountInv, [Next]_vars
  PROVE  CountInv'
<1> USE ReqWaitAssumption
<1> USE DEF CountInv, TypeOK, queue, history, Results
<1>1. ASSUME InitQueue PROVE CountInv'
  <2>1. eventFD' \in BOOLEAN
    BY <1>1 DEF InitQueue
  <2>2. postQueue' \in Seq(Entries) /\ Len(postQueue') = 0
    BY <1>1 DEF InitQueue
  <2>3. /\ postCnt' = 0 /\ efd' = 0 /\ watched' = FALSE
        /\ UNCHANGED <<resCode, pc, wpc, work, tickets, last, doneBy, seen>>
    BY <1>1 DEF InitQueue
  <2>4. TypeOK'
    BY <2>1, <2>2, <2>3
  <2>5. QED BY <2>2, <2>3, <2>4
<1>2. ASSUME Watch PROVE CountInv'
  BY <1>2 DEF Watch
<1>3. ASSUME NEW r \in Requesters, Post(r) PROVE CountInv'
  <2>1. [rec |-> r, ticket |-> tickets + 1] \in Entries
    BY <1>3 DEF Post, Entries
  <2>2. /\ postQueue' \in Seq(Entries) /\ Len(postQueue') = Len(postQueue) + 1
    BY <1>3, <2>1 DEF Post
  <2>3. QED BY <1>3, <2>1, <2>2 DEF Post
<1>4. ASSUME NEW r \in Requesters, WaitDone(r) PROVE CountInv'
  BY <1>4 DEF WaitDone
<1>5. ASSUME NEW r \in Requesters, WaitTimeout(r) PROVE CountInv'
  BY <1>5 DEF WaitTimeout
<1>6. ASSUME NEW r \in Requesters, GetStatus(r) PROVE CountInv'
  BY <1>6 DEF GetStatus
<1>7. ASSUME NEW w \in Workers, Wake(w) PROVE CountInv'
  BY <1>7 DEF Wake
<1>8. ASSUME NEW w \in Workers, AquireRecord(w) PROVE CountInv'
  <2>1. postQueue # <<>>
    BY <1>8 DEF AquireRecord
  <2>2. /\ Head(postQueue) \in Entries /\ Tail(postQueue) \in Seq(Entries)
        /\ Len(Tail(postQueue)) = Len(postQueue) - 1 /\ Len(postQueue) > 0
    BY <2>1
  <2>3. QED BY <1>8, <2>2 DEF AquireRecord
<1>9. ASSUME NEW w \in Workers, AquireNothing(w) PROVE CountInv'
  BY <1>9 DEF AquireNothing
<1>10. ASSUME NEW w \in Workers, NEW success \in BOOLEAN, Complete(w, success)
       PROVE  CountInv'
  <2>1. work[w].rec \in Requesters /\ work[w].ticket \in 1 .. MaxPosts
    BY <1>10 DEF Complete, Entries
  <2>2. QED BY <1>10, <2>1 DEF Complete
<1>11. CASE UNCHANGED vars
  BY <1>11 DEF vars
<1>12. QED
  BY <1>1, <1>2, <1>3, <1>4, <1>5, <1>6, <1>7, <1>8, <1>9, <1>10, <1>11 DEF Next

\* The counts agree throughout.
LEMMA CountInvariant == Spec => []CountInv
<1>1. QED BY CountInit, CountStep, PTL DEF Spec

\* Every variable keeps its type: no worker takes a record off an empty list, and
\* no count falls below zero, however often the queue is initialised anew.
THEOREM TypeCorrect == Spec => []TypeOK
<1>1. CountInv => TypeOK
  BY DEF CountInv
<1>2. QED BY <1>1, CountInvariant, PTL

\* The level-triggered eventfd is readable as long as a record waits in a queue
\* that has one: a worker asleep is woken, and another for each further record.
WakeupPending ==
  /\ eventFD /\ postQueue # <<>> => efd > 0
  /\ watched => efd = Len(postQueue)

\* No wake-up is lost, and there are as many as records.
THEOREM WakeupNotLost == Spec => []WakeupPending
<1>1. CountInv => WakeupPending
  BY DEF CountInv, TypeOK, WakeupPending
<1>2. QED BY <1>1, CountInvariant, PTL
-----------------------------------------------------------------------------
(***************************************************************************)
(* Answers. A record that is queued or in work belongs to the last post of *)
(* its requester, since none posts it again before it has come out.        *)
(***************************************************************************)
AnswerInv ==
  /\ \A i \in 1 .. Len(postQueue) : postQueue[i].ticket = last[postQueue[i].rec]
  /\ \A w \in Workers :
       wpc[w] = "working" => work[w].ticket = last[work[w].rec]
  /\ \A r \in Requesters :
       pc[r] = "waiting" /\ resCode[r] \in {"SUCCESS", "FAILURE"}
         => doneBy[r] = last[r]
  /\ AnswerIsOwn

\* Each step keeps records with the post they were made for.
LEMMA AnswerStep ==
  ASSUME "reuse" \notin Env, CountInv, AnswerInv, [Next]_vars
  PROVE  AnswerInv'
<1> USE DEF AnswerInv, AnswerIsOwn, CountInv, TypeOK, queue, history
<1>1. ASSUME InitQueue \/ Watch PROVE AnswerInv'
  <2>1. postQueue' = postQueue \/ Len(postQueue') = 0
    BY <1>1 DEF InitQueue, Watch
  <2>2. UNCHANGED <<resCode, pc, wpc, work, history>>
    BY <1>1 DEF InitQueue, Watch
  <2>3. QED BY <2>1, <2>2
<1>2. ASSUME NEW r \in Requesters, Post(r) PROVE AnswerInv'
  <2> DEFINE e == [rec |-> r, ticket |-> tickets + 1]
  <2>1. e \in Entries
    BY <1>2, ReqWaitAssumption DEF Post, Entries
  <2>2. ~InQueue(r) /\ ~InWork(r)
    BY <1>2 DEF Post
  <2>3. last'[r] = tickets + 1 /\ \A q \in Requesters \ {r} : last'[q] = last[q]
    BY <1>2 DEF Post
  <2>4. ASSUME NEW i \in 1 .. Len(postQueue')
        PROVE  postQueue'[i].ticket = last'[postQueue'[i].rec]
    <3>1. /\ Len(postQueue') = Len(postQueue) + 1
          /\ \A j \in 1 .. Len(postQueue) : postQueue'[j] = postQueue[j]
          /\ postQueue'[Len(postQueue) + 1] = e
      BY <1>2, <2>1 DEF Post
    <3>2. CASE i = Len(postQueue) + 1
      BY <2>3, <3>1, <3>2
    <3>3. CASE i \in 1 .. Len(postQueue)
      <4>1. postQueue[i] \in Entries
        BY <3>3
      <4>2. postQueue[i].rec \in Requesters \ {r}
        BY <2>2, <3>3, <4>1 DEF InQueue, Entries
      <4>3. QED BY <2>3, <3>1, <3>3, <4>2
    <3>4. QED BY <3>1, <3>2, <3>3
  <2>5. ASSUME NEW w \in Workers, wpc'[w] = "working"
        PROVE  work'[w].ticket = last'[work'[w].rec]
    <3>1. wpc[w] = "working" /\ work' = work
      BY <1>2, <2>5 DEF Post
    <3>2. work[w].rec \in Requesters \ {r}
      BY <2>2, <3>1 DEF InWork, Entries
    <3>3. QED BY <2>3, <3>1, <3>2
  <2>6. /\ pc' = [pc EXCEPT ![r] = "waiting"]
        /\ resCode' = [resCode EXCEPT ![r] = "WAITING"]
        /\ doneBy' = doneBy /\ seen' = seen
    BY <1>2 DEF Post
  <2>7. QED BY <2>3, <2>4, <2>5, <2>6
<1>3. ASSUME NEW r \in Requesters, WaitDone(r) PROVE AnswerInv'
  BY <1>3 DEF WaitDone
<1>4. ASSUME NEW r \in Requesters, WaitTimeout(r) PROVE AnswerInv'
  BY <1>4 DEF WaitTimeout
<1>5. ASSUME NEW r \in Requesters, GetStatus(r) PROVE AnswerInv'
  BY <1>5 DEF GetStatus
<1>6. ASSUME NEW w \in Workers, Wake(w) \/ AquireNothing(w) PROVE AnswerInv'
  BY <1>6 DEF Wake, AquireNothing
<1>7. ASSUME NEW w \in Workers, AquireRecord(w) PROVE AnswerInv'
  <2>1. postQueue # <<>>
    BY <1>7 DEF AquireRecord
  <2>2. /\ Head(postQueue) = postQueue[1] /\ 1 \in 1 .. Len(postQueue)
        /\ Len(Tail(postQueue)) = Len(postQueue) - 1
        /\ \A i \in 1 .. Len(Tail(postQueue)) : Tail(postQueue)[i] = postQueue[i + 1]
    BY <2>1
  <2>3. \A i \in 1 .. Len(postQueue') :
          postQueue'[i].ticket = last'[postQueue'[i].rec]
    BY <1>7, <2>2 DEF AquireRecord
  <2>4. \A v \in Workers : wpc'[v] = "working" => work'[v].ticket = last'[work'[v].rec]
    BY <1>7, <2>2 DEF AquireRecord
  <2>5. QED BY <1>7, <2>3, <2>4 DEF AquireRecord
<1>8. ASSUME NEW w \in Workers, NEW success \in BOOLEAN, Complete(w, success)
      PROVE  AnswerInv'
  <2>1. work[w].rec \in Requesters /\ work[w].ticket = last[work[w].rec]
    BY <1>8 DEF Complete, Entries
  <2>2. \A r \in Requesters : doneBy'[r] = doneBy[r] \/ doneBy'[r] = last[r]
    BY <1>8, <2>1 DEF Complete
  <2>3. \A r \in Requesters : resCode'[r] = resCode[r] \/ doneBy'[r] = last[r]
    BY <1>8, <2>1 DEF Complete
  <2>4. UNCHANGED <<postQueue, pc, last, seen>>
        /\ \A v \in Workers : wpc'[v] = "working" => wpc[v] = "working" /\ work'[v] = work[v]
    BY <1>8 DEF Complete
  <2>5. QED BY <2>2, <2>3, <2>4
<1>9. CASE UNCHANGED vars
  BY <1>9 DEF vars
<1>10. QED
  BY <1>1, <1>2, <1>3, <1>4, <1>5, <1>6, <1>7, <1>8, <1>9 DEF Next

\* An answer that wait() returns is to the very post it waits for, although
\* completions come after timeouts and the queue is initialised in between, if a
\* record is posted again only when it has come out.
THEOREM AnswersOwn ==
  ASSUME "reuse" \notin Env
  PROVE  Spec => []AnswerIsOwn
<1>1. Init => AnswerInv
  BY DEF Init, AnswerInv, AnswerIsOwn
<1>2. CountInv /\ AnswerInv /\ [Next]_vars => AnswerInv'
  BY AnswerStep
<1>3. AnswerInv => AnswerIsOwn
  BY DEF AnswerInv
<1>4. QED BY <1>1, <1>2, <1>3, CountInvariant, PTL DEF Spec
================================================================================
