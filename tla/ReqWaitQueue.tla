------------------------------ MODULE ReqWaitQueue ------------------------------
(***************************************************************************)
(* HNReqWaitQueue and HNReqWaitAction: requesting threads post a record    *)
(* and block until a processing thread has completed it or 35 seconds have *)
(* gone by; the processing threads are woken through a semaphore eventfd   *)
(* that an HNEPLoop watches (level triggered), one record per wake-up.     *)
(*                                                                         *)
(* queueMutex and the mutex of an action are held only for the few         *)
(* statements of one call, so each action here is one such section. Every  *)
(* requester uses a record of its own, named like the requester. A post    *)
(* carries a ticket, the position of the post in the history.              *)
(***************************************************************************)
EXTENDS Naturals, Sequences

CONSTANTS
  Requesters,  \* threads calling postAndWait
  Workers,     \* threads calling aquireRecord and complete
  MaxPosts,    \* bound: posts over the whole history
  Env          \* "timeout": wait may time out; "reuse": a record is posted again
               \* while the queue or a worker still has it; "reinit": init is
               \* called again; "nofd": eventfd() may fail

ASSUME ReqWaitAssumption ==
  /\ Requesters \cap Workers = {}
  /\ MaxPosts \in Nat
  /\ Env \subseteq {"timeout", "reuse", "reinit", "nofd"}

Results == {"NEW", "SUCCESS", "FAILURE", "WAITING", "TIMEOUT"}
Entries == [rec : Requesters, ticket : 1 .. MaxPosts]
NoEntry == [ticket |-> 0]

VARIABLES
  eventFD,    \* the eventfd exists
  efd,        \* its count
  postCnt,
  postQueue,
  watched,    \* the event loop watches the present eventFD
  resCode,    \* of each record
  pc,         \* requester: "idle", "waiting" in wait(), "returned" from it
  wpc,        \* worker: "asleep" in epoll_wait, "awake", "working" on a record
  work,       \* the entry a worker has acquired
  \* history, for the properties only:
  tickets,    \* posts so far
  last,       \* ticket of the last post of each record
  doneBy,     \* ticket of the post whose completion last set resCode
  seen        \* result with which wait() returned

queue == <<eventFD, efd, postCnt, postQueue, watched>>
history == <<tickets, last, doneBy, seen>>
vars == <<queue, resCode, pc, wpc, work, history>>

InQueue(r) == \E i \in 1 .. Len(postQueue) : postQueue[i].rec = r
InWork(r) == \E w \in Workers : wpc[w] = "working" /\ work[w].rec = r

Init ==
  /\ eventFD = FALSE /\ efd = 0
  /\ postCnt = 0 /\ postQueue = <<>>
  /\ watched = FALSE
  /\ resCode = [r \in Requesters |-> "NEW"]
  /\ pc = [r \in Requesters |-> "idle"]
  /\ wpc = [w \in Workers |-> "asleep"]
  /\ work = [w \in Workers |-> NoEntry]
  /\ tickets = 0
  /\ last = [r \in Requesters |-> 0]
  /\ doneBy = [r \in Requesters |-> 0]
  /\ seen = [r \in Requesters |-> "NEW"]
---------------------------------------------------------------------------
\* init: the old descriptor is closed, which also takes it out of the epoll set.
InitQueue ==
  /\ ~eventFD \/ "reinit" \in Env
  /\ postCnt' = 0 /\ postQueue' = <<>>
  /\ efd' = 0 /\ watched' = FALSE
  /\ eventFD' \in {TRUE} \cup (IF "nofd" \in Env THEN {FALSE} ELSE {})
  /\ UNCHANGED <<resCode, pc, wpc, work, history>>

\* The application hands getEventFD to HNEPLoop::addFDToEPoll.
Watch ==
  /\ eventFD /\ ~watched
  /\ watched' = TRUE
  /\ UNCHANGED <<eventFD, efd, postCnt, postQueue, resCode, pc, wpc, work, history>>

\* Faulty variants: the eventfd is written only when the queue was empty; the
\* record is not prepared again.
PostWakesOnce(r) ==
  /\ pc[r] = "idle" /\ tickets < MaxPosts /\ ~InQueue(r) /\ ~InWork(r)
  /\ resCode' = [resCode EXCEPT ![r] = "WAITING"]
  /\ postQueue' = Append(postQueue, [rec |-> r, ticket |-> tickets + 1])
  /\ postCnt' = postCnt + 1
  /\ efd' = IF eventFD /\ postQueue = <<>> THEN efd + 1 ELSE efd
  /\ pc' = [pc EXCEPT ![r] = "waiting"]
  /\ tickets' = tickets + 1
  /\ last' = [last EXCEPT ![r] = tickets + 1]
  /\ UNCHANGED <<eventFD, watched, wpc, work, doneBy, seen>>
PostUnprepared(r) ==
  /\ pc[r] = "idle" /\ tickets < MaxPosts /\ ~InQueue(r) /\ ~InWork(r)
  /\ resCode' = [resCode EXCEPT ![r] = IF @ = "NEW" THEN "WAITING" ELSE @]
  /\ postQueue' = Append(postQueue, [rec |-> r, ticket |-> tickets + 1])
  /\ postCnt' = postCnt + 1
  /\ efd' = IF eventFD THEN efd + 1 ELSE efd
  /\ pc' = [pc EXCEPT ![r] = "waiting"]
  /\ tickets' = tickets + 1
  /\ last' = [last EXCEPT ![r] = tickets + 1]
  /\ UNCHANGED <<eventFD, watched, wpc, work, doneBy, seen>>

\* postAndWait up to wait(): prepare, push, count, signal, all under queueMutex.
\* The write fails, with a message only, while there is no eventfd.
Post(r) ==
  /\ pc[r] = "idle" /\ tickets < MaxPosts
  /\ "reuse" \in Env \/ (~InQueue(r) /\ ~InWork(r))
  /\ resCode' = [resCode EXCEPT ![r] = "WAITING"]
  /\ postQueue' = Append(postQueue, [rec |-> r, ticket |-> tickets + 1])
  /\ postCnt' = postCnt + 1
  /\ efd' = IF eventFD THEN efd + 1 ELSE efd
  /\ pc' = [pc EXCEPT ![r] = "waiting"]
  /\ tickets' = tickets + 1
  /\ last' = [last EXCEPT ![r] = tickets + 1]
  /\ UNCHANGED <<eventFD, watched, wpc, work, doneBy, seen>>

\* wait(): the record is not, or no longer, waiting.
WaitDone(r) ==
  /\ pc[r] = "waiting" /\ resCode[r] # "WAITING"
  /\ seen' = [seen EXCEPT ![r] = resCode[r]]
  /\ pc' = [pc EXCEPT ![r] = "returned"]
  /\ UNCHANGED <<queue, resCode, wpc, work, tickets, last, doneBy>>

\* Faulty variant: a timeout leaves the result as it is.
WaitTimeoutSilent(r) ==
  /\ pc[r] = "waiting" /\ resCode[r] = "WAITING" /\ "timeout" \in Env
  /\ UNCHANGED <<queue, resCode, pc, wpc, work, history>>

\* wait(): wait_for gave up, still under the lock. The record stays queued.
WaitTimeout(r) ==
  /\ pc[r] = "waiting" /\ resCode[r] = "WAITING" /\ "timeout" \in Env
  /\ resCode' = [resCode EXCEPT ![r] = "TIMEOUT"]
  /\ seen' = [seen EXCEPT ![r] = "TIMEOUT"]
  /\ pc' = [pc EXCEPT ![r] = "returned"]
  /\ UNCHANGED <<queue, wpc, work, tickets, last, doneBy>>

\* The requester reads getStatus, without the lock, and is done.
GetStatus(r) ==
  /\ pc[r] = "returned"
  /\ pc' = [pc EXCEPT ![r] = "idle"]
  /\ UNCHANGED <<queue, resCode, wpc, work, history>>
---------------------------------------------------------------------------
\* epoll_wait returns as long as the watched eventfd is not zero.
Wake(w) ==
  /\ wpc[w] = "asleep" /\ watched /\ efd > 0
  /\ wpc' = [wpc EXCEPT ![w] = "awake"]
  /\ UNCHANGED <<queue, resCode, pc, work, history>>

\* aquireRecord: another worker may have emptied the queue, and NULL is returned.
AquireRecord(w) ==
  /\ wpc[w] = "awake" /\ postCnt # 0
  /\ efd' = IF efd > 0 THEN efd - 1 ELSE efd
  /\ work' = [work EXCEPT ![w] = Head(postQueue)]
  /\ postQueue' = Tail(postQueue)
  /\ postCnt' = postCnt - 1
  /\ wpc' = [wpc EXCEPT ![w] = "working"]
  /\ UNCHANGED <<eventFD, watched, resCode, pc, history>>

\* Faulty variant: the count is decremented before the bounds check.
AquireNothingCounts(w) ==
  /\ wpc[w] = "awake" /\ postCnt = 0
  /\ postCnt' = postCnt - 1
  /\ wpc' = [wpc EXCEPT ![w] = "asleep"]
  /\ UNCHANGED <<eventFD, efd, postQueue, watched, resCode, pc, work, history>>

AquireNothing(w) ==
  /\ wpc[w] = "awake" /\ postCnt = 0
  /\ wpc' = [wpc EXCEPT ![w] = "asleep"]
  /\ UNCHANGED <<queue, resCode, pc, work, history>>

\* complete: sets the result whatever it is by now.
Complete(w, success) ==
  /\ wpc[w] = "working"
  /\ resCode' = [resCode EXCEPT ![work[w].rec] =
                   IF success THEN "SUCCESS" ELSE "FAILURE"]
  /\ doneBy' = [doneBy EXCEPT ![work[w].rec] = work[w].ticket]
  /\ work' = [work EXCEPT ![w] = NoEntry]
  /\ wpc' = [wpc EXCEPT ![w] = "asleep"]
  /\ UNCHANGED <<queue, pc, tickets, last, seen>>
---------------------------------------------------------------------------
Next ==
  \/ InitQueue
  \/ Watch
  \/ \E r \in Requesters :
       Post(r) \/ WaitDone(r) \/ WaitTimeout(r) \/ GetStatus(r)
  \/ \E w \in Workers : Wake(w) \/ AquireRecord(w) \/ AquireNothing(w)
  \/ \E w \in Workers, success \in BOOLEAN : Complete(w, success)

Spec == Init /\ [][Next]_vars

(***************************************************************************)
(* The application initialises the queue and watches it, its workers keep  *)
(* working, and a blocked thread is scheduled: when its result is there,   *)
(* or when the 35 seconds of wait_for are over.                            *)
(***************************************************************************)
Fairness ==
  /\ WF_vars(~eventFD /\ InitQueue) /\ WF_vars(Watch)
  /\ \A r \in Requesters : WF_vars(WaitDone(r) \/ WaitTimeout(r))
  /\ \A w \in Workers :
       WF_vars(Wake(w) \/ AquireRecord(w) \/ AquireNothing(w)
               \/ \E success \in BOOLEAN : Complete(w, success))

FairSpec == Spec /\ Fairness
---------------------------------------------------------------------------
\* Every variable of the queue, the records and the threads has its type.
TypeOK ==
  /\ eventFD \in BOOLEAN /\ watched \in BOOLEAN
  /\ efd \in Nat /\ postCnt \in Nat
  /\ postQueue \in Seq(Entries)
  /\ resCode \in [Requesters -> Results]
  /\ pc \in [Requesters -> {"idle", "waiting", "returned"}]
  /\ wpc \in [Workers -> {"asleep", "awake", "working"}]
  /\ work \in [Workers -> Entries \cup {NoEntry}]
  /\ tickets \in 0 .. MaxPosts
  /\ last \in [Requesters -> 0 .. MaxPosts]
  /\ doneBy \in [Requesters -> 0 .. MaxPosts]
  /\ seen \in [Requesters -> Results]

\* wait() returns SUCCESS or FAILURE only for a completion of this very post: no
\* answer to an earlier use of the record is taken for the present one.
\* "Called by requesting thread to block until response is ready"
\* (HNReqWaitQueue.h:32).
AnswerIsOwn ==
  \A r \in Requesters :
    pc[r] = "returned" /\ seen[r] \in {"SUCCESS", "FAILURE"} => doneBy[r] = last[r]

\* A waiting thread always comes back from postAndWait.
WaitEnds ==
  \A r \in Requesters : pc[r] = "waiting" ~> pc[r] # "waiting"

\* No wake-up is lost: a posted record is taken by a worker (or dropped by init),
\* although each wake-up takes one record only and workers compete for it.
QueueDrains ==
  \A n \in 1 .. MaxPosts :
    (\E i \in 1 .. Len(postQueue) : postQueue[i].ticket = n)
      ~> ~ \E i \in 1 .. Len(postQueue) : postQueue[i].ticket = n
================================================================================
