------------------------------ MODULE SigSyncQueue ------------------------------
(***************************************************************************)
(* HNSigSyncQueue between the thread of an HNAvahiBrowser, whose callbacks *)
(* post discovery events, and the thread that consumes them from an edge   *)
(* triggered epoll loop. Event records go round: posted, acquired,         *)
(* released, and freed by the producer for the next event.                 *)
(*                                                                         *)
(* Each call of the queue holds its mutex throughout and is one action; the*)
(* decisions taken on getReleasedCnt and getPostedCnt are actions of their *)
(* own. The content of a record is the number of the event.                *)
(***************************************************************************)
EXTENDS Naturals, Sequences, FiniteSets, SequencesExt

CONSTANTS
  Records,      \* event records on the heap
  NoRecord,
  MaxEvents,    \* bound: events discovered
  MaxRestarts   \* bound: times the browser is started again

ASSUME SigSyncAssumption ==
  /\ NoRecord \notin Records
  /\ MaxEvents \in Nat
  /\ MaxRestarts \in Nat

VARIABLES
  postQueue, postCnt,
  releaseQueue, releaseCnt,
  efd,       \* count of the eventfd, which a read clears
  watched,   \* the consumer's epoll set holds the present eventfd
  edge,      \* the eventfd is on epoll's ready list
  content,   \* number of the event each record describes
  ppc,       \* producer: "idle", "reuse" or "new", "post"
  filling,   \* its record
  cpc,       \* consumer: "wait" in epoll_wait, "loop", "take", "read"
  reading,   \* its record
  \* history, for the properties only:
  allocated, \* records allocated so far
  dropped,   \* records init forgot
  posted,    \* events posted
  received,  \* event last read by the consumer
  restarts,
  null       \* a NULL record was dereferenced

queues == <<postQueue, postCnt, releaseQueue, releaseCnt>>
signal == <<efd, watched, edge>>
producer == <<ppc, filling>>
consumer == <<cpc, reading>>
history == <<dropped, posted, received, restarts, null>>
vars == <<queues, signal, content, producer, consumer, allocated, history>>

Init ==
  /\ postQueue = <<>> /\ postCnt = 0
  /\ releaseQueue = <<>> /\ releaseCnt = 0
  /\ efd = 0 /\ watched = FALSE /\ edge = FALSE
  /\ content = [r \in Records |-> 0]
  /\ ppc = "idle" /\ filling = NoRecord
  /\ cpc = "wait" /\ reading = NoRecord
  /\ allocated = {} /\ dropped = {}
  /\ posted = 0 /\ received = 0 /\ restarts = 0
  /\ null = FALSE
---------------------------------------------------------------------------
\* callbackResolve or callbackBrowse, on the one thread of the avahi poll.
Discover ==
  /\ ppc = "idle" /\ posted < MaxEvents
  /\ ppc' = IF releaseCnt > 0 THEN "reuse" ELSE "new"
  /\ UNCHANGED <<queues, signal, content, filling, consumer, allocated, history>>

\* Faulty variants: the record stays in the list it was taken from; the count of
\* the other list is decremented.
ReuseRecordKept ==
  /\ ppc = "reuse" /\ releaseCnt > 0
  /\ filling' = Head(releaseQueue)
  /\ content' = [content EXCEPT ![Head(releaseQueue)] = posted + 1]
  /\ ppc' = "post"
  /\ UNCHANGED <<queues, signal, consumer, allocated, history>>
ReuseRecordWrongCount ==
  /\ ppc = "reuse" /\ releaseCnt > 0
  /\ filling' = Head(releaseQueue)
  /\ releaseQueue' = Tail(releaseQueue) /\ postCnt' = postCnt - 1
  /\ content' = [content EXCEPT ![Head(releaseQueue)] = posted + 1]
  /\ ppc' = "post"
  /\ UNCHANGED <<postQueue, releaseCnt, signal, consumer, allocated, history>>

\* freeRecord, and the event's data is set in the record it returns, if any.
ReuseRecord ==
  /\ ppc = "reuse"
  /\ IF releaseCnt = 0
       THEN /\ null' = TRUE
            /\ ppc' = "idle"
            /\ UNCHANGED <<filling, releaseQueue, releaseCnt, content>>
       ELSE /\ filling' = Head(releaseQueue)
            /\ releaseQueue' = Tail(releaseQueue)
            /\ releaseCnt' = releaseCnt - 1
            /\ content' = [content EXCEPT ![Head(releaseQueue)] = posted + 1]
            /\ ppc' = "post"
            /\ UNCHANGED null
  /\ UNCHANGED <<postQueue, postCnt, signal, consumer, allocated, dropped, posted,
                 received, restarts>>

\* No record is free: a new one is allocated.
NewRecord ==
  /\ ppc = "new"
  /\ \E r \in Records \ allocated :
       /\ filling' = r
       /\ allocated' = allocated \cup {r}
       /\ content' = [content EXCEPT ![r] = posted + 1]
  /\ ppc' = "post"
  /\ UNCHANGED <<queues, signal, consumer, history>>

\* Faulty variant: the newest event overtakes the others.
PostRecordFront ==
  /\ ppc = "post"
  /\ postQueue' = <<filling>> \o postQueue /\ postCnt' = postCnt + 1
  /\ efd' = efd + 1 /\ edge' = watched
  /\ ppc' = "idle" /\ filling' = NoRecord
  /\ posted' = posted + 1
  /\ UNCHANGED <<releaseQueue, releaseCnt, watched, content, consumer, allocated,
                 dropped, received, restarts, null>>

\* postRecord: every write to a watched eventfd puts it on the ready list.
PostRecord ==
  /\ ppc = "post"
  /\ postQueue' = Append(postQueue, filling)
  /\ postCnt' = postCnt + 1
  /\ efd' = efd + 1
  /\ edge' = watched
  /\ ppc' = "idle" /\ filling' = NoRecord
  /\ posted' = posted + 1
  /\ UNCHANGED <<releaseQueue, releaseCnt, watched, content, consumer, allocated,
                 dropped, received, restarts, null>>
---------------------------------------------------------------------------
\* The consumer adds the eventfd to its epoll set, edge triggered. One that is
\* readable already is reported.
Watch ==
  /\ ~watched
  /\ watched' = TRUE
  /\ edge' = (efd > 0)
  /\ UNCHANGED <<queues, efd, content, producer, consumer, allocated, history>>

\* epoll_wait takes the eventfd off the ready list and reports it if it is readable.
Wake ==
  /\ cpc = "wait" /\ edge
  /\ edge' = FALSE
  /\ cpc' = IF efd > 0 THEN "loop" ELSE "wait"
  /\ UNCHANGED <<queues, efd, watched, content, producer, reading, allocated, history>>

\* The condition of the consumer's loop, getPostedCnt.
Loop ==
  /\ cpc = "loop"
  /\ cpc' = IF postCnt > 0 THEN "take" ELSE "wait"
  /\ UNCHANGED <<queues, signal, content, producer, reading, allocated, history>>

\* aquireRecord: the read clears the eventfd however many records there are.
AquireRecord ==
  /\ cpc = "take"
  /\ IF postCnt = 0
       THEN /\ null' = TRUE
            /\ cpc' = "loop"
            /\ UNCHANGED <<efd, reading, postQueue, postCnt, received>>
       ELSE /\ efd' = 0
            /\ reading' = Head(postQueue)
            /\ postQueue' = Tail(postQueue)
            /\ postCnt' = postCnt - 1
            /\ received' = content[Head(postQueue)]
            /\ cpc' = "read"
            /\ UNCHANGED null
  /\ UNCHANGED <<releaseQueue, releaseCnt, watched, edge, content, producer,
                 allocated, dropped, posted, restarts>>

\* Faulty variant: one record for each event, "if" instead of "while".
ReleaseRecordThenWait ==
  /\ cpc = "read"
  /\ releaseQueue' = Append(releaseQueue, reading)
  /\ releaseCnt' = releaseCnt + 1
  /\ reading' = NoRecord
  /\ cpc' = "wait"
  /\ UNCHANGED <<postQueue, postCnt, signal, content, producer, allocated, history>>

ReleaseRecord ==
  /\ cpc = "read"
  /\ releaseQueue' = Append(releaseQueue, reading)
  /\ releaseCnt' = releaseCnt + 1
  /\ reading' = NoRecord
  /\ cpc' = "loop"
  /\ UNCHANGED <<postQueue, postCnt, signal, content, producer, allocated, history>>
---------------------------------------------------------------------------
\* Faulty variants: the browser's thread is not joined; init keeps the records
\* that were not acquired, but not their count.
RestartNotJoined ==
  /\ cpc = "wait" /\ restarts < MaxRestarts
  /\ postQueue' = <<>> /\ postCnt' = 0 /\ releaseQueue' = <<>> /\ releaseCnt' = 0
  /\ efd' = 0 /\ watched' = FALSE /\ edge' = FALSE
  /\ dropped' = dropped \cup ToSet(postQueue) \cup ToSet(releaseQueue)
  /\ restarts' = restarts + 1
  /\ UNCHANGED <<content, producer, consumer, allocated, posted, received, null>>

(***************************************************************************)
(* The consumer shuts the browser down when epoll_wait times out (which    *)
(* joins the producer's thread) and starts it again: init makes a new      *)
(* eventfd and forgets the records in both lists.                          *)
(***************************************************************************)
Restart ==
  /\ cpc = "wait" /\ ppc = "idle" /\ restarts < MaxRestarts
  /\ postQueue' = <<>> /\ postCnt' = 0
  /\ releaseQueue' = <<>> /\ releaseCnt' = 0
  /\ efd' = 0 /\ watched' = FALSE /\ edge' = FALSE
  /\ dropped' = dropped \cup ToSet(postQueue) \cup ToSet(releaseQueue)
  /\ restarts' = restarts + 1
  /\ UNCHANGED <<content, producer, consumer, allocated, posted, received, null>>
---------------------------------------------------------------------------
Produce == ReuseRecord \/ NewRecord \/ PostRecord
Consume == Wake \/ Loop \/ AquireRecord \/ ReleaseRecord

Next == Discover \/ Produce \/ Watch \/ Consume \/ Restart

\* Both threads run; the consumer watches the queue it has started.
Fairness == WF_vars(Produce) /\ WF_vars(Watch) /\ WF_vars(Consume)

Spec == Init /\ [][Next]_vars /\ Fairness
---------------------------------------------------------------------------
\* Every variable of the queue and of its two threads has its type.
TypeOK ==
  /\ postQueue \in Seq(Records) /\ releaseQueue \in Seq(Records)
  /\ postCnt \in Nat /\ releaseCnt \in Nat /\ efd \in Nat
  /\ watched \in BOOLEAN /\ edge \in BOOLEAN /\ null \in BOOLEAN
  /\ content \in [Records -> 0 .. MaxEvents]
  /\ ppc \in {"idle", "reuse", "new", "post"}
  /\ cpc \in {"wait", "loop", "take", "read"}
  /\ filling \in Records \cup {NoRecord} /\ reading \in Records \cup {NoRecord}
  /\ allocated \in SUBSET Records /\ dropped \in SUBSET Records
  /\ posted \in 0 .. MaxEvents /\ received \in 0 .. MaxEvents
  /\ restarts \in 0 .. MaxRestarts

\* A record is in one place at a time: in the producer's hands, posted, in the
\* consumer's hands or released. Otherwise the producer would rewrite an event that
\* is still to be read. And none gets lost, but for those init forgets.
RecordInOnePlace ==
  LET places == postQueue \o releaseQueue
                  \o (IF filling # NoRecord THEN <<filling>> ELSE <<>>)
                  \o (IF reading # NoRecord THEN <<reading>> ELSE <<>>)
  IN /\ IsInjective(places)
     /\ ToSet(places) = allocated \ dropped

\* The count the callbacks and the consumer's loop look at still holds when they
\* take the record, in a call of its own: neither dereferences NULL.
NoNullRecord == ~null

\* An edge is pending, or the consumer is in its loop, whenever a record waits in a
\* watched queue: with one read clearing the count and one edge for several posts,
\* no event is left behind until the next one happens to come.
NoEventStranded ==
  postQueue # <<>> /\ watched => (edge /\ efd > 0) \/ cpc # "wait"

\* The abstract channel: what is queued, by the events the records describe.
Channel == INSTANCE EventChannel WITH
  chan <- [i \in 1 .. Len(postQueue) |-> content[postQueue[i]]],
  sent <- posted,
  got  <- received

\* The queue implements the channel: each event is received once and in order,
\* although records are reused, and is received in the end unless init drops it.
ImplementsChannel == Channel!Spec
================================================================================
