-------------------------- MODULE SigSyncQueue_proofs --------------------------
(***************************************************************************)
(* Theorems about SigSyncQueue, for any records and numbers of events and  *)
(* restarts.                                                               *)
(***************************************************************************)
EXTENDS SigSyncQueue, SequenceTheorems, TLAPS

(***************************************************************************)
(* Sequences without repetition, and the sets of their elements.           *)
(***************************************************************************)
LEMMA ToSetIs ==
  ASSUME NEW S, NEW s \in Seq(S)
  PROVE  ToSet(s) = {s[i] : i \in 1 .. Len(s)} /\ ToSet(s) \subseteq S
BY DEF ToSet

\* Appending an element adds it to the set, and repeats none if it is new.
LEMMA AppendSet ==
  ASSUME NEW S, NEW s \in Seq(S), NEW e \in S
  PROVE  /\ ToSet(Append(s, e)) = ToSet(s) \cup {e}
         /\ IsInjective(s) /\ e \notin ToSet(s) => IsInjective(Append(s, e))
<1> DEFINE t == Append(s, e)
<1>1. /\ t \in Seq(S) /\ DOMAIN t = 1 .. Len(s) + 1 /\ DOMAIN s = 1 .. Len(s)
      /\ \A i \in 1 .. Len(s) : t[i] = s[i]
      /\ t[Len(s) + 1] = e
      /\ Len(s) \in Nat
  BY AppendProperties
<1> HIDE DEF t
<1>2. ToSet(t) = ToSet(s) \cup {e}
  <2>1. ASSUME NEW x \in ToSet(t) PROVE x \in ToSet(s) \cup {e}
    BY <1>1, <2>1 DEF ToSet
  <2>2. ASSUME NEW x \in ToSet(s) PROVE x \in ToSet(t)
    <3>1. PICK i \in 1 .. Len(s) : s[i] = x
      BY <1>1 DEF ToSet
    <3>2. i \in 1 .. Len(s) + 1 /\ t[i] = x
      BY <1>1, <3>1
    <3>3. QED BY <1>1, <3>2 DEF ToSet
  <2>3. e \in ToSet(t)
    <3>1. Len(s) + 1 \in 1 .. Len(s) + 1
      BY <1>1
    <3>2. QED BY <1>1, <3>1 DEF ToSet
  <2>4. QED BY <2>1, <2>2, <2>3
<1>3. ASSUME IsInjective(s), e \notin ToSet(s) PROVE IsInjective(t)
  BY <1>1, <1>3 DEF IsInjective, ToSet
<1>4. QED BY <1>2, <1>3 DEF t

\* Taking the head off a sequence without repetition takes it out of the set.
LEMMA TakeHead ==
  ASSUME NEW S, NEW s \in Seq(S), s # <<>>, IsInjective(s)
  PROVE  /\ Head(s) \in S /\ Tail(s) \in Seq(S) /\ Len(Tail(s)) = Len(s) - 1
         /\ Head(s) \in ToSet(s) /\ Head(s) \notin ToSet(Tail(s))
         /\ ToSet(Tail(s)) = ToSet(s) \ {Head(s)}
         /\ IsInjective(Tail(s))
<1> DEFINE t == Tail(s)
<1>1. /\ Head(s) \in S /\ t \in Seq(S) /\ Len(t) = Len(s) - 1
      /\ \A i \in 1 .. Len(t) : t[i] = s[i + 1]
  BY HeadTailProperties
<1>2. /\ Len(s) \in Nat \ {0} /\ DOMAIN s = 1 .. Len(s) /\ DOMAIN t = 1 .. Len(t)
      /\ Head(s) = s[1]
  BY <1>1, EmptySeq, LenProperties
<1> HIDE DEF t
<1>3. s[1] \in ToSet(s)
  BY <1>2 DEF ToSet
<1>4. s[1] \notin ToSet(t)
  BY <1>1, <1>2 DEF ToSet, IsInjective
<1>5. ASSUME NEW x \in ToSet(t) PROVE x \in ToSet(s)
  <2>1. PICK i \in 1 .. Len(t) : t[i] = x
    BY <1>2 DEF ToSet
  <2>2. i + 1 \in 1 .. Len(s) /\ s[i + 1] = x
    BY <1>1, <1>2, <2>1
  <2>3. QED BY <1>2, <2>2 DEF ToSet
<1>6. ASSUME NEW x \in ToSet(s), x # s[1] PROVE x \in ToSet(t)
  <2>1. PICK i \in 1 .. Len(s) : s[i] = x
    BY <1>2 DEF ToSet
  <2>2. i - 1 \in 1 .. Len(t) /\ t[i - 1] = x
    BY <1>1, <1>2, <1>6, <2>1
  <2>3. QED BY <1>2, <2>2 DEF ToSet
<1>7. IsInjective(t)
  BY <1>1, <1>2 DEF IsInjective
<1>8. QED BY <1>1, <1>2, <1>3, <1>4, <1>5, <1>6, <1>7 DEF t

\* Two sequences without repetition and without a common element, one after the
\* other, repeat none.
LEMMA ConcatSet ==
  ASSUME NEW S, NEW s \in Seq(S), NEW t \in Seq(S)
  PROVE  /\ s \o t \in Seq(S)
         /\ ToSet(s \o t) = ToSet(s) \cup ToSet(t)
         /\ IsInjective(s) /\ IsInjective(t) /\ ToSet(s) \cap ToSet(t) = {}
              => IsInjective(s \o t)
<1> DEFINE c == s \o t
<1>1. /\ c \in Seq(S) /\ Len(c) = Len(s) + Len(t)
      /\ \A i \in 1 .. Len(c) : c[i] = IF i <= Len(s) THEN s[i] ELSE t[i - Len(s)]
      /\ Len(s) \in Nat /\ Len(t) \in Nat
      /\ DOMAIN c = 1 .. Len(c) /\ DOMAIN s = 1 .. Len(s) /\ DOMAIN t = 1 .. Len(t)
  BY ConcatProperties, LenProperties
<1> HIDE DEF c
<1>2. ASSUME NEW x \in ToSet(c) PROVE x \in ToSet(s) \cup ToSet(t)
  <2>1. PICK i \in 1 .. Len(c) : c[i] = x
    BY <1>1 DEF ToSet
  <2>2. CASE i <= Len(s)
    <3>1. i \in 1 .. Len(s) /\ s[i] = x
      BY <1>1, <2>1, <2>2
    <3>2. QED BY <1>1, <3>1 DEF ToSet
  <2>3. CASE i > Len(s)
    <3>1. i - Len(s) \in 1 .. Len(t) /\ t[i - Len(s)] = x
      BY <1>1, <2>1, <2>3
    <3>2. QED BY <1>1, <3>1 DEF ToSet
  <2>4. QED BY <1>1, <2>2, <2>3
<1>3. ASSUME NEW x \in ToSet(s) PROVE x \in ToSet(c)
  <2>1. PICK i \in 1 .. Len(s) : s[i] = x
    BY <1>1 DEF ToSet
  <2>2. i \in 1 .. Len(c) /\ c[i] = x
    BY <1>1, <2>1
  <2>3. QED BY <1>1, <2>2 DEF ToSet
<1>4. ASSUME NEW x \in ToSet(t) PROVE x \in ToSet(c)
  <2>1. PICK i \in 1 .. Len(t) : t[i] = x
    BY <1>1 DEF ToSet
  <2>2. Len(s) + i \in 1 .. Len(c) /\ c[Len(s) + i] = x
    BY <1>1, <2>1
  <2>3. QED BY <1>1, <2>2 DEF ToSet
<1>5. ASSUME IsInjective(s), IsInjective(t), ToSet(s) \cap ToSet(t) = {}
      PROVE  IsInjective(c)
  <2> SUFFICES ASSUME NEW i \in 1 .. Len(c), NEW j \in 1 .. Len(c), c[i] = c[j], i < j
               PROVE  FALSE
    BY <1>1 DEF IsInjective
  <2>1. CASE j <= Len(s)
    BY <1>1, <1>5, <2>1 DEF IsInjective
  <2>2. CASE i > Len(s)
    <3>1. /\ i - Len(s) \in DOMAIN t /\ j - Len(s) \in DOMAIN t
          /\ t[i - Len(s)] = t[j - Len(s)]
      BY <1>1, <2>2
    <3>2. i - Len(s) = j - Len(s)
      BY <1>5, <3>1 DEF IsInjective
    <3>3. QED BY <1>1, <3>2
  <2>3. CASE i <= Len(s) /\ j > Len(s)
    <3>1. c[i] \in ToSet(s)
      BY <1>1, <2>3 DEF ToSet
    <3>2. j - Len(s) \in DOMAIN t /\ c[j] = t[j - Len(s)]
      BY <1>1, <2>3
    <3>3. c[j] \in ToSet(t)
      BY <3>2 DEF ToSet
    <3>4. QED BY <1>5, <3>1, <3>3
  <2>4. QED BY <1>1, <2>1, <2>2, <2>3
<1>6. QED BY <1>1, <1>2, <1>3, <1>4, <1>5 DEF c
-----------------------------------------------------------------------------
(***************************************************************************)
(* Types, and the decisions that are taken on a count: they still hold     *)
(* when the record is taken, as only one thread takes from each list.      *)
(***************************************************************************)
DecisionInv ==
  /\ TypeOK
  /\ postCnt = Len(postQueue) /\ releaseCnt = Len(releaseQueue)
  /\ ppc = "reuse" => releaseCnt > 0
  /\ cpc = "take" => postCnt > 0
  /\ ppc # "idle" => posted < MaxEvents
  /\ ppc = "post" => filling \in Records
  /\ cpc = "read" => reading \in Records
  /\ NoNullRecord

\* They hold before the first event.
LEMMA DecisionInit == Init => DecisionInv
<1> SUFFICES ASSUME Init PROVE DecisionInv
  OBVIOUS
<1>1. 0 \in 0 .. MaxEvents /\ 0 \in 0 .. MaxRestarts
  BY SigSyncAssumption
<1>2. <<>> \in Seq(Records) /\ Len(<<>>) = 0
  OBVIOUS
<1>3. TypeOK
  BY <1>1, <1>2 DEF Init, TypeOK
<1>4. QED
  BY <1>2, <1>3 DEF Init, DecisionInv, NoNullRecord

\* Each step of either thread keeps them.
LEMMA DecisionStep ==
  ASSUME DecisionInv, [Next]_vars
  PROVE  DecisionInv'
<1> USE SigSyncAssumption
<1> USE DEF DecisionInv, NoNullRecord, TypeOK, queues, signal, producer, consumer,
            history
<1>1. ASSUME Discover PROVE DecisionInv'
  BY <1>1 DEF Discover
<1>2. ASSUME ReuseRecord PROVE DecisionInv'
  <2>1. releaseQueue # <<>>
    BY <1>2 DEF ReuseRecord
  <2>2. /\ Head(releaseQueue) \in Records /\ Tail(releaseQueue) \in Seq(Records)
        /\ Len(Tail(releaseQueue)) = Len(releaseQueue) - 1
        /\ Len(releaseQueue) \in Nat \ {0}
    BY <2>1
  <2>3. content' \in [Records -> 0 .. MaxEvents]
    BY <1>2 DEF ReuseRecord
  <2>4. /\ ppc' = "post" /\ filling' = Head(releaseQueue)
        /\ releaseQueue' = Tail(releaseQueue) /\ releaseCnt' = releaseCnt - 1
        /\ UNCHANGED <<postQueue, postCnt, signal, consumer, allocated, dropped,
                       posted, received, restarts, null>>
    BY <1>2 DEF ReuseRecord
  <2>5. TypeOK'
    BY <2>2, <2>3, <2>4
  <2>6. releaseCnt' = Len(releaseQueue') /\ posted' < MaxEvents
    BY <1>2, <2>2, <2>4 DEF ReuseRecord
  <2>7. QED BY <2>2, <2>4, <2>5, <2>6
<1>3. ASSUME NewRecord PROVE DecisionInv'
  <2>1. PICK r \in Records \ allocated :
          /\ filling' = r /\ allocated' = allocated \cup {r}
          /\ content' = [content EXCEPT ![r] = posted + 1]
    BY <1>3 DEF NewRecord
  <2>2. content' \in [Records -> 0 .. MaxEvents]
    BY <1>3, <2>1 DEF NewRecord
  <2>3. QED BY <1>3, <2>1, <2>2 DEF NewRecord
<1>4. ASSUME PostRecord PROVE DecisionInv'
  <2>1. /\ postQueue' \in Seq(Records) /\ Len(postQueue') = Len(postQueue) + 1
    BY <1>4 DEF PostRecord
  <2>2. QED BY <1>4, <2>1 DEF PostRecord
<1>5. ASSUME Watch PROVE DecisionInv'
  BY <1>5 DEF Watch
<1>6. ASSUME Wake PROVE DecisionInv'
  BY <1>6 DEF Wake
<1>7. ASSUME Loop PROVE DecisionInv'
  BY <1>7 DEF Loop
<1>8. ASSUME AquireRecord PROVE DecisionInv'
  <2>1. postQueue # <<>>
    BY <1>8 DEF AquireRecord
  <2>2. /\ Head(postQueue) \in Records /\ Tail(postQueue) \in Seq(Records)
        /\ Len(Tail(postQueue)) = Len(postQueue) - 1
        /\ Len(postQueue) \in Nat \ {0}
    BY <2>1
  <2>3. /\ cpc' = "read" /\ efd' = 0 /\ reading' = Head(postQueue)
        /\ postQueue' = Tail(postQueue) /\ postCnt' = postCnt - 1
        /\ received' = content[Head(postQueue)]
        /\ UNCHANGED <<releaseQueue, releaseCnt, watched, edge, content, producer,
                       allocated, dropped, posted, restarts, null>>
    BY <1>8 DEF AquireRecord
  <2>4. received' \in 0 .. MaxEvents
    BY <2>2, <2>3
  <2>5. QED BY <2>2, <2>3, <2>4
<1>9. ASSUME ReleaseRecord PROVE DecisionInv'
  <2>1. /\ releaseQueue' \in Seq(Records)
        /\ Len(releaseQueue') = Len(releaseQueue) + 1
    BY <1>9 DEF ReleaseRecord
  <2>2. QED BY <1>9, <2>1 DEF ReleaseRecord
<1>10. ASSUME Restart PROVE DecisionInv'
  <2>1. ToSet(postQueue) \subseteq Records /\ ToSet(releaseQueue) \subseteq Records
    BY ToSetIs
  <2>2. <<>> \in Seq(Records) /\ Len(<<>>) = 0
    OBVIOUS
  <2>3. dropped' \subseteq Records /\ restarts' \in 0 .. MaxRestarts
    BY <1>10, <2>1 DEF Restart
  <2>4. QED BY <1>10, <2>2, <2>3 DEF Restart
<1>11. CASE UNCHANGED vars
  BY <1>11 DEF vars
<1>12. QED
  BY <1>1, <1>2, <1>3, <1>4, <1>5, <1>6, <1>7, <1>8, <1>9, <1>10, <1>11
     DEF Next, Produce, Consume

\* Types and decisions hold throughout.
LEMMA DecisionInvariant == Spec => []DecisionInv
<1>1. QED BY DecisionInit, DecisionStep, PTL DEF Spec

\* Every variable keeps its type: a record is there when one is taken, and no
\* count falls below zero.
THEOREM TypeCorrect == Spec => []TypeOK
<1>1. DecisionInv => TypeOK
  BY DEF DecisionInv
<1>2. QED BY <1>1, DecisionInvariant, PTL

\* Neither thread dereferences NULL, although the count it decided on was read in
\* another call than the one that takes the record.
THEOREM NullNeverTaken == Spec => []NoNullRecord
<1>1. DecisionInv => NoNullRecord
  BY DEF DecisionInv
<1>2. QED BY <1>1, DecisionInvariant, PTL
-----------------------------------------------------------------------------
(***************************************************************************)
(* Wake-ups. Whether or not the eventfd is watched yet, a waiting consumer *)
(* that has not seen a record will be told.                                *)
(***************************************************************************)
EdgeInv ==
  postQueue # <<>> => cpc # "wait" \/ (efd > 0 /\ (watched => edge))

\* Each step keeps the wake-up pending.
LEMMA EdgeStep ==
  ASSUME DecisionInv, EdgeInv, [Next]_vars
  PROVE  EdgeInv'
<1> USE DEF EdgeInv, DecisionInv, TypeOK, queues, signal, producer, consumer,
            history
<1>1. ASSUME Discover \/ ReuseRecord \/ NewRecord PROVE EdgeInv'
  BY <1>1 DEF Discover, ReuseRecord, NewRecord
<1>2. ASSUME PostRecord PROVE EdgeInv'
  BY <1>2 DEF PostRecord
<1>3. ASSUME Watch PROVE EdgeInv'
  BY <1>3 DEF Watch
<1>4. ASSUME Wake PROVE EdgeInv'
  BY <1>4 DEF Wake
<1>5. ASSUME Loop PROVE EdgeInv'
  BY <1>5 DEF Loop
<1>6. ASSUME AquireRecord PROVE EdgeInv'
  BY <1>6 DEF AquireRecord
<1>7. ASSUME ReleaseRecord \/ Restart PROVE EdgeInv'
  BY <1>7 DEF ReleaseRecord, Restart
<1>8. CASE UNCHANGED vars
  BY <1>8 DEF vars
<1>9. QED
  BY <1>1, <1>2, <1>3, <1>4, <1>5, <1>6, <1>7, <1>8 DEF Next, Produce, Consume

\* No event waits in a watched queue without a wake-up, or a consumer, on its way.
THEOREM NoneStranded == Spec => []NoEventStranded
<1>1. Init => EdgeInv
  BY DEF Init, EdgeInv
<1>2. DecisionInv /\ EdgeInv /\ [Next]_vars => EdgeInv'
  BY EdgeStep
<1>3. EdgeInv => NoEventStranded
  BY DEF EdgeInv, NoEventStranded
<1>4. QED BY <1>1, <1>2, <1>3, DecisionInvariant, PTL DEF Spec
-----------------------------------------------------------------------------
(***************************************************************************)
(* Records. RecordInOnePlace speaks of one long sequence of places; a step *)
(* moves a record between two of them, so that the proof takes them apart. *)
(***************************************************************************)
Held == {filling, reading} \ {NoRecord}

PlaceInv ==
  /\ IsInjective(postQueue) /\ IsInjective(releaseQueue)
  /\ ToSet(postQueue) \cap ToSet(releaseQueue) = {}
  /\ (ToSet(postQueue) \cup ToSet(releaseQueue)) \cap {filling, reading} = {}
  /\ filling = reading => filling = NoRecord
  /\ ToSet(postQueue) \cup ToSet(releaseQueue) \cup Held = allocated \ dropped
  /\ dropped \subseteq allocated
  /\ filling # NoRecord <=> ppc = "post"
  /\ reading # NoRecord <=> cpc = "read"

\* Each step leaves every record in one place.
LEMMA PlaceStep ==
  ASSUME DecisionInv, PlaceInv, [Next]_vars
  PROVE  PlaceInv'
<1> USE SigSyncAssumption
<1> USE DEF PlaceInv, Held, DecisionInv, TypeOK, queues, signal, producer,
            consumer, history
<1>0. ToSet(postQueue) \subseteq Records /\ ToSet(releaseQueue) \subseteq Records
  BY ToSetIs
<1>1. ASSUME Discover \/ Watch \/ Wake PROVE PlaceInv'
  BY <1>1 DEF Discover, Watch, Wake
<1>2. ASSUME ReuseRecord PROVE PlaceInv'
  <2>1. releaseQueue # <<>>
    BY <1>2 DEF ReuseRecord
  <2>2. /\ filling' = Head(releaseQueue) /\ releaseQueue' = Tail(releaseQueue)
        /\ ppc = "reuse" /\ ppc' = "post"
        /\ UNCHANGED <<postQueue, cpc, reading, allocated, dropped>>
    BY <1>2 DEF ReuseRecord
  <2>3. QED BY <1>0, <2>1, <2>2, TakeHead
<1>3. ASSUME NewRecord PROVE PlaceInv'
  BY <1>0, <1>3 DEF NewRecord
<1>4. ASSUME PostRecord PROVE PlaceInv'
  <2>1. /\ postQueue' = Append(postQueue, filling) /\ filling \in Records
        /\ filling' = NoRecord /\ ppc = "post" /\ ppc' = "idle"
        /\ UNCHANGED <<releaseQueue, cpc, reading, allocated, dropped>>
    BY <1>4 DEF PostRecord
  <2>2. QED BY <1>0, <2>1, AppendSet
<1>5. ASSUME Loop PROVE PlaceInv'
  BY <1>5 DEF Loop
<1>6. ASSUME AquireRecord PROVE PlaceInv'
  <2>1. postQueue # <<>>
    BY <1>6 DEF AquireRecord
  <2>2. /\ reading' = Head(postQueue) /\ postQueue' = Tail(postQueue)
        /\ cpc = "take" /\ cpc' = "read"
        /\ UNCHANGED <<releaseQueue, ppc, filling, allocated, dropped>>
    BY <1>6 DEF AquireRecord
  <2>3. /\ Head(postQueue) \in Records /\ IsInjective(Tail(postQueue))
        /\ Head(postQueue) \in ToSet(postQueue)
        /\ ToSet(Tail(postQueue)) = ToSet(postQueue) \ {Head(postQueue)}
    BY <2>1, TakeHead
  <2> HIDE DEF TypeOK, DecisionInv
  <2>4. reading = NoRecord /\ reading' # NoRecord /\ reading' \in ToSet(postQueue)
    BY <2>2, <2>3
  <2>5. ToSet(postQueue') = ToSet(postQueue) \ {reading'}
    BY <2>2, <2>3
  <2>6. ToSet(postQueue) \cup ToSet(releaseQueue) \cup Held
          = ToSet(postQueue') \cup ToSet(releaseQueue') \cup Held'
    BY <2>2, <2>4, <2>5
  <2>7. QED BY <2>2, <2>3, <2>4, <2>5, <2>6
<1>7. ASSUME ReleaseRecord PROVE PlaceInv'
  <2>1. /\ releaseQueue' = Append(releaseQueue, reading) /\ reading \in Records
        /\ reading' = NoRecord /\ cpc = "read" /\ cpc' = "loop"
        /\ UNCHANGED <<postQueue, ppc, filling, allocated, dropped>>
    BY <1>7 DEF ReleaseRecord
  <2>2. QED BY <1>0, <2>1, AppendSet
<1>8. ASSUME Restart PROVE PlaceInv'
  <2>1. ToSet(<<>>) = {} /\ IsInjective(<<>>)
    BY DEF ToSet, IsInjective
  <2>2. QED BY <1>8, <2>1 DEF Restart
<1>9. CASE UNCHANGED vars
  BY <1>9 DEF vars
<1>10. QED
  BY <1>1, <1>2, <1>3, <1>4, <1>5, <1>6, <1>7, <1>8, <1>9 DEF Next, Produce, Consume

\* Every record is in one place throughout.
LEMMA PlaceInvariant == Spec => []PlaceInv
<1>1. Init => PlaceInv
  <2>1. ToSet(<<>>) = {} /\ IsInjective(<<>>)
    BY DEF ToSet, IsInjective
  <2>2. QED BY <2>1, SigSyncAssumption DEF Init, PlaceInv, Held
<1>2. DecisionInv /\ PlaceInv /\ [Next]_vars => PlaceInv'
  BY PlaceStep
<1>3. QED BY <1>1, <1>2, DecisionInvariant, PTL DEF Spec

\* A sequence of one record, or of none.
LEMMA HeldSeq ==
  ASSUME NEW r \in Records \cup {NoRecord}
  PROVE  LET s == IF r # NoRecord THEN <<r>> ELSE <<>>
         IN  s \in Seq(Records) /\ ToSet(s) = {r} \ {NoRecord} /\ IsInjective(s)
BY DEF ToSet, IsInjective

\* No record is in two places at a time, so that no event is rewritten before it
\* is read; and none is lost but those that init forgets.
THEOREM RecordsInOnePlace == Spec => []RecordInOnePlace
<1>1. DecisionInv /\ PlaceInv => RecordInOnePlace
  <2> SUFFICES ASSUME DecisionInv, PlaceInv PROVE RecordInOnePlace
    OBVIOUS
  <2> DEFINE f == IF filling # NoRecord THEN <<filling>> ELSE <<>>
             r == IF reading # NoRecord THEN <<reading>> ELSE <<>>
             queued == postQueue \o releaseQueue
  <2>1. postQueue \in Seq(Records) /\ releaseQueue \in Seq(Records)
        /\ filling \in Records \cup {NoRecord} /\ reading \in Records \cup {NoRecord}
    BY DEF DecisionInv, TypeOK
  <2>2. /\ f \in Seq(Records) /\ ToSet(f) = {filling} \ {NoRecord} /\ IsInjective(f)
        /\ r \in Seq(Records) /\ ToSet(r) = {reading} \ {NoRecord} /\ IsInjective(r)
    BY <2>1, HeldSeq
  <2>3. /\ queued \in Seq(Records) /\ IsInjective(queued)
        /\ ToSet(queued) = ToSet(postQueue) \cup ToSet(releaseQueue)
    BY <2>1, ConcatSet DEF PlaceInv
  <2> HIDE DEF f, r, queued
  <2> DEFINE produced == queued \o f
  <2>4. /\ produced \in Seq(Records) /\ IsInjective(produced)
        /\ ToSet(produced) = ToSet(queued) \cup ToSet(f)
    BY <2>2, <2>3, ConcatSet DEF PlaceInv
  <2> HIDE DEF produced
  <2>5. ToSet(produced) \cap ToSet(r) = {}
    BY <2>2, <2>3, <2>4 DEF PlaceInv
  <2>6. /\ IsInjective(produced \o r)
        /\ ToSet(produced \o r) = ToSet(produced) \cup ToSet(r)
    BY <2>2, <2>4, <2>5, ConcatSet
  <2>7. ToSet(produced \o r) = allocated \ dropped
    BY <2>2, <2>3, <2>4, <2>6 DEF PlaceInv, Held
  <2>8. QED BY <2>6, <2>7 DEF RecordInOnePlace, produced, queued, f, r
<1>2. QED BY <1>1, DecisionInvariant, PlaceInvariant, PTL
-----------------------------------------------------------------------------
(***************************************************************************)
(* The refinement of EventChannel: a record stands for the event it        *)
(* describes, which must not change between the post and the read.         *)
(***************************************************************************)
Events(q, c) == [i \in 1 .. Len(q) |-> c[q[i]]]

\* Posting a record sends the event it describes.
LEMMA EventsAppend ==
  ASSUME NEW q \in Seq(Records), NEW e \in Records, NEW c
  PROVE  Events(Append(q, e), c) = Append(Events(q, c), c[e])
<1> DEFINE s == Events(q, c)
           t == Append(q, e)
<1>1. /\ t \in Seq(Records) /\ Len(t) = Len(q) + 1 /\ Len(q) \in Nat
      /\ \A i \in 1 .. Len(q) : t[i] = q[i]
      /\ t[Len(q) + 1] = e
  BY AppendProperties
<1>2. s \in Seq({c[q[i]] : i \in 1 .. Len(q)}) /\ Len(s) = Len(q)
  BY <1>1 DEF Events
<1>3. Append(s, c[e]) = [i \in 1 .. Len(q) + 1 |-> IF i <= Len(q) THEN s[i] ELSE c[e]]
  BY <1>1, <1>2
<1> HIDE DEF t
<1>4. ASSUME NEW i \in 1 .. Len(q) + 1
      PROVE  c[t[i]] = IF i <= Len(q) THEN s[i] ELSE c[e]
  BY <1>1 DEF Events
<1>5. QED BY <1>1, <1>3, <1>4 DEF Events, t

\* Acquiring a record receives the event it describes.
LEMMA EventsTail ==
  ASSUME NEW q \in Seq(Records), q # <<>>, NEW c
  PROVE  /\ Events(q, c) # <<>> /\ Head(Events(q, c)) = c[Head(q)]
         /\ Events(Tail(q), c) = Tail(Events(q, c))
<1> DEFINE s == Events(q, c)
           t == Tail(q)
<1>1. /\ t \in Seq(Records) /\ Len(t) = Len(q) - 1 /\ Len(q) \in Nat \ {0}
      /\ \A i \in 1 .. Len(t) : t[i] = q[i + 1]
      /\ Head(q) = q[1]
  BY HeadTailProperties, EmptySeq, LenProperties
<1>2. s \in Seq({c[q[i]] : i \in 1 .. Len(q)}) /\ Len(s) = Len(q)
  BY <1>1 DEF Events
<1>3. s # <<>> /\ Head(s) = c[Head(q)]
  BY <1>1, <1>2 DEF Events
<1>4. \A i \in 1 .. Len(t) : c[t[i]] = s[i + 1]
  BY <1>1 DEF Events
<1> DEFINE W == {c[q[i]] : i \in 1 .. Len(q)}
           u == Events(t, c)
<1>5. u \in Seq(W) /\ Len(u) = Len(t) /\ \A i \in 1 .. Len(u) : u[i] = c[t[i]]
  BY <1>1 DEF Events
<1>6. s \in Seq(W)
  BY <1>2
<1> HIDE DEF t, s, u, W
<1>7. /\ Tail(s) \in Seq(W) /\ Len(Tail(s)) = Len(s) - 1
      /\ \A i \in 1 .. Len(Tail(s)) : Tail(s)[i] = s[i + 1]
  BY <1>6, <1>3, HeadTailProperties
<1>8. u = Tail(s)
  <2>1. Len(u) = Len(Tail(s)) /\ \A i \in 1 .. Len(u) : u[i] = Tail(s)[i]
    BY <1>1, <1>2, <1>4, <1>5, <1>7
  <2>2. QED BY <1>5, <1>7, <2>1, SeqEqual
<1>9. QED BY <1>3, <1>8 DEF s, t, u

\* Filling in a record that is not posted changes no event on its way.
LEMMA EventsKept ==
  ASSUME NEW q \in Seq(Records), NEW c, NEW d,
         \A r \in ToSet(q) : c[r] = d[r]
  PROVE  Events(q, c) = Events(q, d)
<1>1. DOMAIN q = 1 .. Len(q)
  OBVIOUS
<1>2. \A i \in 1 .. Len(q) : c[q[i]] = d[q[i]]
  BY <1>1 DEF ToSet
<1>3. QED BY <1>2 DEF Events

\* The record in the producer's hands describes the next event.
ContentInv == ppc = "post" => content[filling] = posted + 1

\* Each step of the two threads is a step of the channel, or none.
LEMMA ChannelStep ==
  ASSUME DecisionInv, PlaceInv, ContentInv, [Next]_vars
  PROVE  ContentInv' /\ [Channel!Next]_(Channel!vars)
<1> DEFINE chan == Events(postQueue, content)
<1> DEFINE Kept == chan' = chan /\ posted' = posted /\ received' = received
<1>0. /\ postQueue \in Seq(Records) /\ releaseQueue \in Seq(Records)
      /\ content \in [Records -> 0 .. MaxEvents]
      /\ postCnt = Len(postQueue) /\ releaseCnt = Len(releaseQueue)
      /\ ToSet(postQueue) \cap ToSet(releaseQueue) = {}
      /\ ToSet(postQueue) \subseteq allocated
      /\ ppc = "post" => filling \in Records
  BY DEF DecisionInv, TypeOK, PlaceInv
<1>a. ASSUME Kept PROVE [Channel!Next]_(Channel!vars)
  BY <1>a DEF Channel!vars, Events
<1>b. ASSUME UNCHANGED <<postQueue, content, posted, received>> PROVE Kept
  BY <1>b DEF Events
<1> HIDE DEF Kept
<1> USE DEF queues, signal, producer, consumer, history
<1>1. ASSUME Discover PROVE ContentInv' /\ Kept
  BY <1>1, <1>b DEF Discover, ContentInv
<1>2. ASSUME ReuseRecord PROVE ContentInv' /\ Kept
  <2>1. releaseQueue # <<>>
    BY <1>2, <1>0 DEF ReuseRecord, DecisionInv
  <2>2. /\ Head(releaseQueue) \in Records
        /\ Head(releaseQueue) \in ToSet(releaseQueue)
    BY <1>0, <2>1, TakeHead DEF PlaceInv
  <2>3. /\ ppc' = "post" /\ filling' = Head(releaseQueue)
        /\ content' = [content EXCEPT ![Head(releaseQueue)] = posted + 1]
        /\ UNCHANGED <<postQueue, posted, received>>
    BY <1>2 DEF ReuseRecord, DecisionInv
  <2>4. \A r \in ToSet(postQueue) : content'[r] = content[r]
    BY <1>0, <2>2, <2>3, ToSetIs
  <2>5. chan' = chan
    BY <1>0, <2>3, <2>4, EventsKept
  <2>6. QED BY <1>0, <2>2, <2>3, <2>5 DEF ContentInv, Kept
<1>3. ASSUME NewRecord PROVE ContentInv' /\ Kept
  <2>1. PICK r \in Records \ allocated :
          filling' = r /\ content' = [content EXCEPT ![r] = posted + 1]
    BY <1>3 DEF NewRecord
  <2>2. ppc' = "post" /\ UNCHANGED <<postQueue, posted, received>>
    BY <1>3 DEF NewRecord
  <2>3. \A x \in ToSet(postQueue) : content'[x] = content[x]
    BY <1>0, <2>1, ToSetIs
  <2>4. chan' = chan
    BY <1>0, <2>2, <2>3, EventsKept
  <2>5. QED BY <1>0, <2>1, <2>2, <2>4 DEF ContentInv, Kept
<1>4. ASSUME PostRecord PROVE ContentInv' /\ Channel!Send
  <2>1. /\ ppc = "post" /\ ppc' = "idle" /\ postQueue' = Append(postQueue, filling)
        /\ posted' = posted + 1 /\ content' = content /\ received' = received
    BY <1>4 DEF PostRecord
  <2>2. chan' = Append(chan, posted + 1)
    BY <1>0, <2>1, EventsAppend DEF ContentInv
  <2>3. QED BY <2>1, <2>2 DEF ContentInv, Channel!Send, Events
<1>5. ASSUME Watch \/ Wake \/ Loop \/ ReleaseRecord PROVE ContentInv' /\ Kept
  BY <1>5, <1>b DEF Watch, Wake, Loop, ReleaseRecord, ContentInv
<1>6. ASSUME AquireRecord PROVE ContentInv' /\ Channel!Receive
  <2>1. postQueue # <<>>
    BY <1>6, <1>0 DEF AquireRecord, DecisionInv
  <2>2. /\ postQueue' = Tail(postQueue) /\ received' = content[Head(postQueue)]
        /\ UNCHANGED <<content, posted, ppc, filling>>
    BY <1>6 DEF AquireRecord, DecisionInv
  <2>3. chan # <<>> /\ received' = Head(chan) /\ chan' = Tail(chan)
    BY <1>0, <2>1, <2>2, EventsTail
  <2>4. QED BY <2>2, <2>3 DEF ContentInv, Channel!Receive, Events
<1>7. ASSUME Restart PROVE ContentInv' /\ Channel!Restart
  <2>1. postQueue' = <<>> /\ UNCHANGED <<content, posted, received, ppc, filling>>
    BY <1>7 DEF Restart
  <2>2. chan' = <<>>
    BY <2>1 DEF Events
  <2>3. QED BY <2>1, <2>2 DEF ContentInv, Channel!Restart, Events
<1>8. ASSUME UNCHANGED vars PROVE ContentInv' /\ Kept
  BY <1>8, <1>b DEF vars, ContentInv
<1>9. QED
  BY <1>a, <1>1, <1>2, <1>3, <1>4, <1>5, <1>6, <1>7, <1>8
     DEF Next, Produce, Consume, Channel!Next

\* The safety part of ImplementsChannel: whatever the threads do, each event is
\* received once and in order, unless a restart drops those on their way.
THEOREM ImplementsChannelSafety ==
  Spec => Channel!Init /\ [][Channel!Next]_(Channel!vars)
<1>1. Init => ContentInv /\ Channel!Init
  BY DEF Init, ContentInv, Channel!Init
<1>2. DecisionInv /\ PlaceInv /\ ContentInv /\ [Next]_vars
        => ContentInv' /\ [Channel!Next]_(Channel!vars)
  BY ChannelStep
<1>3. QED
  BY <1>1, <1>2, DecisionInvariant, PlaceInvariant, PTL DEF Spec
================================================================================
