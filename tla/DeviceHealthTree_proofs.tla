------------------------ MODULE DeviceHealthTree_proofs ------------------------
(***************************************************************************)
(* Theorems about the tree of components in DeviceHealth: its shape, what  *)
(* propagation means in it, and what completeUpdateCycle returns.          *)
(***************************************************************************)
EXTENDS DeviceHealth_proofs, FiniteSetTheorems, WellFoundedInduction

\* The setters do not touch the parent.
LEMMA UpdatedKeepsParent ==
  ASSUME NEW c \in Component, NEW u PROVE Updated(c, u).parent = c.parent
BY DEF Updated, Component

(***************************************************************************)
(* The shape. Numbers are given without gaps because the least one from    *)
(* the size of the map on is taken, and parents are older because they are *)
(* looked up before their child is given a number. Neither needs the lock  *)
(* to have been held since the call began, so any Env will do.             *)
(***************************************************************************)
TreeInv ==
  /\ \E k \in 0 .. IdLimit : ids = 0 .. (k - 1)
  /\ root = "none" <=> ids = {}
  /\ \A c \in CompIds \ {Root} : comp[c].parent < c
  /\ \A c \in ids \ {Root} : comp[c].parent \in ids
  /\ covered \subseteq ids
  /\ \A c \in covered \ {Root} : comp[c].parent \in covered

\* The shape holds of a device health object just constructed.
LEMMA TreeInvInit == Init => TreeInv
<1> SUFFICES ASSUME Init PROVE TreeInv
  OBVIOUS
<1>1. 0 \in 0 .. IdLimit /\ ids = 0 .. (0 - 1)
  BY DataAssumption DEF Init
<1>2. \A c \in CompIds : comp[c].parent = Root
  BY DEF Init, Fresh
<1>3. \A c \in CompIds \ {Root} : Root < c
  BY DEF CompIds, Root
<1>4. QED BY <1>1, <1>2, <1>3 DEF Init, TreeInv

\* A step that gives no component another parent, and adds none, keeps the shape.
LEMMA SameShape ==
  ASSUME TreeInv, UNCHANGED <<root, ids, covered>>,
         \A c \in CompIds : comp'[c].parent = comp[c].parent
  PROVE  TreeInv'
<1>1. covered \subseteq CompIds /\ ids \subseteq CompIds
  BY DataAssumption DEF TreeInv, CompIds
<1>2. /\ \E k \in 0 .. IdLimit : ids' = 0 .. (k - 1)
      /\ (root' = "none" <=> ids' = {})
      /\ covered' \subseteq ids'
  BY DEF TreeInv
<1>3. \A c \in CompIds \ {Root} : comp'[c].parent < c
  BY DEF TreeInv
<1>4. /\ \A c \in ids' \ {Root} : comp'[c].parent \in ids'
      /\ \A c \in covered' \ {Root} : comp'[c].parent \in covered'
  BY <1>1 DEF TreeInv
<1>5. QED BY <1>2, <1>3, <1>4 DEF TreeInv

\* Numbers without gaps are as many as the first that is not given.
LEMMA FirstNumbers ==
  ASSUME NEW k \in 0 .. IdLimit
  PROVE  Cardinality(0 .. (k - 1)) = k
<1>1. k \in Nat /\ 0 \in Int /\ k - 1 \in Int
  BY DataAssumption
<1>2. Cardinality(0 .. (k - 1)) = IF 0 > k - 1 THEN 0 ELSE (k - 1) - 0 + 1
  BY <1>1, FS_Interval
<1>3. QED BY <1>1, <1>2

\* allocUniqueID takes the number that follows those given.
LEMMA NextNumber ==
  ASSUME NEW k \in 1 .. IdLimit, ids = 0 .. (k - 1),
         NEW n \in FreeIds, \A m \in FreeIds : n <= m
  PROVE  n = k
<1>1. Cardinality(ids) = k
  BY FirstNumbers
<1>2. n \in CompIds /\ n >= k
  BY <1>1 DEF FreeIds
<1>3. k \in FreeIds
  BY <1>1, <1>2, DataAssumption DEF FreeIds, CompIds
<1>4. QED BY <1>2, <1>3 DEF CompIds

\* Every step of every thread keeps the shape.
LEMMA TreeInvStep ==
  ASSUME TypeOK, TreeInv, [Next]_vars
  PROVE  TreeInv'
<1> USE DEF tree, flags, names, event, threads
<1>1. ASSUME NEW t \in AppThreads, EnableFlag(t) PROVE TreeInv'
  BY <1>1, SameShape DEF EnableFlag
<1>2. ASSUME NEW t \in AppThreads, EnableRoot(t) PROVE TreeInv'
  <2>1. CASE Root \in ids
    <3>1. root' = "split" /\ UNCHANGED <<ids, comp, covered>>
      BY <1>2, <2>1 DEF EnableRoot
    <3>2. QED BY <2>1, <3>1 DEF TreeInv
  <2>2. CASE Root \notin ids
    <3>1. ids = {} /\ covered = {}
      BY <2>2, DataAssumption DEF TreeInv, Root
    <3>2. /\ root' = "tree" /\ ids' = {Root} /\ covered' = {}
          /\ comp' = [comp EXCEPT ![Root] = Fresh(Root)]
      BY <1>2, <2>2, <3>1 DEF EnableRoot
    <3>3. 1 \in 0 .. IdLimit /\ {Root} = 0 .. (1 - 1)
      BY DataAssumption DEF Root
    <3>4. \A c \in CompIds \ {Root} : comp'[c].parent = comp[c].parent
      BY <3>2 DEF TypeOK
    <3>5. QED BY <3>2, <3>3, <3>4 DEF TreeInv
  <2>3. QED BY <2>1, <2>2
<1>3. ASSUME NEW t \in AppThreads, Clear(t) PROVE TreeInv'
  <2>1. root' = "none" /\ ids' = {} /\ covered' = {}
        /\ comp' = [c \in CompIds |-> Fresh(Root)]
    BY <1>3 DEF Clear
  <2>2. 0 \in 0 .. IdLimit /\ ids' = 0 .. (0 - 1)
    BY <2>1, DataAssumption
  <2>3. \A c \in CompIds \ {Root} : comp'[c].parent < c
    BY <2>1 DEF Fresh, CompIds, Root
  <2>4. QED BY <2>1, <2>2, <2>3 DEF TreeInv
<1>4. ASSUME NEW t \in AppThreads, NEW n \in Names, UpdateDeviceInfo(t, n)
      PROVE  TreeInv'
  BY <1>4, SameShape DEF UpdateDeviceInfo
<1>5. ASSUME NEW t \in AppThreads, NEW p \in CompIds, RegisterCheck(t, p)
      PROVE  TreeInv'
  BY <1>5, SameShape DEF RegisterCheck
<1>6. ASSUME NEW t \in AppThreads, RegisterAdd(t) PROVE TreeInv'
  <2> DEFINE p == arg[t].comp
  <2>1. CASE UNCHANGED <<ids, comp>>
    BY <1>6, <2>1, SameShape DEF RegisterAdd
  <2>2. CASE /\ p \in ids
             /\ \E n \in FreeIds : /\ \A m \in FreeIds : n <= m
                                   /\ ids' = ids \cup {n}
                                   /\ comp' = [comp EXCEPT ![n] = Fresh(p)]
    <3>1. PICK k \in 0 .. IdLimit : ids = 0 .. (k - 1)
      BY DEF TreeInv
    <3>2. k \in 1 .. IdLimit /\ p \in 0 .. (k - 1)
      BY <2>2, <3>1, DataAssumption
    <3>3. PICK n \in FreeIds : /\ \A m \in FreeIds : n <= m
                               /\ ids' = ids \cup {n}
                               /\ comp' = [comp EXCEPT ![n] = Fresh(p)]
      BY <2>2
    <3>4. n = k /\ k \in CompIds
      BY <3>1, <3>2, <3>3, NextNumber DEF FreeIds
    <3>5. k + 1 \in 0 .. IdLimit /\ ids' = 0 .. ((k + 1) - 1)
      <4>1. k \in Nat /\ k < IdLimit /\ IdLimit \in Nat
        BY <3>2, <3>4, DataAssumption DEF CompIds
      <4>2. ids' = (0 .. (k - 1)) \cup {k}
        BY <3>1, <3>3, <3>4
      <4>3. QED BY <4>1, <4>2
    <3>6. /\ comp'[k].parent = p
          /\ \A c \in CompIds \ {k} : comp'[c].parent = comp[c].parent
      BY <3>3, <3>4 DEF TypeOK, Fresh
    <3>7. k \notin ids /\ k \notin covered /\ p < k /\ p \in ids' /\ ids \subseteq ids'
      BY <3>1, <3>2, <3>3, <3>4 DEF TreeInv
    <3>8. UNCHANGED <<root, covered>> /\ ids # {}
      BY <1>6, <2>2 DEF RegisterAdd
    <3>9. \A c \in CompIds \ {Root} : comp'[c].parent < c
      BY <3>6, <3>7 DEF TreeInv
    <3>10. \A c \in ids' \ {Root} : comp'[c].parent \in ids'
      BY <3>3, <3>4, <3>6, <3>7 DEF TreeInv, TypeOK
    <3>11. \A c \in covered' \ {Root} : comp'[c].parent \in covered'
      BY <3>6, <3>7, <3>8 DEF TreeInv, TypeOK
    <3>12. QED BY <3>5, <3>7, <3>8, <3>9, <3>10, <3>11 DEF TreeInv
  <2>3. QED BY <1>6, <2>1, <2>2 DEF RegisterAdd
<1>7. ASSUME NEW t \in AppThreads, StartSkip(t) PROVE TreeInv'
  BY <1>7, SameShape DEF StartSkip
<1>8. ASSUME NEW t \in AppThreads, StartCheck(t) PROVE TreeInv'
  BY <1>8, SameShape DEF StartCheck
<1>9. ASSUME NEW t \in AppThreads, StartLock(t) PROVE TreeInv'
  BY <1>9, SameShape DEF StartLock
<1>10. ASSUME NEW t \in AppThreads, NEW u \in Updates, UpdateCheck(t, u)
       PROVE  TreeInv'
  BY <1>10, SameShape DEF UpdateCheck
<1>11. ASSUME NEW t \in AppThreads, UpdateStore(t) PROVE TreeInv'
  <2>1. \A c \in CompIds : comp'[c].parent = comp[c].parent
    BY <1>11, UpdatedKeepsParent DEF UpdateStore, TypeOK
  <2>2. QED BY <1>11, <2>1, SameShape DEF UpdateStore
<1>12. ASSUME NEW t \in AppThreads, CompleteSkip(t) PROVE TreeInv'
  BY <1>12, SameShape DEF CompleteSkip
<1>13. ASSUME NEW t \in AppThreads, CompletePropagate(t) PROVE TreeInv'
  <2>1. \A c \in CompIds : comp'[c].parent = comp[c].parent
    BY <1>13 DEF CompletePropagate, PropagateStatus, TypeOK, Component
  <2>2. UNCHANGED <<root, ids>> /\ covered' \in {covered, ids}
    BY <1>13 DEF CompletePropagate, PropagateStatus
  <2>3. covered' \subseteq CompIds /\ ids' \subseteq CompIds
    BY <2>2, DataAssumption DEF TreeInv, CompIds
  <2>4. \A c \in CompIds \ {Root} : comp'[c].parent < c
    BY <2>1 DEF TreeInv
  <2>5. /\ \A c \in ids' \ {Root} : comp'[c].parent \in ids'
        /\ \A c \in covered' \ {Root} : comp'[c].parent \in covered'
    BY <2>1, <2>2, <2>3 DEF TreeInv
  <2>6. QED BY <2>2, <2>4, <2>5 DEF TreeInv
<1>14. ASSUME NEW t \in AppThreads, Post(t) PROVE TreeInv'
  BY <1>14, SameShape DEF Post
<1>15. ASSUME NEW t \in AppThreads, PostThrow(t) PROVE TreeInv'
  BY <1>15, SameShape DEF PostThrow
<1>16. ASSUME NEW t \in AppThreads, Unlock(t) PROVE TreeInv'
  BY <1>16, SameShape DEF Unlock
<1>17. ASSUME NEW t \in AppThreads, Return(t) PROVE TreeInv'
  BY <1>17, SameShape DEF Return
<1>18. ASSUME NEW r \in RestThreads, RestLock(r) PROVE TreeInv'
  BY <1>18, SameShape DEF RestLock
<1>19. ASSUME NEW r \in RestThreads, RestRead(r) PROVE TreeInv'
  BY <1>19, SameShape DEF RestRead
<1>20. ASSUME NEW r \in RestThreads, NEW s \in Sinks \cup {NoSink},
              CheckSinkMapping(r, s)
       PROVE  TreeInv'
  BY <1>20, SameShape DEF CheckSinkMapping
<1>21. CASE UNCHANGED vars
  BY <1>21, SameShape DEF vars
<1>22. QED
  BY <1>1, <1>2, <1>3, <1>4, <1>5, <1>6, <1>7, <1>8, <1>9, <1>10, <1>11, <1>12,
     <1>13, <1>14, <1>15, <1>16, <1>17, <1>18, <1>19, <1>20, <1>21
     DEF Next, AppStep, RestStep

\* The shape holds in every reachable state.
LEMMA TreeInvariant == Spec => []TreeInv
<1>1. TypeOK /\ TreeInv /\ [Next]_vars => TreeInv'
  BY TreeInvStep
<1>2. QED BY TreeInvInit, <1>1, TypeCorrect, PTL DEF Spec

\* However registrations of several threads interleave, and even if monitoring is
\* disabled and enabled between them, components are numbered without gaps and
\* have older parents, so that the walk of propagateChild ends.
THEOREM TreeStaysWellFormed == Spec => []TreeWellFormed
<1>1. TypeOK /\ TreeInv => TreeWellFormed
  <2> SUFFICES ASSUME TypeOK, TreeInv PROVE TreeWellFormed
    OBVIOUS
  <2>1. PICK k \in 0 .. IdLimit : ids = 0 .. (k - 1)
    BY DEF TreeInv
  <2>2. Cardinality(ids) = k
    BY <2>1, FirstNumbers
  <2>3. ids = {n \in CompIds : n < Cardinality(ids)}
    BY <2>1, <2>2, DataAssumption DEF CompIds
  <2>4. QED BY <2>3 DEF TreeInv, TreeWellFormed, TypeOK
<1>2. QED BY <1>1, TreeInvariant, TypeCorrect, PTL
-----------------------------------------------------------------------------
(***************************************************************************)
(* The meaning of propagation. Parents have smaller numbers, so ancestors  *)
(* are what their equation says, and an induction over the tree is one     *)
(* over numbers: a set of counterexamples would have a least member.       *)
(***************************************************************************)

\* A set of numbers that is not empty has a least one.
LEMMA LeastNumber ==
  ASSUME NEW T, T \subseteq Nat, T # {}
  PROVE  \E x \in T : \A y \in T : x <= y
<1> DEFINE R == {p \in Nat \X Nat : p[1] < p[2]}
<1>1. IsWellFoundedOn(R, Nat)
  BY NatLessThanWellFounded DEF OpToRel
<1>2. PICK x \in T : \A y \in T : <<y, x>> \notin R
  <2> HIDE DEF R
  <2>1. QED BY <1>1, WFMin
<1>3. \A y \in T : ~(y < x)
  BY <1>2
<1>4. QED BY <1>3

\* Parents with smaller numbers.
OlderParents == \A c \in CompIds \ {Root} : comp[c].parent < c

\* The recursion that defines the ancestors has a solution.
LEMMA AncestorsExist ==
  ASSUME comp \in [CompIds -> Component], OlderParents
  PROVE  \E up : up = [c \in CompIds |->
                         IF c = Root THEN {}
                         ELSE {comp[c].parent} \cup up[comp[c].parent]]
<1> DEFINE Solves(f, n) ==
             f = [c \in 0 .. n |-> IF c = Root THEN {}
                                   ELSE {comp[c].parent} \cup f[comp[c].parent]]
           T == {n \in CompIds : ~ \E f : Solves(f, n)}
<1>1. CompIds = 0 .. (IdLimit - 1) /\ IdLimit \in Nat \ {0} /\ Root = 0
  BY DataAssumption DEF CompIds, Root
<1>2. ASSUME T # {} PROVE FALSE
  <2>1. T \subseteq Nat
    BY <1>1
  <2>2. PICK n \in T : \A m \in T : n <= m
    <3> HIDE DEF T
    <3>1. QED BY <1>2, <2>1, LeastNumber
  <2>3. CASE n = 0
    <3>1. Solves([c \in 0 .. 0 |-> {}], 0)
      BY <1>1
    <3>2. QED BY <2>2, <2>3, <3>1
  <2>4. CASE n # 0
    <3>1. n - 1 \in CompIds /\ n - 1 \notin T /\ n \in CompIds
      <4>1. n \in CompIds
        BY <2>2
      <4>2. n - 1 \in CompIds /\ ~(n <= n - 1)
        BY <1>1, <2>4, <4>1
      <4> HIDE DEF T
      <4>3. QED BY <2>2, <4>1, <4>2
    <3>2. PICK g : Solves(g, n - 1)
      BY <3>1
    <3>3. \A c \in 1 .. n : comp[c].parent \in 0 .. (c - 1)
      <4>1. \A c \in 1 .. n : c \in CompIds \ {Root}
        BY <1>1, <3>1
      <4>2. \A c \in CompIds : comp[c].parent \in CompIds
        BY DEF Component
      <4>3. QED BY <1>1, <4>1, <4>2 DEF OlderParents
    <3> DEFINE f == [c \in 0 .. n |->
                       IF c = n THEN {comp[n].parent} \cup g[comp[n].parent] ELSE g[c]]
    <3>4. ASSUME NEW c \in 0 .. n
          PROVE  f[c] = IF c = Root THEN {} ELSE {comp[c].parent} \cup f[comp[c].parent]
      <4>1. CASE c = n
        <5>1. comp[n].parent \in 0 .. n /\ comp[n].parent # n
          BY <1>1, <2>4, <3>1, <3>3
        <5>2. QED BY <1>1, <2>4, <4>1, <5>1
      <4>2. CASE c # n /\ c # 0
        <5>1. comp[c].parent \in 0 .. n /\ comp[c].parent # n /\ c \in 0 .. (n - 1)
          BY <1>1, <3>1, <3>3, <4>2
        <5>2. f[c] = g[c] /\ f[comp[c].parent] = g[comp[c].parent]
          BY <4>2, <5>1
        <5>3. g[c] = {comp[c].parent} \cup g[comp[c].parent]
          BY <1>1, <3>2, <4>2, <5>1
        <5>4. QED BY <1>1, <4>2, <5>2, <5>3
      <4>3. CASE c # n /\ c = 0
        <5>1. 0 \in 0 .. (n - 1)
          BY <1>1, <2>4, <3>1
        <5>2. g[0] = {}
          BY <1>1, <3>2, <5>1
        <5>3. QED BY <1>1, <4>3, <5>2
      <4>4. QED BY <4>1, <4>2, <4>3
    <3>5. Solves(f, n)
      <4>1. f = [c \in 0 .. n |-> f[c]]
        OBVIOUS
      <4> HIDE DEF f
      <4>2. QED BY <3>4, <4>1
    <3>6. QED BY <2>2, <3>5
  <2>5. QED BY <2>3, <2>4
<1>3. \E f : Solves(f, IdLimit - 1)
  <2>1. IdLimit - 1 \in CompIds
    BY <1>1
  <2>2. IdLimit - 1 \notin T
    BY <1>2
  <2> HIDE DEF Solves
  <2>3. QED BY <2>1, <2>2
<1>4. QED BY <1>1, <1>3

\* The ancestors of a component are its parent and the parent's ancestors.
LEMMA AncestorsAre ==
  ASSUME comp \in [CompIds -> Component], OlderParents
  PROVE  \A c \in CompIds :
           Ancestors[c] = IF c = Root THEN {}
                          ELSE {comp[c].parent} \cup Ancestors[comp[c].parent]
BY AncestorsExist DEF Ancestors

\* A set of components closed under parents: what a propagation covers.
Closed(S) == S \subseteq CompIds /\ \A c \in S \ {Root} : comp[c].parent \in S

\* Seen from above: an ancestor of a component is the parent of that component or
\* of another ancestor of it.
LEMMA AncestorsFromAbove ==
  ASSUME comp \in [CompIds -> Component], OlderParents, NEW S, Closed(S)
  PROVE  \A d \in S, c \in CompIds :
           c \in Ancestors[d] <=>
             \E k \in S \ {Root} :
               comp[k].parent = c /\ (k = d \/ k \in Ancestors[d])
<1> DEFINE Down(d) ==
             \A c \in CompIds :
               c \in Ancestors[d] <=>
                 \E k \in S \ {Root} :
                   comp[k].parent = c /\ (k = d \/ k \in Ancestors[d])
           T == {d \in S : ~Down(d)}
<1>1. \A c \in CompIds :
        Ancestors[c] = IF c = Root THEN {}
                       ELSE {comp[c].parent} \cup Ancestors[comp[c].parent]
  BY AncestorsAre
<1>2. ASSUME T # {} PROVE FALSE
  <2>1. T \subseteq Nat
    <3>1. T \subseteq S
      OBVIOUS
    <3> HIDE DEF T
    <3>2. QED BY <3>1, DataAssumption DEF Closed, CompIds
  <2>2. PICK d \in T : \A e \in T : d <= e
    <3> HIDE DEF T
    <3>1. QED BY <1>2, <2>1, LeastNumber
  <2>3. d \in S /\ d \in CompIds /\ ~Down(d)
    BY <2>2 DEF Closed
  <2>4. CASE d = Root
    <3>1. Ancestors[d] = {}
      BY <1>1, <2>3, <2>4
    <3>2. QED BY <2>3, <2>4, <3>1
  <2>5. CASE d # Root
    <3> DEFINE p == comp[d].parent
    <3>1. p \in S /\ p \in CompIds /\ p < d
      BY <2>3, <2>5 DEF Closed, OlderParents
    <3>2. p \notin T
      <4>1. ~(d <= p)
        BY <2>3, <3>1, DataAssumption DEF CompIds
      <4> HIDE DEF T, p
      <4>2. QED BY <2>2, <4>1
    <3>3. Down(p)
      BY <3>1, <3>2
    <3>4. Ancestors[d] = {p} \cup Ancestors[p]
      BY <1>1, <2>3, <2>5
    <3> HIDE DEF T
    <3>5. ASSUME NEW c \in CompIds, c \in Ancestors[d]
          PROVE  \E k \in S \ {Root} :
                   comp[k].parent = c /\ (k = d \/ k \in Ancestors[d])
      <4>1. CASE c = p
        BY <2>3, <2>5, <4>1
      <4>2. CASE c # p
        <5>1. c \in Ancestors[p]
          BY <3>4, <3>5, <4>2
        <5>2. PICK k \in S \ {Root} : /\ comp[k].parent = c
                                      /\ k = p \/ k \in Ancestors[p]
          BY <3>3, <5>1
        <5> HIDE DEF p
        <5>3. QED BY <3>4, <5>2
      <4>3. QED BY <4>1, <4>2
    <3>6. ASSUME NEW c \in CompIds, NEW k \in S \ {Root}, comp[k].parent = c,
                 k = d \/ k \in Ancestors[d]
          PROVE  c \in Ancestors[d]
      <4>1. CASE k = d
        BY <3>4, <3>6, <4>1
      <4>2. CASE k # d
        <5>1. k = p \/ k \in Ancestors[p]
          BY <3>4, <3>6, <4>2
        <5>2. c \in Ancestors[p]
          BY <3>3, <3>6, <5>1
        <5> HIDE DEF p
        <5>3. QED BY <3>4, <5>2
      <4>3. QED BY <4>1, <4>2
    <3>7. QED BY <2>3, <3>5, <3>6
  <2>6. QED BY <2>4, <2>5
<1>3. \A d \in S : Down(d)
  <2> HIDE DEF Down
  <2>1. QED BY <1>2
<1>4. QED BY <1>3

\* The statuses of components whose propagated status agrees with that of their
\* children: it is not OK just where something at or below is not.
LEMMA NotOkBelow ==
  ASSUME comp \in [CompIds -> Component], OlderParents, NEW S, Closed(S),
         \A c \in S :
           comp[c].prop = IF \E k \in S \ {Root} :
                               comp[k].parent = c /\ comp[k].prop # "OK"
                            THEN "DEGRADED" ELSE comp[c].status
  PROVE  \A c \in S :
           comp[c].prop # "OK" <=>
             \/ comp[c].status # "OK"
             \/ \E d \in S : c \in Ancestors[d] /\ comp[d].status # "OK"
<1> DEFINE Says(c) == \/ comp[c].status # "OK"
                      \/ \E d \in S : c \in Ancestors[d] /\ comp[d].status # "OK"
           Agrees(c) == comp[c].prop # "OK" <=> Says(c)
           T == {n \in Nat : \E c \in S : c = IdLimit - n /\ ~Agrees(c)}
<1>1. \A d \in S, c \in CompIds :
        c \in Ancestors[d] <=>
          \E k \in S \ {Root} :
            comp[k].parent = c /\ (k = d \/ k \in Ancestors[d])
  BY AncestorsFromAbove
<1>2. ASSUME T # {} PROVE FALSE
  <2>1. PICK n \in T : \A m \in T : n <= m
    <3>1. T \subseteq Nat
      OBVIOUS
    <3> HIDE DEF T
    <3>2. QED BY <1>2, <3>1, LeastNumber
  <2>2. PICK c \in S : c = IdLimit - n /\ ~Agrees(c)
    BY <2>1
  <2>3. n \in Nat /\ c \in CompIds /\ c \in Nat /\ IdLimit \in Nat
    BY <2>1, <2>2, DataAssumption DEF Closed, CompIds
  <2>4. ASSUME NEW k \in S \ {Root}, comp[k].parent = c
        PROVE  Agrees(k)
    <3>1. k \in CompIds /\ k \in Nat /\ k < IdLimit /\ c < k
      BY <2>4, DataAssumption DEF Closed, CompIds, OlderParents
    <3>2. IdLimit - k \in Nat /\ ~(n <= IdLimit - k) /\ k = IdLimit - (IdLimit - k)
      BY <2>2, <2>3, <3>1
    <3>3. IdLimit - k \notin T
      <4> HIDE DEF T
      <4>1. QED BY <2>1, <3>2
    <3>4. SUFFICES ASSUME ~Agrees(k) PROVE IdLimit - k \in T
      BY <3>3
    <3> HIDE DEF Agrees
    <3>5. QED BY <3>2, <3>4
  <2> HIDE DEF T
  <2> DEFINE Child == \E k \in S \ {Root} : comp[k].parent = c /\ comp[k].prop # "OK"
  <2>5. Child <=> \E d \in S : c \in Ancestors[d] /\ comp[d].status # "OK"
    <3>1. ASSUME NEW k \in S \ {Root}, comp[k].parent = c, comp[k].prop # "OK"
          PROVE  \E d \in S : c \in Ancestors[d] /\ comp[d].status # "OK"
      <4>1. Says(k)
        BY <2>4, <3>1
      <4>2. CASE comp[k].status # "OK"
        BY <1>1, <2>3, <3>1, <4>2
      <4>3. ASSUME NEW d \in S, k \in Ancestors[d], comp[d].status # "OK"
            PROVE  \E e \in S : c \in Ancestors[e] /\ comp[e].status # "OK"
        BY <1>1, <2>3, <3>1, <4>3
      <4>4. QED BY <4>1, <4>2, <4>3
    <3>2. ASSUME NEW d \in S, c \in Ancestors[d], comp[d].status # "OK"
          PROVE  Child
      <4>1. PICK k \in S \ {Root} : comp[k].parent = c /\ (k = d \/ k \in Ancestors[d])
        BY <1>1, <2>3, <3>2
      <4>2. Says(k)
        BY <3>2, <4>1
      <4>3. Agrees(k)
        BY <2>4, <4>1
      <4>4. QED BY <4>1, <4>2, <4>3
    <3>3. QED BY <3>1, <3>2
  <2>6. comp[c].prop = IF Child THEN "DEGRADED" ELSE comp[c].status
    OBVIOUS
  <2> HIDE DEF Child
  <2>7. Agrees(c)
    BY <2>5, <2>6
  <2>8. QED BY <2>2, <2>7
<1>3. ASSUME NEW c \in S PROVE Agrees(c)
  <2>1. IdLimit - c \in Nat /\ c = IdLimit - (IdLimit - c)
    BY DataAssumption DEF Closed, CompIds
  <2>2. IdLimit - c \notin T
    BY <1>2
  <2> HIDE DEF Agrees
  <2>3. QED BY <2>1, <2>2
<1>4. QED BY <1>3

\* What the agreement of each component with its children amounts to, with no
\* walk in it: a component is DEGRADED when anything below it is not OK.
LEMMA LocalIsReference ==
  ASSUME TypeOK, TreeInv, PropagatedLocally
  PROVE  PropagatedReference
<1> SUFFICES ASSUME ~locked, NEW c \in covered
             PROVE  comp[c].prop =
                      IF \E d \in covered : c \in Ancestors[d] /\ comp[d].status # "OK"
                        THEN "DEGRADED" ELSE comp[c].status
  BY DEF PropagatedReference
<1>1. comp \in [CompIds -> Component] /\ OlderParents /\ Closed(covered)
  BY DEF TypeOK, TreeInv, OlderParents, Closed
<1>2. \A k \in covered :
        comp[k].prop = IF \E j \in covered \ {Root} :
                            comp[j].parent = k /\ comp[j].prop # "OK"
                         THEN "DEGRADED" ELSE comp[k].status
  BY DEF PropagatedLocally
<1>3. \A k \in covered :
        comp[k].prop # "OK" <=>
          \/ comp[k].status # "OK"
          \/ \E d \in covered : k \in Ancestors[d] /\ comp[d].status # "OK"
  BY <1>1, <1>2, NotOkBelow
<1>4. \A d \in covered, k \in CompIds :
        k \in Ancestors[d] <=>
          \E j \in covered \ {Root} :
            comp[j].parent = k /\ (j = d \/ j \in Ancestors[d])
  BY <1>1, AncestorsFromAbove
<1>5. c \in CompIds
  BY <1>1 DEF Closed
<1>6. (\E j \in covered \ {Root} : comp[j].parent = c /\ comp[j].prop # "OK")
        <=> \E d \in covered : c \in Ancestors[d] /\ comp[d].status # "OK"
  BY <1>3, <1>4, <1>5
<1>7. QED BY <1>2, <1>6

\* Outside a cycle a component reports DEGRADED when anything below it is not OK
\* and otherwise its own status, in a tree of any depth.
THEOREM PropagationMeans ==
  ASSUME Env \cap {"toggle", "stray"} = {}
  PROVE  Spec => []PropagatedReference
<1>1. TypeOK /\ TreeInv /\ PropagatedLocally => PropagatedReference
  BY LocalIsReference
<1>2. Spec => []PropagatedLocally
  BY PropagationHolds
<1>3. QED BY <1>1, <1>2, TypeCorrect, TreeInvariant, PTL
-----------------------------------------------------------------------------
(***************************************************************************)
(* What completeUpdateCycle returns. A setter that leaves a component      *)
(* other than it was counts as a change, if every code is known to the     *)
(* string store: a code that is not empties the message uncounted.         *)
(***************************************************************************)

\* What a setter changes it flags.
LEMMA ChangeIsFlagged ==
  ASSUME BadCodes = {}, NEW c \in Component,
         NEW u \in Updates \cup Registrations \cup {NoUpdate}, Updated(c, u) # c
  PROVE  Flagged(c, u)
<1>1. CASE u.op = "status"
  <2>1. c.status = u.status => Updated(c, u) = c
    BY <1>1 DEF Updated, Component
  <2>2. QED BY <1>1, <2>1 DEF Flagged
<1>2. CASE u.op = "clearNote"
  <2>1. c.note = 0 => Updated(c, u) = c
    BY <1>2 DEF Updated, Component
  <2>2. QED BY <1>2, <2>1 DEF Flagged
<1>3. CASE u.op = "setNote"
  <2>1. u.code \in Codes
    BY <1>3 DEF Updates, Registrations, NoUpdate
  <2>2. QED BY <1>3, <2>1 DEF Flagged
<1>4. CASE u.op = "clearMsg"
  <2>1. c.msg = 0 /\ c.err = 0 => Updated(c, u) = c
    BY <1>4 DEF Updated, Component
  <2>2. QED BY <1>4, <2>1 DEF Flagged
<1>5. CASE u.op = "setMsg"
  <2>1. u.code \in Codes
    BY <1>5 DEF Updates, Registrations, NoUpdate
  <2>2. QED BY <1>5, <2>1 DEF Flagged
<1>6. CASE u.op \notin {"status", "clearNote", "clearMsg", "setNote", "setMsg"}
  BY <1>6 DEF Updated
<1>7. QED BY <1>1, <1>2, <1>3, <1>4, <1>5, <1>6

\* With one application thread, m_statusChange is set while its cycle, or the one
\* it ended last, has changed a value; a setter stores what it was called with.
ChangeInv ==
  /\ \A t \in AppThreads : changed[t] => statusChange
  /\ \A t \in AppThreads : pc[t] = "store" => arg[t] \in Updates

\* Only startUpdateCycle clears the flag, and it begins a new cycle.
LEMMA ChangeInvStep ==
  ASSUME BadCodes = {}, \A t, u \in AppThreads : t = u, TypeOK, ChangeInv, [Next]_vars
  PROVE  ChangeInv'
<1> USE DEF ChangeInv, tree, flags, names, event, threads, Goto, TypeOK, Threads
<1>1. ASSUME NEW t \in AppThreads, EnableFlag(t) PROVE ChangeInv'
  BY <1>1 DEF EnableFlag
<1>2. ASSUME NEW t \in AppThreads, EnableRoot(t) PROVE ChangeInv'
  BY <1>2 DEF EnableRoot
<1>3. ASSUME NEW t \in AppThreads, Clear(t) PROVE ChangeInv'
  BY <1>3 DEF Clear
<1>4. ASSUME NEW t \in AppThreads, NEW n \in Names, UpdateDeviceInfo(t, n)
      PROVE  ChangeInv'
  BY <1>4 DEF UpdateDeviceInfo
<1>5. ASSUME NEW t \in AppThreads, NEW p \in CompIds, RegisterCheck(t, p)
      PROVE  ChangeInv'
  BY <1>5 DEF RegisterCheck
<1>6. ASSUME NEW t \in AppThreads, RegisterAdd(t) PROVE ChangeInv'
  BY <1>6 DEF RegisterAdd
<1>7. ASSUME NEW t \in AppThreads, StartSkip(t) PROVE ChangeInv'
  BY <1>7 DEF StartSkip, TypeOK
<1>8. ASSUME NEW t \in AppThreads, StartCheck(t) PROVE ChangeInv'
  BY <1>8 DEF StartCheck
<1>9. ASSUME NEW t \in AppThreads, StartLock(t) PROVE ChangeInv'
  <2>1. ~changed'[t] /\ pc'[t] = "idle"
    BY <1>9 DEF StartLock
  <2>2. QED BY <2>1
<1>10. ASSUME NEW t \in AppThreads, NEW u \in Updates, UpdateCheck(t, u)
       PROVE  ChangeInv'
  BY <1>10 DEF UpdateCheck
<1>11. ASSUME NEW t \in AppThreads, UpdateStore(t) PROVE ChangeInv'
  <2> DEFINE u == arg[t]
             c == comp[u.comp]
  <2>1. CASE t \in stale
    BY <1>11, <2>1 DEF UpdateStore
  <2>2. CASE t \notin stale
    <3>1. /\ statusChange' = (statusChange \/ Flagged(c, u))
          /\ changed' = [changed EXCEPT ![t] = @ \/ Updated(c, u) # c]
          /\ comp' = [comp EXCEPT ![u.comp] = Updated(c, u)]
      BY <1>11, <2>2 DEF UpdateStore
    <3>2. changed'[t] = (changed[t] \/ Updated(c, u) # c)
      BY <3>1 DEF TypeOK
    <3>3. u \in Updates /\ c \in Component
      BY <1>11 DEF UpdateStore, At, TypeOK, Updates
    <3>4. changed'[t] => statusChange'
      <4> HIDE DEF c, u
      <4>1. QED BY <3>1, <3>2, <3>3, ChangeIsFlagged
    <3> HIDE DEF c, u
    <3>5. \A a \in AppThreads : a = t
      OBVIOUS
    <3>6. pc'[t] = "idle"
      BY <1>11 DEF UpdateStore, Goto, TypeOK, Threads
    <3>7. QED BY <3>4, <3>5, <3>6
  <2>3. QED BY <2>1, <2>2
<1>12. ASSUME NEW t \in AppThreads, CompleteSkip(t) PROVE ChangeInv'
  BY <1>12 DEF CompleteSkip
<1>13. ASSUME NEW t \in AppThreads, CompletePropagate(t) PROVE ChangeInv'
  BY <1>13 DEF CompletePropagate, PropagateStatus, TypeOK
<1>14. ASSUME NEW t \in AppThreads, Post(t) PROVE ChangeInv'
  BY <1>14 DEF Post
<1>15. ASSUME NEW t \in AppThreads, PostThrow(t) PROVE ChangeInv'
  BY <1>15 DEF PostThrow
<1>16. ASSUME NEW t \in AppThreads, Unlock(t) PROVE ChangeInv'
  BY <1>16 DEF Unlock
<1>17. ASSUME NEW t \in AppThreads, Return(t) PROVE ChangeInv'
  BY <1>17 DEF Return
<1>18. ASSUME NEW r \in RestThreads, RestLock(r) PROVE ChangeInv'
  BY <1>18 DEF RestLock
<1>19. ASSUME NEW r \in RestThreads, RestRead(r) PROVE ChangeInv'
  BY <1>19 DEF RestRead
<1>20. ASSUME NEW r \in RestThreads, NEW s \in Sinks \cup {NoSink},
              CheckSinkMapping(r, s)
       PROVE  ChangeInv'
  BY <1>20 DEF CheckSinkMapping
<1>21. CASE UNCHANGED vars
  BY <1>21 DEF vars
<1>22. QED
  BY <1>1, <1>2, <1>3, <1>4, <1>5, <1>6, <1>7, <1>8, <1>9, <1>10, <1>11, <1>12,
     <1>13, <1>14, <1>15, <1>16, <1>17, <1>18, <1>19, <1>20, <1>21
     DEF Next, AppStep, RestStep

\* completeUpdateCycle returns TRUE when its cycle changed anything, as long as no
\* other thread runs cycles and all codes are registered.
THEOREM ChangeReturned ==
  ASSUME BadCodes = {}, \A t, u \in AppThreads : t = u
  PROVE  Spec => []ReturnsChange
<1>1. Init => ChangeInv
  BY DEF Init, ChangeInv, Threads
<1>2. TypeOK /\ ChangeInv /\ [Next]_vars => ChangeInv'
  BY ChangeInvStep
<1>3. ChangeInv => ReturnsChange
  BY DEF ChangeInv, ReturnsChange
<1>4. QED BY <1>1, <1>2, <1>3, TypeCorrect, PTL DEF Spec
===============================================================================
