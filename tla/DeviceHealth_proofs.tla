-------------------------- MODULE DeviceHealth_proofs --------------------------
(***************************************************************************)
(* Theorems about DeviceHealth, for any threads, components and updates.   *)
(***************************************************************************)
EXTENDS DeviceHealth, TLAPS

\* A component is created with values of the right type.
LEMMA FreshType ==
  ASSUME NEW p \in CompIds PROVE Fresh(p) \in Component
BY DEF Fresh, Component, CStat

\* The root is one of the component numbers.
LEMMA RootId == Root \in CompIds
BY DataAssumption DEF Root, CompIds

\* A setter leaves a component a component.
LEMMA UpdatedType ==
  ASSUME NEW c \in Component, NEW u \in Updates \cup Registrations \cup {NoUpdate}
  PROVE  Updated(c, u) \in Component
<1>1. \A code \in Codes \cup BadCodes : Filled(code) \in Nat
  BY DataAssumption DEF Filled
<1>2. CASE u.op = "status"
  <2>1. u.status \in CStat
    BY <1>2, DataAssumption DEF Updates, Registrations, NoUpdate
  <2>2. QED BY <1>2, <2>1 DEF Updated, Component
<1>3. CASE u.op \in {"clearNote", "clearMsg"}
  BY <1>3 DEF Updated, Component
<1>4. CASE u.op = "setNote"
  <2>1. u.code \in Codes \cup BadCodes
    BY <1>4 DEF Updates, Registrations, NoUpdate
  <2>2. QED BY <1>1, <1>4, <2>1 DEF Updated, Component
<1>5. CASE u.op = "setMsg"
  <2>1. u \in [op : {"setMsg"}, comp : CompIds, code : Codes \cup BadCodes,
               err : ErrCodes]
    BY <1>5 DEF Updates, Registrations, NoUpdate
  <2>2. u.code \in Codes \cup BadCodes /\ u.err \in Nat
    BY <2>1, DataAssumption
  <2>3. QED BY <1>1, <1>5, <2>2 DEF Updated, Component
<1>6. CASE u.op \notin {"status", "clearNote", "clearMsg", "setNote", "setMsg"}
  BY <1>6 DEF Updated
<1>7. QED BY <1>2, <1>3, <1>4, <1>5, <1>6

\* Every variable keeps its type under every step of every thread.
THEOREM TypeCorrect == Spec => []TypeOK
<1>1. Init => TypeOK
  <2> SUFFICES ASSUME Init PROVE TypeOK
    OBVIOUS
  <2>1. comp \in [CompIds -> Component]
    BY RootId, FreshType DEF Init
  <2>2. arg \in [AppThreads -> Updates \cup Registrations \cup {NoUpdate}]
    BY DEF Init
  <2>3. updates \in [AppThreads -> 0 .. MaxUpdates]
    BY DataAssumption DEF Init
  <2>4. pc \in [Threads -> {"idle", "enable", "register", "start", "store",
                            "post", "unlock", "return", "read"}]
    BY DEF Init
  <2>5. cycle \in [AppThreads -> {"none", "locked", "skipped"}]
        /\ changed \in [AppThreads -> BOOLEAN]
    BY DEF Init
  <2>6. QED BY <2>1, <2>2, <2>3, <2>4, <2>5 DEF Init, TypeOK, CStat
<1>2. TypeOK /\ [Next]_vars => TypeOK'
  <2> SUFFICES ASSUME TypeOK, [Next]_vars PROVE TypeOK'
    OBVIOUS
  <2> USE DEF TypeOK, tree, flags, names, event, threads, Goto, At, Idle
  <2>1. ASSUME NEW t \in AppThreads, EnableFlag(t) PROVE TypeOK'
    BY <2>1 DEF EnableFlag
  <2>2. ASSUME NEW t \in AppThreads, EnableRoot(t) PROVE TypeOK'
    <3>1. ids' \in SUBSET CompIds /\ comp' \in [CompIds -> Component]
      BY <2>2, RootId, FreshType DEF EnableRoot
    <3>2. QED BY <2>2, <3>1 DEF EnableRoot
  <2>3. ASSUME NEW t \in AppThreads, Clear(t) PROVE TypeOK'
    <3>1. comp' \in [CompIds -> Component]
      BY <2>3, RootId, FreshType DEF Clear
    <3>2. QED BY <2>3, <3>1 DEF Clear
  <2>4. ASSUME NEW t \in AppThreads, NEW n \in Names, UpdateDeviceInfo(t, n)
        PROVE TypeOK'
    BY <2>4 DEF UpdateDeviceInfo
  <2>5. ASSUME NEW t \in AppThreads, NEW p \in CompIds, RegisterCheck(t, p)
        PROVE TypeOK'
    <3>1. [op |-> "register", comp |-> p] \in Registrations
      BY DEF Registrations
    <3>2. QED BY <2>5, <3>1 DEF RegisterCheck
  <2>6. ASSUME NEW t \in AppThreads, RegisterAdd(t) PROVE TypeOK'
    <3>1. ids' \in SUBSET CompIds /\ comp' \in [CompIds -> Component]
      BY <2>6, FreshType DEF RegisterAdd, FreeIds
    <3>2. QED BY <2>6, <3>1 DEF RegisterAdd
  <2>7. ASSUME NEW t \in AppThreads, StartSkip(t) PROVE TypeOK'
    BY <2>7, DataAssumption DEF StartSkip
  <2>8. ASSUME NEW t \in AppThreads, StartCheck(t) PROVE TypeOK'
    BY <2>8 DEF StartCheck
  <2>9. ASSUME NEW t \in AppThreads, StartLock(t) PROVE TypeOK'
    <3>1. updates' \in [AppThreads -> 0 .. MaxUpdates]
      BY <2>9, DataAssumption DEF StartLock
    <3>2. mutex' \in Threads
      BY <2>9 DEF StartLock, Threads
    <3>3. cycle' \in [AppThreads -> {"none", "locked", "skipped"}]
          /\ changed' \in [AppThreads -> BOOLEAN]
      BY <2>9 DEF StartLock
    <3>4. QED BY <2>9, <3>1, <3>2, <3>3 DEF StartLock
  <2>10. ASSUME NEW t \in AppThreads, NEW u \in Updates, UpdateCheck(t, u)
         PROVE TypeOK'
    <3>1. updates' \in [AppThreads -> 0 .. MaxUpdates]
      BY <2>10, DataAssumption DEF UpdateCheck
    <3>2. arg' \in [AppThreads -> Updates \cup Registrations \cup {NoUpdate}]
      BY <2>10 DEF UpdateCheck
    <3>3. QED BY <2>10, <3>1, <3>2 DEF UpdateCheck
  <2>11. ASSUME NEW t \in AppThreads, UpdateStore(t) PROVE TypeOK'
    <3>1. comp' \in [CompIds -> Component]
      BY <2>11, UpdatedType DEF UpdateStore
    <3>2. statusChange' \in BOOLEAN /\ changed' \in [AppThreads -> BOOLEAN]
      BY <2>11 DEF UpdateStore
    <3>3. QED BY <2>11, <3>1, <3>2 DEF UpdateStore
  <2>12. ASSUME NEW t \in AppThreads, CompleteSkip(t) PROVE TypeOK'
    BY <2>12 DEF CompleteSkip
  <2>13. ASSUME NEW t \in AppThreads, CompletePropagate(t) PROVE TypeOK'
    <3>1. comp' \in [CompIds -> Component]
      BY <2>13 DEF CompletePropagate, PropagateStatus, Component
    <3>2. /\ covered' \in SUBSET CompIds
          /\ statusChange' \in BOOLEAN
          /\ changed' \in [AppThreads -> BOOLEAN]
      BY <2>13 DEF CompletePropagate, PropagateStatus
    <3>3. QED BY <2>13, <3>1, <3>2 DEF CompletePropagate
  <2>14. ASSUME NEW t \in AppThreads, Post(t) PROVE TypeOK'
    <3>1. RootProp \in CStat
      BY RootId DEF RootProp, CStat, Component
    <3>2. QED BY <2>14, <3>1 DEF Post
  <2>15. ASSUME NEW t \in AppThreads, PostThrow(t) PROVE TypeOK'
    BY <2>15 DEF PostThrow
  <2>16. ASSUME NEW t \in AppThreads, Unlock(t) PROVE TypeOK'
    BY <2>16 DEF Unlock
  <2>17. ASSUME NEW t \in AppThreads, Return(t) PROVE TypeOK'
    BY <2>17 DEF Return
  <2>18. ASSUME NEW r \in RestThreads, RestLock(r) PROVE TypeOK'
    BY <2>18 DEF RestLock, Threads
  <2>19. ASSUME NEW r \in RestThreads, RestRead(r) PROVE TypeOK'
    BY <2>19 DEF RestRead
  <2>20. ASSUME NEW r \in RestThreads, NEW s \in Sinks \cup {NoSink},
                CheckSinkMapping(r, s)
         PROVE TypeOK'
    <3>1. RootProp \in CStat
      BY RootId DEF RootProp, CStat, Component
    <3>2. QED BY <2>20, <3>1 DEF CheckSinkMapping
  <2>21. CASE UNCHANGED vars
    BY <2>21 DEF vars
  <2>22. QED
    BY <2>1, <2>2, <2>3, <2>4, <2>5, <2>6, <2>7, <2>8, <2>9, <2>10, <2>11, <2>12,
       <2>13, <2>14, <2>15, <2>16, <2>17, <2>18, <2>19, <2>20, <2>21
       DEF Next, AppStep, RestStep
<1>3. QED BY <1>1, <1>2, PTL DEF Spec
-----------------------------------------------------------------------------
(***************************************************************************)
(* The mutex. Without the "toggle" liberty the unlocked reads of m_enabled *)
(* are harmless, and the invariant below is inductive.                     *)
(***************************************************************************)

\* Where a thread is tells whether it has an open cycle and holds the mutex.
Positions ==
  /\ \A t \in AppThreads : pc[t] # "read"
  /\ \A r \in RestThreads : pc[r] \in {"idle", "read"}
  /\ \A r \in RestThreads : pc[r] = "read" => mutex = r
  /\ \A t \in AppThreads : cycle[t] = "locked" => mutex = t
  /\ \A t \in AppThreads :
       pc[t] \in {"enable", "register", "start", "return"} => cycle[t] = "none"
  /\ \A t \in AppThreads : pc[t] \in {"post", "unlock"} => cycle[t] = "locked"

\* m_enabled does not change under a thread that has read it.
EnabledStable ==
  /\ \A t \in AppThreads : cycle[t] = "skipped" => ~enabled
  /\ \A t \in AppThreads : cycle[t] = "locked" \/ pc[t] = "start" => enabled
  /\ \A t \in AppThreads :
       pc[t] = "enable" =>
         /\ enabled /\ root = "none" /\ mutex = NoThread
         /\ \A u \in Threads \ {t} : pc[u] = "idle"
         /\ \A u \in AppThreads : cycle[u] = "none"

\* The root is there from the end of setEnabled to clear.
RootThere ==
  /\ root \in {"none", "tree"}
  /\ root = "none" => ids = {}
  /\ root = "tree" => Root \in ids
  /\ ~enabled => root = "none"
  /\ enabled /\ root = "none" => \E t \in AppThreads : pc[t] = "enable"
  /\ crash # "null_root"

\* m_lockedForUpdate is set only while a cycle that owns the mutex is open.
LockedOwned ==
  locked => \E t \in AppThreads : /\ cycle[t] = "locked" /\ mutex = t
                                  /\ pc[t] \in {"idle", "store"}

LockInv == Positions /\ EnabledStable /\ RootThere /\ LockedOwned /\ stale = {}

\* The lock invariant holds of a device health object just constructed.
LEMMA LockInvInit == Init => LockInv
BY ThreadAssumption
   DEF Init, LockInv, Positions, EnabledStable, RootThere, LockedOwned, Threads

\* Every step of every thread keeps the lock invariant: only startUpdateCycle,
\* registration and the REST read lock, and none of them while another holds.
LEMMA LockInvStep ==
  ASSUME "toggle" \notin Env, TypeOK, LockInv, [Next]_vars
  PROVE  LockInv'
<1> USE ThreadAssumption
<1> USE DEF TypeOK, LockInv, Positions, EnabledStable, RootThere, LockedOwned,
            Threads, tree, flags, names, event, threads, Goto, At, Idle, Admitted
<1>1. ASSUME NEW t \in AppThreads, EnableFlag(t)
     PROVE  LockInv'
  BY <1>1 DEF EnableFlag, MayToggle, Quiescent
<1>2. ASSUME NEW t \in AppThreads, EnableRoot(t)
     PROVE  LockInv'
  BY <1>2 DEF EnableRoot
<1>3. ASSUME NEW t \in AppThreads, Clear(t)
     PROVE  LockInv'
  BY <1>3 DEF Clear, MayToggle, Quiescent
<1>4. ASSUME NEW t \in AppThreads, NEW n \in Names, UpdateDeviceInfo(t, n)
     PROVE  LockInv'
  BY <1>4 DEF UpdateDeviceInfo
<1>5. ASSUME NEW t \in AppThreads, NEW p \in CompIds, RegisterCheck(t, p)
     PROVE  LockInv'
  BY <1>5 DEF RegisterCheck
<1>6. ASSUME NEW t \in AppThreads, RegisterAdd(t)
     PROVE  LockInv'
  BY <1>6 DEF RegisterAdd, FreeIds
<1>7. ASSUME NEW t \in AppThreads, StartSkip(t)
     PROVE  LockInv'
  BY <1>7 DEF StartSkip
<1>8. ASSUME NEW t \in AppThreads, StartCheck(t)
     PROVE  LockInv'
  BY <1>8 DEF StartCheck
<1>9. ASSUME NEW t \in AppThreads, StartLock(t)
     PROVE  LockInv'
  BY <1>9 DEF StartLock
<1>10. ASSUME NEW t \in AppThreads, NEW u \in Updates, UpdateCheck(t, u)
     PROVE  LockInv'
  BY <1>10 DEF UpdateCheck
<1>11. ASSUME NEW t \in AppThreads, UpdateStore(t)
     PROVE  LockInv'
  BY <1>11 DEF UpdateStore
<1>12. ASSUME NEW t \in AppThreads, CompleteSkip(t)
     PROVE  LockInv'
  BY <1>12 DEF CompleteSkip
<1>13. ASSUME NEW t \in AppThreads, CompletePropagate(t)
     PROVE  LockInv'
  BY <1>13 DEF CompletePropagate, PropagateStatus
<1>14. ASSUME NEW t \in AppThreads, Post(t)
     PROVE  LockInv'
  BY <1>14 DEF Post
<1>15. ASSUME NEW t \in AppThreads, PostThrow(t)
     PROVE  LockInv'
  BY <1>15 DEF PostThrow
<1>16. ASSUME NEW t \in AppThreads, Unlock(t)
     PROVE  LockInv'
  BY <1>16 DEF Unlock
<1>17. ASSUME NEW t \in AppThreads, Return(t)
     PROVE  LockInv'
  BY <1>17 DEF Return
<1>18. ASSUME NEW r \in RestThreads, RestLock(r)
     PROVE  LockInv'
  BY <1>18 DEF RestLock
<1>19. ASSUME NEW r \in RestThreads, RestRead(r)
     PROVE  LockInv'
  BY <1>19 DEF RestRead
<1>20. ASSUME NEW r \in RestThreads, NEW s \in Sinks \cup {NoSink}, CheckSinkMapping(r, s)
     PROVE  LockInv'
  BY <1>20 DEF CheckSinkMapping
<1>21. CASE UNCHANGED vars
  BY <1>21 DEF vars
<1>22. QED
  BY <1>1, <1>2, <1>3, <1>4, <1>5, <1>6, <1>7, <1>8, <1>9, <1>10, <1>11, <1>12, <1>13, <1>14, <1>15, <1>16, <1>17, <1>18, <1>19, <1>20, <1>21
     DEF Next, AppStep, RestStep

\* The lock invariant holds in every reachable state.
LEMMA LockInvariant ==
  ASSUME "toggle" \notin Env
  PROVE  Spec => []LockInv
<1>1. TypeOK /\ LockInv /\ [Next]_vars => LockInv'
  BY LockInvStep
<1>2. QED
  BY LockInvInit, <1>1, TypeCorrect, PTL DEF Spec

\* startUpdateCycle ... completeUpdateCycle is a critical section, even when
\* posts fail, mappings go away or setters are called outside a cycle, as long
\* as monitoring is not enabled or disabled while other threads are inside.
THEOREM CyclesExclude ==
  ASSUME "toggle" \notin Env
  PROVE  Spec => []CycleOwnsMutex
<1>1. LockInv => CycleOwnsMutex
  BY DEF LockInv, Positions, CycleOwnsMutex
<1>2. QED
  BY <1>1, LockInvariant, PTL

\* Under the same condition nobody follows the null root pointer that setEnabled
\* exposes between raising m_enabled and allocating the root.
THEOREM RootNeverNull ==
  ASSUME "toggle" \notin Env
  PROVE  Spec => []NoNullRoot
<1>1. LockInv => NoNullRoot
  BY DEF LockInv, RootThere, NoNullRoot
<1>2. QED
  BY <1>1, LockInvariant, PTL
-----------------------------------------------------------------------------
(***************************************************************************)
(* Setters. With setters called only inside cycles, the unlocked lookup    *)
(* and store of a setter lie in the critical section of its own thread.    *)
(***************************************************************************)
StoreInv == \A t \in AppThreads : pc[t] = "store" => cycle[t] = "locked" /\ locked

\* A thread that has looked its component up keeps the mutex until it has stored:
\* the cycle it is within can be ended by no other thread.
LEMMA StoreInvStep ==
  ASSUME Env \cap {"toggle", "stray"} = {}, TypeOK, LockInv, StoreInv, [Next]_vars
  PROVE  StoreInv'
<1> USE ThreadAssumption
<1> USE DEF TypeOK, LockInv, Positions, EnabledStable, LockedOwned, StoreInv,
            Threads, tree, flags, names, event, threads, Goto, At, Idle
<1>1. ASSUME NEW t \in AppThreads, EnableFlag(t)
     PROVE  StoreInv'
  BY <1>1 DEF EnableFlag
<1>2. ASSUME NEW t \in AppThreads, EnableRoot(t)
     PROVE  StoreInv'
  BY <1>2 DEF EnableRoot
<1>3. ASSUME NEW t \in AppThreads, Clear(t)
     PROVE  StoreInv'
  BY <1>3 DEF Clear, MayToggle, Quiescent
<1>4. ASSUME NEW t \in AppThreads, NEW n \in Names, UpdateDeviceInfo(t, n)
     PROVE  StoreInv'
  BY <1>4 DEF UpdateDeviceInfo
<1>5. ASSUME NEW t \in AppThreads, NEW p \in CompIds, RegisterCheck(t, p)
     PROVE  StoreInv'
  BY <1>5 DEF RegisterCheck
<1>6. ASSUME NEW t \in AppThreads, RegisterAdd(t)
     PROVE  StoreInv'
  BY <1>6 DEF RegisterAdd
<1>7. ASSUME NEW t \in AppThreads, StartSkip(t)
     PROVE  StoreInv'
  BY <1>7 DEF StartSkip
<1>8. ASSUME NEW t \in AppThreads, StartCheck(t)
     PROVE  StoreInv'
  BY <1>8 DEF StartCheck
<1>9. ASSUME NEW t \in AppThreads, StartLock(t)
     PROVE  StoreInv'
  BY <1>9 DEF StartLock
<1>10. ASSUME NEW t \in AppThreads, NEW u \in Updates, UpdateCheck(t, u)
     PROVE  StoreInv'
  BY <1>10 DEF UpdateCheck
<1>11. ASSUME NEW t \in AppThreads, UpdateStore(t)
     PROVE  StoreInv'
  BY <1>11 DEF UpdateStore
<1>12. ASSUME NEW t \in AppThreads, CompleteSkip(t)
     PROVE  StoreInv'
  BY <1>12 DEF CompleteSkip
<1>13. ASSUME NEW t \in AppThreads, CompletePropagate(t)
     PROVE  StoreInv'
  BY <1>13 DEF CompletePropagate
<1>14. ASSUME NEW t \in AppThreads, Post(t)
     PROVE  StoreInv'
  BY <1>14 DEF Post
<1>15. ASSUME NEW t \in AppThreads, PostThrow(t)
     PROVE  StoreInv'
  BY <1>15 DEF PostThrow
<1>16. ASSUME NEW t \in AppThreads, Unlock(t)
     PROVE  StoreInv'
  BY <1>16 DEF Unlock
<1>17. ASSUME NEW t \in AppThreads, Return(t)
     PROVE  StoreInv'
  BY <1>17 DEF Return
<1>18. ASSUME NEW r \in RestThreads, RestLock(r)
     PROVE  StoreInv'
  BY <1>18 DEF RestLock
<1>19. ASSUME NEW r \in RestThreads, RestRead(r)
     PROVE  StoreInv'
  BY <1>19 DEF RestRead
<1>20. ASSUME NEW r \in RestThreads, NEW s \in Sinks \cup {NoSink}, CheckSinkMapping(r, s)
     PROVE  StoreInv'
  BY <1>20 DEF CheckSinkMapping
<1>21. CASE UNCHANGED vars
  BY <1>21 DEF vars
<1>22. QED
  BY <1>1, <1>2, <1>3, <1>4, <1>5, <1>6, <1>7, <1>8, <1>9, <1>10, <1>11, <1>12, <1>13, <1>14, <1>15, <1>16, <1>17, <1>18, <1>19, <1>20, <1>21
     DEF Next, AppStep, RestStep

\* A setter between its lookup and its store is always within its own cycle.
LEMMA StoreInvariant ==
  ASSUME Env \cap {"toggle", "stray"} = {}
  PROVE  Spec => []StoreInv
<1>1. Init => StoreInv
  BY DEF Init, StoreInv, Threads
<1>2. TypeOK /\ LockInv /\ StoreInv /\ [Next]_vars => StoreInv'
  BY StoreInvStep
<1>3. "toggle" \notin Env
  OBVIOUS
<1>4. Spec => []LockInv
  BY <1>3, LockInvariant
<1>5. QED
  BY <1>1, <1>2, <1>4, TypeCorrect, PTL DEF Spec

\* A setter stores while its thread holds the mutex, through a live pointer.
THEOREM StoresProtected ==
  ASSUME Env \cap {"toggle", "stray"} = {}
  PROVE  Spec => []StoreProtected
<1>1. LockInv /\ StoreInv => StoreProtected
  BY DEF LockInv, Positions, StoreInv, StoreProtected
<1>2. "toggle" \notin Env
  OBVIOUS
<1>3. Spec => []LockInv
  BY <1>2, LockInvariant
<1>4. QED
  BY <1>1, <1>3, StoreInvariant, PTL

\* A REST thread never reads the tree while a cycle is writing it.
THEOREM ReadsSettled ==
  ASSUME Env \cap {"toggle", "stray"} = {}
  PROVE  Spec => []ReadsSettledTree
<1>1. LockInv /\ StoreInv => ReadsSettledTree
  BY ThreadAssumption
     DEF LockInv, Positions, LockedOwned, StoreInv, ReadsSettledTree
<1>2. "toggle" \notin Env
  OBVIOUS
<1>3. Spec => []LockInv
  BY <1>2, LockInvariant
<1>4. QED
  BY <1>1, <1>3, StoreInvariant, PTL
-----------------------------------------------------------------------------
(***************************************************************************)
(* Release. Only an exception of the post, or a sink emptied between its   *)
(* two reads, leaves completeUpdateCycle without the unlock.               *)
(***************************************************************************)
UserInv ==
  /\ MutexHasUser
  /\ \A t \in AppThreads : pc[t] = "post" => sink # NoSink

\* No step leaves the mutex locked without a cycle, a registration or a read that
\* will unlock it, when posts raise no exception and sinks stay mapped.
LEMMA UserInvStep ==
  ASSUME Env \cap {"toggle", "throw", "unmap"} = {},
         TypeOK, LockInv, UserInv, [Next]_vars
  PROVE  UserInv'
<1> USE ThreadAssumption, DataAssumption
<1> USE DEF TypeOK, LockInv, Positions, EnabledStable, UserInv, MutexHasUser,
            Threads, tree, flags, names, event, threads, Goto, At, Idle
<1>1. ASSUME NEW t \in AppThreads, EnableFlag(t)
     PROVE  UserInv'
  BY <1>1 DEF EnableFlag
<1>2. ASSUME NEW t \in AppThreads, EnableRoot(t)
     PROVE  UserInv'
  BY <1>2 DEF EnableRoot
<1>3. ASSUME NEW t \in AppThreads, Clear(t)
     PROVE  UserInv'
  BY <1>3 DEF Clear
<1>4. ASSUME NEW t \in AppThreads, NEW n \in Names, UpdateDeviceInfo(t, n)
     PROVE  UserInv'
  BY <1>4 DEF UpdateDeviceInfo
<1>5. ASSUME NEW t \in AppThreads, NEW p \in CompIds, RegisterCheck(t, p)
     PROVE  UserInv'
  BY <1>5 DEF RegisterCheck
<1>6. ASSUME NEW t \in AppThreads, RegisterAdd(t)
     PROVE  UserInv'
  BY <1>6 DEF RegisterAdd
<1>7. ASSUME NEW t \in AppThreads, StartSkip(t)
     PROVE  UserInv'
  BY <1>7 DEF StartSkip
<1>8. ASSUME NEW t \in AppThreads, StartCheck(t)
     PROVE  UserInv'
  BY <1>8 DEF StartCheck
<1>9. ASSUME NEW t \in AppThreads, StartLock(t)
     PROVE  UserInv'
  BY <1>9 DEF StartLock
<1>10. ASSUME NEW t \in AppThreads, NEW u \in Updates, UpdateCheck(t, u)
     PROVE  UserInv'
  BY <1>10 DEF UpdateCheck
<1>11. ASSUME NEW t \in AppThreads, UpdateStore(t)
     PROVE  UserInv'
  BY <1>11 DEF UpdateStore
<1>12. ASSUME NEW t \in AppThreads, CompleteSkip(t)
     PROVE  UserInv'
  BY <1>12 DEF CompleteSkip
<1>13. ASSUME NEW t \in AppThreads, CompletePropagate(t)
     PROVE  UserInv'
  BY <1>13 DEF CompletePropagate
<1>14. ASSUME NEW t \in AppThreads, Post(t)
     PROVE  UserInv'
  BY <1>14 DEF Post
<1>15. ASSUME NEW t \in AppThreads, PostThrow(t)
     PROVE  UserInv'
  BY <1>15 DEF PostThrow
<1>16. ASSUME NEW t \in AppThreads, Unlock(t)
     PROVE  UserInv'
  BY <1>16 DEF Unlock
<1>17. ASSUME NEW t \in AppThreads, Return(t)
     PROVE  UserInv'
  BY <1>17 DEF Return
<1>18. ASSUME NEW r \in RestThreads, RestLock(r)
     PROVE  UserInv'
  BY <1>18 DEF RestLock
<1>19. ASSUME NEW r \in RestThreads, RestRead(r)
     PROVE  UserInv'
  BY <1>19 DEF RestRead
<1>20. ASSUME NEW r \in RestThreads, NEW s \in Sinks \cup {NoSink}, CheckSinkMapping(r, s)
     PROVE  UserInv'
  BY <1>20 DEF CheckSinkMapping
<1>21. CASE UNCHANGED vars
  BY <1>21 DEF vars
<1>22. QED
  BY <1>1, <1>2, <1>3, <1>4, <1>5, <1>6, <1>7, <1>8, <1>9, <1>10, <1>11, <1>12, <1>13, <1>14, <1>15, <1>16, <1>17, <1>18, <1>19, <1>20, <1>21
     DEF Next, AppStep, RestStep

\* The mutex always has a user that will release it: it is never leaked.
THEOREM MutexNeverLeaked ==
  ASSUME Env \cap {"toggle", "throw", "unmap"} = {}
  PROVE  Spec => []MutexHasUser
<1>1. Init => UserInv
  BY ThreadAssumption DEF Init, UserInv, MutexHasUser, Threads
<1>2. TypeOK /\ LockInv /\ UserInv /\ [Next]_vars => UserInv'
  BY UserInvStep
<1>3. "toggle" \notin Env
  OBVIOUS
<1>4. Spec => []LockInv
  BY <1>3, LockInvariant
<1>5. UserInv => MutexHasUser
  BY DEF UserInv
<1>6. QED
  BY <1>1, <1>2, <1>4, <1>5, TypeCorrect, PTL DEF Spec
-----------------------------------------------------------------------------
(***************************************************************************)
(* Propagation. What completeUpdateCycle computed stays true of the tree   *)
(* until the next cycle: setters are confined to cycles, and a component   *)
(* registered since is not yet covered. The invariant is the equation of   *)
(* the walk; what the equation means is PropagationMeans.                  *)
(***************************************************************************)
PropagatedLocally ==
  ~locked =>
    \A c \in covered :
      comp[c].prop = IF \E k \in covered \ {Root} :
                          comp[k].parent = c /\ comp[k].prop # "OK"
                       THEN "DEGRADED"
                       ELSE comp[c].status

PropagationInv == covered \subseteq ids /\ PropagatedLocally

\* Outside the cycle that holds the mutex the propagated statuses stay what
\* propagateChild computes, and propagation covers registered components only.
LEMMA PropagationInvStep ==
  ASSUME Env \cap {"toggle", "stray"} = {},
         TypeOK, LockInv, StoreInv, PropagationInv, [Next]_vars
  PROVE  PropagationInv'
<1> USE ThreadAssumption, DataAssumption
<1> USE DEF TypeOK, LockInv, RootThere, StoreInv, PropagationInv,
            PropagatedLocally, Threads, tree, flags, names, event, threads,
            Goto, At, Idle
<1>1. ASSUME NEW t \in AppThreads, EnableFlag(t)
     PROVE  PropagationInv'
  BY <1>1 DEF EnableFlag
<1>2. ASSUME NEW t \in AppThreads, EnableRoot(t)
     PROVE  PropagationInv'
  BY <1>2 DEF EnableRoot, EnabledStable
<1>3. ASSUME NEW t \in AppThreads, Clear(t)
     PROVE  PropagationInv'
  BY <1>3 DEF Clear
<1>4. ASSUME NEW t \in AppThreads, NEW n \in Names, UpdateDeviceInfo(t, n)
     PROVE  PropagationInv'
  BY <1>4 DEF UpdateDeviceInfo
<1>5. ASSUME NEW t \in AppThreads, NEW p \in CompIds, RegisterCheck(t, p)
     PROVE  PropagationInv'
  BY <1>5 DEF RegisterCheck
<1>6. ASSUME NEW t \in AppThreads, RegisterAdd(t)
     PROVE  PropagationInv'
  BY <1>6 DEF RegisterAdd, FreeIds
<1>7. ASSUME NEW t \in AppThreads, StartSkip(t)
     PROVE  PropagationInv'
  BY <1>7 DEF StartSkip
<1>8. ASSUME NEW t \in AppThreads, StartCheck(t)
     PROVE  PropagationInv'
  BY <1>8 DEF StartCheck
<1>9. ASSUME NEW t \in AppThreads, StartLock(t)
     PROVE  PropagationInv'
  BY <1>9 DEF StartLock
<1>10. ASSUME NEW t \in AppThreads, NEW u \in Updates, UpdateCheck(t, u)
     PROVE  PropagationInv'
  BY <1>10 DEF UpdateCheck
<1>11. ASSUME NEW t \in AppThreads, UpdateStore(t)
     PROVE  PropagationInv'
  BY <1>11 DEF UpdateStore
<1>12. ASSUME NEW t \in AppThreads, CompleteSkip(t)
     PROVE  PropagationInv'
  BY <1>12 DEF CompleteSkip
<1>13. ASSUME NEW t \in AppThreads, CompletePropagate(t)
     PROVE  PropagationInv'
  <2>1. root = "tree"
    BY <1>13 DEF CompletePropagate, EnabledStable
  <2>2. PICK calc \in [CompIds -> CStat] :
          /\ Propagation(calc)
          /\ comp' = [c \in CompIds |->
                        IF c \in ids THEN [comp[c] EXCEPT !.prop = calc[c]]
                                     ELSE comp[c]]
    BY <1>13, <2>1 DEF CompletePropagate, PropagateStatus
  <2>3. covered' = ids /\ ids' = ids
    BY <1>13, <2>1 DEF CompletePropagate, PropagateStatus
  <2>4. \A c \in ids : /\ comp'[c].prop = calc[c]
                        /\ comp'[c].parent = comp[c].parent
                        /\ comp'[c].status = comp[c].status
    BY <2>2 DEF Component
  <2>5. ASSUME NEW c \in covered'
        PROVE  comp'[c].prop = IF \E k \in covered' \ {Root} :
                                    comp'[k].parent = c /\ comp'[k].prop # "OK"
                                 THEN "DEGRADED" ELSE comp'[c].status
    <3>1. c \in CompIds /\ c \in ids
      BY <2>3, <2>5
    <3>2. calc[c] = IF \E k \in Children(c) : calc[k] # "OK"
                      THEN "DEGRADED" ELSE comp[c].status
      BY <2>2, <3>1 DEF Propagation
    <3>3. (\E k \in covered' \ {Root} : comp'[k].parent = c /\ comp'[k].prop # "OK")
            <=> (\E k \in Children(c) : calc[k] # "OK")
      BY <2>3, <2>4 DEF Children
    <3>4. QED BY <2>4, <3>1, <3>2, <3>3
  <2>6. QED BY <2>3, <2>5
<1>14. ASSUME NEW t \in AppThreads, Post(t)
     PROVE  PropagationInv'
  BY <1>14 DEF Post
<1>15. ASSUME NEW t \in AppThreads, PostThrow(t)
     PROVE  PropagationInv'
  BY <1>15 DEF PostThrow
<1>16. ASSUME NEW t \in AppThreads, Unlock(t)
     PROVE  PropagationInv'
  BY <1>16 DEF Unlock
<1>17. ASSUME NEW t \in AppThreads, Return(t)
     PROVE  PropagationInv'
  BY <1>17 DEF Return
<1>18. ASSUME NEW r \in RestThreads, RestLock(r)
     PROVE  PropagationInv'
  BY <1>18 DEF RestLock
<1>19. ASSUME NEW r \in RestThreads, RestRead(r)
     PROVE  PropagationInv'
  BY <1>19 DEF RestRead
<1>20. ASSUME NEW r \in RestThreads, NEW s \in Sinks \cup {NoSink}, CheckSinkMapping(r, s)
     PROVE  PropagationInv'
  BY <1>20 DEF CheckSinkMapping
<1>21. CASE UNCHANGED vars
  BY <1>21 DEF vars
<1>22. QED
  BY <1>1, <1>2, <1>3, <1>4, <1>5, <1>6, <1>7, <1>8, <1>9, <1>10, <1>11, <1>12, <1>13, <1>14, <1>15, <1>16, <1>17, <1>18, <1>19, <1>20, <1>21
     DEF Next, AppStep, RestStep

\* Outside a cycle propagated statuses agree with the children and own status.
LEMMA PropagationHolds ==
  ASSUME Env \cap {"toggle", "stray"} = {}
  PROVE  Spec => []PropagatedLocally
<1>1. Init => PropagationInv
  BY DEF Init, PropagationInv, PropagatedLocally
<1>2. TypeOK /\ LockInv /\ StoreInv /\ PropagationInv /\ [Next]_vars => PropagationInv'
  BY PropagationInvStep
<1>3. "toggle" \notin Env
  OBVIOUS
<1>4. Spec => []LockInv
  BY <1>3, LockInvariant
<1>5. PropagationInv => PropagatedLocally
  BY DEF PropagationInv
<1>6. QED
  BY <1>1, <1>2, <1>4, <1>5, StoreInvariant, TypeCorrect, PTL DEF Spec
-----------------------------------------------------------------------------
(***************************************************************************)
(* The event. While a sink is mapped, the root's propagated status differs *)
(* from what the sink heard only while the thread that changed it is about *)
(* to post, or because clear has dropped the tree since.                   *)
(***************************************************************************)
HeardInv ==
  sink # NoSink =>
    \/ heard = RootProp
    \/ renewed /\ RootProp = "UNKNOWN"
    \/ \E t \in AppThreads : pc[t] = "post"

\* The setters do not touch the propagated status.
LEMMA UpdatedKeepsProp ==
  ASSUME NEW c \in Component, NEW u PROVE Updated(c, u).prop = c.prop
BY DEF Updated, Component

\* Every step keeps it: only propagation changes the root's status of a tree, it
\* flags the change before deciding to post, and only the post ends that decision.
LEMMA HeardInvStep ==
  ASSUME Env \cap {"toggle", "throw"} = {}, TypeOK, LockInv, HeardInv, [Next]_vars
  PROVE  HeardInv'
<1> USE ThreadAssumption, DataAssumption, RootId
<1> USE DEF TypeOK, LockInv, Positions, RootThere, HeardInv, RootProp, Threads, tree, flags,
            names, event, threads, Goto, At, Idle
<1>1. ASSUME NEW t \in AppThreads, EnableFlag(t)
     PROVE  HeardInv'
  BY <1>1 DEF EnableFlag
<1>2. ASSUME NEW t \in AppThreads, EnableRoot(t)
     PROVE  HeardInv'
  BY <1>2 DEF EnableRoot, EnabledStable, Fresh
<1>3. ASSUME NEW t \in AppThreads, Clear(t)
     PROVE  HeardInv'
  BY <1>3 DEF Clear, MayToggle, Quiescent
<1>4. ASSUME NEW t \in AppThreads, NEW n \in Names, UpdateDeviceInfo(t, n)
     PROVE  HeardInv'
  BY <1>4 DEF UpdateDeviceInfo
<1>5. ASSUME NEW t \in AppThreads, NEW p \in CompIds, RegisterCheck(t, p)
     PROVE  HeardInv'
  BY <1>5 DEF RegisterCheck
<1>6. ASSUME NEW t \in AppThreads, RegisterAdd(t)
     PROVE  HeardInv'
  BY <1>6 DEF RegisterAdd, FreeIds, Root
<1>7. ASSUME NEW t \in AppThreads, StartSkip(t)
     PROVE  HeardInv'
  BY <1>7 DEF StartSkip
<1>8. ASSUME NEW t \in AppThreads, StartCheck(t)
     PROVE  HeardInv'
  BY <1>8 DEF StartCheck
<1>9. ASSUME NEW t \in AppThreads, StartLock(t)
     PROVE  HeardInv'
  BY <1>9 DEF StartLock
<1>10. ASSUME NEW t \in AppThreads, NEW u \in Updates, UpdateCheck(t, u)
     PROVE  HeardInv'
  BY <1>10 DEF UpdateCheck
<1>11. ASSUME NEW t \in AppThreads, UpdateStore(t)
     PROVE  HeardInv'
  <2>1. comp'[Root].prop = comp[Root].prop
    BY <1>11, UpdatedKeepsProp DEF UpdateStore
  <2>2. QED BY <1>11, <2>1 DEF UpdateStore
<1>12. ASSUME NEW t \in AppThreads, CompleteSkip(t)
     PROVE  HeardInv'
  BY <1>12 DEF CompleteSkip
<1>13. ASSUME NEW t \in AppThreads, CompletePropagate(t)
     PROVE  HeardInv'
  <2>1. root = "tree" /\ mutex = t
    BY <1>13 DEF CompletePropagate, EnabledStable
  <2>2. comp' # comp => statusChange'
    BY <1>13, <2>1 DEF CompletePropagate, PropagateStatus
  <2>3. CASE comp' = comp
    BY <1>13, <2>3 DEF CompletePropagate, EnabledStable
  <2>4. CASE comp' # comp
    BY <1>13, <2>1, <2>2, <2>4 DEF CompletePropagate
  <2>5. QED BY <2>3, <2>4
<1>14. ASSUME NEW t \in AppThreads, Post(t)
     PROVE  HeardInv'
  <2>1. root = "tree"
    BY <1>14 DEF Post, EnabledStable
  <2>2. QED BY <1>14, <2>1 DEF Post
<1>15. ASSUME NEW t \in AppThreads, PostThrow(t)
     PROVE  HeardInv'
  BY <1>15 DEF PostThrow
<1>16. ASSUME NEW t \in AppThreads, Unlock(t)
     PROVE  HeardInv'
  BY <1>16 DEF Unlock
<1>17. ASSUME NEW t \in AppThreads, Return(t)
     PROVE  HeardInv'
  BY <1>17 DEF Return
<1>18. ASSUME NEW r \in RestThreads, RestLock(r)
     PROVE  HeardInv'
  BY <1>18 DEF RestLock
<1>19. ASSUME NEW r \in RestThreads, RestRead(r)
     PROVE  HeardInv'
  BY <1>19 DEF RestRead
<1>20. ASSUME NEW r \in RestThreads, NEW s \in Sinks \cup {NoSink}, CheckSinkMapping(r, s)
     PROVE  HeardInv'
  BY <1>20 DEF CheckSinkMapping
<1>21. CASE UNCHANGED vars
  BY <1>21 DEF vars
<1>22. QED
  BY <1>1, <1>2, <1>3, <1>4, <1>5, <1>6, <1>7, <1>8, <1>9, <1>10, <1>11, <1>12, <1>13, <1>14, <1>15, <1>16, <1>17, <1>18, <1>19, <1>20, <1>21
     DEF Next, AppStep, RestStep

\* A mapped sink that no thread is about to post to has heard the current status of
\* the device, except for the UNKNOWN of a tree that was dropped and made anew, as
\* long as no post raises an exception and monitoring is enabled and disabled only
\* while every thread is out. Mappings may come and go at any time.
THEOREM SinkUpToDate ==
  ASSUME Env \cap {"toggle", "throw"} = {}
  PROVE  Spec => []SinkHeardLatest
<1>1. Init => HeardInv
  BY DEF Init, HeardInv
<1>2. TypeOK /\ LockInv /\ HeardInv /\ [Next]_vars => HeardInv'
  BY HeardInvStep
<1>3. HeardInv => SinkHeardLatest
  BY DEF HeardInv, SinkHeardLatest
<1>4. "toggle" \notin Env
  OBVIOUS
<1>5. Spec => []LockInv
  BY <1>4, LockInvariant
<1>6. QED
  BY <1>1, <1>2, <1>3, <1>5, TypeCorrect, PTL DEF Spec
================================================================================
