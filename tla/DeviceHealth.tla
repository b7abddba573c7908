------------------------------ MODULE DeviceHealth ------------------------------
(***************************************************************************)
(* HNDeviceHealth: the tree of health components a device keeps, the       *)
(* update cycles in which application threads write it, the REST threads   *)
(* that read it, and the event posted to a mapped health sink.             *)
(*                                                                         *)
(* One action is one stretch of code between two points at which another   *)
(* thread can be seen: taking or releasing m_accessMutex, an access to a   *)
(* member made without it, and the HTTP exchange of submitPostEvent.       *)
(* Strings, timestamps and the JSON layout are left out; a format code     *)
(* stands for the code together with its parameters.                       *)
(***************************************************************************)
EXTENDS Naturals, FiniteSets

CONSTANTS
  AppThreads,   \* application threads that enable, register, run update cycles
  RestThreads,  \* HTTP server threads that serve health and mapping requests
  NoThread,     \* m_accessMutex is free
  Sinks,        \* the URIs a health sink can be mapped to
  NoSink,       \* m_sinkURI is empty
  Names,        \* device names
  IdLimit,      \* allocUniqueID gives up at this number: 2000 in the code
  Statuses,     \* the statuses the application assigns
  Codes,        \* format codes the string store knows
  BadCodes,     \* format codes it does not know
  ErrCodes,     \* error codes the application assigns
  MaxUpdates,   \* bound: updates in one cycle
  Env           \* the liberties the callers take (see Liberties)

CStat == {"UNKNOWN", "OK", "DEGRADED", "FAILED"}

(***************************************************************************)
(* "toggle": enable and disable while other threads are inside;            *)
(* "stray":  set a status outside a cycle of one's own;                    *)
(* "throw":  the HTTP post of an event raises an exception;                *)
(* "unmap":  a sink mapping is replaced by an empty one.                   *)
(***************************************************************************)
Liberties == {"toggle", "stray", "throw", "unmap"}

Threads == AppThreads \cup RestThreads

ASSUME ThreadAssumption ==
  /\ AppThreads \cap RestThreads = {}
  /\ NoThread \notin Threads
ASSUME DataAssumption ==
  /\ NoSink \notin Sinks
  /\ IdLimit \in Nat \ {0}
  /\ Statuses \subseteq CStat
  /\ Codes \subseteq Nat \ {0}
  /\ BadCodes \subseteq Nat \ {0}
  /\ Codes \cap BadCodes = {}
  /\ ErrCodes \subseteq Nat
  /\ MaxUpdates \in Nat
  /\ Env \subseteq Liberties

CompIds == 0 .. (IdLimit - 1)
Root == 0

Component == [parent : CompIds, status : CStat, prop : CStat,
              note : Nat, msg : Nat, err : Nat]

Fresh(p) == [parent |-> p, status |-> "UNKNOWN", prop |-> "UNKNOWN",
             note |-> 0, msg |-> 0, err |-> 0]

Updates ==
       [op : {"status"}, comp : CompIds, status : Statuses]
  \cup [op : {"clearNote", "clearMsg"}, comp : CompIds]
  \cup [op : {"setNote"}, comp : CompIds, code : Codes \cup BadCodes]
  \cup [op : {"setMsg"}, comp : CompIds, code : Codes \cup BadCodes, err : ErrCodes]

NoUpdate == [op |-> "none"]
Registrations == [op : {"register"}, comp : CompIds]

VARIABLES
  mutex,        \* holder of m_accessMutex
  enabled,      \* m_enabled
  root,         \* m_devStatus: "none", the "tree" of the map, or "split" from it
  ids,          \* the keys of m_compStatus
  comp,         \* the components
  locked,       \* m_lockedForUpdate
  statusChange, \* m_statusChange
  sink,         \* m_sinkURI
  devName,      \* m_deviceName
  rootName,     \* the name instance of the root component
  pc,           \* where each thread is
  arg,          \* the argument of the call it is in
  cycle,        \* whether its startUpdateCycle took the mutex ("locked") or not
  updates,      \* updates made in the cycle
  \* history, for the properties only:
  crash,        \* the pointer fault that ended the process
  stale,        \* threads holding a pointer to a freed component
  covered,      \* components present at the last propagation
  heard,        \* the root's status when last posted, or when the sink was mapped
  renewed,      \* clear has dropped the tree since then
  changed       \* whether the thread's cycle really changed a value

tree == <<root, ids, comp, covered>>
flags == <<enabled, locked, statusChange>>
names == <<devName, rootName>>
event == <<sink, heard, renewed>>
threads == <<pc, arg, cycle, updates>>
vars == <<mutex, tree, flags, names, event, threads, crash, stale, changed>>

Goto(t, l) == pc' = [pc EXCEPT ![t] = l]

At(t, l) == crash = "none" /\ pc[t] = l

Quiescent == /\ mutex = NoThread
             /\ \A t \in Threads : pc[t] = "idle"
             /\ \A t \in AppThreads : cycle[t] = "none"

\* An assumption on the application, not a guard of the code: without the "toggle"
\* liberty it enables and disables monitoring only while every thread is out, and
\* begins no call until setEnabled has returned. The code itself reads m_enabled
\* without the lock wherever it likes, and the "toggle" liberty lets it.
MayToggle == "toggle" \in Env \/ Quiescent
Admitted == "toggle" \in Env \/ \A u \in AppThreads : pc[u] # "enable"

Idle(t) == At(t, "idle") /\ cycle[t] = "none" /\ Admitted

RootProp == IF root = "tree" THEN comp[Root].prop ELSE "UNKNOWN"
---------------------------------------------------------------------------
Init ==
  /\ mutex = NoThread
  /\ enabled = FALSE
  /\ root = "none"
  /\ ids = {}
  /\ comp = [c \in CompIds |-> Fresh(Root)]
  /\ locked = FALSE
  /\ statusChange \in BOOLEAN  \* not initialised by the constructor
  /\ sink = NoSink
  /\ devName \in Names
  /\ rootName = devName
  /\ pc = [t \in Threads |-> "idle"]
  /\ arg = [t \in AppThreads |-> NoUpdate]
  /\ cycle = [t \in AppThreads |-> "none"]
  /\ updates = [t \in AppThreads |-> 0]
  /\ crash = "none"
  /\ stale = {}
  /\ covered = {}
  /\ heard = "UNKNOWN"
  /\ renewed = FALSE
  /\ changed = [t \in AppThreads |-> FALSE]
---------------------------------------------------------------------------
(***************************************************************************)
(* setEnabled: the flag is raised before the lock is taken and the root    *)
(* component allocated. A second allocation finds "c0" in the map, so the  *)
(* new root is not the one the map holds.                                  *)
(***************************************************************************)
EnableFlag(t) ==
  /\ Idle(t) /\ MayToggle /\ ~enabled
  /\ enabled' = TRUE
  /\ Goto(t, "enable")
  /\ UNCHANGED <<mutex, tree, locked, statusChange, names, event, arg, cycle,
                 updates, crash, stale, changed>>

EnableRoot(t) ==
  /\ At(t, "enable") /\ mutex = NoThread
  /\ IF Root \in ids
       THEN root' = "split" /\ UNCHANGED <<ids, comp>>
       ELSE /\ root' = "tree"
            /\ ids' = ids \cup {Root}
            /\ comp' = [comp EXCEPT ![Root] = Fresh(Root)]
  /\ rootName' = devName
  /\ Goto(t, "idle")
  /\ UNCHANGED <<mutex, covered, flags, devName, event, arg, cycle, updates,
                 crash, stale, changed>>

\* Faulty variant: clear leaves m_enabled set.
ClearStaysEnabled(t) ==
  /\ Idle(t) /\ MayToggle /\ mutex = NoThread
  /\ locked' = FALSE
  /\ root' = "none" /\ ids' = {} /\ covered' = {}
  /\ comp' = [c \in CompIds |-> Fresh(Root)]
  /\ renewed' = TRUE
  /\ UNCHANGED <<mutex, enabled, statusChange, names, sink, heard, threads, crash,
                 stale, changed>>

\* clear: everything under the scope lock. The sink stays mapped, and keeps what
\* it heard of the tree that is dropped.
Clear(t) ==
  /\ Idle(t) /\ MayToggle /\ mutex = NoThread
  /\ enabled' = FALSE
  /\ locked' = FALSE
  /\ root' = "none"
  /\ ids' = {}
  /\ comp' = [c \in CompIds |-> Fresh(Root)]
  /\ covered' = {}
  /\ renewed' = TRUE
  /\ stale' = stale \cup {u \in AppThreads : pc[u] = "store"}
  /\ UNCHANGED <<mutex, statusChange, names, sink, heard, threads, crash, changed>>

UpdateDeviceInfo(t, n) ==
  /\ Idle(t) /\ mutex = NoThread
  /\ devName' = n
  /\ rootName' = IF enabled /\ root # "none" THEN n ELSE rootName
  /\ crash' = IF enabled /\ root = "none" THEN "null_root" ELSE crash
  /\ UNCHANGED <<mutex, tree, flags, event, threads, stale, changed>>

(***************************************************************************)
(* registerComponent: the flag is read first and not again under the lock. *)
(* Called when disabled it returns without effect, which is no step.       *)
(***************************************************************************)
RegisterCheck(t, p) ==
  /\ Idle(t) /\ enabled
  /\ arg' = [arg EXCEPT ![t] = [op |-> "register", comp |-> p]]
  /\ Goto(t, "register")
  /\ UNCHANGED <<mutex, tree, flags, names, event, cycle, updates, crash,
                 stale, changed>>

\* Faulty variant: the bound on the number is off by one.
FreeIdsPastLimit ==
  {n \in 1 .. IdLimit : n >= Cardinality(ids) /\ n \notin ids}

\* allocUniqueID: the numbers from the size of the map on that are not in use.
FreeIds == {n \in CompIds : n >= 1 /\ n >= Cardinality(ids) /\ n \notin ids}

\* Faulty variant: a parent that is not in the map is accepted.
RegisterAddAnyParent(t) ==
  /\ At(t, "register") /\ mutex = NoThread /\ FreeIds # {}
  /\ \E n \in FreeIds :
       /\ ids' = ids \cup {n}
       /\ comp' = [comp EXCEPT ![n] = Fresh(arg[t].comp)]
  /\ arg' = [arg EXCEPT ![t] = NoUpdate]
  /\ Goto(t, "idle")
  /\ UNCHANGED <<mutex, root, covered, flags, names, event, cycle, updates,
                 crash, stale, changed>>

RegisterAdd(t) ==
  /\ At(t, "register") /\ mutex = NoThread
  /\ LET p == arg[t].comp
     IN \/ /\ p \in ids
           /\ \E n \in FreeIds :
                /\ \A m \in FreeIds : n <= m
                /\ ids' = ids \cup {n}
                /\ comp' = [comp EXCEPT ![n] = Fresh(p)]
        \/ /\ p \notin ids \/ FreeIds = {}
           /\ UNCHANGED <<ids, comp>>
  /\ arg' = [arg EXCEPT ![t] = NoUpdate]
  /\ Goto(t, "idle")
  /\ UNCHANGED <<mutex, root, covered, flags, names, event, cycle, updates,
                 crash, stale, changed>>
---------------------------------------------------------------------------
(***************************************************************************)
(* startUpdateCycle reads m_enabled without the lock. When it is not set   *)
(* it returns at once, and the caller goes on as in a cycle.               *)
(***************************************************************************)
StartSkip(t) ==
  /\ Idle(t) /\ ~enabled
  /\ cycle' = [cycle EXCEPT ![t] = "skipped"]
  /\ updates' = [updates EXCEPT ![t] = 0]
  /\ changed' = [changed EXCEPT ![t] = FALSE]
  /\ UNCHANGED <<mutex, tree, flags, names, event, pc, arg, crash, stale>>

StartCheck(t) ==
  /\ Idle(t) /\ enabled
  /\ Goto(t, "start")
  /\ UNCHANGED <<mutex, tree, flags, names, event, arg, cycle, updates, crash,
                 stale, changed>>

\* Faulty variant: a scope lock, released when startUpdateCycle returns.
StartLockScoped(t) ==
  /\ At(t, "start") /\ mutex = NoThread
  /\ locked' = TRUE
  /\ statusChange' = FALSE
  /\ cycle' = [cycle EXCEPT ![t] = "locked"]
  /\ updates' = [updates EXCEPT ![t] = 0]
  /\ Goto(t, "idle")
  /\ UNCHANGED <<mutex, tree, enabled, names, event, arg, crash, stale, changed>>

StartLock(t) ==
  /\ At(t, "start") /\ mutex = NoThread
  /\ mutex' = t
  /\ locked' = TRUE
  /\ statusChange' = FALSE
  /\ cycle' = [cycle EXCEPT ![t] = "locked"]
  /\ updates' = [updates EXCEPT ![t] = 0]
  /\ changed' = [changed EXCEPT ![t] = FALSE]
  /\ Goto(t, "idle")
  /\ UNCHANGED <<tree, enabled, names, event, arg, crash, stale>>

(***************************************************************************)
(* The five setters share their beginning: m_enabled, m_lockedForUpdate    *)
(* and the lookup, none under a lock of their own. A call that fails one   *)
(* of these has no effect.                                                 *)
(***************************************************************************)
UpdateCheck(t, u) ==
  /\ At(t, "idle")
  /\ cycle[t] # "none" \/ "stray" \in Env
  /\ updates[t] < MaxUpdates
  /\ enabled /\ locked /\ u.comp \in ids
  /\ arg' = [arg EXCEPT ![t] = u]
  /\ updates' = [updates EXCEPT ![t] = @ + 1]
  /\ Goto(t, "store")
  /\ UNCHANGED <<mutex, tree, flags, names, event, cycle, crash, stale, changed>>

\* fillInstance clears the instance first, and fails on a code it does not know.
Filled(code) == IF code \in Codes THEN code ELSE 0

Updated(c, u) ==
  CASE u.op = "status"    -> [c EXCEPT !.status = u.status]
    [] u.op = "clearNote" -> [c EXCEPT !.note = 0]
    [] u.op = "setNote"   -> [c EXCEPT !.note = Filled(u.code)]
    [] u.op = "clearMsg"  -> [c EXCEPT !.msg = 0, !.err = 0]
    [] u.op = "setMsg"    -> [c EXCEPT !.msg = Filled(u.code), !.err = u.err]
    [] OTHER              -> c

\* Faulty variant: clearing a note is not counted.
FlaggedNoNoteClear(c, u) ==
  \/ u.op = "status" /\ c.status # u.status
  \/ u.op \in {"setNote", "setMsg"}
  \/ u.op = "clearMsg" /\ (c.err # 0 \/ c.msg # 0)

\* What the setter itself counts as a change.
Flagged(c, u) ==
  \/ u.op = "status" /\ c.status # u.status
  \/ u.op = "clearNote" /\ c.note # 0
  \/ u.op = "setNote" /\ u.code \in Codes
  \/ u.op = "clearMsg" /\ (c.err # 0 \/ c.msg # 0)
  \/ u.op = "setMsg" /\ (c.err # u.err \/ u.code \in Codes)

\* The store through the pointer, and the change it counts for.
UpdateStore(t) ==
  /\ At(t, "store")
  /\ LET u == arg[t]
         c == comp[u.comp]
     IN IF t \in stale
          THEN /\ crash' = "freed_component"
               /\ UNCHANGED <<comp, statusChange, changed>>
          ELSE /\ comp' = [comp EXCEPT ![u.comp] = Updated(c, u)]
               /\ statusChange' = (statusChange \/ Flagged(c, u))
               /\ changed' = [changed EXCEPT ![t] = @ \/ Updated(c, u) # c]
               /\ UNCHANGED crash
  /\ arg' = [arg EXCEPT ![t] = NoUpdate]
  /\ Goto(t, "idle")
  /\ UNCHANGED <<mutex, root, ids, covered, enabled, locked, names, event,
                 cycle, updates, stale>>
---------------------------------------------------------------------------
Children(c) == {k \in ids : k # Root /\ comp[k].parent = c}

\* Faulty variant: only the children's own statuses count, not what was propagated to
\* them.
PropagationOneLevel(calc) ==
  \A c \in CompIds :
    calc[c] = IF \E k \in Children(c) : comp[k].status # "OK"
                THEN "DEGRADED" ELSE comp[c].status

(***************************************************************************)
(* propagateChild, the depth-first walk, by the equation its result obeys: *)
(* a component is degraded by any child that is not OK, whatever its own   *)
(* status. The tree is finite, so one function satisfies it.               *)
(***************************************************************************)
Propagation(calc) ==
  \A c \in CompIds :
    calc[c] = IF \E k \in Children(c) : calc[k] # "OK"
                THEN "DEGRADED"
                ELSE comp[c].status

\* propagateStatus: without a root nothing happens.
PropagateStatus(t) ==
  IF root = "tree"
    THEN /\ \E calc \in [CompIds -> CStat] :
              /\ Propagation(calc)
              /\ comp' = [c \in CompIds |->
                            IF c \in ids THEN [comp[c] EXCEPT !.prop = calc[c]]
                                         ELSE comp[c]]
         /\ covered' = ids
         /\ statusChange' = (statusChange \/ comp' # comp)
         /\ changed' = [changed EXCEPT ![t] = @ \/ comp' # comp]
    ELSE UNCHANGED <<comp, covered, statusChange, changed>>

(***************************************************************************)
(* completeUpdateCycle. Called when disabled it returns at once, with the  *)
(* mutex as it is. Otherwise it propagates, closes the cycle and decides   *)
(* whether to post an event; posts it (reading the sink a second time);    *)
(* releases the mutex; and only then reads the value it returns.           *)
(***************************************************************************)
CompleteSkip(t) ==
  /\ At(t, "idle") /\ cycle[t] # "none" /\ ~enabled
  /\ cycle' = [cycle EXCEPT ![t] = "none"]
  /\ UNCHANGED <<mutex, tree, flags, names, event, pc, arg, updates, crash,
                 stale, changed>>

\* Faulty variant: the event is decided on before the propagation.
CompleteDecidesFirst(t) ==
  /\ At(t, "idle") /\ cycle[t] # "none" /\ enabled
  /\ PropagateStatus(t)
  /\ locked' = FALSE
  /\ Goto(t, IF statusChange /\ sink # NoSink THEN "post" ELSE "unlock")
  /\ UNCHANGED <<mutex, root, ids, enabled, names, event, arg, cycle, updates,
                 crash, stale>>

CompletePropagate(t) ==
  /\ At(t, "idle") /\ cycle[t] # "none" /\ enabled
  /\ PropagateStatus(t)
  /\ locked' = FALSE
  /\ Goto(t, IF statusChange' /\ sink # NoSink THEN "post" ELSE "unlock")
  /\ UNCHANGED <<mutex, root, ids, enabled, names, event, arg, cycle, updates,
                 crash, stale>>

Post(t) ==
  /\ At(t, "post") /\ sink # NoSink
  /\ IF root = "none"
       THEN crash' = "null_root" /\ UNCHANGED <<heard, renewed>>
       ELSE heard' = RootProp /\ renewed' = FALSE /\ UNCHANGED crash
  /\ Goto(t, "unlock")
  /\ UNCHANGED <<mutex, tree, flags, names, sink, arg, cycle, updates, stale,
                 changed>>

\* An exception of the HTTP session leaves completeUpdateCycle before the
\* unlock. A URI with no host, when the sink was emptied meanwhile, raises one.
PostThrow(t) ==
  /\ At(t, "post") /\ root # "none"
  /\ "throw" \in Env \/ sink = NoSink
  /\ cycle' = [cycle EXCEPT ![t] = "none"]
  /\ Goto(t, "idle")
  /\ UNCHANGED <<mutex, tree, flags, names, event, arg, updates, crash, stale,
                 changed>>

\* Faulty variant: an early return for a cycle without change, before the unlock.
UnlockOnlyOnChange(t) ==
  /\ At(t, "unlock")
  /\ mutex' = IF statusChange THEN NoThread ELSE mutex
  /\ cycle' = [cycle EXCEPT ![t] = "none"]
  /\ Goto(t, "return")
  /\ UNCHANGED <<tree, flags, names, event, arg, updates, crash, stale, changed>>

\* Unlocking a mutex another thread holds is undefined; the default pthread
\* mutex simply becomes free.
Unlock(t) ==
  /\ At(t, "unlock")
  /\ mutex' = NoThread
  /\ cycle' = [cycle EXCEPT ![t] = "none"]
  /\ Goto(t, "return")
  /\ UNCHANGED <<tree, flags, names, event, arg, updates, crash, stale, changed>>

Return(t) ==
  /\ At(t, "return")
  /\ Goto(t, "idle")
  /\ UNCHANGED <<mutex, tree, flags, names, event, arg, cycle, updates, crash,
                 stale, changed>>
---------------------------------------------------------------------------
\* Faulty variant: getRestJSON reads the tree without the lock.
RestLockMissing(r) ==
  /\ At(r, "idle")
  /\ Goto(r, "read")
  /\ UNCHANGED <<mutex, tree, flags, names, event, arg, cycle, updates, crash,
                 stale, changed>>

\* getRestJSON: lock, read the tree from its root, unlock.
RestLock(r) ==
  /\ At(r, "idle") /\ Admitted /\ mutex = NoThread
  /\ mutex' = r
  /\ Goto(r, "read")
  /\ UNCHANGED <<tree, flags, names, event, arg, cycle, updates, crash, stale,
                 changed>>

\* Faulty variant: an early return while disabled keeps the lock.
RestReadKeepsLock(r) ==
  /\ At(r, "read")
  /\ mutex' = IF enabled THEN NoThread ELSE mutex
  /\ Goto(r, "idle")
  /\ UNCHANGED <<tree, flags, names, event, arg, cycle, updates, crash, stale,
                 changed>>

RestRead(r) ==
  /\ At(r, "read")
  /\ crash' = IF enabled /\ root = "none" THEN "null_root" ELSE crash
  /\ mutex' = NoThread
  /\ Goto(r, "idle")
  /\ UNCHANGED <<tree, flags, names, event, arg, cycle, updates, stale, changed>>

\* checkSinkMapping and clearSinkMapping: no lock at all. Nothing is posted on the
\* occasion; from here on the sink is to hear of every change.
CheckSinkMapping(r, s) ==
  /\ At(r, "idle")
  /\ s # NoSink \/ "unmap" \in Env
  /\ s # sink
  /\ sink' = s
  /\ heard' = RootProp
  /\ renewed' = FALSE
  /\ UNCHANGED <<mutex, tree, flags, names, threads, crash, stale, changed>>
---------------------------------------------------------------------------
AppStep(t) ==
  \/ EnableFlag(t) \/ EnableRoot(t) \/ Clear(t)
  \/ \E n \in Names : UpdateDeviceInfo(t, n)
  \/ \E p \in CompIds : RegisterCheck(t, p)
  \/ RegisterAdd(t)
  \/ StartSkip(t) \/ StartCheck(t) \/ StartLock(t)
  \/ \E u \in Updates : UpdateCheck(t, u)
  \/ UpdateStore(t)
  \/ CompleteSkip(t) \/ CompletePropagate(t)
  \/ Post(t) \/ PostThrow(t) \/ Unlock(t) \/ Return(t)

RestStep(r) ==
  \/ RestLock(r) \/ RestRead(r)
  \/ \E s \in Sinks \cup {NoSink} : CheckSinkMapping(r, s)

Next ==
  \/ \E t \in AppThreads : AppStep(t)
  \/ \E r \in RestThreads : RestStep(r)

Spec == Init /\ [][Next]_vars

(***************************************************************************)
(* A thread inside a call goes on unless it waits for the mutex, and the   *)
(* application ends each cycle it began. No fairness of the mutex itself   *)
(* is assumed: std::mutex promises none.                                   *)
(***************************************************************************)
CallProgress(t) ==
  UpdateStore(t) \/ Post(t) \/ PostThrow(t) \/ Unlock(t) \/ Return(t)
EndsCycle(t) == CompleteSkip(t) \/ CompletePropagate(t)

Fairness ==
  /\ \A t \in AppThreads : WF_vars(CallProgress(t))
  /\ \A t \in AppThreads : WF_vars(EndsCycle(t))
  /\ \A r \in RestThreads : WF_vars(RestRead(r))

FairSpec == Spec /\ Fairness
---------------------------------------------------------------------------
(***************************************************************************)
(* Properties.                                                             *)
(***************************************************************************)

\* Every variable has its type: the members of HNDeviceHealth, the position of
\* each thread and the history variables.
TypeOK ==
  /\ mutex \in Threads \cup {NoThread}
  /\ enabled \in BOOLEAN /\ locked \in BOOLEAN /\ statusChange \in BOOLEAN
  /\ root \in {"none", "tree", "split"}
  /\ ids \in SUBSET CompIds
  /\ comp \in [CompIds -> Component]
  /\ sink \in Sinks \cup {NoSink}
  /\ devName \in Names /\ rootName \in Names
  /\ pc \in [Threads -> {"idle", "enable", "register", "start", "store", "post",
                         "unlock", "return", "read"}]
  /\ arg \in [AppThreads -> Updates \cup Registrations \cup {NoUpdate}]
  /\ cycle \in [AppThreads -> {"none", "locked", "skipped"}]
  /\ updates \in [AppThreads -> 0 .. MaxUpdates]
  /\ crash \in {"none", "null_root", "freed_component"}
  /\ stale \in SUBSET AppThreads
  /\ covered \in SUBSET CompIds
  /\ heard \in CStat /\ renewed \in BOOLEAN
  /\ changed \in [AppThreads -> BOOLEAN]

\* The mutex startUpdateCycle leaves locked stays with that thread until its own
\* completeUpdateCycle ends: no other cycle, enable, clear or REST read comes
\* between. It holds for applications that enable and disable monitoring only while
\* every thread is out. The code does not ask for that, and without it ("toggle") a
\* cycle begun while disabled (621) that ends after another thread enabled monitoring
\* (643) unlocks a mutex it never took, in the middle of that thread's cycle.
CycleOwnsMutex ==
  \A t \in AppThreads : cycle[t] = "locked" => mutex = t

\* Whoever holds the mutex is still inside the call or the cycle that took it, so
\* somebody is left to release it. "Look the access mutex, which will be unlocked
\* with a mandatory call to completeUpdateCycle()" (HNDeviceHealth.cpp:624).
MutexHasUser ==
  /\ \A t \in AppThreads : mutex = t => cycle[t] = "locked"
  /\ \A r \in RestThreads : mutex = r => pc[r] = "read"

\* A setter that looked a component up without a lock of its own stores through
\* the pointer while its thread holds the mutex, so clear cannot have freed the
\* component in between, and no other thread writes or reads the tree meanwhile.
StoreProtected ==
  \A t \in AppThreads : pc[t] = "store" => mutex = t /\ t \notin stale

\* The proper ancestors of a component: its chain of parents up to the root.
Ancestors ==
  LET up[c \in CompIds] ==
        IF c = Root THEN {} ELSE {comp[c].parent} \cup up[comp[c].parent]
  IN up

\* The reference meaning of propagation, with no walk in it: outside a cycle a
\* component reports DEGRADED when anything below it is not OK, and otherwise the
\* status it was given.
PropagatedReference ==
  ~locked =>
    \A c \in covered :
      comp[c].prop = IF \E d \in covered : c \in Ancestors[d] /\ comp[d].status # "OK"
                       THEN "DEGRADED"
                       ELSE comp[c].status

\* A REST thread in getRestJSON reads a tree no cycle is writing: no thread is
\* between the start of its cycle and the propagation, or about to store.
ReadsSettledTree ==
  \A r \in RestThreads :
    pc[r] = "read" => ~locked /\ \A t \in AppThreads : pc[t] # "store"

\* getRestJSON and updateDeviceInfo follow m_devStatus whenever m_enabled is set,
\* and completeUpdateCycle whenever it posts: the root has been allocated by then.
\* "Guard for multi-threaded access to health data." (HNDeviceHealth.h:172).
NoNullRoot == crash # "null_root"

\* While a sink is mapped and no thread is about to post to it, it has heard the
\* status of the device as it is now: since it was mapped no change by a finished
\* cycle went unposted, and nothing posted was overtaken. What clear and setEnabled
\* do is the exception, and the only one: neither posts, so a sink that heard FAILED
\* keeps it while the tree dropped and made anew is UNKNOWN, until the next event. A
\* post that raises an exception ("throw") leaves the sink behind for good.
SinkHeardLatest ==
  sink # NoSink /\ (\A t \in AppThreads : pc[t] # "post") =>
    heard = RootProp \/ (renewed /\ RootProp = "UNKNOWN")

\* The component tree built by registerComponent under concurrent calls: component
\* numbers are allocated without gaps, every parent is present and older than its
\* child, so the tree has no cycle and propagateChild ends.
TreeWellFormed ==
  /\ ids = {n \in CompIds : n < Cardinality(ids)}
  /\ root = "none" <=> ids = {}
  /\ \A c \in ids \ {Root} : comp[c].parent \in ids /\ comp[c].parent < c

\* completeUpdateCycle is about to return TRUE when its cycle changed a value.
\* "Complete an update cycle, return whether values changed." (HNDeviceHealth.h:135)
\* with no other cycle in between.
ReturnsChange ==
  \A t \in AppThreads : pc[t] = "return" /\ changed[t] => statusChange

\* The mutex is always released again: no cycle, post or REST read keeps the other
\* threads out for ever.
MutexReleased ==
  \A t \in Threads : mutex = t ~> mutex # t
================================================================================
