-------------------------- MODULE DeviceConfig_proofs --------------------------
(***************************************************************************)
(* Theorems about DeviceConfig, for any threads, names, owners and bounds. *)
(***************************************************************************)
EXTENDS DeviceConfig, TLAPS

Saving == {"target", "temp", "open", "write", "move", "copy", "remove"}

(***************************************************************************)
(* Types. A configuration carries an identity from 1 on, so that TypeOK is *)
(* inductive only together with where the process has got one.             *)
(***************************************************************************)
TypeInv ==
  /\ TypeOK
  /\ mpc # "off" => boots # 0
  /\ mpc \in Saving => image \in Configs
  /\ Serving => hnodeID # 0 /\ cfg \in Configs
  /\ booting => mpc \in Saving

\* The configurations the program makes are configurations, and files hold them.
LEMMA ConfigTypes ==
  /\ \A i \in 1 .. MaxBoots, n \in Names \cup {InitialName},
        o \in Owners \cup {InvalidID, Absent} :
       [id |-> i, name |-> n, owner |-> o] \in Configs
  /\ \A c \in Configs : Whole(c) \in Files
  /\ Missing \in Files /\ Cut \in Files
  /\ \A f \in Files : f.state = "whole" => f.cfg \in Configs /\ f = Whole(f.cfg)
<1>1. \A i \in 1 .. MaxBoots, n \in Names \cup {InitialName},
         o \in Owners \cup {InvalidID, Absent} :
        [id |-> i, name |-> n, owner |-> o] \in Configs
  BY DEF Configs
<1>2. \A c \in Configs : Whole(c) \in Files
  BY DEF Whole, Files
<1>3. Missing \in Files /\ Cut \in Files
  BY DEF Files
<1>4. Missing.state # "whole" /\ Cut.state # "whole"
  BY DEF Missing, Cut
<1>5. ASSUME NEW f \in [state : {"whole"}, cfg : Configs]
      PROVE  f.cfg \in Configs /\ f = Whole(f.cfg)
  BY DEF Whole
<1>6. \A f \in Files : f.state = "whole" => f.cfg \in Configs /\ f = Whole(f.cfg)
  BY <1>4, <1>5 DEF Files
<1>7. QED BY <1>1, <1>2, <1>3, <1>6

\* The types hold before the first start.
LEMMA TypeInit == Init => TypeInv
<1> SUFFICES ASSUME Init PROVE TypeInv
  OBVIOUS
<1>1. 0 \in 0 .. MaxBoots /\ 0 \in 0 .. MaxRequests
  BY ConfigAssumption
<1>2. rpc \in [RestThreads -> {"idle", "access", "notify", "unlock"}]
  BY DEF Init
<1>3. QED
  BY <1>1, <1>2, ConfigTypes DEF Init, TypeInv, TypeOK, Serving, Saving

\* Each step keeps the types and what they rest on.
LEMMA TypeStep ==
  ASSUME TypeInv, [Next]_vars
  PROVE  TypeInv'
<1> USE ConfigAssumption
<1> USE DEF TypeInv, TypeOK, Serving, Saving, device, access, loop, disk
<1>1. ASSUME NEW t \in RestThreads, StartConfigAccess(t) PROVE TypeInv'
  <2>1. rpc' \in [RestThreads -> {"idle", "access", "notify", "unlock"}]
        /\ requests' \in 0 .. MaxRequests
    BY <1>1 DEF StartConfigAccess
  <2>2. QED BY <1>1, <2>1 DEF StartConfigAccess
<1>2. ASSUME NEW t \in RestThreads, Update(t) PROVE TypeInv'
  <2>1. /\ rpc' \in [RestThreads -> {"idle", "access", "notify", "unlock"}]
        /\ name' \in Names \cup {InitialName}
        /\ owned' \in BOOLEAN /\ ownerID' \in Owners \cup {InvalidID}
        /\ configChange' \in BOOLEAN
    BY <1>2 DEF Update, SetName, SetOwner, ClearOwner
  <2>2. QED BY <1>2, <2>1 DEF Update
<1>3. ASSUME NEW t \in RestThreads, Notify(t) PROVE TypeInv'
  BY <1>3 DEF Notify
<1>4. ASSUME NEW t \in RestThreads, Unlock(t) PROVE TypeInv'
  BY <1>4 DEF Unlock
<1>5. ASSUME FdEvent PROVE TypeInv'
  BY <1>5 DEF FdEvent
<1>6. ASSUME UpdateConfigSections PROVE TypeInv'
  <2>1. cfg.owner \in Owners \cup {InvalidID, Absent}
    BY <1>6 DEF UpdateConfigSections, Configs
  <2>2. cfg' \in Configs
    BY <1>6, <2>1, ConfigTypes DEF UpdateConfigSections
  <2>3. QED BY <1>6, <2>2 DEF UpdateConfigSections
<1>7. ASSUME CreateTarget PROVE TypeInv'
  BY <1>7, ConfigTypes DEF CreateTarget, SaveFails, SaveEnds
<1>8. ASSUME CreateTemp PROVE TypeInv'
  BY <1>8, ConfigTypes DEF CreateTemp, SaveFails, SaveEnds
<1>9. ASSUME OpenTemp PROVE TypeInv'
  BY <1>9, ConfigTypes DEF OpenTemp, SaveFails, SaveEnds
<1>10. ASSUME WriteTemp PROVE TypeInv'
  BY <1>10, ConfigTypes DEF WriteTemp
<1>11. ASSUME MoveTruncates PROVE TypeInv'
  BY <1>11, ConfigTypes DEF MoveTruncates
<1>12. ASSUME MoveCopies PROVE TypeInv'
  BY <1>12 DEF MoveCopies, SaveEnds
<1>13. ASSUME MoveRemoves PROVE TypeInv'
  BY <1>13, ConfigTypes DEF MoveRemoves, SaveEnds
<1>14. ASSUME Boot PROVE TypeInv'
  BY <1>14 DEF Boot
<1>15. ASSUME CheckConfig PROVE TypeInv'
  <2>1. InitConfigSections \in Configs
    BY <1>15, ConfigTypes DEF CheckConfig, InitConfigSections
  <2>2. QED BY <1>15, <2>1 DEF CheckConfig
<1>16. ASSUME LoadConfig PROVE TypeInv'
  <2>1. cfg' \in Configs /\ cfg'.id \in 1 .. MaxBoots
        /\ cfg'.name \in Names \cup {InitialName}
        /\ cfg'.owner \in Owners \cup {InvalidID, Absent}
    <3>1. cfg' \in Configs
      BY <1>16, ConfigTypes DEF LoadConfig
    <3>2. QED BY <3>1 DEF Configs
  <2>2. QED BY <1>16, <2>1 DEF LoadConfig
<1>17. ASSUME LoadFails PROVE TypeInv'
  BY <1>17 DEF LoadFails
<1>18. ASSUME Crash PROVE TypeInv'
  <2>1. rpc' \in [RestThreads -> {"idle", "access", "notify", "unlock"}]
    BY <1>18 DEF Crash
  <2>2. hnodeID' \in 0 .. MaxBoots
    BY <1>18 DEF Crash
  <2>3. mpc' = "off" /\ booting' = FALSE /\ UNCHANGED <<target, temp, requests, boots, announced>>
    BY <1>18 DEF Crash
  <2>4. /\ name' \in Names \cup {InitialName} /\ owned' \in BOOLEAN
        /\ ownerID' \in Owners \cup {InvalidID} /\ configChange' \in BOOLEAN
        /\ configMutex' \in RestThreads \cup {NoThread} /\ triggered' \in BOOLEAN
        /\ cfg' \in Configs \cup {NoConfig} /\ image' \in Configs \cup {NoConfig}
    BY <1>18 DEF Crash
  <2>5. QED BY <2>1, <2>2, <2>3, <2>4
<1>19. CASE UNCHANGED vars
  BY <1>19 DEF vars
<1>20. QED
  BY <1>1, <1>2, <1>3, <1>4, <1>5, <1>6, <1>7, <1>8, <1>9, <1>10, <1>11, <1>12,
     <1>13, <1>14, <1>15, <1>16, <1>17, <1>18, <1>19
     DEF Next, RestStep, LoopStep, Save

\* The types and what they rest on hold throughout.
LEMMA TypeInvariant == Spec => []TypeInv
<1>1. QED BY TypeInit, TypeStep, PTL DEF Spec

\* Every variable keeps its type in every step, whatever fails and wherever the
\* process ends.
THEOREM TypeCorrect == Spec => []TypeOK
<1>1. TypeInv => TypeOK
  BY DEF TypeInv
<1>2. QED BY <1>1, TypeInvariant, PTL
-----------------------------------------------------------------------------
(***************************************************************************)
(* Files. The target is whole until the copy is begun, and the copy is not *)
(* begun before the other file is whole. The initial save is the exception:*)
(* there is no configuration yet.                                          *)
(***************************************************************************)
WholeInv ==
  /\ booting => announced = 0
  /\ announced # 0 => target # Missing
  /\ mpc \in {"move", "copy", "remove"} => temp.state = "whole"
  /\ mpc = "remove" => target.state = "whole"
  /\ announced # 0 /\ mpc \in {"up", "update", "target", "temp", "open", "write"}
       => target.state = "whole"
  /\ WholeCopyExists

\* Each step keeps one of the two files whole.
LEMMA WholeStep ==
  ASSUME "diskfull" \notin Env, TypeInv, WholeInv, [Next]_vars
  PROVE  WholeInv'
<1> USE DEF WholeInv, WholeCopyExists, TypeInv, Serving, Saving, device, access,
            loop, disk
<1>1. ASSUME NEW t \in RestThreads, RestStep(t) PROVE WholeInv'
  BY <1>1 DEF RestStep, StartConfigAccess, Update, Notify, Unlock
<1>2. ASSUME FdEvent \/ UpdateConfigSections \/ Boot \/ LoadFails PROVE WholeInv'
  BY <1>2 DEF FdEvent, UpdateConfigSections, Boot, LoadFails
<1>3. ASSUME CreateTarget PROVE WholeInv'
  BY <1>3 DEF CreateTarget, SaveFails, SaveEnds, Missing, Cut
<1>4. ASSUME CreateTemp PROVE WholeInv'
  BY <1>4 DEF CreateTemp, SaveFails, SaveEnds, Missing, Cut
<1>5. ASSUME OpenTemp PROVE WholeInv'
  BY <1>5 DEF OpenTemp, SaveFails, SaveEnds, Missing, Cut
<1>6. ASSUME WriteTemp PROVE WholeInv'
  BY <1>6 DEF WriteTemp, Whole
<1>7. ASSUME MoveTruncates PROVE WholeInv'
  BY <1>7 DEF MoveTruncates, Missing, Cut
<1>8. ASSUME MoveCopies PROVE WholeInv'
  BY <1>8 DEF MoveCopies, Missing
<1>9. ASSUME MoveRemoves PROVE WholeInv'
  BY <1>9 DEF MoveRemoves, SaveEnds
<1>10. ASSUME CheckConfig PROVE WholeInv'
  BY <1>10 DEF CheckConfig
<1>11. ASSUME LoadConfig PROVE WholeInv'
  <2>1. /\ target.state = "whole" /\ target' = target
        /\ temp' = temp /\ mpc' = "up" /\ booting' = booting
    BY <1>11 DEF LoadConfig
  <2>2. booting = FALSE
    BY <1>11 DEF LoadConfig, TypeOK
  <2>3. target # Missing
    BY <2>1 DEF Missing
  <2>4. QED BY <2>1, <2>2, <2>3
<1>12. ASSUME Crash PROVE WholeInv'
  BY <1>12 DEF Crash
<1>13. CASE UNCHANGED vars
  BY <1>13 DEF vars
<1>14. QED
  BY <1>1, <1>2, <1>3, <1>4, <1>5, <1>6, <1>7, <1>8, <1>9, <1>10, <1>11, <1>12,
     <1>13 DEF Next, LoopStep, Save

\* However often the process ends, and wherever in a save, one of the two files
\* holds a configuration once the device has served, if the disk is not full.
THEOREM WholeCopyKept ==
  ASSUME "diskfull" \notin Env
  PROVE  Spec => []WholeCopyExists
<1>1. Init => WholeInv
  BY DEF Init, WholeInv, WholeCopyExists
<1>2. TypeInv /\ WholeInv /\ [Next]_vars => WholeInv'
  BY WholeStep
<1>3. WholeInv => WholeCopyExists
  BY DEF WholeInv
<1>4. QED BY <1>1, <1>2, <1>3, TypeInvariant, PTL DEF Spec
-----------------------------------------------------------------------------
(***************************************************************************)
(* Identity. Whatever is written carries the identity of the first whole   *)
(* file; a new one is made only while there is no file at all.             *)
(***************************************************************************)
Carries(file, i) == file.state = "whole" => file.cfg.id = i

IdentityInv ==
  /\ Serving => hnodeID = announced
  /\ booting => announced = 0 /\ (mpc # "remove" => target.state # "whole")
  /\ target = Missing => temp = Missing /\ announced = 0
  /\ announced # 0 => Carries(target, announced) /\ Carries(temp, announced)
  /\ target.state = "whole" => Carries(temp, target.cfg.id)
  /\ mpc \in Saving \ {"target"} => target # Missing
  /\ mpc \in Saving \ {"target", "temp"} => temp # Missing
  /\ mpc \in Saving /\ ~booting => image.id = announced

\* Each step keeps the identity.
LEMMA IdentityStep ==
  ASSUME TypeInv, IdentityInv, [Next]_vars
  PROVE  IdentityInv'
<1> USE DEF IdentityInv, Carries, TypeInv, Serving, Saving, device, access,
            loop, disk
<1>1. ASSUME NEW t \in RestThreads, RestStep(t) PROVE IdentityInv'
  BY <1>1 DEF RestStep, StartConfigAccess, Update, Notify, Unlock
<1>2. ASSUME FdEvent \/ UpdateConfigSections \/ Boot \/ LoadFails
      PROVE  IdentityInv'
  BY <1>2 DEF FdEvent, UpdateConfigSections, Boot, LoadFails
<1>3. ASSUME CreateTarget PROVE IdentityInv'
  <2>1. Cut.state # "whole" /\ Missing.state # "whole" /\ Cut # Missing
    BY DEF Missing, Cut
  <2>2. CASE mpc' = "temp" /\ target = Missing
    BY <1>3, <2>1, <2>2 DEF CreateTarget, SaveFails, SaveEnds
  <2>3. CASE mpc' = "temp" /\ target # Missing
    BY <1>3, <2>3 DEF CreateTarget, SaveFails, SaveEnds
  <2>4. CASE mpc' # "temp"
    BY <1>3, <2>4 DEF CreateTarget, SaveFails, SaveEnds
  <2>5. QED BY <2>2, <2>3, <2>4
<1>4. ASSUME CreateTemp PROVE IdentityInv'
  BY <1>4 DEF CreateTemp, SaveFails, SaveEnds, Missing, Cut
<1>5. ASSUME OpenTemp PROVE IdentityInv'
  BY <1>5 DEF OpenTemp, SaveFails, SaveEnds, Missing, Cut
<1>6. ASSUME WriteTemp PROVE IdentityInv'
  BY <1>6 DEF WriteTemp, Whole, Missing
<1>7. ASSUME MoveTruncates PROVE IdentityInv'
  BY <1>7 DEF MoveTruncates, Missing, Cut
<1>8. ASSUME MoveCopies PROVE IdentityInv'
  BY <1>8 DEF MoveCopies, SaveEnds, Missing, Cut
<1>9. ASSUME MoveRemoves PROVE IdentityInv'
  BY <1>9 DEF MoveRemoves, SaveEnds, Missing
<1>10. ASSUME CheckConfig PROVE IdentityInv'
  BY <1>10 DEF CheckConfig, Missing
<1>11. ASSUME LoadConfig PROVE IdentityInv'
  BY <1>11 DEF LoadConfig, Missing
<1>12. ASSUME Crash PROVE IdentityInv'
  BY <1>12 DEF Crash
<1>13. CASE UNCHANGED vars
  BY <1>13 DEF vars
<1>14. QED
  BY <1>1, <1>2, <1>3, <1>4, <1>5, <1>6, <1>7, <1>8, <1>9, <1>10, <1>11, <1>12,
     <1>13 DEF Next, LoopStep, Save

\* A device never serves under another identity than the first it served under,
\* whatever file operation fails and wherever the process ends.
THEOREM IdentityKept == Spec => []IdentityStable
<1>1. Init => IdentityInv
  BY DEF Init, IdentityInv, Carries, Serving, Saving, Missing
<1>2. TypeInv /\ IdentityInv /\ [Next]_vars => IdentityInv'
  BY IdentityStep
<1>3. IdentityInv => IdentityStable
  BY DEF IdentityInv, IdentityStable
<1>4. QED BY <1>1, <1>2, <1>3, TypeInvariant, PTL DEF Spec
-----------------------------------------------------------------------------
(***************************************************************************)
(* Saving. A change that the file does not have yet is on its way: in a    *)
(* request that will notify, in the trigger, or in the copy being saved.   *)
(***************************************************************************)

\* m_configMutex lets one request at a time be between access and completion,
\* and no request is, until the device serves.
ConfigLock ==
  /\ \A t \in RestThreads : rpc[t] # "idle" => configMutex = t /\ Serving
  /\ \A t \in RestThreads : rpc[t] = "access" => ~configChange

\* The file, or what becomes of it, is behind the device and will be brought up
\* to date.
Noted == triggered \/ \E t \in RestThreads : rpc[t] = "notify" /\ configChange

SavedInv ==
  /\ mpc = "up" => Restores(target) \/ Noted
  /\ mpc \in Saving /\ ~booting => Restores(Whole(image)) \/ Noted
  /\ mpc \in {"move", "copy"} => temp = Whole(image)
  /\ mpc = "remove" => target = Whole(image)

\* Each step of a request or of the loop keeps the lock.
LEMMA LockStep ==
  ASSUME TypeInv, ConfigLock, [Next]_vars
  PROVE  ConfigLock'
<1> USE ConfigAssumption
<1> USE DEF ConfigLock, TypeInv, TypeOK, Serving, Saving, device, access, loop, disk
<1>1. ASSUME NEW t \in RestThreads, RestStep(t) PROVE ConfigLock'
  BY <1>1 DEF RestStep, StartConfigAccess, Update, Notify, Unlock
<1>2. ASSUME FdEvent \/ UpdateConfigSections PROVE ConfigLock'
  BY <1>2 DEF FdEvent, UpdateConfigSections
<1>3. ASSUME Save PROVE ConfigLock'
  BY <1>3 DEF Save, CreateTarget, CreateTemp, OpenTemp, WriteTemp, MoveTruncates,
              MoveCopies, MoveRemoves, SaveFails, SaveEnds
<1>4. ASSUME Boot \/ CheckConfig \/ LoadConfig \/ LoadFails PROVE ConfigLock'
  BY <1>4 DEF Boot, CheckConfig, LoadConfig, LoadFails
<1>5. ASSUME Crash PROVE ConfigLock'
  BY <1>5 DEF Crash
<1>6. CASE UNCHANGED vars
  BY <1>6 DEF vars
<1>7. QED
  BY <1>1, <1>2, <1>3, <1>4, <1>5, <1>6 DEF Next, LoopStep

\* Each step keeps the change in sight, when the disk works and each save starts
\* from an empty configuration.
LEMMA SavedStep ==
  ASSUME Env \cap {"ioerror", "diskfull", "keepcfg"} = {},
         TypeInv, ConfigLock, SavedInv, [Next]_vars
  PROVE  SavedInv'
<1> USE ConfigAssumption
<1> USE DEF SavedInv, ConfigLock, Noted, TypeInv, Serving, Saving, device, access,
            loop, disk
<1>1. ASSUME NEW t \in RestThreads, StartConfigAccess(t) PROVE SavedInv'
  BY <1>1 DEF StartConfigAccess, Restores, TypeOK
<1>2. ASSUME NEW t \in RestThreads, Update(t) PROVE SavedInv'
  <2>1. CASE configChange'
    <3>1. Noted'
      BY <1>2, <2>1 DEF Update, TypeOK
    <3>2. QED BY <1>2, <3>1 DEF Update
  <2>2. CASE ~configChange'
    BY <1>2, <2>2 DEF Update, SetName, SetOwner, ClearOwner, Restores
  <2>3. QED BY <2>1, <2>2
<1>3. ASSUME NEW t \in RestThreads, Notify(t) PROVE SavedInv'
  BY <1>3 DEF Notify, Restores, TypeOK
<1>4. ASSUME NEW t \in RestThreads, Unlock(t) PROVE SavedInv'
  BY <1>4 DEF Unlock, Restores, TypeOK
<1>5. ASSUME FdEvent PROVE SavedInv'
  BY <1>5 DEF FdEvent
<1>6. ASSUME UpdateConfigSections PROVE SavedInv'
  <2>1. Restores(Whole(image))'
    BY <1>6 DEF UpdateConfigSections, Restores, Whole, TypeOK
  <2>2. QED BY <1>6, <2>1 DEF UpdateConfigSections
<1>7. ASSUME Save PROVE SavedInv'
  BY <1>7 DEF Save, CreateTarget, CreateTemp, OpenTemp, WriteTemp, MoveTruncates,
              MoveCopies, MoveRemoves, SaveFails, SaveEnds, Restores
<1>8. ASSUME LoadConfig PROVE SavedInv'
  BY <1>8 DEF LoadConfig, Restores
<1>9. ASSUME Boot \/ CheckConfig \/ LoadFails PROVE SavedInv'
  BY <1>9 DEF Boot, CheckConfig, LoadFails
<1>10. ASSUME Crash PROVE SavedInv'
  BY <1>10 DEF Crash
<1>11. CASE UNCHANGED vars
  BY <1>11 DEF vars, Restores
<1>12. QED
  BY <1>1, <1>2, <1>3, <1>4, <1>5, <1>6, <1>7, <1>8, <1>9, <1>10, <1>11
     DEF Next, RestStep, LoopStep

\* With nothing pending the file restores the device, for any number of requests
\* that come while others are saved, and across crashes and restarts.
THEOREM QuietFileAgrees ==
  ASSUME Env \cap {"ioerror", "diskfull", "keepcfg"} = {}
  PROVE  Spec => []QuietAgrees
<1>1. Init => ConfigLock /\ SavedInv
  BY DEF Init, ConfigLock, SavedInv, Saving
<1>2. TypeInv /\ ConfigLock /\ [Next]_vars => ConfigLock'
  BY LockStep
<1>3. TypeInv /\ ConfigLock /\ SavedInv /\ [Next]_vars => SavedInv'
  BY SavedStep
<1>4. SavedInv => QuietAgrees
  BY DEF SavedInv, Noted, QuietAgrees
<1>5. QED BY <1>1, <1>2, <1>3, <1>4, TypeInvariant, PTL DEF Spec
================================================================================
