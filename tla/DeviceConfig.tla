------------------------------ MODULE DeviceConfig ------------------------------
(***************************************************************************)
(* The configuration of an HNodeDevice: its identity, name and owner, which*)
(* REST requests change under m_configMutex; the notification of a change, *)
(* which the application passes to its HNEPLoop through an HNEPTrigger; and*)
(* the HNodeConfigFile the loop's thread saves it in and starts from.      *)
(*                                                                         *)
(* A file is absent, or cut short (empty or in part), or holds a           *)
(* configuration; the JSON is left out. The application around the library *)
(* does what the notification interface and the disabled code of           *)
(* HNodeDevice::start lay out: initialise and save when there is no file,  *)
(* load, then save whenever it is notified.                                *)
(***************************************************************************)
EXTENDS Naturals, FiniteSets

CONSTANTS
  RestThreads,  \* HTTP server threads
  NoThread,     \* m_configMutex is free
  Names,        \* names a request may give the device
  InitialName,
  Owners,       \* node IDs of owners
  InvalidID,    \* what HNodeID::setFromStr makes of a string that is no node ID
  Absent,       \* the configuration has no "owner_hnodeID"
  MaxRequests,  \* bound: configuration requests
  MaxBoots,     \* bound: starts of the process
  Env           \* "crash": the process may end at any point; "ioerror": creating
                \* or opening a file may fail; "diskfull": writing one may;
                \* "keepcfg": the application keeps one HNodeConfig for all saves

ASSUME ConfigAssumption ==
  /\ NoThread \notin RestThreads
  /\ InvalidID \notin Owners /\ Absent \notin Owners \cup {InvalidID}
  /\ MaxRequests \in Nat /\ MaxBoots \in Nat
  /\ Env \subseteq {"crash", "ioerror", "diskfull", "keepcfg"}

Configs == [id : 1 .. MaxBoots, name : Names \cup {InitialName},
            owner : Owners \cup {InvalidID, Absent}]

Missing == [state |-> "absent"]
Cut == [state |-> "cut"]
Whole(c) == [state |-> "whole", cfg |-> c]
Files == {Missing, Cut} \cup [state : {"whole"}, cfg : Configs]

NoConfig == [id |-> 0]

VARIABLES
  \* the device
  hnodeID, name, owned, ownerID,
  configChange, configMutex,
  \* the application
  triggered,  \* the eventfd of its trigger is not zero
  cfg,        \* its HNodeConfig
  mpc,        \* where the thread of its loop is
  booting,    \* the save under way is the first, of the initial configuration
  image,      \* what saveConfig is saving, a copy
  rpc,        \* REST threads: "idle", "access", "notify", "unlock"
  \* the disk
  target,     \* the configuration file
  temp,       \* the same with "_new"
  \* history and bounds:
  requests, boots,
  announced   \* identity with which the device first served

device == <<hnodeID, name, owned, ownerID>>
access == <<configChange, configMutex, rpc, requests>>
loop == <<cfg, booting, image>>
disk == <<target, temp>>
vars == <<device, access, triggered, loop, mpc, disk, boots, announced>>

Serving == ~booting /\ mpc \notin {"off", "check", "load", "failed"}

Init ==
  /\ hnodeID = 0 /\ name = InitialName /\ owned = FALSE /\ ownerID = InvalidID
  /\ configChange = FALSE /\ configMutex = NoThread /\ triggered = FALSE
  /\ cfg = NoConfig /\ booting = FALSE /\ image = NoConfig
  /\ rpc = [t \in RestThreads |-> "idle"]
  /\ mpc = "off"
  /\ target = Missing /\ temp = Missing
  /\ requests = 0 /\ boots = 0 /\ announced = 0
---------------------------------------------------------------------------
\* Faulty variant: the access mutex is not taken.
StartConfigAccessUnlocked(t) ==
  /\ Serving /\ rpc[t] = "idle" /\ requests < MaxRequests
  /\ configChange' = FALSE
  /\ rpc' = [rpc EXCEPT ![t] = "access"]
  /\ requests' = requests + 1
  /\ UNCHANGED <<device, configMutex, triggered, loop, mpc, disk, boots, announced>>

StartConfigAccess(t) ==
  /\ Serving /\ rpc[t] = "idle" /\ requests < MaxRequests
  /\ configMutex = NoThread
  /\ configMutex' = t
  /\ configChange' = FALSE
  /\ rpc' = [rpc EXCEPT ![t] = "access"]
  /\ requests' = requests + 1
  /\ UNCHANGED <<device, triggered, loop, mpc, disk, boots, announced>>

SetName(n) == name' = n /\ configChange' = TRUE /\ UNCHANGED <<owned, ownerID>>
SetOwner(o) == owned' = TRUE /\ ownerID' = o /\ configChange' = TRUE /\ UNCHANGED name
ClearOwner == owned' = FALSE /\ ownerID' = InvalidID /\ configChange' = TRUE /\ UNCHANGED name

\* putDeviceConfig, putDeviceOwner, deleteDeviceOwner; a body without the member,
\* or that is not JSON, changes nothing, and the access is completed all the same.
Update(t) ==
  /\ rpc[t] = "access"
  /\ \/ \E n \in Names : SetName(n)
     \/ \E o \in Owners \cup {InvalidID} : SetOwner(o)
     \/ ClearOwner
     \/ UNCHANGED <<name, owned, ownerID, configChange>>
  /\ rpc' = [rpc EXCEPT ![t] = "notify"]
  /\ UNCHANGED <<hnodeID, configMutex, requests, triggered, loop, mpc, disk, boots,
                 announced>>

\* Faulty variant: without a change completeConfigAccess returns at once.
NotifyReturnsEarly(t) ==
  /\ rpc[t] = "notify"
  /\ triggered' = (triggered \/ configChange)
  /\ configChange' = FALSE
  /\ rpc' = [rpc EXCEPT ![t] = IF configChange THEN "unlock" ELSE "idle"]
  /\ UNCHANGED <<device, configMutex, requests, loop, mpc, disk, boots, announced>>

\* completeConfigAccess: the sink is notified, and writes its trigger, before the
\* mutex is released.
Notify(t) ==
  /\ rpc[t] = "notify"
  /\ triggered' = (triggered \/ configChange)
  /\ configChange' = FALSE
  /\ rpc' = [rpc EXCEPT ![t] = "unlock"]
  /\ UNCHANGED <<device, configMutex, requests, loop, mpc, disk, boots, announced>>

Unlock(t) ==
  /\ rpc[t] = "unlock"
  /\ configMutex' = NoThread
  /\ rpc' = [rpc EXCEPT ![t] = "idle"]
  /\ UNCHANGED <<device, configChange, requests, triggered, loop, mpc, disk, boots,
                 announced>>
---------------------------------------------------------------------------
\* HNEPLoop::run reports the trigger, which is level triggered; the handler resets
\* it first, then brings its configuration up to date.
FdEvent ==
  /\ mpc = "up" /\ triggered
  /\ triggered' = FALSE
  /\ mpc' = "update"
  /\ UNCHANGED <<device, access, loop, disk, boots, announced>>

\* Faulty variant: the identity is not written.
UpdateWithoutID ==
  /\ mpc = "update" /\ configMutex = NoThread
  /\ cfg' = [id |-> 0, name |-> name, owner |-> IF owned THEN ownerID ELSE Absent]
  /\ image' = cfg'
  /\ mpc' = "target"
  /\ UNCHANGED <<device, access, triggered, booting, disk, boots, announced>>

\* updateConfigSections: an owner is written, but never taken out.
UpdateConfigSections ==
  /\ mpc = "update" /\ configMutex = NoThread
  /\ cfg' = [id |-> hnodeID, name |-> name,
             owner |-> IF owned THEN ownerID
                       ELSE IF "keepcfg" \in Env THEN cfg.owner
                       ELSE Absent]
  /\ image' = cfg'
  /\ mpc' = "target"
  /\ UNCHANGED <<device, access, triggered, booting, disk, boots, announced>>

---------------------------------------------------------------------------
(***************************************************************************)
(* saveConfig, one action per file operation. Its result decides nothing   *)
(* further: the application goes on serving, or to its first load.         *)
(***************************************************************************)
SaveEnds == /\ mpc' = IF booting THEN "load" ELSE "up"
            /\ booting' = FALSE

SaveFails == "ioerror" \in Env /\ SaveEnds /\ UNCHANGED disk

CreateTarget ==
  /\ mpc = "target"
  /\ \/ /\ target' = IF target = Missing THEN Cut ELSE target
        /\ mpc' = "temp"
        /\ UNCHANGED <<temp, booting>>
     \/ SaveFails
  /\ UNCHANGED <<device, access, triggered, cfg, image, boots, announced>>

CreateTemp ==
  /\ mpc = "temp"
  /\ \/ /\ temp' = IF temp = Missing THEN Cut ELSE temp
        /\ mpc' = "open"
        /\ UNCHANGED <<target, booting>>
     \/ SaveFails
  /\ UNCHANGED <<device, access, triggered, cfg, image, boots, announced>>

\* Faulty variant: the configuration file is truncated and written itself.
OpenTempInPlace ==
  /\ mpc = "open"
  /\ temp' = Cut /\ target' = Cut
  /\ mpc' = "write"
  /\ UNCHANGED <<device, access, triggered, loop, boots, announced>>

OpenTemp ==
  /\ mpc = "open"
  /\ \/ /\ temp' = Cut
        /\ mpc' = "write"
        /\ UNCHANGED <<target, booting>>
     \/ SaveFails
  /\ UNCHANGED <<device, access, triggered, cfg, image, boots, announced>>

\* stringify and close: an error of the stream is not looked at.
WriteTemp ==
  /\ mpc = "write"
  /\ \/ temp' = Whole(image)
     \/ "diskfull" \in Env /\ UNCHANGED temp
  /\ mpc' = "move"
  /\ UNCHANGED <<device, access, triggered, loop, target, boots, announced>>

(***************************************************************************)
(* moveFile: Poco::File::moveTo copies onto the destination, truncating it *)
(* first, and then removes the source.                                     *)
(***************************************************************************)
MoveTruncates ==
  /\ mpc = "move"
  /\ target' = Cut
  /\ mpc' = "copy"
  /\ UNCHANGED <<device, access, triggered, loop, temp, boots, announced>>

MoveCopies ==
  /\ mpc = "copy"
  /\ \/ /\ target' = temp
        /\ mpc' = "remove"
        /\ UNCHANGED booting
     \/ "diskfull" \in Env /\ SaveEnds /\ UNCHANGED target
  /\ UNCHANGED <<device, access, triggered, cfg, image, temp, boots, announced>>

MoveRemoves ==
  /\ mpc = "remove"
  /\ temp' = Missing
  /\ SaveEnds
  /\ UNCHANGED <<device, access, triggered, cfg, image, target, boots, announced>>
---------------------------------------------------------------------------
Boot ==
  /\ mpc = "off" /\ boots < MaxBoots
  /\ boots' = boots + 1
  /\ mpc' = "check"
  /\ UNCHANGED <<device, access, triggered, loop, disk, announced>>

\* initConfigSections makes an identity no device has: the number of the boot.
InitConfigSections ==
  [id |-> boots, name |-> InitialName, owner |-> Absent]

\* Faulty variant: a file that cannot be read counts as none.
CheckConfigReadable ==
  /\ mpc = "check"
  /\ IF target.state # "whole"
       THEN /\ cfg' = InitConfigSections /\ image' = cfg'
            /\ booting' = TRUE /\ mpc' = "target"
       ELSE mpc' = "load" /\ UNCHANGED loop
  /\ UNCHANGED <<device, access, triggered, disk, boots, announced>>

CheckConfig ==
  /\ mpc = "check"
  /\ IF target = Missing
       THEN /\ cfg' = InitConfigSections
            /\ image' = cfg'
            /\ booting' = TRUE
            /\ mpc' = "target"
       ELSE /\ mpc' = "load"
            /\ UNCHANGED loop
  /\ UNCHANGED <<device, access, triggered, disk, boots, announced>>

\* loadConfig and readConfigSections, before anything is served: setName and
\* setOwner raise m_configChange here too, and nobody is notified.
LoadConfig ==
  /\ mpc = "load" /\ target.state = "whole"
  /\ cfg' = target.cfg
  /\ hnodeID' = cfg'.id
  /\ name' = cfg'.name
  /\ owned' = (cfg'.owner # Absent)
  /\ ownerID' = IF cfg'.owner = Absent THEN InvalidID ELSE cfg'.owner
  /\ configChange' = TRUE
  /\ mpc' = "up"
  /\ announced' = IF announced = 0 THEN cfg'.id ELSE announced
  /\ UNCHANGED <<configMutex, rpc, requests, triggered, booting, image, disk, boots>>

LoadFails ==
  /\ mpc = "load" /\ target.state # "whole"
  /\ mpc' = "failed"
  /\ UNCHANGED <<device, access, triggered, loop, disk, boots, announced>>

\* The process ends, by a fault or a signal; what it wrote to files stays.
Crash ==
  /\ mpc # "off" /\ "crash" \in Env
  /\ mpc' = "off"
  /\ hnodeID' = 0 /\ name' = InitialName /\ owned' = FALSE /\ ownerID' = InvalidID
  /\ configChange' = FALSE /\ configMutex' = NoThread /\ triggered' = FALSE
  /\ cfg' = NoConfig /\ booting' = FALSE /\ image' = NoConfig
  /\ rpc' = [t \in RestThreads |-> "idle"]
  /\ UNCHANGED <<disk, requests, boots, announced>>
---------------------------------------------------------------------------
RestStep(t) == StartConfigAccess(t) \/ Update(t) \/ Notify(t) \/ Unlock(t)

Save == \/ CreateTarget \/ CreateTemp \/ OpenTemp \/ WriteTemp
        \/ MoveTruncates \/ MoveCopies \/ MoveRemoves

LoopStep == FdEvent \/ UpdateConfigSections \/ Save \/ CheckConfig \/ LoadConfig \/ LoadFails

Next == (\E t \in RestThreads : RestStep(t)) \/ LoopStep \/ Boot \/ Crash

Spec == Init /\ [][Next]_vars

\* The loop's thread runs, and so does a request once it has the mutex. That the
\* loop gets the mutex, which a std::mutex does not promise, needs no more here:
\* requests are bounded.
Fairness ==
  /\ WF_vars(LoopStep)
  /\ \A t \in RestThreads : WF_vars(Update(t) \/ Notify(t) \/ Unlock(t))

FairSpec == Spec /\ Fairness
---------------------------------------------------------------------------
\* Every variable of the device, the application and the disk has its type.
TypeOK ==
  /\ hnodeID \in 0 .. MaxBoots /\ name \in Names \cup {InitialName}
  /\ owned \in BOOLEAN /\ ownerID \in Owners \cup {InvalidID}
  /\ configChange \in BOOLEAN /\ configMutex \in RestThreads \cup {NoThread}
  /\ triggered \in BOOLEAN /\ booting \in BOOLEAN
  /\ cfg \in Configs \cup {NoConfig} /\ image \in Configs \cup {NoConfig}
  /\ mpc \in {"off", "check", "load", "failed", "up", "update", "target", "temp",
              "open", "write", "move", "copy", "remove"}
  /\ rpc \in [RestThreads -> {"idle", "access", "notify", "unlock"}]
  /\ target \in Files /\ temp \in Files
  /\ requests \in 0 .. MaxRequests /\ boots \in 0 .. MaxBoots
  /\ announced \in 0 .. MaxBoots

\* What the device would be after loading a file.
Restores(file) ==
  /\ file.state = "whole"
  /\ file.cfg.id = hnodeID /\ file.cfg.name = name
  /\ owned = (file.cfg.owner # Absent)
  /\ owned => ownerID = file.cfg.owner

\* A save never destroys the last whole configuration before it has written the next:
\* from the first time the device serves, one of the two files is whole, wherever
\* the process ended and however many saves were cut short.
WholeCopyExists ==
  announced # 0 => target.state = "whole" \/ temp.state = "whole"

\* A device that served under one identity never serves under another, across
\* crashes, saves that were cut short and restarts.
IdentityStable == Serving => hnodeID = announced

\* Nobody is changing the configuration and no change waits to be saved: then the
\* file restores the device as it is, its name, its owner or that it has none.
\* "Release ownership of device." (HNodeDevice.cpp:1492) is among the requests.
QuietAgrees ==
  mpc = "up" /\ ~triggered /\ (\A t \in RestThreads : rpc[t] = "idle")
    => Restores(target)

\* A saved configuration can be loaded: a device that has served once does not fail
\* to start. "ERROR: Could not load saved configuration." (test/main.cpp:320) is
\* where the test of saveConfig and loadConfig gives up.
RestartLoads == announced # 0 => mpc # "failed"

\* A change is saved in the end, although notifications coalesce in the trigger and
\* come while the loop is saving, unless the process ends first.
ChangeSaved ==
  Serving /\ ~Restores(target) ~> Restores(target) \/ mpc = "off"
================================================================================
