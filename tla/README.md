# libhnode2: specifications, model checking and proofs

libhnode2 is a C++ library for the nodes of a home network: a device has an
identity and a configuration, announces itself over Avahi (mDNS), finds other
nodes, serves a REST interface, keeps a tree of health statuses and posts an
event to a "health sink" when its status changes. The management side keeps a
cache of what devices report.

The library starts threads of its own (HTTP server, Avahi poll, event loop) and
is called from the threads of the application. Most of its hard behaviour is in
how these threads share state, in what happens when a call fails half way, and
in what a configuration file looks like after the process died. The modules here
model those parts; TLC checks them on small instances, and TLAPS proves their
invariants for any number of threads, components, events and restarts.

Paths below are relative to `src/src/lib/` unless they begin otherwise.

## 1. Inventory

| Component | Code | State | Operations |
|---|---|---|---|
| Device health | `HNDeviceHealth.cpp` 1-1138, `HNHttpEventClient.cpp` | `m_accessMutex`, `m_enabled`, `m_devStatus` and the map `m_compStatus` of components, `m_lockedForUpdate`, `m_statusChange`, `m_sinkURI`, `m_deviceName` | `setEnabled`, `clear`, `updateDeviceInfo`, `registerComponent`, `startUpdateCycle`, five setters, `completeUpdateCycle`, `getRestJSON`, `clearSinkMapping`, `checkSinkMapping` |
| Health cache | `HNDeviceHealth.cpp` 1140-1546 | a tree per device | `updateDeviceHealth`, the handling of component objects, children and deletions |
| Format strings | `HNFormatStrs.cpp` | store: code to string; cache: code to string or "unknown" | register, fill, render; report a code, list uncached, update definitions |
| Request wait queue | `HNReqWaitQueue.cpp` | list, count and semaphore eventfd; result and condition variable of each record | `init`, `postAndWait`, `wait`, `complete`, `aquireRecord`, `getStatus` |
| Signal sync queue | `HNSigSyncQueue.cpp` | two lists (posted, released), their counts, an eventfd | `init`, `postRecord`, `aquireRecord`, `releaseRecord`, `freeRecord`, the counts |
| Service browser | `HNAvahiBrowser.cpp` | client, threaded poll, browsers, state, an event queue | `start`, `shutdown`, the Avahi callbacks |
| Service announcement | `HNAvahi.cpp` | client, poll, entry group, state | `start`, `shutdown`, `createService`, callbacks |
| Event loop | `HNEPLoop.cpp` | epoll descriptor, quit flag, trigger eventfds | `setup`, `run`, `stop`, add and remove descriptors, `trigger`, `reset` |
| Configuration file | `HNodeConfig.cpp` | the file, its "_new" sibling, the sections in memory | `configExists`, `loadConfig`, `saveConfig` |
| Device configuration | `HNodeDevice.cpp` | `m_configMutex`, `m_configChange`, identity, name, owner | `startConfigAccess`, setters, `completeConfigAccess`, section initialise / update / read, REST requests |
| Device services | `HNodeDevice.cpp` | provided and desired services, mappings | registration, `dispatchEP` for mappings, `checkServiceMappingUpdates` |
| REST server | `HNHttpServer.cpp`, `HNRestHandler.cpp` | paths, operations | registration from OpenAPI, routing, parameters |
| Node ID | `HNodeID.cpp` | 128 bits | conversions |
| Host network | `HNHostNetwork.cpp` | netlink socket | queries |

`test/main.cpp` drives single calls of these components and holds the only
consumer of browser events there is. `HNDeviceRestHandler` is an earlier REST
handler nothing refers to.

**How they interact.** The application calls the health monitor from its own
threads; the HTTP server's threads call `getRestJSON`, the sink mapping and the
configuration requests through `HNodeDevice::dispatchEP`. A finished update
cycle posts an HTTP event with the monitor's mutex held. A configuration request
ends in `hndnConfigChange`, which an application passes to its `HNEPLoop` through
an `HNEPTrigger`, and the loop's thread saves the file. The browser's Avahi
thread hands events to a consumer through `HNSigSyncQueue` and an edge-triggered
epoll set. REST handlers that need a working thread's answer block in
`HNReqWaitQueue`, whose eventfd an `HNEPLoop` watches level-triggered.

**What is hard, and what makes each part correct.**

- *Device health.* The mutex taken in `startUpdateCycle` is released in
  `completeUpdateCycle`, another call: everything between them, an HTTP exchange
  included, runs inside it. Setters take no lock of their own and look only at a
  flag any thread's cycle raises. `m_enabled` is read without the lock. Correct
  means: cycles exclude each other and readers, the mutex is always given back,
  propagation yields the worst of the tree, and the sink and the caller hear of
  every change.
- *Request wait queue.* Two mutexes, several workers, a timeout that leaves the
  record queued, and a completion that may come after it. Correct means: count,
  list and semaphore agree, records are taken in order and once, an answer
  belongs to the request it is taken for, nobody waits for ever.
- *Signal sync queue.* Edge-triggered wake-up, one read clearing the count of
  several posts, records reused by the producer, checks and takes in separate
  calls. Correct means: it is a FIFO channel, and every event is received.
- *Configuration.* Notifications coalesce and arrive during a save; the file is
  replaced by a copy; the process may end anywhere. Correct means: the identity
  never changes, a whole configuration is always on the disk, what is on the disk
  in the end is what the device is, and the device starts again.
- *Health cache.* Deletions, new and restarted devices, and a "changed" result
  collected over a recursion. Correct means: after a report the copy holds the
  reported tree, and the result says whether it did before.
- *Format strings.* Codes are hashes, and the cache learns the strings after the
  instances that use them. Correct means: a text is the one the device would have
  printed, and every code in use is asked for and eventually known.
- *Avahi components.* Callbacks run on the poll's thread, or inside
  `avahi_client_new` on the caller's; `shutdown` joins that thread. Correct means:
  each handle is freed once and after its last use, the service is offered while
  the daemon runs, and shutdown returns.
- *Services, REST routing.* Mappings are kept twice, in the records of the
  services and in the health monitor, and changed item by item without a lock; an
  application adds routes of its own. Correct means: health events go where the
  mappings say, and the device's operations are reached under their paths.

The full list of places where something could go wrong that a test would hardly
reach, each with its line and the properties that would catch it, is in
`PROJECT.json` under `hazards`.

## 2. Modules

| Module | Models | Checked by |
|---|---|---|
| `DeviceHealth` | the health monitor, its callers and its sink | `health_*` |
| `MCDeviceHealth` | `DeviceHealth` for TLC, with the interchange symmetry of threads | |
| `DeviceHealth_proofs` | theorems about `DeviceHealth`: the mutex, the propagation, the sink | TLAPS |
| `DeviceHealthTree_proofs` | theorems about `DeviceHealth`: the tree, its propagated statuses, the returned change | TLAPS |
| `ReqWaitQueue` | the queue, requesters, workers, and the wake-up by `HNEPLoop` | `reqwait_*` |
| `ReqWaitQueue_proofs` | theorems about `ReqWaitQueue` | TLAPS |
| `EventChannel` | abstract: a FIFO channel that may lose its queue in a restart | |
| `SigSyncQueue` | the queue between a browser and the consumer; implements `EventChannel` | `sigsync_browser` |
| `SigSyncQueue_proofs` | theorems about `SigSyncQueue`, and that it implements `EventChannel` step by step | TLAPS |
| `DeviceConfig` | device configuration, change notification, saving loop, file, crashes | `config_*` |
| `DeviceConfig_proofs` | theorems about `DeviceConfig` | TLAPS |
| `FormatStrings` | format strings, a device's store and a client's cache, as operators | `health_cache` |
| `HealthCache` | a management client's copies of device trees, and the devices' strings | `health_cache`, `cache_stale` |
| `MCHealthCache` | `HealthCache` for TLC | |
| `HealthCache_proofs` | theorems about `HealthCache` and the operators of `FormatStrings` | TLAPS |
| `AvahiLifecycle` | `HNAvahi` and `HNAvahiBrowser`: handles, threads, failures, restart | `avahi_lifecycle` |
| `AvahiLifecycle_proofs` | theorems about `AvahiLifecycle` | TLAPS |
| `RestRouting` | registration of routes and the search for the one a request is for, as operators | `node_rest` |
| `DeviceServices` | services, endpoints, start, the mapping of services over REST | `node_rest` |
| `MCDeviceServices` | `DeviceServices` for TLC | |
| `DeviceServices_proofs` | theorems about `DeviceServices` and the operators of `RestRouting` | TLAPS |

Each definition's lines are in `PROJECT.json` under `map`. Definitions whose
comment begins "Faulty variant" are not part of any specification: each is an
action with a plausible bug in it (a dropped guard, a missing reset), and
`PROJECT.json` names under `mutants` the property TLC finds violated when it
takes the place of the original.

### DeviceHealth

One action is the code between two points at which another thread can see or
change something: the test of `m_enabled` in `startUpdateCycle` and the lock
after it are two actions (`StartCheck`, `StartLock`), a setter is a lookup
(`UpdateCheck`) and a store (`UpdateStore`) because it takes no lock,
`completeUpdateCycle` is the propagation (`CompletePropagate`), the event
(`Post`, or `PostThrow`), the unlock and the return. `setEnabled` is
`EnableFlag`, then `EnableRoot` under the lock. `m_accessMutex` is the variable
`mutex` with its holder.

A component is a record of parent, own status, propagated status, note, message
and error. Strings and their parameters are a code; 0 is an empty instance, and
a code the store does not know empties it (`Filled`, from
`HNFormatStringStore::fillInstance`). `Propagation` is the recursive
`propagateChild` by the equation its result obeys. `statusChange` starts with either
value: the constructor does not set it.

`root` may be "split": when `setEnabled` runs a second time before the first has
allocated the root (with `clear` in between), the second finds the root's ID in the
map, which keeps the first component, while `m_devStatus` is the second.
`allocUniqueID` never gives the root's number to another component. Only concurrent
toggling, the "toggle" liberty, reaches it.

History variables (never read by a guard): `stale`, `covered`, `heard`, `renewed`,
`changed`, see the module; `crash` is the pointer fault that ends the process. `heard`
is what the mapped sink was told last, and `Clear` leaves it: `clear` does not touch
`m_sinkURI`, and neither it nor `setEnabled` posts. `renewed` says that the tree was
dropped since. `SinkHeardLatest` therefore has an exception, which is the code's: after
monitoring was disabled and enabled the sink keeps the status of the old tree while the
new root is UNKNOWN, until the next event.

*Liberties.* How an application uses the library is a constant, `Env`. Without
liberties it enables monitoring before its threads use it and disables it when
they have stopped, sets statuses inside its own cycles only, keeps a sink mapped,
and its posts raise no exception (a sink that answers with an error is part of
every instance; so is an empty sink).

| Liberty | What it allows | What no longer holds |
|---|---|---|
| `toggle` | `setEnabled` / `clear` while other threads are inside, which the code does not guard against | everything but the types and `TreeWellFormed`. A cycle begun while disabled that ends enabled unlocks another thread's mutex: `CycleOwnsMutex` fails. And `clear` between the unlocked test of `m_enabled` (621) and the lock starts a cycle while disabled, and `completeUpdateCycle` returns at its own test (643) with the mutex locked: `MutexHasUser` fails |
| `stray` | a setter outside a cycle of the thread's own | `StoreProtected`, `ReadsSettledTree`, `PropagatedReference` |
| `throw` | `submitPostEvent` raises a Poco exception | `MutexHasUser`, `MutexReleased`, and `SinkHeardLatest`: the sink is never told what the post was to say |
| `unmap` | a mapping replaced by an empty one between the test and the post | `MutexHasUser` and `MutexReleased`, since the empty URI raises |

`health_concurrency` uses no liberty. So the windows of `m_enabled` (479, 621, 643) are
closed in it, and the setters of a cycle are those of its own thread: its properties are
about applications that toggle while every thread is out, and the table says what
happens with others. `health_tree` has "unmap", which its properties outlive.

`ReturnsChange` holds for one application thread. With two it fails without any
liberty: `completeUpdateCycle` reads its result after the unlock (678), when a
cycle of another thread may have cleared it, although the header says "Complete
an update cycle, return whether values changed.". It also needs codes that are
registered: a code the store does not know empties a message without counting it
as a change.

### ReqWaitQueue

Each section under `queueMutex` or under the record's mutex is one action.
`Wake` is the level-triggered `epoll_wait`: it may wake more workers than there
are records, and `AquireNothing` is the worker who comes too late. `init` may be
called again (`reinit`), which forgets the records of threads that wait.
`GetStatus` separates the return from `wait` and the unlocked read of the result:
`complete` sets the result whatever it is, so that a requester whose `wait` gave
TIMEOUT may read SUCCESS from `getStatus`, and its record is still in the hands
of a worker.

### SigSyncQueue and EventChannel

The producer is the one thread of the Avahi poll: it tests `getReleasedCnt`
(`Discover`), takes a released record or allocates one, fills it and posts it.
The consumer is the loop of `test/main.cpp` 191-232: `edge` is the ready list of
the edge-triggered epoll set, a write to the eventfd puts it there, and
`epoll_wait` takes it off. `Restart` is the shutdown and start after a timeout.
`EventChannel` has a sequence of event numbers, sends and receives in order and
may lose the queue; `SigSyncQueue` implements it under the mapping "what the
posted records describe", with fairness, so that it delivers what is not lost.

### DeviceConfig

REST threads run `StartConfigAccess`, `Update`, `Notify`, `Unlock`
(`completeConfigAccess` notifies before it unlocks). The loop's thread takes the
trigger, collects the sections under the mutex and saves them, one action per
file operation, since the process may end (`Crash`) between any two: create the
file if it is not there, create and open "_new", write it, and `moveFile`, which
through `Poco::File::moveTo` truncates the target, copies and removes the source.
A file is absent, cut short, or whole with a configuration. `Boot` and what
follows is a start: with no file a fresh identity is made (numbered by the boot)
and saved, then the file is loaded and read.

The application around the library is external: it does what the notification
interface and the disabled code in `HNodeDevice::start` lay out, but for one thing. When
`loadConfig` fails the modelled application stops; that code (`HNodeDevice.cpp` 696-702)
does not look at the result and goes on, with the identity the constructor made. An
application that follows it to the letter loses `IdentityStable`.

### FormatStrings and HealthCache

`FormatStrings` describes data. A text is a sequence of pieces, "%" is a printf
conversion, `Hole(i)` the text "{i-1}" that a template has in its place. The holes are
a constant operator, so that a format string may have any number of conversions; what
is assumed of it is that the holes of a string differ. A code is given by the
constant `Hash`. `CreateResolvedString` fills the holes as the code does, the
first "{i}" it finds, in what the earlier parameters left, and raises
`std::out_of_range` when there is none; `Printf` is what it is for. The cache is
a record of the templates by code, each with the device that reported the code
first, and the set of codes to fetch (`m_needSrcUpdate`).

`HealthCache` is the management side. A tree is a function on paths, a path being
the IDs from the root. `UpdateDeviceHealth` is the whole of `updateDeviceHealth`:
`Kept`, `Merged`, `ChildrenChanged` and `NewCodes` say what the recursion over
components and children leaves of the old copy, of the report, of the "changed"
result and of the codes. `ChildrenChanged` keeps the code's way of assigning
`changed` anew for each child: the last child decides, unless children were
deleted or an old one is missing. `luck` is the timestamp `m_lastUpdateTS` of a
new component, which no constructor sets. Devices are what `DeviceHealth` models,
reduced to any tree their registered strings allow, reported at any time; they
restart and register their strings again. The client's requests for strings are
external; answers arrive late or not at all.

What the code does not keep, and the properties therefore do not claim: `changed`
of a new device and of all children but the last is overwritten (`ChangeNoticed`
speaks of trees with one child each); children of a component now reported
without any stay (`cache_stale`); a root with another ID clears the trees of all
devices (liberty "reroot": `CopyFollowsReports` fails; roots of this library all
have one ID); `deleteChildByID` frees a child but not what is below it, a leak;
the IDs of `generateAllDeviceHealthReportAsJSON` are unique per device only; a
parameter whose text holds "{1}" is taken for a hole; strings with colliding
codes are taken for each other.

### AvahiLifecycle

One module for both classes, `kind` saying which: they differ in the entry group
or service browser and in what their callbacks look at. Members are handles,
numbered by the call of `start` that made them, and `live` is what the Avahi
library has allocated, so that a freed handle can be told from one that is not.
The application's thread is in `start` (`StartPoll`, `StartClient`,
`StartThread`: other threads run in between), in `shutdown` (`ShutdownQuit`,
`ShutdownJoin`) or the destructor; each start's loop has a thread, whose callbacks
are the actions `Loop...`. `avahi_client_new` calls back before it returns, which
is part of `StartClient`. When the service cannot be added at that moment,
`createService` calls `shutdown`: in a first start that frees the client under the
library (`StartClientFails`), in a restart it tells the new poll object to quit, joins
the thread that ended long before, and `start` goes on (`RestartClientFails`). Without a
poll object `start` asks the client for the error (`StartNoPoll`): in a first start there
is none, in a restart it is the one of the start before, which `cleanup` then frees, while
the member that named its poll object is overwritten already and its group forgotten. An application starts again only after a shutdown.

| Liberty | What it allows | Consequence |
|---|---|---|
| `fail` | no poll object or service browser can be made; the library reports failures and collisions to the loop | without a client the process aborts in `start`, as below; the loop's thread shuts down and joins itself, for ever; `ShutdownReturns` exempts it |
| `nodaemon` | no client can be made | `setFailure` asks `avahi_client_errno` of NULL, an assertion of the library: the process aborts in `start` |
| `earlyfail` | the service cannot be added within `avahi_client_new` | in a first start `shutdown` finds no thread and frees the client that the library goes on with; in a restart the object ends up shut down, with a thread that is about to end |
| `drop` | the object is destroyed without a shutdown | `FaultsOnlyInStart` fails: the loop polls freed objects |

The passing run has the first three. `HNodeDevice` never calls `shutdown` on its
`HNAvahi` ("drop"), which matters only where a device is destroyed before its
process ends. A restart overwrites the members of the start before, so that its
client, poll and helper are lost (`NothingLeftBehind` speaks of the last start),
keeps its entry group, which goes on offering the service through the client that
was not freed, and never becomes ESTABLISHED again; a shutdown withdraws nothing.

### RestRouting and DeviceServices

A route is a method and a sequence of elements, literals or parameters;
`RegisterEndpointsFromOpenAPI` turns a document into routes up to the first
operation without an ID, and `CreateRequestHandler` takes the first that matches.
`DeviceApi` is the table of the device's own document, in the order the parser
keeps it. `DeviceServices` starts with these routes (`Init`, the constructor);
the application registers services and endpoints, toggles monitoring, and starts.
A `putServiceMappings` is applied item by item (`MapItem`, `ItemThrows`), then the
record of the health sink is read (`CheckServiceMappingUpdates`) and its URI
stored in the monitor (`CheckSinkMapping`). Requests that only read are the
operator `Answer`, evaluated in every state; `Ask` is what a client is told that
sends a request, routing and dispatch included. An endpoint has an ID, an owner and a
document; its ID may be in use already, or be the device's: the dispatch table keeps
the first, and its routes are added all the same. Bodies hold nulls anywhere. The
history variable `outcome` says what became of the last request that changed the
record of the health sink: "pending", "checked", or "refused", when an exception
answered it 500 behind that change and the check of the sink was skipped.
`SinkFollowsMapping` names this one case: after it, record and sink differ until the
next request that is accepted. Requests that change the
configuration are in `DeviceConfig`.

| Liberty | What it allows | What no longer holds |
|---|---|---|
| `overlap` | two requests that map services at a time | `SinkFollowsMapping`: the later store may be of the earlier mapping |
| `remap` | the application changes its services while the device serves | the same: a service added anew is unmapped, the sink is not |

Not in the model: `isServiceMapped`, which nothing calls, answers false for every
service it finds and dereferences `end()` for the others; after a GET with status
200 the response is sent a second time (1378), and a failure found while a body is
written comes after the status 200 went out.

## 3. Runs

| Run | Instance | Shows |
|---|---|---|
| `health_concurrency` | 2 application threads, 1 REST thread, root and one component, no liberties, with fairness | the mutex protects the tree from start to complete, has a user, and is released; the root is there when followed |
| `health_tree` | 1 application thread, 1 REST thread, 3 components (so chains of 3), statuses OK and FAILED, a code, an error code; monitoring disabled and enabled between cycles, the sink mapped, emptied (just before its post, too) and mapped again | propagation agrees with its reference meaning, the sink and the caller hear of changes |
| `health_post_leak` | "throw" | finding: a post that raises leaves the mutex locked |
| `reqwait_timeouts` | 2 requesters, 2 workers, 3 posts, timeouts, `init` again | answers belong to their requests, waits end, records are taken |
| `sigsync_browser` | 5 events, at most 5 records, 1 restart | the queue is the channel; no event is left behind |
| `config_save` | 2 REST threads, 3 requests, 3 boots, crashes | identity stable, a whole file exists, changes are saved |
| `config_crash` | 1 request, 2 boots, crashes | finding: after a crash within the copy the device does not start |
| `config_release` | an `HNodeConfig` kept between saves | finding: a released owner comes back |
| `health_cache` | 2 devices, one of which shows 3 shapes of tree (a chain of 3; two children and a grandchild; the root alone), 2 strings, one with 2 parameters, 1 restart; with fairness | copies, texts and codes follow the reports; what "changed" claims; strings arrive |
| `cache_stale` | the same | finding: children of a component reported without any stay in the copy |
| `avahi_lifecycle` | both kinds, 3 starts, 2 host-name changes, "fail", "nodaemon", "earlyfail"; with fairness | nothing freed is used after start, the service is offered, nothing is left, shutdowns return |
| `node_rest` | 2 server threads, 4 application endpoints of which two are added (one with parameters everywhere, one that shares paths with the device, another under the same ID, one under the device's own), 2 services to offer and 2 to desire, 6 bodies; no liberties | the device's operations are reached; the health sink is the mapped one |

**Bounds.** Named in the modules: `IdLimit` (2000 in the code; 2 or 3 here, so
that the allocation also fails), `MaxUpdates` per cycle, `MaxPosts`, `MaxEvents`,
`MaxRestarts`, `MaxRequests`, `MaxBoots`, `MaxRoutes`. Health needs no other bound: cycles go
on for ever. Three components are the first tree with a grandchild, where a
status must pass through a component that is OK itself. Two application threads
and a reader are the least with every pair of roles; the proofs take over for
more. Three posts let a record be posted again while the other is queued, and two
workers compete for it. Five events with reuse and a restart let the released
list be taken from, emptied and filled again. Three Avahi starts are a start, a restart and one after
it that meets what both left; two host-name changes let one come before and one
after the service is established. The cache's trees are the least with a
grandchild to delete and with a last child and another, and one restart empties a
device's store before, while and after its strings are fetched. The bodies of
`node_rest` map, map twice, skip and raise, before a mapping and behind one, and its
routes leave room for two endpoints behind the device's sixteen, under one ID or two. Three boots are a first start, a
crash and a start after it that saves again.

`CHECK_DEADLOCK FALSE` is set where a bound is used up or where a leaked mutex
stops the system. `health_concurrency` checks deadlock.
The runs of safety properties with two threads alike use their interchange as
symmetry (`MCDeviceHealth`); `health_concurrency` does not, since it checks liveness.

**Fairness.** Threads inside a library call go on (weak fairness of the actions
that wait for nothing), and an application ends the cycles it begins, as the
interface demands. Nothing is assumed about who gets a free `std::mutex`, because
nothing is promised. Queue workers and the consumer run; the 35 seconds of
`wait_for` pass. In `DeviceConfig` weak fairness of the loop includes its taking
of the mutex; requests are bounded, so no fairness of the mutex hides in it. In `HealthCache` an
application registers the strings it shows after each start of its device, the
client keeps asking for what it misses, and of the answers not all are lost
(strong fairness of `DefineStrings`, since `LoseStrings` may take its place); no
report, restart or failure is owed. In `AvahiLifecycle` a loop that was told to
quit comes to poll again, and the caller of a join goes on when the thread ended.

## 4. Findings

The four violation runs show places where the program does something else than
its comments, interfaces or tests say; `PROJECT.json` quotes both sides. In
short: an event post that raises leaves the health mutex locked; a crash while
the configuration is replaced leaves a file the device refuses to start with,
though the whole "_new" file lies beside it; a released owner is never removed
from a kept configuration; the health cache keeps components that are reported
no more. Section 2 names, at the liberties and at the modules, what else was
found to fail under conditions the passing runs exclude.

## 5. Proofs

Every invariant of the passing runs, the action property `ChangeNoticed` and the
safety part of the refinement are theorems, for any values of the constants that
satisfy the named assumptions of the modules. Where a theorem has more conditions
its statement has them, and the tables here list them: they say how an application
uses the library, or which failures it meets, and the tables of liberties above say
what TLC finds without them. The theorem of an invariant has the form
`Spec => []Inv`. Hardly any of these invariants is inductive; the text under each table says
what has to be added, and why. Each proof that a step keeps an invariant has a
step for each action.

### DeviceHealth

| Theorem | Property | For applications |
|---|---|---|
| `TypeCorrect` | `TypeOK` | any |
| `CyclesExclude` | `CycleOwnsMutex` | without "toggle" |
| `RootNeverNull` | `NoNullRoot` | without "toggle" |
| `StoresProtected` | `StoreProtected` | without "toggle", "stray" |
| `ReadsSettled` | `ReadsSettledTree` | without "toggle", "stray" |
| `MutexNeverLeaked` | `MutexHasUser` | without "toggle", "throw", "unmap" |
| `SinkUpToDate` | `SinkHeardLatest` | without "toggle", "throw" |
| `TreeStaysWellFormed` | `TreeWellFormed` | any |
| `PropagationMeans` | `PropagatedReference` | without "toggle", "stray" |
| `ChangeReturned` | `ReturnsChange` | with one application thread and no unregistered code |

`CycleOwnsMutex` says nothing of a thread that is about to take the lock or inside
`setEnabled`, so `LockInv` adds where a thread may be with and without the mutex
(`Positions`), that `m_enabled` changes only while everyone is out
(`EnabledStable`), that an enabled monitor has its root or a thread that is about
to make it (`RootThere`), and that `m_lockedForUpdate` belongs to an open cycle
(`LockedOwned`). `StoreInv` adds that a thread between lookup and store is in its
own cycle: only then does `LockedOwned` apply to the thread that stores. `UserInv`
adds to `MutexHasUser` that a thread about to post has a sink, which is why "unmap"
matters. `PropagationInv` adds that the propagated components are registered. `HeardInv` relates
flag, sink, last event and `renewed` at each position of a cycle; "throw" would leave a
cycle at a position where sink and root differ.

The last three are in `DeviceHealthTree_proofs`. `TreeInv` says that the numbers in
use have no gaps, and that parents are registered and older: they are looked up
before the child is given a number. The lemma `PropagationHolds` of `DeviceHealth_proofs`
relates the propagated status of a component to that of its children only; that it gives `PropagatedReference`, which
speaks of everything below, is an induction on how far down the first status that
is not OK lies. `ChangeInv` says that `m_statusChange` is set while the thread's cycle, or the
one it ended last, has changed a value: with one thread nothing clears the flag before
the next cycle.

### ReqWaitQueue

| Theorem | Property | Under |
|---|---|---|
| `TypeCorrect` | `TypeOK` | any liberty |
| `WakeupNotLost` | `WakeupPending` | any liberty |
| `AnswersOwn` | `AnswerIsOwn` | no "reuse" |

`CountInv` ties the list, its count and the eventfd together: without it a worker
could take from an empty list. `WakeupPending`, which no run lists, is its meaning
for the loop: the eventfd is readable while a record waits, and once watched it counts
the records, so that there is a wake-up for each. `AnswerInv` says that a record in
the queue or with a worker is there for the last post of its requester, through
timeouts and a new `init`; "reuse", posting a record again that the queue or a
worker still has, breaks just that.

### SigSyncQueue

| Theorem | Property |
|---|---|
| `TypeCorrect` | `TypeOK` |
| `NullNeverTaken` | `NoNullRecord` |
| `NoneStranded` | `NoEventStranded` |
| `RecordsInOnePlace` | `RecordInOnePlace` |
| `ImplementsChannelSafety` | `Channel!Init /\ [][Channel!Next]_(Channel!vars)`, the safety part of `ImplementsChannel` |

None has a condition. `DecisionInv` says that a decision taken on a count still
holds when the record is taken, in another call, because each list has one taker.
`EdgeInv` covers the queue before it is watched, too. `RecordInOnePlace` speaks of
one long sequence of places; `PlaceInv` keeps its parts apart, since a step moves a
record between two of them. For the refinement `ContentInv` adds what the record
being filled describes: then `PostRecord` is `Send`, `AquireRecord` is `Receive`,
`Restart` loses the queue, and every other step stutters.

### DeviceConfig

| Theorem | Property | Under |
|---|---|---|
| `TypeCorrect` | `TypeOK` | any liberty |
| `WholeCopyKept` | `WholeCopyExists` | no "diskfull" |
| `IdentityKept` | `IdentityStable` | any liberty |
| `QuietFileAgrees` | `QuietAgrees` | no "ioerror", "diskfull", "keepcfg" |

`TypeInv` adds at which positions the process has an identity. `WholeInv` follows
the two files through a save: the target is whole until the copy over it begins,
and from before that until it ends the temporary one is. `IdentityInv` says that
whatever is written, and whatever is in memory, carries the identity of the first whole file;
it needs no condition, since a file cut short is refused and never read as another
device's. `ConfigLock` and `SavedInv` say that a file that is behind the device
will be brought up to date: a notification is pending, or the image being saved
restores the device. With "ioerror" a save that fails drops its notification, and with
"keepcfg" an image keeps the owner that was removed.

### HealthCache and FormatStrings

| Theorem | Property | Conditions |
|---|---|---|
| `TypeCorrect` | `TypeOK` | distinct codes |
| `CodesAreTracked` | `CodesTracked` | no empty format string |
| `CopiesFollow` | `CopyFollowsReports` | distinct codes, no "reroot" |
| `ChangesNoticed` | `ChangeNoticed` | no "reroot" |
| `ResolvedAsPrintf` | | no piece of string or parameters looks like a hole; any number of them |
| `TextsAsPrinted` | `RenderedAsFormatted` | distinct codes, no "reroot", no text looks like a hole |

"Distinct codes" is `NoCollision`: no two format strings have one code. The code
computes a hash and checks nothing, so this is what it relies on. An empty string's
template is empty, which is how the cache records that it does not know one: once
fetched, it is not asked for any more and still counts as unknown.

`BaseInv` joins what holds of the devices' stores, of answers on their way, of the
records and of the copies. `FollowInv` lets a copy differ from the report only
below a component that was reported without children, the deviation `cache_stale`
shows. The proofs of these two rest on lemmas about paths and trees (what is above and below a
path, which node is deepest) and about `Kept`, `Merged` and
`ChildrenChanged`. `ValueInv`, for `ChangeNoticed`, says that a copied component is
one its device can show, so that the comparison of its fields decides whether it changed;
that the result of the recursion is that of the whole tree is an induction from its deepest
component up, for trees where each has at most one child.

`ResolvedAsPrintf` is about `CreateResolvedString` itself. After i parameters the
text is the format string in which the first i conversions are printed and the
others are holes (`Stage`): the first "{i}" is then the hole meant, provided nothing
printed looks like one. `TextsAsPrinted` puts this together with `TemplateInv`, that a template is
that of the string whose code it is known under, wherever it came from, and with
`CopiesFollow`.

### AvahiLifecycle

| Theorem | Property | Under |
|---|---|---|
| `TypeCorrect` | `TypeOK` | any liberty |
| `NothingUsedAfterFree` | `FaultsOnlyInStart` | no "drop" |
| `ServiceOfferedOnce` | `ServiceOffered` | any liberty |
| `LastStartFreed` | `NothingLeftBehind` | any liberty |

`AllocInv` says that what the members name is allocated, which makes cleanup safe
wherever it runs; `LoopInv` that a loop that runs is the last start's and works on
the objects the members name, unless they were destroyed under it. `OfferInv` adds that a service is
offered through no other group than the one the object knows, a group kept over a
restart included. It speaks, like the property, of the time before a failure is reported:
after one a group may be left that nobody knows. `LeftInv` says of every handle allocated since the last start that
cleanup finds it.

### DeviceServices and RestRouting

| Theorem | Property | Conditions |
|---|---|---|
| `OwnInterfaceReached` | `DeviceOperationsReached` | documents are finite sequences of operations |
| `TypeCorrect` | `TypeOK` | the same, and bodies are finite sequences whose items name no empty URI |
| `SinkFollowed` | `SinkFollowsMapping` | documents and bodies are finite sequences; no "overlap", no "remap" |

`RouteInv` says that the list of routes begins with the device's sixteen, whatever is
registered behind them. That the first match of each of its operations is its own is
then a matter of the table, with its parameters for any values a client sends. `SinkInv` says
where the mapped URI and the stored one may differ: from an item of the one request
at work until its last step (`CheckInv`), and from a request that was refused behind
such an item until the next one is accepted: `outcome` is "checked" only while they
agree, and "pending" only while a request is at work. Nothing is assumed of the bodies.

### How inductions are done

The theorems of the library that state induction take an operator as a parameter,
which the provers here cannot instantiate. Instead, a set of numbers that is not
empty has a least one (`LeastNumber`, from `WFMin` of `WellFoundedInduction`), and a
property of numbers, of paths by their length or of components by their number is
proved from its least counterexample. In the same way a recursive function in a
definition (the ancestors of `PropagatedReference`, the result of `ChildrenChanged`,
the stages of `CreateResolvedString`, `FlattenSeq`) is proved to exist, so that its equation may be used.

### Only model-checked

Liveness under fairness and `ENABLED` are beyond the prover: `MutexReleased`,
`WaitEnds`, `QueueDrains`, `ChangeSaved`, `StringsArrive`, `ShutdownReturns`, and the
fairness of `ImplementsChannel`. So are the absence of deadlock, where it is checked,
and the properties that are violated (section 4), which have no theorem to state.
What a theorem's conditions exclude is seen by TLC only, and named at the liberties.

## 6. Not modelled

- Health: `registerComponent`, `updateDeviceInfo` or `getRestJSON` called inside
  the thread's own cycle (a certain self-deadlock, no interleaving needed); the
  data race on the buffer of `m_sinkURI`; timestamps, wording and layout of JSON.
- Health cache: a body that is valid JSON but lacks members midway through the
  tree, which no device of this library sends.
- Request queue: lifetime of a record whose requester has timed out.
- Configuration: readers that do not take the mutex; power loss (nothing is
  `fsync`ed); a second saving thread; the containers of `HNodeConfig` beyond the
  device section. "ioerror" and "diskfull" are liberties no run uses; with
  "diskfull", `WholeCopyExists` fails.
- Signal queue: failure of `eventfd` in `init`.
- Event loop: `setup`, `stop` and a second `run` (`stop` before `run` makes `run`
  fail); its users here neither stop nor restart it.
- REST server: sockets, responses and threads are Poco's. Endpoints added while
  the server runs race on the list of routes.
- Host network: netlink I/O and its parsing, sequential, with nothing to
  interleave; node ID conversions, sequential, with unit tests.
- `HNDeviceRestHandler` and the empty headers: nothing refers to them.

## 7. Plan

All modules of the first plan exist, and no invariant of a passing run is left
unproved. What may still be added:

| Module | To prove |
|---|---|
| `DeviceServices` | `SinkFollowsMapping` with "remap" as long as the health sink's service is never removed |
| `RestRouting` | for any two documents, that a request reaches the first operation registered for its path: `OwnInterfaceReached` says so of the device's own |
| `HealthCache` | `CodesTracked` with empty format strings, for the codes of the others |
| `DeviceConfig` | the part of `QuietAgrees` that outlives a failed save: name and identity with "keepcfg" |
| `DeviceHealth` | `ReturnsChange` for the last of several threads to complete |
