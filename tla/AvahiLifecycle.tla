---------------------------- MODULE AvahiLifecycle ----------------------------
(***************************************************************************)
(* The life of an HNAvahi (announces the device's service) and of an       *)
(* HNAvahiBrowser (discovers devices): the Avahi client, its poll object   *)
(* and the thread that runs the poll loop, between start, shutdown and     *)
(* destructor of the application's thread and the callbacks that the       *)
(* library makes on the loop's thread, or on the caller's in               *)
(* avahi_client_new.                                                       *)
(*                                                                         *)
(* A handle is the number of the start that allocated it, 0 is NULL.  The  *)
(* group of an HNAvahi and the serviceBrowser of an HNAvahiBrowser are     *)
(* named by their client.  The library and its daemon are modelled from    *)
(* how the code uses them.                                                 *)
(***************************************************************************)
EXTENDS Naturals, FiniteSets

CONSTANTS
  Kinds,      \* "announce": HNAvahi, "browse": HNAvahiBrowser
  MaxStarts,  \* bound: calls of start
  MaxRenames, \* bound: times the daemon registers the host name anew
  Env         \* the liberties the environment takes (see Liberties)

(***************************************************************************)
(* "fail":      the library makes no poll object or service browser, and   *)
(*              reports failures and collisions to the loop;               *)
(* "nodaemon":  no client can be made, as there is no Avahi daemon;        *)
(* "earlyfail": the service cannot be added when avahi_client_new calls    *)
(*              back, because another one on this host has its name;       *)
(* "drop":      the object is destroyed without a shutdown, as in          *)
(*              HNodeDevice.                                               *)
(***************************************************************************)
Liberties == {"fail", "nodaemon", "earlyfail", "drop"}

ASSUME LifecycleAssumption ==
  /\ Kinds \subseteq {"announce", "browse"}
  /\ MaxStarts \in Nat \ {0}
  /\ MaxRenames \in Nat
  /\ Env \subseteq Liberties

Starts == 1 .. MaxStarts
Handle == 0 .. MaxStarts

VARIABLES
  kind,
  client, poll, thelp, \* members: handles
  group,    \* group, or serviceBrowser of a browser: its client, or 0
  state,
  app,      \* where the application's thread is
  starts,   \* calls of start so far
  live,     \* what is allocated, as <<what, number>>
  loop,     \* the thread of each start
  quit,     \* poll objects told to quit
  daemon,   \* what each client was told of the daemon's state
  entries,  \* the entry group of each client
  renames,
  fault,    \* what ended the process
  failed    \* history: the library has reported a failure

members == <<client, poll, thelp, group, state>>
library == <<live, quit, daemon, entries>>
vars == <<kind, members, app, starts, library, loop, renames, fault, failed>>

Init ==
  /\ kind \in Kinds
  /\ client = 0 /\ poll = 0 /\ thelp = 0 /\ group = 0
  /\ state = "IDLE"
  /\ app = "idle"
  /\ starts = 0
  /\ live = {}
  /\ loop = [n \in Starts |-> "none"]
  /\ quit = {}
  /\ daemon = [n \in Starts |-> "none"]
  /\ entries = [n \in Starts |-> "none"]
  /\ renames = 0
  /\ fault = "none"
  /\ failed = FALSE

Handles(what) == {<<w, n>> : w \in what, n \in Starts}
IsLive(what, n) == <<what, n>> \in live

\* The last step a process takes uses a handle that was freed.
UseAfterFree ==
  /\ fault' = "freed"
  /\ UNCHANGED <<kind, members, app, starts, library, loop, renames, failed>>

--------------------------------------------------------------------------------
(* cleanup: frees what the members name and makes them NULL *)

Named == {h \in {<<"client", client>>, <<"poll", poll>>, <<"thread", thelp>>}
              \cup (IF kind = "browse" THEN {<<"browser", group>>} ELSE {}) : h[2] # 0}

\* The handles named are freed; with a client goes its browser or group.
Free(named) ==
  /\ live' = live \ (named \cup {<<"browser", client>>})
  /\ entries' = [n \in Starts |-> IF n = client THEN "none" ELSE entries[n]]
  /\ fault' = IF named \subseteq live THEN fault ELSE "freed"
  /\ client' = 0 /\ poll' = 0 /\ thelp' = 0 /\ group' = 0
  /\ state' = "IDLE"

\* Faulty variant: the poll object is forgotten.
CleanupKeepsPoll == Free(Named \ {<<"poll", poll>>})

Cleanup == Free(Named)

--------------------------------------------------------------------------------
(* start, on the application's thread *)

\* The caller starts anew only after a shutdown.
Stopped == \A n \in Starts : loop[n] \in {"none", "ended"}

StartPoll ==
  /\ app = "idle"
  /\ Stopped
  /\ starts < MaxStarts
  /\ starts' = starts + 1
  /\ state' = "STARTUP"
  /\ poll' = starts + 1
  /\ live' = live \cup {<<"poll", starts + 1>>}
  /\ app' = "start"
  /\ UNCHANGED <<kind, client, thelp, group, quit, daemon, entries, loop, renames,
                 fault, failed>>

\* setFailure asks avahi_client_errno for the error of a client that is NULL,
\* which the library asserts not to be.
ErrorOfNull ==
  /\ fault' = "abort"
  /\ UNCHANGED <<kind, members, app, starts, library, loop, renames, failed>>

\* There is no poll object.  The member that names the last one is overwritten
\* before cleanup frees what the start before has left.
StartNoPoll ==
  /\ app = "idle"
  /\ Stopped
  /\ starts < MaxStarts
  /\ "fail" \in Env
  /\ IF client = 0 THEN ErrorOfNull
     ELSE /\ starts' = starts + 1
          /\ Free(Named \ {<<"poll", poll>>})
          /\ failed' = TRUE
          /\ UNCHANGED <<kind, app, quit, daemon, loop, renames>>

StartNoClient ==
  /\ app = "start"
  /\ "nodaemon" \in Env
  /\ ErrorOfNull

\* Faulty variant: entries are added to a group only when it is made.
CreateServiceOnce(n) ==
  /\ group' = IF group = 0 THEN n ELSE group
  /\ entries' = IF group = 0 THEN [entries EXCEPT ![n] = "committed"] ELSE entries

\* What createService leaves of the groups when it is called for client n and
\* nothing fails: a new group if there is none, and entries if it is empty.
CreateService(n) ==
  LET g == IF group = 0 THEN n ELSE group IN
  /\ group' = g
  /\ entries' = IF entries[g] \in {"none", "empty"}
                THEN [entries EXCEPT ![g] = "committed"] ELSE entries

ResetGroup ==
  /\ group' = group
  /\ entries' = IF group = 0 THEN entries ELSE [entries EXCEPT ![group] = "empty"]

\* callbackClient, as far as the group goes; a browser looks at failures only.
ClientState(n, s) ==
  /\ daemon' = [daemon EXCEPT ![n] = s]
  /\ IF kind = "browse" THEN UNCHANGED <<group, entries>>
     ELSE IF s = "running" THEN CreateService(n)
     ELSE ResetGroup

\* The group that callbackClient is going to use is one of a freed client.
GroupFreed ==
  /\ kind = "announce"
  /\ group # 0
  /\ ~ IsLive("client", group)

\* avahi_client_new calls callbackClient with the daemon's state.
StartClient ==
  /\ app = "start"
  /\ \E s \in {"running", "registering"} :
       IF GroupFreed THEN UseAfterFree
       ELSE /\ ClientState(starts, s)
            /\ client' = starts
            /\ live' = live \cup {<<"client", starts>>}
            /\ app' = "client"
            /\ UNCHANGED <<kind, poll, thelp, state, starts, quit, loop, renames,
                           fault, failed>>

\* createService fails within avahi_client_new, and no start before has left its
\* thread: shutdown cleans up, and the library goes on with the client it freed.
StartClientFails ==
  /\ app = "start"
  /\ "earlyfail" \in Env
  /\ kind = "announce"
  /\ thelp = 0
  /\ fault' = "early"
  /\ UNCHANGED <<kind, members, app, starts, library, loop, renames, failed>>

\* The entries are not added, or added and not committed.
CreateServiceFails(n) ==
  LET g == IF group = 0 THEN n ELSE group IN
  /\ kind = "announce"
  /\ entries[g] \in {"none", "empty"}
  /\ client' = n
  /\ group' = g
  /\ \E e \in {"empty", "added"} : entries' = [entries EXCEPT ![g] = e]

\* With the thread of a start before, which has ended, shutdown tells the new
\* poll object to quit, finds that thread joined, and start goes on.
RestartClientFails ==
  /\ app = "start"
  /\ "earlyfail" \in Env
  /\ kind = "announce"
  /\ thelp # 0
  /\ IF GroupFreed THEN UseAfterFree
     ELSE /\ \/ client' = starts /\ group = 0 /\ UNCHANGED <<group, entries>>
             \/ CreateServiceFails(starts)
          /\ daemon' = [daemon EXCEPT ![starts] = "running"]
          /\ live' = live \cup {<<"client", starts>>}
          /\ state' = "SHUTDOWN"
          /\ quit' = quit \cup {poll}
          /\ failed' = TRUE
          /\ app' = "client"
          /\ UNCHANGED <<kind, poll, thelp, starts, loop, renames, fault>>

\* The service browser, the helper and its thread.
StartThread ==
  /\ app = "client"
  /\ group' = IF kind = "browse" THEN starts ELSE group
  /\ thelp' = starts
  /\ live' = live \cup {<<"thread", starts>>}
                  \cup (IF kind = "browse" THEN {<<"browser", starts>>} ELSE {})
  /\ loop' = [loop EXCEPT ![starts] = "run"]
  /\ app' = "idle"
  /\ UNCHANGED <<kind, client, poll, state, starts, quit, daemon, entries, renames,
                 fault, failed>>

\* The service browser cannot be made.
StartNoBrowser ==
  /\ app = "client"
  /\ kind = "browse"
  /\ "fail" \in Env
  /\ failed' = TRUE
  /\ Free(Named \ {<<"browser", group>>})
  /\ app' = "idle"
  /\ UNCHANGED <<kind, starts, quit, daemon, loop, renames>>

--------------------------------------------------------------------------------
(* shutdown and the destructor, on the application's thread *)

ShutdownIdle ==
  /\ app = "idle"
  /\ thelp = 0
  /\ starts > 0
  /\ Cleanup
  /\ UNCHANGED <<kind, app, starts, quit, daemon, loop, renames, failed>>

\* Faulty variants: shutdown cleans up without waiting for the thread; it waits without
\* telling the loop to quit; it leaves a state nobody knows.
ShutdownNoJoin ==
  /\ app = "idle"
  /\ thelp # 0
  /\ Cleanup
  /\ quit' = quit \cup {poll}
  /\ UNCHANGED <<kind, app, starts, daemon, loop, renames, failed>>

ShutdownNoQuit ==
  /\ app = "idle"
  /\ thelp # 0
  /\ state' = "SHUTDOWN"
  /\ app' = "join"
  /\ UNCHANGED <<kind, client, poll, thelp, group, starts, library, loop, renames,
                 fault, failed>>

ShutdownEnded ==
  /\ app = "idle"
  /\ thelp # 0
  /\ state' = "ENDED"
  /\ quit' = quit \cup {poll}
  /\ app' = "join"
  /\ UNCHANGED <<kind, client, poll, thelp, group, starts, live, daemon, entries,
                 loop, renames, fault, failed>>

ShutdownQuit ==
  /\ app = "idle"
  /\ thelp # 0
  /\ state' = "SHUTDOWN"
  /\ quit' = quit \cup {poll}
  /\ app' = "join"
  /\ UNCHANGED <<kind, client, poll, thelp, group, starts, live, daemon, entries,
                 loop, renames, fault, failed>>

ShutdownJoin ==
  /\ app = "join"
  /\ loop[thelp] = "ended"
  /\ app' = "idle"
  /\ UNCHANGED <<kind, members, starts, library, loop, renames, fault, failed>>

\* The destructor; the caller shuts down before, unless "drop".
Destroy ==
  /\ app = "idle"
  /\ starts > 0
  /\ Stopped \/ "drop" \in Env
  /\ Cleanup
  /\ app' = "destroyed"
  /\ UNCHANGED <<kind, starts, quit, daemon, loop, renames, failed>>

--------------------------------------------------------------------------------
(* The loop's thread *)

LoopEnds(n) ==
  /\ loop[n] = "run"
  /\ n \in quit
  /\ IF IsLive("poll", n) THEN fault' = fault ELSE fault' = "freed"
  /\ loop' = [loop EXCEPT ![n] = "ended"]
  /\ UNCHANGED <<kind, members, app, starts, library, renames, failed>>

\* The loop polls its client and calls back.
Polls(n) == loop[n] = "run"
Freed(n) == ~ IsLive("poll", n) \/ ~ IsLive("client", n)

\* callbackClient: the daemon registers its host name anew, or has done so.
LoopClientState(n) ==
  /\ Polls(n)
  /\ \E s \in {"running", "registering"} :
       /\ daemon[n] \in {"running", "registering"} \ {s}
       /\ s = "registering" => renames < MaxRenames
       /\ IF Freed(n) \/ GroupFreed THEN UseAfterFree
          ELSE /\ ClientState(n, s)
               /\ client' = n
               /\ renames' = IF s = "registering" THEN renames + 1 ELSE renames
               /\ UNCHANGED <<kind, poll, thelp, state, app, starts, live, quit, loop,
                              fault, failed>>

\* callbackEntryGroup: the service is established.
LoopEstablished(n) ==
  /\ Polls(n)
  /\ entries[n] = "committed"
  /\ state # "ESTABLISHED" \/ group # n
  /\ IF Freed(n) THEN UseAfterFree
     ELSE /\ group' = n
          /\ state' = "ESTABLISHED"
          /\ UNCHANGED <<kind, client, poll, thelp, app, starts, library, loop,
                         renames, fault, failed>>

GroupFails(n) ==
  /\ kind = "announce"
  /\ entries[n] # "none"
  /\ group' = n
  /\ UNCHANGED <<client, entries>>

\* A failure of the client or the browser, of the group, or of createService:
\* shutdown, from the thread that it joins.
LoopFails(n) ==
  /\ Polls(n)
  /\ "fail" \in Env
  /\ IF Freed(n) THEN UseAfterFree
     ELSE /\ failed' = TRUE
          /\ state' = "SHUTDOWN"
          /\ quit' = quit \cup {poll}
          /\ loop' = [loop EXCEPT ![n] = "join"]
          /\ daemon' = [daemon EXCEPT ![n] = "none"]
          /\ \/ client' = n /\ UNCHANGED <<group, entries>>
             \/ GroupFails(n)
             \/ CreateServiceFails(n)
          /\ UNCHANGED <<kind, poll, thelp, app, starts, live, renames, fault>>

--------------------------------------------------------------------------------
Next ==
  /\ fault = "none"
  /\ \/ StartPoll
     \/ StartNoPoll
     \/ StartNoClient
     \/ StartClient
     \/ StartClientFails
     \/ RestartClientFails
     \/ StartThread
     \/ StartNoBrowser
     \/ ShutdownIdle
     \/ ShutdownQuit
     \/ ShutdownJoin
     \/ Destroy
     \/ \E n \in Starts :
          \/ LoopEnds(n)
          \/ LoopClientState(n)
          \/ LoopEstablished(n)
          \/ LoopFails(n)

Spec == Init /\ [][Next]_vars

\* The application's thread goes on within its calls; a loop that was told to
\* quit ends when it polls.  Callbacks and calls are owed to nobody.
Alive == fault = "none"
FairSpec ==
  /\ Spec
  /\ WF_vars(Alive /\ ShutdownJoin)
  /\ \A n \in Starts : WF_vars(Alive /\ LoopEnds(n))

--------------------------------------------------------------------------------
TypeOK ==
  /\ kind \in Kinds
  /\ {client, poll, thelp, group} \subseteq Handle
  /\ state \in {"IDLE", "STARTUP", "ESTABLISHED", "SHUTDOWN"}
  /\ app \in {"idle", "start", "client", "join", "destroyed"}
  /\ starts \in Handle
  /\ live \subseteq Handles({"client", "poll", "thread", "browser"})
  /\ loop \in [Starts -> {"none", "run", "join", "ended"}]
  /\ quit \subseteq Starts
  /\ daemon \in [Starts -> {"none", "registering", "running"}]
  /\ entries \in [Starts -> {"none", "empty", "added", "committed"}]
  /\ renames \in 0 .. MaxRenames
  /\ fault \in {"none", "abort", "early", "freed"}
  /\ failed \in BOOLEAN

\* Once a first avahi_client_new has come back, no thread uses a client, poll
\* object, group or browser that was freed, and none is freed twice: through
\* failures, shutdowns, restarts and the destructor.
FaultsOnlyInStart == fault # "freed"

\* While the daemon runs and has reported no failure, one client that is alive
\* offers the service, once, through the group the object knows: whatever the
\* order in which the host name is registered and the object is restarted.
ServiceOffered ==
  (/\ kind = "announce" /\ ~failed /\ fault = "none"
   /\ thelp # 0 /\ loop[thelp] = "run" /\ app # "destroyed"
   /\ daemon[thelp] = "running")
     => {n \in Starts : entries[n] = "committed" /\ IsLive("client", n)} = {group}

\* The destructor leaves nothing of the last start allocated (what an earlier
\* start allocated is lost with the members a restart overwrites).
NothingLeftBehind ==
  (app = "destroyed" /\ fault = "none") => \A h \in live : h[2] < starts

\* A shutdown comes back, unless a callback of the same loop has called
\* shutdown itself: that one waits for its own thread, and every other for it.
ShutdownReturns ==
  app = "join" ~> (app # "join" \/ loop[thelp] = "join" \/ fault # "none")
================================================================================
