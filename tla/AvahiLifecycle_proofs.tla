------------------------- MODULE AvahiLifecycle_proofs -------------------------
(***************************************************************************)
(* Theorems about AvahiLifecycle, for any numbers of starts and renames    *)
(* and any liberties of the environment.                                   *)
(***************************************************************************)
EXTENDS AvahiLifecycle, TLAPS

(***************************************************************************)
(* What the members name is allocated, which makes cleanup safe wherever   *)
(* it runs.  A group is named by its client, which a restart may have left *)
(* behind.                                                                 *)
(***************************************************************************)
AllocInv ==
  /\ client # 0 => IsLive("client", client)
  /\ poll # 0 => IsLive("poll", poll)
  /\ thelp # 0 => IsLive("thread", thelp) /\ poll # 0
  /\ group # 0 => IF kind = "announce" THEN IsLive("client", group)
                  ELSE IsLive("browser", group)

(***************************************************************************)
(* At most the last start's loop runs, on the objects the members name,    *)
(* unless they were destroyed under it.                                    *)
(***************************************************************************)
LoopInv ==
  /\ app \in {"start", "client"} => starts > 0 /\ poll = starts /\ Stopped
  /\ app = "client" => client = starts
  /\ \A n \in Starts : loop[n] \in {"run", "join"} =>
       /\ n = starts
       /\ IF app = "destroyed" THEN "drop" \in Env /\ ~IsLive("poll", n)
          ELSE app \in {"idle", "join"} /\ client = n /\ poll = n /\ thelp = n
  /\ kind = "browse" => \A n \in Starts : entries[n] = "none"
  /\ fault = "freed" => "drop" \in Env

LifeInv == TypeOK /\ AllocInv /\ LoopInv

(***************************************************************************)
(* The service is offered through one group: one kept over a restart is    *)
(* used again.  After a failure a group may be left that nobody knows.     *)
(***************************************************************************)
OfferInv ==
  (kind = "announce" /\ app # "destroyed" /\ fault = "none" /\ ~failed) =>
    /\ app \in {"idle", "join"} /\ starts > 0 => thelp # 0
    /\ \A n \in Starts : entries[n] # "none" => n = group
    /\ \A n \in Starts : n > starts \/ (n = starts /\ app = "start") => daemon[n] = "none"
    /\ \A n \in Starts : entries[n] # "added"
    /\ starts > 0 /\ daemon[starts] = "running"
         => group # 0 /\ entries[group] = "committed"

\* What the last start has allocated is what cleanup frees.
LeftInv ==
  \A h \in live :
    IF app = "destroyed" THEN h[2] < starts
    ELSE /\ h[2] <= starts
         /\ h[2] = starts => h \in Named \cup {<<"browser", client>>}
-----------------------------------------------------------------------------
\* The handles that cleanup frees.
LEMMA NamedIs ==
  \A w, n : <<w, n>> \in Named <=>
    n # 0 /\ \/ w = "client" /\ n = client
             \/ w = "poll" /\ n = poll
             \/ w = "thread" /\ n = thelp
             \/ w = "browser" /\ n = group /\ kind = "browse"
BY DEF Named

\* Under AllocInv, cleanup frees nothing twice.
LEMMA NamedLive ==
  ASSUME TypeOK, AllocInv
  PROVE  Named \subseteq live
<1> SUFFICES ASSUME NEW h \in Named PROVE h \in live
  OBVIOUS
<1>1. kind = "browse" => kind # "announce"
  OBVIOUS
<1>2. \/ h = <<"client", client>> /\ client # 0
      \/ h = <<"poll", poll>> /\ poll # 0
      \/ h = <<"thread", thelp>> /\ thelp # 0
      \/ h = <<"browser", group>> /\ group # 0 /\ kind = "browse"
  BY DEF Named
<1>3. QED BY <1>1, <1>2 DEF AllocInv, IsLive

\* What is freed, if it is part of what the members name, is freed once, and leaves a
\* well-typed object that names nothing.
LEMMA FreeClean ==
  ASSUME TypeOK, AllocInv, NEW N, N \subseteq Named, Free(N)
  PROVE  /\ fault' = fault
         /\ client' = 0 /\ poll' = 0 /\ thelp' = 0 /\ group' = 0
         /\ state' = "IDLE"
         /\ live' = live \ (N \cup {<<"browser", client>>})
         /\ live' \subseteq live
         /\ entries' \in [Starts -> {"none", "empty", "added", "committed"}]
         /\ (\A n \in Starts : entries[n] = "none")
              => (\A n \in Starts : entries'[n] = "none")
<1>1. fault' = fault
  BY NamedLive DEF Free
<1>2. \A n \in Starts : entries[n] \in {"none", "empty", "added", "committed"}
  BY DEF TypeOK
<1>3. entries' = [n \in Starts |-> IF n = client THEN "none" ELSE entries[n]]
  BY DEF Free
<1>4. /\ entries' \in [Starts -> {"none", "empty", "added", "committed"}]
      /\ \A n \in Starts : entries[n] = "none" => entries'[n] = "none"
  BY <1>2, <1>3
<1>5. QED BY <1>1, <1>4 DEF Free

\* The object does not exist before it is started.
LEMMA LifeInit == Init => LifeInv
<1> SUFFICES ASSUME Init PROVE LifeInv
  OBVIOUS
<1> USE LifecycleAssumption
<1>1. 0 \in Handle /\ 0 \in 0 .. MaxRenames
  BY DEF Handle
<1>2. [n \in Starts |-> "none"] \in [Starts -> {"none", "run", "join", "ended"}]
      /\ [n \in Starts |-> "none"] \in [Starts -> {"none", "registering", "running"}]
      /\ [n \in Starts |-> "none"] \in [Starts -> {"none", "empty", "added", "committed"}]
  OBVIOUS
<1>3. TypeOK
  BY <1>1, <1>2 DEF Init, TypeOK
<1>4. QED BY <1>3 DEF Init, LifeInv, AllocInv, LoopInv

\* What callbackClient does to the groups keeps them typed, alive, and absent from a
\* browser.
LEMMA ClientStateGroups ==
  ASSUME TypeOK, AllocInv, ~GroupFreed, NEW n \in Starts,
         NEW s \in {"running", "registering"}, ClientState(n, s)
  PROVE  /\ group' \in Handle
         /\ entries' \in [Starts -> {"none", "empty", "added", "committed"}]
         /\ daemon' \in [Starts -> {"none", "registering", "running"}]
         /\ kind = "browse" => group' = group /\ entries' = entries
         /\ kind = "announce" => group' \in {group, n}
<1>1. daemon' \in [Starts -> {"none", "registering", "running"}]
  BY DEF ClientState, TypeOK
<1>2. CASE kind = "browse"
  BY <1>1, <1>2 DEF ClientState, TypeOK
<1>3. CASE kind # "browse" /\ s = "running"
  <2> DEFINE g == IF group = 0 THEN n ELSE group
  <2>1. g \in Starts /\ g \in Handle
    BY LifecycleAssumption DEF TypeOK, Handle, Starts
  <2>2. group' = g /\ (entries' = entries \/ entries' = [entries EXCEPT ![g] = "committed"])
    BY <1>3 DEF ClientState, CreateService
  <2>3. QED BY <1>1, <1>3, <2>1, <2>2 DEF TypeOK
<1>4. CASE kind # "browse" /\ s # "running"
  <2>1. group' = group
        /\ (entries' = entries \/ entries' = [entries EXCEPT ![group] = "empty"])
    BY <1>4 DEF ClientState, ResetGroup
  <2>2. QED BY <1>1, <1>4, <2>1 DEF TypeOK
<1>5. QED BY <1>2, <1>3, <1>4

\* What a createService that fails does to them.
LEMMA FailedGroups ==
  ASSUME TypeOK, NEW n \in Starts, CreateServiceFails(n)
  PROVE  /\ kind = "announce" /\ client' = n
         /\ group' \in {group, n} /\ group' \in Handle
         /\ entries' \in [Starts -> {"none", "empty", "added", "committed"}]
<1> DEFINE g == IF group = 0 THEN n ELSE group
<1>1. g \in Starts /\ g \in Handle /\ g \in {group, n}
  BY LifecycleAssumption DEF TypeOK, Handle, Starts
<1>2. PICK e \in {"empty", "added"} : entries' = [entries EXCEPT ![g] = e]
  BY DEF CreateServiceFails
<1>3. client' = n /\ group' = g /\ kind = "announce"
  BY DEF CreateServiceFails
<1>4. QED BY <1>1, <1>2, <1>3 DEF TypeOK

\* A cleanup on the application's thread, by shutdown or by the destructor: it
\* frees the poll object under a loop that still runs.
LEMMA CleanupLife ==
  ASSUME LifeInv, Cleanup, app = "idle", app' \in {"idle", "destroyed"},
         app' = "idle" => thelp = 0,
         Stopped \/ app' = "idle" \/ "drop" \in Env,
         UNCHANGED <<kind, starts, quit, daemon, loop, renames, failed>>
  PROVE  LifeInv'
<1> USE LifecycleAssumption DEF LifeInv
<1>1. /\ fault' = fault
      /\ client' = 0 /\ poll' = 0 /\ thelp' = 0 /\ group' = 0 /\ state' = "IDLE"
      /\ live' = live \ (Named \cup {<<"browser", client>>})
      /\ entries' \in [Starts -> {"none", "empty", "added", "committed"}]
      /\ (\A n \in Starts : entries[n] = "none")
           => (\A n \in Starts : entries'[n] = "none")
  BY FreeClean DEF Cleanup
<1>2. TypeOK'
  <2>1. live' \subseteq Handles({"client", "poll", "thread", "browser"})
    BY <1>1 DEF TypeOK
  <2>2. 0 \in Handle
    BY DEF Handle
  <2>3. QED BY <1>1, <2>1, <2>2 DEF TypeOK
<1>3. AllocInv'
  BY <1>1 DEF AllocInv
<1>4. LoopInv'
  <2>1. ASSUME NEW n \in Starts, loop[n] \in {"run", "join"}
        PROVE  /\ n = starts /\ app' = "destroyed" /\ "drop" \in Env
               /\ <<"poll", n>> \notin live'
    <3>1. n = starts /\ poll = n /\ thelp = n /\ n # 0
      BY <2>1 DEF LoopInv, Starts
    <3>2. <<"poll", n>> \in Named
      BY <3>1, NamedIs
    <3>3. ~Stopped
      BY <2>1 DEF Stopped
    <3>4. QED BY <1>1, <3>1, <3>2, <3>3
  <2>2. app' \notin {"start", "client"}
    OBVIOUS
  <2>3. kind' = "browse" => \A n \in Starts : entries'[n] = "none"
    BY <1>1 DEF LoopInv
  <2>4. fault' = "freed" => "drop" \in Env
    BY <1>1 DEF LoopInv
  <2>5. QED BY <2>1, <2>2, <2>3, <2>4 DEF LoopInv, IsLive
<1>5. QED BY <1>2, <1>3, <1>4

\* Each step of the application, the loop and the daemon keeps the invariant.
LEMMA LifeStep ==
  ASSUME LifeInv, [Next]_vars
  PROVE  LifeInv'
<1> USE LifecycleAssumption DEF LifeInv, members, library
<1>0. /\ \A n \in Starts : n \in Handle /\ n # 0 /\ n \in Nat
      /\ starts \in Nat /\ MaxStarts \in Nat
      /\ \A n \in Handle : n # 0 => n \in Starts
      /\ 0 \in Handle
  BY DEF TypeOK, Starts, Handle
<1>1. ASSUME StartPoll PROVE LifeInv'
  <2>1. starts + 1 \in Starts /\ starts' = starts + 1 /\ poll' = starts + 1
    BY <1>0, <1>1 DEF StartPoll, Starts
  <2>2. live' = live \cup {<<"poll", starts + 1>>}
    BY <1>1 DEF StartPoll
  <2>3. /\ state' = "STARTUP" /\ app' = "start" /\ app = "idle" /\ Stopped
        /\ UNCHANGED <<kind, client, thelp, group, quit, daemon, entries, loop,
                       renames, fault, failed>>
    BY <1>1 DEF StartPoll
  <2>4. live' \subseteq Handles({"client", "poll", "thread", "browser"})
    BY <2>1, <2>2 DEF TypeOK, Handles
  <2>5. TypeOK'
    BY <1>0, <2>1, <2>3, <2>4 DEF TypeOK
  <2>6. AllocInv'
    BY <1>0, <2>1, <2>2, <2>3 DEF AllocInv, IsLive
  <2>7. LoopInv'
    BY <1>0, <2>1, <2>3 DEF LoopInv, Stopped
  <2>8. QED BY <2>5, <2>6, <2>7
<1>a. starts < MaxStarts => starts + 1 \in Handle
  BY <1>0 DEF Handle
<1>b. ASSUME NEW N, N \subseteq Named, Free(N), app \in {"idle", "client"}, Stopped,
             app' = "idle", failed' = TRUE, starts' \in Handle,
             UNCHANGED <<kind, quit, daemon, loop, renames>>
      PROVE  LifeInv'
  <2>1. /\ fault' = fault
        /\ client' = 0 /\ poll' = 0 /\ thelp' = 0 /\ group' = 0 /\ state' = "IDLE"
        /\ live' \subseteq live
        /\ entries' \in [Starts -> {"none", "empty", "added", "committed"}]
        /\ (\A n \in Starts : entries[n] = "none")
             => (\A n \in Starts : entries'[n] = "none")
    BY <1>b, FreeClean
  <2>2. TypeOK'
    BY <1>0, <1>b, <2>1 DEF TypeOK
  <2>3. AllocInv'
    BY <2>1 DEF AllocInv
  <2>4. LoopInv'
    BY <1>b, <2>1 DEF LoopInv, Stopped
  <2>5. QED BY <2>2, <2>3, <2>4
<1>2. ASSUME ErrorOfNull \/ StartNoClient \/ StartClientFails PROVE LifeInv'
  <2>1. TypeOK'
    BY <1>2 DEF ErrorOfNull, StartNoClient, StartClientFails, TypeOK
  <2>2. AllocInv' /\ LoopInv'
    BY <1>2 DEF ErrorOfNull, StartNoClient, StartClientFails, AllocInv, LoopInv, IsLive, Stopped
  <2>3. QED BY <2>1, <2>2
<1>c. ASSUME StartNoPoll PROVE LifeInv'
  <2>1. CASE client = 0
    BY <1>2, <1>c, <2>1 DEF StartNoPoll
  <2>2. CASE client # 0
    <3> DEFINE N == Named \ {<<"poll", poll>>}
    <3>1. /\ app = "idle" /\ Stopped /\ Free(N) /\ failed' = TRUE
          /\ starts < MaxStarts /\ starts' = starts + 1
          /\ UNCHANGED <<kind, app, quit, daemon, loop, renames>>
      BY <1>c, <2>2 DEF StartNoPoll
    <3>2. N \subseteq Named
      OBVIOUS
    <3> HIDE DEF N
    <3>3. QED BY <1>a, <1>b, <3>1, <3>2
  <2>3. QED BY <2>1, <2>2
<1>3. ASSUME StartClient PROVE LifeInv'
  <2>1. app = "start" /\ starts \in Starts /\ poll = starts /\ Stopped
    BY <1>0, <1>3 DEF StartClient, LoopInv, TypeOK, Handle
  <2>2. ~GroupFreed
    BY DEF GroupFreed, AllocInv
  <2>3. PICK s \in {"running", "registering"} : ClientState(starts, s)
    BY <1>3, <2>2 DEF StartClient
  <2>4. /\ client' = starts /\ live' = live \cup {<<"client", starts>>}
        /\ app' = "client"
        /\ UNCHANGED <<kind, poll, thelp, state, starts, quit, loop, renames, fault,
                       failed>>
    BY <1>3, <2>2 DEF StartClient
  <2>5. /\ group' \in Handle
        /\ entries' \in [Starts -> {"none", "empty", "added", "committed"}]
        /\ daemon' \in [Starts -> {"none", "registering", "running"}]
        /\ kind = "browse" => group' = group /\ entries' = entries
        /\ kind = "announce" => group' \in {group, starts}
    BY <2>1, <2>2, <2>3, ClientStateGroups
  <2>6. live' \subseteq Handles({"client", "poll", "thread", "browser"})
    BY <2>1, <2>4 DEF TypeOK, Handles
  <2>7. TypeOK'
    BY <1>0, <2>1, <2>4, <2>5, <2>6 DEF TypeOK
  <2>8. kind = "browse" \/ kind = "announce"
    BY DEF TypeOK
  <2>9. AllocInv'
    BY <2>4, <2>5, <2>8 DEF AllocInv, IsLive
  <2>10. LoopInv'
    BY <2>1, <2>4, <2>5 DEF LoopInv, Stopped
  <2>11. QED BY <2>7, <2>9, <2>10
<1>d. ASSUME RestartClientFails PROVE LifeInv'
  <2>1. /\ app = "start" /\ starts \in Starts /\ poll = starts /\ Stopped
        /\ kind = "announce" /\ thelp # 0
    BY <1>0, <1>d DEF RestartClientFails, LoopInv, TypeOK, Handle
  <2>2. ~GroupFreed
    BY DEF GroupFreed, AllocInv
  <2>3. /\ \/ client' = starts /\ UNCHANGED <<group, entries>>
           \/ CreateServiceFails(starts)
        /\ daemon' = [daemon EXCEPT ![starts] = "running"]
        /\ live' = live \cup {<<"client", starts>>}
        /\ state' = "SHUTDOWN" /\ quit' = quit \cup {poll} /\ failed' = TRUE
        /\ app' = "client"
        /\ UNCHANGED <<kind, poll, thelp, starts, loop, renames, fault>>
    BY <1>d, <2>2 DEF RestartClientFails
  <2>4. /\ client' = starts
        /\ group' \in {group, starts} /\ group' \in Handle
        /\ entries' \in [Starts -> {"none", "empty", "added", "committed"}]
    <3>1. CASE client' = starts /\ UNCHANGED <<group, entries>>
      BY <3>1 DEF TypeOK
    <3>2. CASE CreateServiceFails(starts)
      BY <1>0, <2>1, <3>2, FailedGroups
    <3>3. QED BY <2>3, <3>1, <3>2
  <2>5. /\ live' \subseteq Handles({"client", "poll", "thread", "browser"})
        /\ daemon' \in [Starts -> {"none", "registering", "running"}]
        /\ quit' \subseteq Starts
    BY <2>1, <2>3 DEF TypeOK, Handles
  <2>6. TypeOK'
    BY <1>0, <2>1, <2>3, <2>4, <2>5 DEF TypeOK
  <2>7. AllocInv'
    BY <2>1, <2>3, <2>4 DEF AllocInv, IsLive
  <2>8. LoopInv'
    BY <2>1, <2>3, <2>4 DEF LoopInv, Stopped
  <2>9. QED BY <2>6, <2>7, <2>8
<1>4. ASSUME StartThread PROVE LifeInv'
  <2>1. /\ app = "client" /\ starts \in Starts /\ poll = starts /\ client = starts
        /\ Stopped
    BY <1>0, <1>4 DEF StartThread, LoopInv, TypeOK, Handle
  <2>2. /\ group' = IF kind = "browse" THEN starts ELSE group
        /\ thelp' = starts /\ app' = "idle"
        /\ loop' = [loop EXCEPT ![starts] = "run"]
        /\ UNCHANGED <<kind, client, poll, state, starts, quit, daemon, entries,
                       renames, fault, failed>>
    BY <1>4 DEF StartThread
  <2>3. /\ live \subseteq live' /\ <<"thread", starts>> \in live'
        /\ kind = "browse" => <<"browser", starts>> \in live'
        /\ live' \subseteq live \cup {<<"thread", starts>>, <<"browser", starts>>}
    BY <1>4 DEF StartThread
  <2>4. live' \subseteq Handles({"client", "poll", "thread", "browser"})
    BY <2>1, <2>3 DEF TypeOK, Handles
  <2>5. loop' \in [Starts -> {"none", "run", "join", "ended"}]
    BY <2>2 DEF TypeOK
  <2>6. TypeOK'
    BY <1>0, <2>1, <2>2, <2>4, <2>5 DEF TypeOK
  <2>7. kind = "browse" \/ kind = "announce"
    BY DEF TypeOK
  <2>8. AllocInv'
    BY <1>0, <2>1, <2>2, <2>3, <2>7 DEF AllocInv, IsLive
  <2>9. \A n \in Starts : loop'[n] \in {"run", "join"} => n = starts
    BY <2>1, <2>2 DEF Stopped, TypeOK
  <2>10. LoopInv'
    BY <2>1, <2>2, <2>9 DEF LoopInv
  <2>11. QED BY <2>6, <2>8, <2>10
<1>5. ASSUME StartNoBrowser PROVE LifeInv'
  <2>1. app = "client" /\ client \in Starts /\ Stopped /\ kind = "browse"
    BY <1>0, <1>5 DEF StartNoBrowser, LoopInv, TypeOK, Handle
  <2> DEFINE N == Named \ {<<"browser", group>>}
  <2>2. /\ Free(N) /\ app' = "idle" /\ failed' = TRUE
        /\ UNCHANGED <<kind, starts, quit, daemon, loop, renames>>
    BY <1>5 DEF StartNoBrowser
  <2>3. N \subseteq Named /\ starts' \in Handle
    BY <2>2 DEF TypeOK
  <2> HIDE DEF N
  <2>4. QED BY <1>b, <2>1, <2>2, <2>3
<1>6. ASSUME ShutdownIdle PROVE LifeInv'
  BY <1>6, CleanupLife DEF ShutdownIdle
<1>7. ASSUME ShutdownQuit PROVE LifeInv'
  <2>1. poll \in Starts
    BY <1>0, <1>7 DEF ShutdownQuit, AllocInv, TypeOK
  <2>2. TypeOK'
    BY <1>7, <2>1 DEF ShutdownQuit, TypeOK
  <2>3. AllocInv' /\ LoopInv'
    BY <1>7 DEF ShutdownQuit, AllocInv, LoopInv, IsLive, Stopped
  <2>4. QED BY <2>2, <2>3
<1>8. ASSUME ShutdownJoin PROVE LifeInv'
  <2>1. TypeOK'
    BY <1>8 DEF ShutdownJoin, TypeOK
  <2>2. AllocInv' /\ LoopInv'
    BY <1>8 DEF ShutdownJoin, AllocInv, LoopInv, IsLive, Stopped
  <2>3. QED BY <2>1, <2>2
<1>9. ASSUME Destroy PROVE LifeInv'
  BY <1>9, CleanupLife DEF Destroy
<1>10. ASSUME UseAfterFree, "drop" \in Env PROVE LifeInv'
  <2>1. TypeOK'
    BY <1>10 DEF UseAfterFree, TypeOK
  <2>2. AllocInv' /\ LoopInv'
    BY <1>10 DEF UseAfterFree, AllocInv, LoopInv, IsLive, Stopped
  <2>3. QED BY <2>1, <2>2
<1>11. ASSUME NEW n \in Starts, loop[n] = "run"
       PROVE  /\ n = starts
              /\ app = "destroyed" => Freed(n) /\ ~IsLive("poll", n) /\ "drop" \in Env
              /\ app # "destroyed" =>
                   /\ ~Freed(n) /\ IsLive("poll", n)
                   /\ app \in {"idle", "join"}
                   /\ client = n /\ poll = n /\ thelp = n
  BY <1>0, <1>11 DEF LoopInv, AllocInv, Freed
<1>12. ASSUME NEW n \in Starts, LoopEnds(n) PROVE LifeInv'
  <2>1. /\ loop[n] = "run" /\ loop' = [loop EXCEPT ![n] = "ended"]
        /\ fault' = IF IsLive("poll", n) THEN fault ELSE "freed"
        /\ UNCHANGED <<kind, members, app, starts, library, renames, failed>>
    BY <1>12 DEF LoopEnds
  <2>2. loop' \in [Starts -> {"none", "run", "join", "ended"}]
    BY <2>1 DEF TypeOK
  <2>3. fault' \in {"none", "abort", "early", "freed"}
    BY <2>1 DEF TypeOK
  <2>4. TypeOK'
    BY <2>1, <2>2, <2>3 DEF TypeOK
  <2>5. AllocInv'
    BY <2>1 DEF AllocInv, IsLive
  <2>6. \A m \in Starts : /\ loop'[m] \in {"run", "join"} => loop[m] \in {"run", "join"}
                          /\ loop[m] \in {"none", "ended"} => loop'[m] \in {"none", "ended"}
    BY <2>1 DEF TypeOK
  <2>7. fault' = "freed" => "drop" \in Env
    BY <1>11, <2>1 DEF LoopInv
  <2>8. LoopInv'
    BY <2>1, <2>6, <2>7 DEF LoopInv, IsLive, Stopped
  <2>9. QED BY <2>4, <2>5, <2>8
<1>13. ASSUME NEW n \in Starts, LoopClientState(n) PROVE LifeInv'
  <2>1. loop[n] = "run"
    BY <1>13 DEF LoopClientState, Polls
  <2>2. ~GroupFreed
    BY DEF GroupFreed, AllocInv
  <2>3. CASE app = "destroyed"
    <3>1. UseAfterFree
      BY <1>11, <1>13, <2>1, <2>3 DEF LoopClientState
    <3>2. QED BY <1>10, <1>11, <2>1, <2>3, <3>1
  <2>4. CASE app # "destroyed"
    <3>1. ~Freed(n) /\ client = n /\ n = starts
      BY <1>11, <2>1, <2>4
    <3>2. PICK s \in {"running", "registering"} :
            /\ s = "registering" => renames < MaxRenames
            /\ ClientState(n, s)
            /\ client' = n
            /\ renames' = IF s = "registering" THEN renames + 1 ELSE renames
            /\ UNCHANGED <<kind, poll, thelp, state, app, starts, live, quit, loop,
                           fault, failed>>
      BY <1>13, <2>2, <3>1 DEF LoopClientState
    <3>3. /\ group' \in Handle
          /\ entries' \in [Starts -> {"none", "empty", "added", "committed"}]
          /\ daemon' \in [Starts -> {"none", "registering", "running"}]
          /\ kind = "browse" => group' = group /\ entries' = entries
          /\ kind = "announce" => group' \in {group, n}
      BY <2>2, <3>2, ClientStateGroups
    <3>4. renames' \in 0 .. MaxRenames
      BY <3>2 DEF TypeOK
    <3>5. TypeOK'
      BY <1>0, <3>2, <3>3, <3>4 DEF TypeOK
    <3>6. kind = "browse" \/ kind = "announce"
      BY DEF TypeOK
    <3>7. AllocInv'
      BY <3>1, <3>2, <3>3, <3>6 DEF AllocInv, IsLive, Freed
    <3>8. LoopInv'
      BY <3>1, <3>2, <3>3 DEF LoopInv, Stopped, IsLive
    <3>9. QED BY <3>5, <3>7, <3>8
  <2>5. QED BY <2>3, <2>4
<1>14. ASSUME NEW n \in Starts, LoopEstablished(n) PROVE LifeInv'
  <2>1. loop[n] = "run" /\ entries[n] = "committed"
    BY <1>14 DEF LoopEstablished, Polls
  <2>2. CASE app = "destroyed"
    <3>1. UseAfterFree
      BY <1>11, <1>14, <2>1, <2>2 DEF LoopEstablished
    <3>2. QED BY <1>10, <1>11, <2>1, <2>2, <3>1
  <2>3. CASE app # "destroyed"
    <3>1. ~Freed(n) /\ kind # "browse"
      BY <1>11, <2>1, <2>3 DEF LoopInv
    <3>2. /\ group' = n /\ state' = "ESTABLISHED"
          /\ UNCHANGED <<kind, client, poll, thelp, app, starts, library, loop,
                         renames, fault, failed>>
      BY <1>14, <3>1 DEF LoopEstablished
    <3>3. TypeOK'
      BY <1>0, <3>2 DEF TypeOK
    <3>4. kind = "announce"
      BY <3>1 DEF TypeOK
    <3>5. AllocInv'
      BY <3>1, <3>2, <3>4 DEF AllocInv, IsLive, Freed
    <3>6. LoopInv'
      BY <3>2 DEF LoopInv, IsLive, Stopped
    <3>7. QED BY <3>3, <3>5, <3>6
  <2>4. QED BY <2>2, <2>3
<1>15. ASSUME NEW n \in Starts, LoopFails(n) PROVE LifeInv'
  <2>1. loop[n] = "run"
    BY <1>15 DEF LoopFails, Polls
  <2>2. CASE app = "destroyed"
    <3>1. UseAfterFree
      BY <1>11, <1>15, <2>1, <2>2 DEF LoopFails
    <3>2. QED BY <1>10, <1>11, <2>1, <2>2, <3>1
  <2>3. CASE app # "destroyed"
    <3>1. ~Freed(n) /\ client = n /\ poll = n
      BY <1>11, <2>1, <2>3
    <3>2. /\ failed' = TRUE /\ state' = "SHUTDOWN" /\ quit' = quit \cup {poll}
          /\ loop' = [loop EXCEPT ![n] = "join"]
          /\ daemon' = [daemon EXCEPT ![n] = "none"]
          /\ UNCHANGED <<kind, poll, thelp, app, starts, live, renames, fault>>
      BY <1>15, <3>1 DEF LoopFails
    <3>3. /\ client' = n
          /\ group' \in {group, n} /\ group' \in Handle
          /\ entries' \in [Starts -> {"none", "empty", "added", "committed"}]
          /\ kind # "announce" => group' = group /\ entries' = entries
      <4>1. CASE client' = n /\ UNCHANGED <<group, entries>>
        BY <4>1 DEF TypeOK
      <4>2. CASE GroupFails(n)
        BY <1>0, <3>1, <4>2 DEF GroupFails, TypeOK
      <4>3. CASE CreateServiceFails(n)
        BY <4>3, FailedGroups
      <4>4. QED BY <1>15, <3>1, <4>1, <4>2, <4>3 DEF LoopFails
    <3>4. /\ loop' \in [Starts -> {"none", "run", "join", "ended"}]
          /\ daemon' \in [Starts -> {"none", "registering", "running"}]
          /\ quit' \subseteq Starts
      BY <3>1, <3>2 DEF TypeOK
    <3>5. TypeOK'
      BY <1>0, <3>2, <3>3, <3>4 DEF TypeOK
    <3>6. AllocInv'
      BY <3>1, <3>2, <3>3 DEF AllocInv, IsLive, Freed
    <3>7. \A m \in Starts : loop'[m] \in {"run", "join"} => loop[m] \in {"run", "join"}
      BY <2>1, <3>2 DEF TypeOK
    <3>8. app \notin {"start", "client"}
      BY <1>11, <2>1, <2>3
    <3>9. \A m \in Starts : kind = "browse" => entries'[m] = "none"
      BY <3>3 DEF LoopInv
    <3>10. LoopInv'
      BY <2>3, <3>1, <3>2, <3>3, <3>7, <3>8, <3>9 DEF LoopInv
    <3>11. QED BY <3>5, <3>6, <3>10
  <2>4. QED BY <2>2, <2>3
<1>16. CASE UNCHANGED vars
  <2>1. TypeOK'
    BY <1>16 DEF vars, TypeOK
  <2>2. AllocInv' /\ LoopInv'
    BY <1>16 DEF vars, AllocInv, LoopInv, IsLive, Stopped
  <2>3. QED BY <2>1, <2>2
<1>17. QED
  BY <1>1, <1>2, <1>3, <1>4, <1>5, <1>6, <1>7, <1>8, <1>9, <1>12, <1>13, <1>14,
     <1>15, <1>16, <1>c, <1>d DEF Next

\* What the members name is alive, and one loop runs at most.
LEMMA LifeInvariant == Spec => []LifeInv
<1>1. QED BY LifeInit, LifeStep, PTL DEF Spec

\* Every variable keeps its type: no handle is out of the starts made, and the
\* process ends in no other way than those named.
THEOREM TypeCorrect == Spec => []TypeOK
<1>1. LifeInv => TypeOK
  BY DEF LifeInv
<1>2. QED BY <1>1, LifeInvariant, PTL

\* Nothing is used after it was freed, or freed twice, through any failures,
\* shutdowns and restarts, as long as the object is shut down before it is destroyed.
THEOREM NothingUsedAfterFree ==
  ASSUME "drop" \notin Env
  PROVE  Spec => []FaultsOnlyInStart
<1>1. LifeInv => FaultsOnlyInStart
  BY DEF LifeInv, LoopInv, FaultsOnlyInStart
<1>2. QED BY <1>1, LifeInvariant, PTL
-----------------------------------------------------------------------------
\* Each step keeps the announced service in one group, the one the object knows.
LEMMA OfferStep ==
  ASSUME LifeInv, OfferInv, [Next]_vars
  PROVE  OfferInv'
<1> SUFFICES ASSUME kind' = "announce", app' # "destroyed", fault' = "none", ~failed'
             PROVE  OfferInv'
  BY DEF OfferInv
<1> USE LifecycleAssumption DEF members, library
<1>a. /\ starts \in Nat /\ MaxStarts \in Nat
      /\ starts > 0 => starts \in Starts
      /\ \A n \in Starts : n \in Nat
      /\ app = "start" => starts \in Starts
  BY DEF LifeInv, LoopInv, TypeOK, Handle, Starts
<1> DEFINE One == \A n \in Starts : entries[n] # "none" => n = group
           Fresh == \A n \in Starts :
                      n > starts \/ (n = starts /\ app = "start") => daemon[n] = "none"
           NoneAdded == \A n \in Starts : entries[n] # "added"
           Offered == starts > 0 /\ daemon[starts] = "running"
                        => group # 0 /\ entries[group] = "committed"
           Threaded == app \in {"idle", "join"} /\ starts > 0 => thelp # 0
<1>0. /\ kind = "announce" /\ app # "destroyed" /\ fault = "none" /\ ~failed
      /\ One /\ Fresh /\ NoneAdded /\ Offered /\ Threaded
      /\ TypeOK /\ LoopInv
      /\ starts > 0 => starts \in Starts
      /\ \A n \in Handle : n # 0 => n \in Starts
  <2>1. kind = "announce" /\ app # "destroyed" /\ fault = "none" /\ ~failed
    BY DEF Next, UseAfterFree, ErrorOfNull, StartPoll, StartNoPoll, StartNoClient,
           StartClient, StartClientFails, RestartClientFails, StartThread,
           StartNoBrowser, ShutdownIdle, ShutdownQuit,
           ShutdownJoin, Destroy, LoopEnds, LoopClientState, LoopEstablished,
           LoopFails, vars
  <2>2. QED BY <2>1 DEF OfferInv, LifeInv, TypeOK, Handle, Starts
<1>1. SUFFICES One' /\ Fresh' /\ NoneAdded' /\ Offered' /\ Threaded'
  BY DEF OfferInv
<1>2. CASE StartPoll
  <2>1. /\ starts' = starts + 1 /\ app' = "start"
        /\ UNCHANGED <<group, daemon, entries, failed>>
    BY <1>2 DEF StartPoll
  <2>2. starts < MaxStarts
    BY <1>2 DEF StartPoll
  <2>3. starts \in Nat /\ starts + 1 \in Starts
    BY <1>a, <2>2 DEF Starts
  <2>4. \A n \in Starts : n > starts => daemon[n] = "none"
    BY <1>0
  <2>5. \A n \in Starts : n > starts + 1 \/ n = starts + 1 => n > starts
    BY <1>a
  <2>6. Fresh'
    BY <2>1, <2>4, <2>5
  <2>7. daemon'[starts'] = "none"
    BY <2>1, <2>3, <2>4
  <2>8. QED BY <1>0, <2>1, <2>6, <2>7
<1>3. CASE \/ StartNoPoll \/ StartNoClient \/ StartClientFails
           \/ RestartClientFails \/ StartNoBrowser
  BY <1>3 DEF StartNoPoll, ErrorOfNull, StartNoClient, StartClientFails, UseAfterFree,
     RestartClientFails, StartNoBrowser
<1>4. ASSUME NEW n \in Starts, n = starts, app' # "start",
             NEW s \in {"running", "registering"}, ClientState(n, s),
             UNCHANGED <<starts, failed>>
      PROVE  One' /\ Fresh' /\ NoneAdded' /\ Offered'
  <2>1. daemon' = [daemon EXCEPT ![n] = s]
    BY <1>4 DEF ClientState
  <2>2. Fresh'
    BY <1>0, <1>4, <2>1 DEF Starts, TypeOK
  <2>3. CASE s = "running"
    <3> DEFINE g == IF group = 0 THEN n ELSE group
    <3>1. g \in Starts /\ g # 0 /\ group' = g
          /\ entries' = IF entries[g] \in {"none", "empty"}
                        THEN [entries EXCEPT ![g] = "committed"] ELSE entries
      BY <1>0, <1>4, <2>3 DEF ClientState, CreateService, TypeOK, Starts, Handle
    <3> HIDE DEF g
    <3>2. entries'[g] = "committed"
      BY <1>0, <3>1 DEF TypeOK
    <3>3. \A m \in Starts : m # g => entries'[m] = entries[m]
      BY <1>0, <3>1 DEF TypeOK
    <3>4. group # 0 => g = group
      BY DEF g
    <3>5. 0 \notin Starts
      BY DEF Starts
    <3>6. One'
      BY <1>0, <3>1, <3>3, <3>4, <3>5
    <3>7. NoneAdded'
      BY <1>0, <1>4, <3>1, <3>2, <3>3
    <3>8. QED BY <2>2, <1>4, <3>1, <3>2, <3>6, <3>7
  <2>4. CASE s = "registering"
    <3>1. group' = group
          /\ entries' = IF group = 0 THEN entries ELSE [entries EXCEPT ![group] = "empty"]
      BY <1>0, <1>4, <2>4 DEF ClientState, ResetGroup
    <3>2. One' /\ NoneAdded'
      BY <1>0, <1>4, <3>1 DEF TypeOK
    <3>3. daemon'[starts'] # "running"
      BY <1>0, <1>4, <2>1, <2>4 DEF TypeOK
    <3>4. QED BY <2>2, <3>2, <3>3
  <2>5. QED BY <2>3, <2>4
<1>5. CASE StartClient
  <2>0. app = "start"
    BY <1>5 DEF StartClient
  <2>1. app = "start" /\ starts \in Starts
    BY <1>a, <2>0
  <2>2. ~UseAfterFree
    BY DEF UseAfterFree
  <2>3. PICK s \in {"running", "registering"} :
          /\ ClientState(starts, s) /\ app' = "client"
          /\ UNCHANGED <<starts, failed>>
    BY <1>5, <2>2 DEF StartClient
  <2>4. One' /\ Fresh' /\ NoneAdded' /\ Offered'
    BY <1>4, <2>1, <2>3
  <2>5. QED BY <2>3, <2>4
<1>6. CASE StartThread
  <2>1. /\ starts > 0 /\ thelp' = starts
        /\ app' = "idle" /\ app = "client"
        /\ UNCHANGED <<group, starts, daemon, entries, failed>>
    BY <1>0, <1>6 DEF StartThread, LoopInv
  <2>2. QED BY <1>0, <2>1
<1>8. CASE ShutdownIdle
  BY <1>0, <1>8 DEF ShutdownIdle
<1>9. CASE ShutdownQuit
  BY <1>0, <1>9 DEF ShutdownQuit
<1>10. CASE ShutdownJoin
  BY <1>0, <1>10 DEF ShutdownJoin
<1>11. CASE Destroy
  BY <1>11 DEF Destroy
<1>12. ASSUME NEW n \in Starts, LoopEnds(n) PROVE One' /\ Fresh' /\ NoneAdded' /\ Offered' /\ Threaded'
  BY <1>0, <1>12 DEF LoopEnds
<1>13. ASSUME NEW n \in Starts, LoopClientState(n)
       PROVE  One' /\ Fresh' /\ NoneAdded' /\ Offered' /\ Threaded'
  <2>1. ~UseAfterFree
    BY DEF UseAfterFree
  <2>2. PICK s \in {"running", "registering"} :
          ClientState(n, s) /\ UNCHANGED <<app, thelp, starts, failed>>
    BY <1>13, <2>1 DEF LoopClientState
  <2>3. n = starts /\ app # "start"
    BY <1>0, <1>13 DEF LoopClientState, Polls, LoopInv
  <2>4. One' /\ Fresh' /\ NoneAdded' /\ Offered'
    BY <1>4, <2>2, <2>3
  <2>5. QED BY <1>0, <2>2, <2>4
<1>14. ASSUME NEW n \in Starts, LoopEstablished(n)
       PROVE  One' /\ Fresh' /\ NoneAdded' /\ Offered' /\ Threaded'
  <2>1. ~UseAfterFree
    BY DEF UseAfterFree
  <2>2. /\ entries[n] = "committed" /\ group' = n
        /\ UNCHANGED <<app, thelp, starts, failed, entries, daemon>>
    BY <1>14, <2>1 DEF LoopEstablished
  <2>3. group = n
    BY <1>0, <2>2
  <2>4. QED BY <1>0, <2>2, <2>3
<1>15. ASSUME NEW n \in Starts, LoopFails(n)
       PROVE  One' /\ Fresh' /\ NoneAdded' /\ Offered' /\ Threaded'
  <2>1. ~UseAfterFree
    BY DEF UseAfterFree
  <2>2. failed' = TRUE
    BY <1>15, <2>1 DEF LoopFails
  <2>3. QED BY <2>2
<1>16. CASE UNCHANGED vars
  BY <1>0, <1>16 DEF vars
<1>17. QED
  BY <1>2, <1>3, <1>5, <1>6, <1>8, <1>9, <1>10, <1>11, <1>12, <1>13, <1>14,
     <1>15, <1>16 DEF Next

\* While the daemon runs and has reported no failure, exactly one client that is alive
\* offers the service, through the group the object knows, in whatever order the host
\* name is registered and the object is restarted.
THEOREM ServiceOfferedOnce == Spec => []ServiceOffered
<1>1. Init => OfferInv
  BY DEF Init, OfferInv
<1>2. LifeInv /\ OfferInv /\ [Next]_vars => OfferInv'
  BY OfferStep
<1>3. LifeInv /\ OfferInv => ServiceOffered
  <2> SUFFICES ASSUME LifeInv, OfferInv,
                      kind = "announce", ~failed, fault = "none", thelp # 0,
                      loop[thelp] = "run", app # "destroyed",
                      daemon[thelp] = "running"
               PROVE  {n \in Starts : entries[n] = "committed" /\ IsLive("client", n)}
                        = {group}
    BY DEF ServiceOffered
  <2>1. thelp \in Starts /\ thelp = starts /\ starts > 0
    BY DEF LifeInv, LoopInv, TypeOK, Handle, Starts
  <2>2. group # 0 /\ entries[group] = "committed" /\ group \in Starts
    BY <2>1 DEF OfferInv, LifeInv, TypeOK, Handle, Starts
  <2>3. IsLive("client", group)
    BY <2>2 DEF LifeInv, AllocInv
  <2>4. \A n \in Starts : entries[n] = "committed" => n = group
    BY DEF OfferInv
  <2>5. QED BY <2>2, <2>3, <2>4
<1>4. QED BY <1>1, <1>2, <1>3, LifeInvariant, PTL DEF Spec
-----------------------------------------------------------------------------
\* Cleanup leaves nothing of the last start allocated.
LEMMA CleanupLeft ==
  ASSUME LifeInv, LeftInv, Cleanup, app # "destroyed", starts' = starts
  PROVE  \A h \in live' : h[2] < starts'
<1>1. live' = live \ (Named \cup {<<"browser", client>>})
  BY DEF Cleanup, Free
<1>2. \A h \in live : h[2] \in Nat /\ h[2] <= starts
  BY DEF LifeInv, TypeOK, LeftInv, Handles, Starts
<1>3. \A h \in live : h[2] = starts => h \in Named \cup {<<"browser", client>>}
  BY DEF LeftInv
<1>4. starts \in Nat
  BY DEF LifeInv, TypeOK, Handle
<1>5. QED BY <1>1, <1>2, <1>3, <1>4

\* Each step keeps what the last start allocated within reach of cleanup.
LEMMA LeftStep ==
  ASSUME LifeInv, LeftInv, [Next]_vars
  PROVE  LeftInv'
<1> USE LifecycleAssumption DEF members, library
<1> DEFINE Reach == Named \cup {<<"browser", client>>}
<1>0. /\ starts \in Nat
      /\ \A h \in live : h[2] \in Nat
      /\ TypeOK /\ LoopInv
  BY DEF LifeInv, TypeOK, Handle, Handles, Starts
<1>1. CASE StartPoll
  <2>1. /\ starts' = starts + 1 /\ poll' = starts + 1 /\ app' = "start"
        /\ app = "idle" /\ live' = live \cup {<<"poll", starts + 1>>}
    BY <1>1 DEF StartPoll
  <2>2. <<"poll", starts + 1>> \in Reach'
    BY <1>0, <2>1 DEF Named
  <2>3. \A h \in live : h[2] <= starts
    BY <2>1 DEF LeftInv
  <2>4. ASSUME NEW h \in live'
        PROVE  h[2] <= starts + 1 /\ (h[2] = starts + 1 => h \in Reach')
    <3>1. CASE h \in live
      BY <1>0, <2>3, <3>1
    <3>2. CASE h = <<"poll", starts + 1>>
      BY <1>0, <2>2, <3>2
    <3>3. QED BY <2>1, <3>1, <3>2
  <2>5. QED BY <2>1, <2>4 DEF LeftInv
<1>2. ASSUME starts' = starts, app # "destroyed", app' # "destroyed",
             NEW N, live' \subseteq live \cup N, \A h \in N : h[2] = starts,
             \A h \in live' : h[2] = starts => h \in Reach'
      PROVE  LeftInv'
  <2>1. \A h \in live' : h[2] <= starts
    BY <1>0, <1>2 DEF LeftInv
  <2>2. QED BY <1>2, <2>1 DEF LeftInv
<1>3. ASSUME UNCHANGED <<kind, client, poll, thelp, group, starts, live>>,
             app = "destroyed" <=> app' = "destroyed"
      PROVE  LeftInv'
  BY <1>3 DEF LeftInv, Named
<1>4. CASE ErrorOfNull \/ StartNoClient \/ StartClientFails
  BY <1>3, <1>4 DEF ErrorOfNull, StartNoClient, StartClientFails
<1>a. CASE StartNoPoll
  <2>1. CASE client = 0
    BY <1>4, <1>a, <2>1 DEF StartNoPoll
  <2>2. CASE client # 0
    <3>1. /\ starts' = starts + 1 /\ live' \subseteq live
          /\ app = "idle" /\ app' = "idle"
      BY <1>a, <2>2 DEF StartNoPoll, Free
    <3>2. \A h \in live : h[2] <= starts
      BY <3>1 DEF LeftInv
    <3>3. \A h \in live' : h[2] <= starts + 1 /\ h[2] # starts + 1
      BY <1>0, <3>1, <3>2
    <3>4. QED BY <3>1, <3>3 DEF LeftInv
  <2>3. QED BY <2>1, <2>2
<1>5. CASE UseAfterFree
  BY <1>3, <1>5 DEF UseAfterFree
<1>6. CASE (StartClient \/ RestartClientFails) /\ ~UseAfterFree
  <2>1. /\ app = "start" /\ app' = "client" /\ client' = starts
        /\ live' = live \cup {<<"client", starts>>}
        /\ UNCHANGED <<kind, poll, thelp, starts>>
    BY <1>6 DEF StartClient, RestartClientFails, CreateServiceFails
  <2>2. starts > 0 /\ starts # 0
    BY <1>0, <2>1 DEF LoopInv
  <2>3. <<"client", starts>> \in Reach'
    BY <2>1, <2>2 DEF Named
  <2>4. ASSUME NEW h \in live, h[2] = starts PROVE h \in Reach'
    <3>1. PICK w, n : h = <<w, n>>
      BY DEF LifeInv, TypeOK, Handles
    <3>2. h \in Reach
      BY <2>1, <2>4 DEF LeftInv
    <3>3. CASE h \in {<<"client", client>>, <<"browser", client>>}
      BY <2>1, <2>2, <2>4, <3>3 DEF Named
    <3>4. CASE h \in {<<"poll", poll>>, <<"thread", thelp>>}
      BY <2>1, <2>2, <2>4, <3>4 DEF Named
    <3>5. CASE h = <<"browser", group>>
      <4>1. h = <<"browser", client'>>
        BY <2>1, <2>4, <3>5
      <4>2. QED BY <4>1
    <3>6. QED BY <3>2, <3>3, <3>4, <3>5 DEF Named
  <2> DEFINE N == {<<"client", starts>>}
  <2>5. live' \subseteq live \cup N /\ \A h \in N : h[2] = starts /\ h \in Reach'
    BY <2>1, <2>3
  <2> HIDE DEF N, Reach
  <2>6. QED BY <1>2, <2>1, <2>4, <2>5
<1>7. CASE StartThread
  <2>1. /\ app = "client" /\ app' = "idle" /\ thelp' = starts
        /\ live' = live \cup {<<"thread", starts>>}
                     \cup (IF kind = "browse" THEN {<<"browser", starts>>} ELSE {})
        /\ UNCHANGED <<kind, client, poll, starts>>
    BY <1>7 DEF StartThread
  <2>2. starts > 0 /\ starts # 0 /\ client = starts
    BY <1>0, <2>1 DEF LoopInv
  <2>3. ASSUME NEW h \in live, h[2] = starts PROVE h \in Reach'
    <3>1. h \in Reach
      BY <2>1, <2>3 DEF LeftInv
    <3>2. CASE h \in {<<"client", client>>, <<"browser", client>>}
      BY <2>1, <2>2, <2>3, <3>2 DEF Named
    <3>3. CASE h \in {<<"poll", poll>>, <<"thread", thelp>>}
      BY <2>1, <2>2, <2>3, <3>3 DEF Named
    <3>4. CASE h = <<"browser", group>>
      BY <2>1, <2>2, <2>3, <3>4
    <3>5. QED BY <3>1, <3>2, <3>3, <3>4 DEF Named
  <2>4. <<"thread", starts>> \in Reach' /\ <<"browser", starts>> \in Reach'
    BY <2>1, <2>2 DEF Named
  <2> DEFINE N == {<<"thread", starts>>, <<"browser", starts>>}
  <2>5. live' \subseteq live \cup N /\ \A h \in N : h[2] = starts /\ h \in Reach'
    BY <2>1, <2>4
  <2> HIDE DEF N, Reach
  <2>6. QED BY <1>2, <2>1, <2>3, <2>5
<1>8. CASE StartNoBrowser
  <2>1. /\ app = "client" /\ app' = "idle" /\ starts' = starts
        /\ live' = live \ ((Named \ {<<"browser", group>>}) \cup {<<"browser", client>>})
    BY <1>8 DEF StartNoBrowser, Free
  <2>2. client = starts
    BY <1>0, <2>1 DEF LoopInv
  <2>3. \A h \in live : h[2] = starts => h \in Reach
    BY <2>1 DEF LeftInv
  <2>4. <<"browser", group>>[2] = starts => group = client
    BY <2>2
  <2>5. \A h \in live' : h[2] # starts
    BY <2>1, <2>3, <2>4
  <2>6. \A h \in live' : h[2] <= starts
    BY <2>1 DEF LeftInv
  <2>7. app' # "destroyed" /\ starts' = starts
    BY <2>1
  <2>8. QED BY <2>5, <2>6, <2>7 DEF LeftInv
<1>9. CASE ShutdownIdle
  <2>1. Cleanup /\ app = "idle" /\ app' = "idle" /\ starts' = starts
    BY <1>9 DEF ShutdownIdle
  <2>2. (\A h \in live' : h[2] < starts) /\ live' \subseteq live
    BY <2>1, CleanupLeft DEF Cleanup, Free
  <2>3. \A h \in live' : h[2] <= starts /\ h[2] # starts
    BY <1>0, <2>2
  <2>4. QED BY <2>1, <2>3 DEF LeftInv
<1>10. CASE Destroy
  BY <1>10, CleanupLeft DEF Destroy, LeftInv
<1>11. CASE ShutdownQuit \/ ShutdownJoin
  BY <1>3, <1>11 DEF ShutdownQuit, ShutdownJoin
<1>12. ASSUME NEW n \in Starts, loop[n] = "run", ~Freed(n)
       PROVE  app # "destroyed" /\ client = n
  BY <1>0, <1>12 DEF LoopInv, Freed
<1>13. ASSUME kind = "announce", app # "destroyed",
              UNCHANGED <<kind, app, client, poll, thelp, starts, live>>
       PROVE  LeftInv'
  BY <1>13 DEF LeftInv, Named
<1>14. ASSUME NEW n \in Starts, LoopEnds(n) PROVE LeftInv'
  BY <1>3, <1>14 DEF LoopEnds
<1>15. kind = "browse" => kind # "announce" /\ \A n \in Starts : entries[n] # "committed"
  BY <1>0 DEF LoopInv
<1>16. kind = "browse" \/ kind = "announce"
  BY <1>0 DEF TypeOK
<1>17. ASSUME NEW n \in Starts, LoopClientState(n), ~UseAfterFree PROVE LeftInv'
  <2>1. PICK s \in {"running", "registering"} :
          /\ ~Freed(n) /\ loop[n] = "run" /\ ClientState(n, s) /\ client' = n
          /\ UNCHANGED <<kind, poll, thelp, app, starts, live>>
    BY <1>17 DEF LoopClientState, Polls
  <2>2. app # "destroyed" /\ client' = client
    BY <1>12, <2>1
  <2>3. kind = "browse" => group' = group
    BY <2>1 DEF ClientState
  <2>4. QED BY <1>3, <1>13, <1>16, <2>1, <2>2, <2>3
<1>18. ASSUME NEW n \in Starts, LoopEstablished(n), ~UseAfterFree PROVE LeftInv'
  <2>1. /\ ~Freed(n) /\ loop[n] = "run" /\ entries[n] = "committed"
        /\ UNCHANGED <<kind, client, poll, thelp, app, starts, live>>
    BY <1>18 DEF LoopEstablished, Polls
  <2>2. app # "destroyed" /\ kind = "announce"
    BY <1>12, <1>15, <1>16, <2>1
  <2>3. QED BY <1>13, <2>1, <2>2
<1>19. ASSUME NEW n \in Starts, LoopFails(n), ~UseAfterFree PROVE LeftInv'
  <2>1. /\ ~Freed(n) /\ loop[n] = "run"
        /\ UNCHANGED <<kind, poll, thelp, app, starts, live>>
        /\ \/ client' = n /\ UNCHANGED <<group, entries>>
           \/ GroupFails(n)
           \/ CreateServiceFails(n)
    BY <1>19 DEF LoopFails, Polls
  <2>2. app # "destroyed" /\ client = n
    BY <1>12, <2>1
  <2>3. client' = client
    BY <2>1, <2>2 DEF GroupFails, CreateServiceFails
  <2>4. kind # "announce" => group' = group
    BY <2>1 DEF GroupFails, CreateServiceFails
  <2>5. QED BY <1>3, <1>13, <2>1, <2>2, <2>3, <2>4
<1>20. CASE UNCHANGED vars
  BY <1>3, <1>20 DEF vars
<1>21. QED
  BY <1>1, <1>4, <1>5, <1>6, <1>7, <1>8, <1>9, <1>10, <1>11, <1>14, <1>17, <1>18,
     <1>19, <1>20, <1>a DEF Next

\* The destructor frees everything the last start has allocated, wherever that start
\* got to; what earlier starts allocated is lost.
THEOREM LastStartFreed == Spec => []NothingLeftBehind
<1>1. Init => LeftInv
  BY DEF Init, LeftInv
<1>2. LifeInv /\ LeftInv /\ [Next]_vars => LeftInv'
  BY LeftStep
<1>3. LeftInv => NothingLeftBehind
  BY DEF LeftInv, NothingLeftBehind
<1>4. QED BY <1>1, <1>2, <1>3, LifeInvariant, PTL DEF Spec
================================================================================
