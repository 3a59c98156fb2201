-------------------------- MODULE VsCodeServersProofs --------------------------
(***************************************************************************)
(* Proofs about VsCodeServers, for any number of folders, processes and    *)
(* launches and any ceiling.                                               *)
(***************************************************************************)
EXTENDS VsCodeServers, FiniteSetTheorems, TLAPS

(* Only the startup that holds the lock has passed it. *)
Locked ==
  \A k \in Folders :
    startups[k].at \notin {"none", "waiting"} => HoldsLock(k)

Reuses(k) == startups[k].at \in {"reuse", "reseeding"}

(* What a startup knows while it awaits its port, or the server it would   *)
(* use again.                                                              *)
Prepared ==
  \A k \in Folders :
    /\ At(k, "port") => servers[k] = None /\ Cardinality(Listed) < MaxOwned
    /\ Reuses(k) => servers[k] \in {None, startups[k].proc}

(* A process that was spawned has its folder and a launch that was. *)
Born ==
  \A p \in Procs : procs[p].state # "unborn" => procs[p].folder \in Folders /\ procs[p].app <= app

(* An app that is down has no timer and no startup. *)
Forgotten == ~running => timers = {} /\ \A k \in Folders : At(k, "none")

(* A server of the last launch has its lease, unless it was erased or      *)
(* never written; one that outlived a later launch had none.               *)
Leased ==
  \A p \in Procs : procs[p].state = "live" =>
    /\ procs[p].app = app => leases[procs[p].folder] = p \/ p \in erased \cup unleased
    /\ procs[p].app < app => p \in erased \cup unleased

LEMMA InitType == Init => TypeOK
  BY BoundsAreNaturals DEF Init, TypeOK, Unborn, NoStartup, Proc, Startup, Procs

(* What Settles, Moves and Begins make of the startups and the queue. *)
LEMMA SettlesTyped ==
  ASSUME TypeOK, NEW k \in Folders, queue # <<>>, Settles(k)
  PROVE  startups' \in [Folders -> Startup] /\ queue' \in Seq(Folders)
  BY DEF TypeOK, Settles, NoStartup, Startup

LEMMA MovesTyped ==
  ASSUME TypeOK, NEW k \in Folders, NEW p \in Procs \cup {None},
         NEW point \in {"reuse", "reseeding", "port", "starting", "seeding"}, Moves(k, point, p)
  PROVE  startups' \in [Folders -> Startup] /\ queue' \in Seq(Folders)
  BY DEF TypeOK, Moves, Startup

LEMMA BeginsTyped ==
  ASSUME TypeOK, NEW k \in Folders, queue # <<>>, NEW listed, Begins(k, listed)
  PROVE  startups' \in [Folders -> Startup] /\ queue' \in Seq(Folders)
  BY SettlesTyped, MovesTyped DEF Begins

LEMMA StopTyped ==
  ASSUME TypeOK, NEW p
  PROVE  Stop(p) \in [Procs -> Proc]
<1>1. CASE p \in Procs
  BY <1>1 DEF TypeOK, Stop, Proc
<1>2. CASE p \notin Procs
  BY <1>2 DEF TypeOK, Stop
<1> QED BY <1>1, <1>2

LEMMA StopFacts ==
  ASSUME TypeOK, NEW p, procs' = Stop(p), NEW q \in Procs
  PROVE  /\ procs'[q].folder = procs[q].folder /\ procs'[q].app = procs[q].app
         /\ procs'[q].state # "unborn" => procs[q].state # "unborn"
         /\ procs'[q].state = "live" => procs[q].state = "live" /\ q # p
  BY DEF TypeOK, Stop, Proc

(* A startup that has passed the lock holds it. *)
LEMMA Holds ==
  ASSUME Locked, NEW k \in Folders, ~At(k, "none"), ~At(k, "waiting")
  PROVE  HoldsLock(k) /\ queue # <<>>
  BY DEF Locked, At, HoldsLock

LEMMA StepTyped == TypeOK /\ Locked /\ Born /\ [Next]_vars => TypeOK'
<1> SUFFICES ASSUME TypeOK, Locked, Born, [Next]_vars PROVE TypeOK'
  OBVIOUS
<1> USE DEF memory
<1>1. ASSUME NEW k \in Folders, Mount(k) PROVE TypeOK'
  <2>1. CASE At(k, "none")
    <3>1. [at |-> "waiting", proc |-> None] \in Startup
      BY DEF Startup
    <3>2. startups' = [startups EXCEPT ![k] = [at |-> "waiting", proc |-> None]]
      BY <1>1, <2>1 DEF Mount, Ensure
    <3>3. startups' \in [Folders -> Startup]
      BY <3>1, <3>2 DEF TypeOK
    <3>4. queue' \in Seq(Folders)
      BY <1>1, <2>1 DEF Mount, Ensure, TypeOK
    <3> QED BY <1>1, <2>1, <3>3, <3>4 DEF TypeOK, Mount, Ensure
  <2>2. CASE ~At(k, "none")
    BY <1>1, <2>2 DEF TypeOK, Mount, Ensure
  <2> QED BY <2>1, <2>2
<1>2. ASSUME NEW k \in Folders, Unmount(k) PROVE TypeOK'
  BY <1>2 DEF TypeOK, Unmount
<1>3. ASSUME NEW k \in Folders, TimerFires(k) PROVE TypeOK'
  BY <1>3, StopTyped DEF TypeOK, TimerFires
<1>4. ASSUME NEW k \in Folders, StartServer(k) PROVE TypeOK'
  <2>1. servers[k] \in Procs \cup {None} /\ queue # <<>>
    BY <1>4 DEF TypeOK, StartServer, HoldsLock
  <2>2. startups' \in [Folders -> Startup] /\ queue' \in Seq(Folders)
    BY <1>4, <2>1, MovesTyped, BeginsTyped DEF StartServer, Probes
  <2>3. servers' \in [Folders -> Procs \cup {None}]
    BY <1>4 DEF TypeOK, StartServer, Probes
  <2> QED BY <1>4, <2>2, <2>3 DEF TypeOK, StartServer
<1>17. ASSUME NEW k \in Folders, ReuseAnswers(k) PROVE TypeOK'
  <2>1. startups[k].proc \in Procs \cup {None}
    BY DEF TypeOK, Startup
  <2> QED BY <1>17, <2>1, MovesTyped DEF TypeOK, ReuseAnswers
<1>5. ASSUME NEW k \in Folders, ReuseServes(k) PROVE TypeOK'
  <2>1. queue # <<>>
    BY <1>5, Holds DEF ReuseServes, At
  <2> QED BY <1>5, <2>1, SettlesTyped DEF TypeOK, ReuseServes
<1>6. ASSUME NEW k \in Folders, ReuseFails(k) PROVE TypeOK'
  <2>1. queue # <<>>
    BY <1>6, Holds DEF ReuseFails, At
  <2> QED BY <1>6, <2>1, BeginsTyped, StopTyped DEF TypeOK, ReuseFails
<1>7. ASSUME NEW k \in Folders, NothingSpawned(k) PROVE TypeOK'
  <2>1. queue # <<>>
    BY <1>7, Holds DEF NothingSpawned, At, HoldsLock
  <2> QED BY <1>7, <2>1, SettlesTyped DEF TypeOK, NothingSpawned
<1>8. ASSUME NEW k \in Folders, Spawn(k) PROVE TypeOK'
  <2>1. PICK p \in Procs :
          /\ procs' = [procs EXCEPT ![p] = [state |-> "live", folder |-> k, app |-> app]]
          /\ servers' = [servers EXCEPT ![k] = p]
          /\ leases' = [leases EXCEPT ![k] = p]
          /\ Moves(k, "starting", p)
    BY <1>8 DEF Spawn, Spawned
  <2>2. startups' \in [Folders -> Startup] /\ queue' \in Seq(Folders)
    BY <2>1, MovesTyped
  <2> QED BY <1>8, <2>1, <2>2 DEF TypeOK, Spawn, Proc
<1>18. ASSUME NEW k \in Folders, LeaseFails(k) PROVE TypeOK'
  <2>1. PICK p \in Procs :
          /\ procs' = [procs EXCEPT ![p] = [state |-> "live", folder |-> k, app |-> app]]
          /\ servers' = [servers EXCEPT ![k] = p]
          /\ unleased' = unleased \cup {p}
          /\ Settles(k)
    BY <1>18 DEF LeaseFails, Spawned
  <2>2. queue # <<>>
    BY <1>18, Holds DEF LeaseFails, Spawned, At
  <2>3. startups' \in [Folders -> Startup] /\ queue' \in Seq(Folders)
    BY <2>1, <2>2, SettlesTyped
  <2> QED BY <1>18, <2>1, <2>3 DEF TypeOK, LeaseFails, Proc
<1>19. ASSUME NEW k \in Folders, DownSpawning(k) PROVE TypeOK'
  <2>1. PICK p \in Procs :
          /\ procs' = [procs EXCEPT ![p] = [state |-> "live", folder |-> k, app |-> app]]
          /\ unleased' = unleased \cup {p}
          /\ Forgets /\ running' = FALSE /\ UNCHANGED <<leases, app, erased>>
    BY <1>19 DEF DownSpawning, Spawned
  <2>2. NoStartup \in Startup
    BY DEF NoStartup, Startup
  <2>3. servers' \in [Folders -> Procs \cup {None}] /\ startups' \in [Folders -> Startup]
    BY <2>1, <2>2 DEF Forgets
  <2>4. procs' \in [Procs -> Proc]
    BY <2>1 DEF TypeOK, Proc
  <2>5. unleased' \subseteq Procs /\ erased' \subseteq Procs
    BY <2>1 DEF TypeOK
  <2>6. queue' \in Seq(Folders) /\ panel' \subseteq Folders /\ timers' \subseteq Folders
    BY <2>1 DEF Forgets
  <2> QED BY <2>1, <2>3, <2>4, <2>5, <2>6 DEF TypeOK
<1>9. ASSUME NEW k \in Folders, Answers(k) PROVE TypeOK'
  <2>1. startups[k].proc \in Procs \cup {None}
    BY DEF TypeOK, Startup
  <2> QED BY <1>9, <2>1, MovesTyped DEF TypeOK, Answers
<1>10. ASSUME NEW k \in Folders, StartupServes(k) PROVE TypeOK'
  <2>1. queue # <<>>
    BY <1>10, Holds DEF StartupServes, At
  <2> QED BY <1>10, <2>1, SettlesTyped DEF TypeOK, StartupServes
<1>11. ASSUME NEW k \in Folders, StartupFails(k) PROVE TypeOK'
  <2>1. queue # <<>>
    BY <1>11, Holds DEF StartupFails, At
  <2>2. startups' \in [Folders -> Startup] /\ queue' \in Seq(Folders)
    BY <1>11, <2>1, SettlesTyped DEF StartupFails
  <2> QED BY <1>11, <2>2, StopTyped DEF TypeOK, StartupFails
<1>12. ASSUME NEW p \in Procs, Exit(p) PROVE TypeOK'
  <2>1. procs' \in [Procs -> Proc]
    BY <1>12 DEF TypeOK, Exit, Proc
  <2>2. servers' \in [Folders -> Procs \cup {None}] /\ leases' \in [Folders -> Procs \cup {None}]
    BY <1>12 DEF TypeOK, Exit
  <2>3. erased' \subseteq Procs
    <3>1. procs[p].folder \in Folders
      BY <1>12 DEF Exit, Born
    <3>2. leases[procs[p].folder] \in Procs \cup {None}
      BY <3>1 DEF TypeOK
    <3>3. erased' \subseteq erased \cup ({leases[procs[p].folder]} \ {p, None})
      BY <1>12 DEF Exit
    <3> QED BY <3>2, <3>3 DEF TypeOK
  <2> QED BY <1>12, <2>1, <2>2, <2>3 DEF TypeOK, Exit
<1>13. ASSUME KillAll PROVE TypeOK'
  <2>1. procs' \in [Procs -> Proc]
    BY <1>13 DEF TypeOK, KillAll, Proc
  <2> QED BY <1>13, <2>1 DEF TypeOK, KillAll
<1>14. ASSUME Down PROVE TypeOK'
  <2>1. NoStartup \in Startup
    BY DEF NoStartup, Startup
  <2>2. servers' \in [Folders -> Procs \cup {None}] /\ startups' \in [Folders -> Startup]
    BY <1>14, <2>1 DEF Down, Forgets
  <2>3. queue' \in Seq(Folders)
    BY <1>14 DEF Down, Forgets
  <2> QED BY <1>14, <2>2, <2>3 DEF TypeOK, Down, Forgets
<1>15. ASSUME Launch PROVE TypeOK'
  <2>1. procs' \in [Procs -> Proc]
    BY <1>15 DEF TypeOK, Launch, Proc
  <2> QED BY <1>15, <2>1, BoundsAreNaturals DEF TypeOK, Launch
<1>16. ASSUME UNCHANGED vars PROVE TypeOK'
  BY <1>16 DEF TypeOK, vars
<1> QED
  BY <1>1, <1>2, <1>3, <1>4, <1>5, <1>6, <1>7, <1>8, <1>9, <1>10, <1>11, <1>12, <1>13, <1>14,
     <1>15, <1>16, <1>17, <1>18, <1>19 DEF Next, StartupStep

(* Another folder's startup is left alone by the steps of a folder.        *)
LEMMA OthersStay ==
  ASSUME TypeOK, NEW k \in Folders, Mount(k) \/ Unmount(k) \/ TimerFires(k) \/ StartupStep(k),
         NEW j \in Folders, j # k
  PROVE  startups'[j] = startups[j] /\ servers'[j] = servers[j] /\ leases'[j] = leases[j]
<1>1. CASE Mount(k)
  BY <1>1 DEF TypeOK, Mount, Ensure
<1>2. CASE Unmount(k)
  BY <1>2 DEF Unmount
<1>3. CASE TimerFires(k)
  BY <1>3 DEF TypeOK, TimerFires
<1>4. CASE StartServer(k)
  BY <1>4 DEF TypeOK, StartServer, Probes, Begins, Moves, Settles
<1>12. CASE ReuseAnswers(k)
  BY <1>12 DEF TypeOK, ReuseAnswers, Moves
<1>13. CASE LeaseFails(k)
  BY <1>13 DEF TypeOK, LeaseFails, Settles
<1>5. CASE ReuseServes(k)
  BY <1>5 DEF TypeOK, ReuseServes, Settles
<1>6. CASE ReuseFails(k)
  BY <1>6 DEF TypeOK, ReuseFails, Begins, Moves, Settles
<1>7. CASE NothingSpawned(k)
  BY <1>7 DEF TypeOK, NothingSpawned, Settles
<1>8. CASE Spawn(k)
  BY <1>8 DEF TypeOK, Spawn, Moves
<1>9. CASE Answers(k)
  BY <1>9 DEF TypeOK, Answers, Moves
<1>10. CASE StartupServes(k)
  BY <1>10 DEF TypeOK, StartupServes, Settles
<1>11. CASE StartupFails(k)
  BY <1>11 DEF TypeOK, StartupFails, Settles
<1> QED
  BY <1>1, <1>2, <1>3, <1>4, <1>5, <1>6, <1>7, <1>8, <1>9, <1>10, <1>11, <1>12, <1>13
     DEF StartupStep

(* A step of a startup is taken by the one that holds the lock, and leaves *)
(* it waiting for nothing, or with the lock.                               *)
LEMMA StartupStepLocks ==
  ASSUME TypeOK, Locked, NEW k \in Folders, StartupStep(k)
  PROVE  /\ HoldsLock(k)
         /\ At(k, "none")' \/ queue' = queue
<1> USE DEF At, HoldsLock
<1>1. CASE StartServer(k)
  BY <1>1 DEF TypeOK, StartServer, Probes, Begins, Moves, Settles, NoStartup
<1>9. CASE ReuseAnswers(k)
  BY <1>9, Holds DEF TypeOK, ReuseAnswers, Moves
<1>10. CASE LeaseFails(k)
  BY <1>10, Holds DEF TypeOK, LeaseFails, Spawned, Settles, NoStartup
<1>2. CASE ReuseServes(k)
  BY <1>2, Holds DEF TypeOK, ReuseServes, Settles, NoStartup
<1>3. CASE ReuseFails(k)
  BY <1>3, Holds DEF TypeOK, ReuseFails, Begins, Moves, Settles, NoStartup
<1>4. CASE NothingSpawned(k)
  BY <1>4, Holds DEF TypeOK, NothingSpawned, Settles, NoStartup
<1>5. CASE Spawn(k)
  BY <1>5, Holds DEF TypeOK, Spawn, Spawned, Moves
<1>6. CASE Answers(k)
  BY <1>6, Holds DEF TypeOK, Answers, Moves
<1>7. CASE StartupServes(k)
  BY <1>7, Holds DEF TypeOK, StartupServes, Settles, NoStartup
<1>8. CASE StartupFails(k)
  BY <1>8, Holds DEF TypeOK, StartupFails, Settles, NoStartup
<1> QED
  BY <1>1, <1>2, <1>3, <1>4, <1>5, <1>6, <1>7, <1>8, <1>9, <1>10 DEF StartupStep

LEMMA StepLocked == TypeOK /\ Locked /\ [Next]_vars => Locked'
<1> SUFFICES ASSUME TypeOK, Locked, [Next]_vars, NEW j \in Folders,
                    startups'[j].at \notin {"none", "waiting"}
             PROVE  HoldsLock(j)'
  BY DEF Locked
<1>1. ASSUME NEW k \in Folders, Mount(k) PROVE HoldsLock(j)'
  <2>1. startups'[j].at = startups[j].at \/ startups'[j].at = "waiting"
    BY <1>1 DEF TypeOK, Mount, Ensure
  <2>2. HoldsLock(j)
    BY <2>1 DEF Locked
  <2>3. queue' = queue \/ queue' = Append(queue, k)
    BY <1>1 DEF Mount, Ensure
  <2> QED BY <2>2, <2>3 DEF TypeOK, HoldsLock
<1>2. ASSUME NEW k \in Folders, Unmount(k) \/ TimerFires(k) PROVE HoldsLock(j)'
  BY <1>2 DEF Unmount, TimerFires, Locked, HoldsLock
<1>3. ASSUME NEW k \in Folders, StartupStep(k) PROVE HoldsLock(j)'
  <2>1. CASE j = k
    BY <1>3, <2>1, StartupStepLocks DEF HoldsLock, At
  <2>2. CASE j # k
    <3>1. HoldsLock(j)
      BY <1>3, <2>2, OthersStay DEF Locked
    <3> QED BY <1>3, <2>2, <3>1, StartupStepLocks DEF HoldsLock
  <2> QED BY <2>1, <2>2
<1>4. ASSUME NEW p \in Procs, Exit(p) PROVE HoldsLock(j)'
  BY <1>4 DEF Exit, Locked, HoldsLock
<1>5. CASE KillAll
  BY <1>5 DEF KillAll, Locked, HoldsLock
<1>6. CASE Down \/ \E k \in Folders : DownSpawning(k)
  BY <1>6 DEF Down, DownSpawning, Forgets, NoStartup
<1>7. CASE Launch
  BY <1>7 DEF Launch, memory, Locked, HoldsLock
<1>8. CASE UNCHANGED vars
  BY <1>8 DEF vars, memory, Locked, HoldsLock
<1> QED BY <1>1, <1>2, <1>3, <1>4, <1>5, <1>6, <1>7, <1>8 DEF Next

LEMMA FewerListed ==
  ASSUME NEW S \in SUBSET Folders, NEW T \in SUBSET S
  PROVE  /\ IsFiniteSet(S) /\ Cardinality(S) \in Nat /\ Cardinality(T) \in Nat
         /\ Cardinality(T) <= Cardinality(S)
<1>1. IsFiniteSet(S)
  BY FoldersAreFinite, FS_Subset
<1> QED BY <1>1, FS_Subset, FS_CardinalityType

(* The steps that list a process. *)
Lists(k) == Spawn(k) \/ LeaseFails(k)

(* No other step adds to the list. *)
LEMMA OnlySpawnLists ==
  ASSUME TypeOK, Next, \A k \in Folders : ~Lists(k)
  PROVE  \A j \in Folders : servers'[j] \in {None, servers[j]}
<1> SUFFICES ASSUME NEW j \in Folders PROVE servers'[j] \in {None, servers[j]}
  OBVIOUS
<1>1. ASSUME NEW k \in Folders, Mount(k) \/ Unmount(k) PROVE servers' = servers
  BY <1>1 DEF Mount, Unmount
<1>2. ASSUME NEW k \in Folders, TimerFires(k) PROVE servers'[j] \in {None, servers[j]}
  BY <1>2 DEF TypeOK, TimerFires
<1>3. ASSUME NEW k \in Folders, StartupStep(k) PROVE servers'[j] \in {None, servers[j]}
  BY <1>3 DEF TypeOK, Lists, StartupStep, StartServer, Probes, ReuseAnswers, ReuseServes, ReuseFails,
     NothingSpawned, Answers, StartupServes, StartupFails
<1>4. ASSUME NEW p \in Procs, Exit(p) PROVE servers'[j] \in {None, servers[j]}
  BY <1>4 DEF TypeOK, Exit
<1>5. CASE KillAll \/ Down \/ Launch \/ \E k \in Folders : DownSpawning(k)
  BY <1>5 DEF KillAll, Down, DownSpawning, Forgets, Launch, memory
<1> QED BY <1>1, <1>2, <1>3, <1>4, <1>5 DEF Next

(* Neither do they move the startup of a folder to its port or to a reuse, *)
(* but its own first steps.                                                *)
LEMMA StepPrepared ==
  TypeOK /\ Locked /\ Prepared /\ CeilingHolds /\ [Next]_vars => Prepared' /\ CeilingHolds'
<1> SUFFICES ASSUME TypeOK, Locked, Prepared, CeilingHolds, [Next]_vars
             PROVE  Prepared' /\ CeilingHolds'
  OBVIOUS
<1>1. CASE UNCHANGED vars
  BY <1>1 DEF vars, memory, Prepared, CeilingHolds, Listed, At, Reuses
<1>2. ASSUME NEW k \in Folders, Lists(k) PROVE Prepared' /\ CeilingHolds'
  <2>1. PICK p \in Procs :
          /\ At(k, "port")
          /\ servers' = [servers EXCEPT ![k] = p]
          /\ \/ startups' = [startups EXCEPT ![k] = [at |-> "starting", proc |-> p]]
             \/ startups' = [startups EXCEPT ![k] = NoStartup]
    BY <1>2 DEF Lists, Spawn, LeaseFails, Spawned, Moves, Settles
  <2>2. servers[k] = None /\ Cardinality(Listed) < MaxOwned
    BY <2>1 DEF Prepared
  <2>3. Listed' = Listed \cup {k}
    BY <2>1, NoneIsNoProcess DEF Listed, TypeOK, Procs
  <2>4. IsFiniteSet(Listed) /\ Cardinality(Listed) \in Nat /\ k \notin Listed
    BY <2>2, FewerListed DEF Listed
  <2>5. Cardinality(Listed') = Cardinality(Listed) + 1
    BY <2>3, <2>4, FS_AddElement
  <2>6. CeilingHolds'
    BY <2>2, <2>4, <2>5, BoundsAreNaturals DEF CeilingHolds
  <2>7. ASSUME NEW j \in Folders
        PROVE  /\ At(j, "port")' => servers'[j] = None /\ Cardinality(Listed') < MaxOwned
               /\ Reuses(j)' => servers'[j] \in {None, startups'[j].proc}
    <3>1. CASE j = k
      BY <2>1, <3>1 DEF At, Reuses, NoStartup, TypeOK
    <3>2. CASE j # k
      <4>1. startups'[j] = startups[j]
        BY <2>1, <3>2 DEF TypeOK
      <4>2. ~At(j, "port") /\ ~Reuses(j)
        BY <2>1, <3>2 DEF Locked, At, Reuses, HoldsLock
      <4> QED BY <4>1, <4>2 DEF At, Reuses
    <3> QED BY <3>1, <3>2
  <2> QED BY <2>6, <2>7 DEF Prepared
<1>3. ASSUME Next, \A k \in Folders : ~Lists(k) PROVE Prepared' /\ CeilingHolds'
  <2>1. \A j \in Folders : servers'[j] \in {None, servers[j]}
    BY <1>3, OnlySpawnLists
  <2>2. Listed' \subseteq Listed /\ Listed \subseteq Folders
    BY <2>1 DEF Listed
  <2>3. /\ Cardinality(Listed) \in Nat /\ Cardinality(Listed') \in Nat
        /\ Cardinality(Listed') <= Cardinality(Listed)
    BY <2>2, FewerListed
  <2>4. CeilingHolds'
    BY <2>3, BoundsAreNaturals DEF CeilingHolds
  <2>5. ASSUME NEW j \in Folders, startups'[j] = startups[j]
        PROVE  /\ At(j, "port")' => servers'[j] = None /\ Cardinality(Listed') < MaxOwned
               /\ Reuses(j)' => servers'[j] \in {None, startups'[j].proc}
    BY <2>1, <2>3, <2>5, BoundsAreNaturals DEF Prepared, At, Reuses
  <2>6. ASSUME NEW k \in Folders, Mount(k) \/ Unmount(k) \/ TimerFires(k) \/ StartupStep(k),
               (~At(k, "port")' /\ ~Reuses(k)') \/ startups'[k] = startups[k]
        PROVE  Prepared'
    <3>1. SUFFICES ASSUME NEW j \in Folders
                   PROVE /\ At(j, "port")' => servers'[j] = None /\ Cardinality(Listed') < MaxOwned
                         /\ Reuses(j)' => servers'[j] \in {None, startups'[j].proc}
      BY DEF Prepared
    <3>2. CASE startups'[j] = startups[j]
      BY <2>5, <3>2
    <3>3. CASE startups'[j] # startups[j]
      <4>1. j = k
        BY <2>6, <3>3, OthersStay
      <4> QED BY <2>6, <3>3, <4>1
    <3> QED BY <3>2, <3>3
  <2>7. ASSUME NEW k \in Folders, Mount(k) \/ Unmount(k) \/ TimerFires(k)
        PROVE  Prepared'
    <3>1. (~At(k, "port")' /\ ~Reuses(k)') \/ startups'[k] = startups[k]
      BY <2>7 DEF TypeOK, Mount, Ensure, Unmount, TimerFires, At, Reuses
    <3> QED BY <2>6, <2>7, <3>1
  <2>8. ASSUME NEW k \in Folders,
               \/ ReuseServes(k) \/ NothingSpawned(k) \/ Answers(k) \/ StartupServes(k)
               \/ StartupFails(k)
        PROVE  Prepared'
    <3>1. ~At(k, "port")' /\ ~Reuses(k)'
      BY <2>8 DEF TypeOK, ReuseServes, NothingSpawned, Answers, StartupServes, StartupFails,
         Settles, Moves, NoStartup, At, Reuses
    <3> QED BY <2>6, <2>8, <3>1 DEF StartupStep
  <2>9. ASSUME NEW k \in Folders, StartServer(k) \/ ReuseFails(k) \/ ReuseAnswers(k)
        PROVE  Prepared'
    <3>1. SUFFICES ASSUME NEW j \in Folders
                   PROVE /\ At(j, "port")' => servers'[j] = None /\ Cardinality(Listed') < MaxOwned
                         /\ Reuses(j)' => servers'[j] \in {None, startups'[j].proc}
      BY DEF Prepared
    <3>2. CASE j # k
      BY <2>5, <2>9, <3>2, OthersStay DEF StartupStep
    <3>3. CASE j = k /\ StartServer(k)
      <4>1. CASE Moves(k, "reuse", servers[k]) /\ UNCHANGED servers
        BY <3>3, <4>1 DEF TypeOK, Moves, At, Reuses
      <4>2. CASE Begins(k, Listed \ {k}) /\ servers' = [servers EXCEPT ![k] = None]
        <5>1. servers'[k] = None /\ Listed' = Listed \ {k}
          BY <4>2, NoneIsNoProcess DEF TypeOK, Listed
        <5>2. ~Reuses(k)' /\ (At(k, "port")' => ~(Cardinality(Listed') >= MaxOwned))
          BY <4>2, <5>1 DEF TypeOK, Begins, Settles, Moves, NoStartup, At, Reuses
        <5> QED BY <2>3, <3>3, <5>1, <5>2, BoundsAreNaturals
      <4> QED BY <3>3, <4>1, <4>2 DEF StartServer, Probes
    <3>4. CASE j = k /\ ReuseFails(k)
      <4>1. servers'[k] = None /\ Listed' = Listed \ {k}
        BY <3>4, NoneIsNoProcess DEF TypeOK, ReuseFails, Listed
      <4>2. Begins(k, Listed \ {k})
        BY <3>4 DEF ReuseFails
      <4>3. ~Reuses(k)' /\ (At(k, "port")' => ~(Cardinality(Listed') >= MaxOwned))
        BY <4>1, <4>2 DEF TypeOK, Begins, Settles, Moves, NoStartup, At, Reuses
      <4> QED BY <2>3, <3>4, <4>1, <4>3, BoundsAreNaturals
    <3>5. CASE j = k /\ ReuseAnswers(k)
      BY <2>1, <3>5 DEF ReuseAnswers, Moves, TypeOK, Prepared, At, Reuses
    <3> QED BY <2>9, <3>2, <3>3, <3>4, <3>5
  <2>10. ASSUME startups' = startups PROVE Prepared'
    BY <2>5, <2>10 DEF Prepared
  <2>11. ASSUME Down \/ \E k \in Folders : DownSpawning(k) PROVE Prepared'
    BY <2>11 DEF Down, DownSpawning, Forgets, NoStartup, Prepared, At, Reuses
  <2>12. ASSUME KillAll \/ Launch \/ \E p \in Procs : Exit(p) PROVE Prepared'
    BY <2>10, <2>12 DEF KillAll, Launch, Exit, memory
  <2> QED BY <1>3, <2>4, <2>7, <2>8, <2>9, <2>11, <2>12 DEF Next, StartupStep, Lists
<1> QED BY <1>1, <1>2, <1>3

(* No stop is scheduled under a mounted panel. *)
LEMMA StepNoStop == NoStopUnderPanel /\ [Next]_vars => NoStopUnderPanel'
<1> SUFFICES ASSUME NoStopUnderPanel, [Next]_vars PROVE NoStopUnderPanel'
  OBVIOUS
<1> USE DEF NoStopUnderPanel
<1>1. ASSUME NEW k \in Folders, Mount(k) PROVE NoStopUnderPanel'
  BY <1>1 DEF Mount, Ensure
<1>2. ASSUME NEW k \in Folders, Unmount(k) PROVE NoStopUnderPanel'
  BY <1>2 DEF Unmount
<1>3. ASSUME NEW k \in Folders, TimerFires(k) PROVE NoStopUnderPanel'
  BY <1>3 DEF TimerFires
<1>4. ASSUME NEW k \in Folders, StartupStep(k) PROVE panel' = panel /\ timers' = timers
  BY <1>4 DEF StartupStep, StartServer, ReuseAnswers, ReuseServes, ReuseFails, NothingSpawned, Spawn,
     LeaseFails, Answers, StartupServes, StartupFails
<1>5. ASSUME NEW p \in Procs, Exit(p) PROVE NoStopUnderPanel'
  BY <1>5 DEF Exit
<1>6. CASE KillAll \/ Down \/ (\E k \in Folders : DownSpawning(k)) \/ Launch \/ UNCHANGED vars
  BY <1>6 DEF KillAll, Down, DownSpawning, Forgets, Launch, vars, memory
<1> QED BY <1>1, <1>2, <1>3, <1>4, <1>5, <1>6 DEF Next

LEMMA StepForgotten == TypeOK /\ Forgotten /\ [Next]_vars => Forgotten'
<1> SUFFICES ASSUME TypeOK, Forgotten, [Next]_vars PROVE Forgotten'
  OBVIOUS
<1> USE DEF Forgotten, At
<1>1. ASSUME NEW k \in Folders, Mount(k) \/ Unmount(k) PROVE Forgotten'
  BY <1>1 DEF Mount, Unmount
<1>2. ASSUME NEW k \in Folders, TimerFires(k) PROVE Forgotten'
  <2>1. running
    BY <1>2 DEF TimerFires
  <2> QED BY <1>2, <2>1 DEF TimerFires
<1>3. ASSUME NEW k \in Folders, StartupStep(k) PROVE Forgotten'
  <2>1. ~At(k, "none")
    BY <1>3 DEF StartupStep, StartServer, ReuseAnswers, ReuseServes, ReuseFails, NothingSpawned, Spawn,
       LeaseFails, Spawned, Answers, StartupServes, StartupFails
  <2>2. running
    BY <2>1
  <2>3. running' = running
    BY <1>3 DEF StartupStep, StartServer, ReuseAnswers, ReuseServes, ReuseFails, NothingSpawned, Spawn,
       LeaseFails, Spawned, Answers, StartupServes, StartupFails
  <2> QED BY <2>2, <2>3
<1>4. ASSUME NEW p \in Procs, Exit(p) PROVE Forgotten'
  BY <1>4 DEF Exit
<1>5. CASE Down \/ \E k \in Folders : DownSpawning(k)
  BY <1>5 DEF Down, DownSpawning, Forgets, NoStartup
<1>6. CASE KillAll \/ Launch \/ UNCHANGED vars
  BY <1>6 DEF KillAll, Launch, vars, memory
<1> QED BY <1>1, <1>2, <1>3, <1>4, <1>5, <1>6 DEF Next

(* Born, NothingForgotten and Leased speak of one process each.  What they *)
(* say of process q:                                                       *)
BornAt(q) == procs[q].state # "unborn" => procs[q].folder \in Folders /\ procs[q].app <= app
ListedAt(q) ==
  running /\ procs[q].state = "live" /\ procs[q].app = app => servers[procs[q].folder] = q
LeasedAt(q) ==
  procs[q].state = "live" =>
    /\ procs[q].app = app => leases[procs[q].folder] = q \/ q \in erased \cup unleased
    /\ procs[q].app < app => q \in erased \cup unleased
KnownAt(q) == BornAt(q) /\ ListedAt(q) /\ LeasedAt(q)

LEMMA KnownIsAll == Born /\ NothingForgotten /\ Leased <=> \A q \in Procs : KnownAt(q)
  BY DEF Born, NothingForgotten, Leased, KnownAt, BornAt, ListedAt, LeasedAt

(* Stopping the listed server of a folder, or none, with its lease. *)
LEMMA StopKeepsKnown ==
  ASSUME TypeOK, NEW k \in Folders, NEW q \in Procs, KnownAt(q), running, NEW p,
         servers[k] = p \/ servers[k] = None, procs' = Stop(p),
         leases' = [leases EXCEPT ![k] = None], servers' = [servers EXCEPT ![k] = None],
         UNCHANGED <<running, app, erased, unleased>>
  PROVE  KnownAt(q)'
<1>1. /\ procs'[q].folder = procs[q].folder /\ procs'[q].app = procs[q].app
      /\ procs'[q].state # "unborn" => procs[q].state # "unborn"
      /\ procs'[q].state = "live" => procs[q].state = "live" /\ q # p
  BY StopFacts
<1>2. BornAt(q)'
  BY <1>1 DEF KnownAt, BornAt
<1>3. CASE procs'[q].state # "live"
  BY <1>2, <1>3 DEF KnownAt, ListedAt, LeasedAt
<1>4. CASE procs'[q].state = "live"
  <2>1. procs[q].state = "live" /\ q # p /\ procs[q].folder \in Folders
    BY <1>1, <1>4 DEF KnownAt, BornAt
  <2>2. procs[q].app = app => procs[q].folder # k
    BY <2>1, NoneIsNoProcess DEF KnownAt, ListedAt, Procs
  <2>3. ListedAt(q)'
    BY <1>1, <2>1, <2>2 DEF KnownAt, ListedAt, TypeOK
  <2>4. LeasedAt(q)'
    BY <1>1, <2>1, <2>2 DEF KnownAt, LeasedAt, TypeOK
  <2> QED BY <1>2, <2>3, <2>4 DEF KnownAt
<1> QED BY <1>3, <1>4

LEMMA StepKnown ==
  ASSUME TypeOK, Locked, Prepared, Forgotten, \A q \in Procs : KnownAt(q), [Next]_vars
  PROVE  \A q \in Procs : KnownAt(q)'
<1> SUFFICES ASSUME NEW q \in Procs PROVE KnownAt(q)'
  OBVIOUS
<1> DEFINE Same == UNCHANGED <<procs, servers, leases, running, app, erased, unleased>>
<1>1. ASSUME Same PROVE KnownAt(q)'
  BY <1>1 DEF KnownAt, BornAt, ListedAt, LeasedAt
<1>2. ASSUME NEW k \in Folders, Mount(k) \/ Unmount(k) PROVE KnownAt(q)'
  BY <1>1, <1>2 DEF Mount, Unmount
<1>3. ASSUME NEW k \in Folders, TimerFires(k) PROVE KnownAt(q)'
  <2>1. running
    BY <1>3 DEF TimerFires, Forgotten
  <2>2. CASE servers[k] = None
    BY <1>1, <1>3, <2>2 DEF TimerFires
  <2>3. CASE servers[k] # None
    BY <1>3, <2>1, <2>3, StopKeepsKnown DEF TimerFires
  <2> QED BY <2>2, <2>3
<1>4. ASSUME NEW k \in Folders,
             ReuseAnswers(k) \/ ReuseServes(k) \/ Answers(k) \/ StartupServes(k)
      PROVE  KnownAt(q)'
  BY <1>1, <1>4 DEF ReuseAnswers, ReuseServes, Answers, StartupServes
<1>14. ASSUME NEW k \in Folders, StartServer(k) \/ NothingSpawned(k) PROVE KnownAt(q)'
  <2>1. UNCHANGED <<procs, leases, running, app, erased, unleased>>
    BY <1>14 DEF StartServer, NothingSpawned
  <2>2. servers' = servers \/ (~Alive(servers[k]) /\ servers' = [servers EXCEPT ![k] = None])
    BY <1>14 DEF StartServer, Probes, NothingSpawned, Prepared, At, Alive
  <2>3. ASSUME procs[q].state = "live", servers[procs[q].folder] = q, procs[q].folder \in Folders
        PROVE  servers'[procs[q].folder] = q
    BY <2>2, <2>3, NoneIsNoProcess DEF Alive, TypeOK, Procs
  <2>4. ListedAt(q)'
    BY <2>1, <2>3 DEF KnownAt, ListedAt, BornAt
  <2> QED BY <2>1, <2>4 DEF KnownAt, BornAt, LeasedAt
<1>5. ASSUME NEW k \in Folders, ~At(k, "none") PROVE running
  BY <1>5 DEF Forgotten
<1>6. ASSUME NEW k \in Folders, ReuseFails(k) PROVE KnownAt(q)'
  <2>1. PICK p : p = startups[k].proc
    OBVIOUS
  <2>2. running /\ (servers[k] = p \/ servers[k] = None)
    BY <1>5, <1>6, <2>1 DEF ReuseFails, Prepared, At, Reuses
  <2>3. procs' = Stop(p) /\ UNCHANGED <<running, app, erased, unleased>>
    BY <1>6, <2>1 DEF ReuseFails
  <2>4. leases' = [leases EXCEPT ![k] = None] /\ servers' = [servers EXCEPT ![k] = None]
    BY <1>6 DEF ReuseFails
  <2> QED BY <2>2, <2>3, <2>4, StopKeepsKnown
<1>7. ASSUME NEW k \in Folders, Lists(k) \/ DownSpawning(k) PROVE KnownAt(q)'
  <2>1. running /\ servers[k] = None
    BY <1>5, <1>7 DEF Lists, Spawn, LeaseFails, DownSpawning, Spawned, Prepared, At
  <2>2. PICK p \in Procs :
          /\ procs[p].state = "unborn"
          /\ procs' = [procs EXCEPT ![p] = [state |-> "live", folder |-> k, app |-> app]]
          /\ ~running' \/ (running' = running /\ servers' = [servers EXCEPT ![k] = p])
          /\ leases' = [leases EXCEPT ![k] = p] \/ (leases' = leases /\ p \in unleased')
          /\ unleased \subseteq unleased'
    BY <1>7 DEF Lists, Spawn, LeaseFails, DownSpawning, Spawned
  <2>3. UNCHANGED <<app, erased>>
    BY <1>7 DEF Lists, Spawn, LeaseFails, DownSpawning
  <2>4. CASE q = p
    <3>1. procs'[q] = [state |-> "live", folder |-> k, app |-> app]
      BY <2>2, <2>4 DEF TypeOK
    <3>2. (running' => servers'[k] = q) /\ (leases'[k] = q \/ q \in unleased')
      BY <2>2, <2>4 DEF TypeOK
    <3>3. app \in Nat /\ app' = app
      BY <2>3, BoundsAreNaturals DEF TypeOK
    <3> QED BY <3>1, <3>2, <3>3 DEF KnownAt, BornAt, ListedAt, LeasedAt
  <2>5. CASE q # p
    <3>1. procs'[q] = procs[q]
      BY <2>2, <2>5 DEF TypeOK
    <3>2. CASE procs[q].state # "live"
      BY <2>3, <3>1, <3>2 DEF KnownAt, BornAt, ListedAt, LeasedAt
    <3>3. CASE procs[q].state = "live"
      <4>1. procs[q].folder \in Folders
        BY <3>3 DEF KnownAt, BornAt
      <4>2. procs[q].app = app => procs[q].folder # k
        BY <2>1, <3>3, NoneIsNoProcess DEF KnownAt, ListedAt, Procs
      <4>3. procs[q].app = app => /\ running' => servers'[procs[q].folder] = servers[procs[q].folder]
                                  /\ leases'[procs[q].folder] = leases[procs[q].folder]
        BY <2>2, <4>1, <4>2 DEF TypeOK
      <4> QED BY <2>1, <2>2, <2>3, <3>1, <3>3, <4>1, <4>3 DEF KnownAt, BornAt, ListedAt, LeasedAt
    <3> QED BY <3>2, <3>3
  <2> QED BY <2>4, <2>5
<1>8. ASSUME NEW k \in Folders, StartupFails(k) PROVE KnownAt(q)'
  <2>1. running
    BY <1>5, <1>8 DEF StartupFails, At
  <2>2. CASE servers[k] = startups[k].proc
    BY <1>8, <2>1, <2>2, StopKeepsKnown DEF StartupFails
  <2>3. CASE servers[k] # startups[k].proc
    BY <1>1, <1>8, <2>3 DEF StartupFails
  <2> QED BY <2>2, <2>3
<1>9. ASSUME NEW p \in Procs, Exit(p) PROVE KnownAt(q)'
  <2>1. procs' = [procs EXCEPT ![p].state = "dead"] /\ UNCHANGED <<running, app, unleased>>
    BY <1>9 DEF Exit
  <2>2. /\ procs'[q].folder = procs[q].folder /\ procs'[q].app = procs[q].app
        /\ procs'[q].state # "unborn" => procs[q].state # "unborn"
        /\ procs'[q].state = "live" => procs[q].state = "live" /\ q # p
    BY <1>9, <2>1 DEF TypeOK, Exit, Proc
  <2>3. BornAt(q)'
    BY <2>1, <2>2 DEF KnownAt, BornAt
  <2>4. CASE procs'[q].state # "live"
    BY <2>3, <2>4 DEF KnownAt, ListedAt, LeasedAt
  <2>5. CASE procs'[q].state = "live"
    <3> DEFINE f == procs[q].folder
               k == procs[p].folder
    <3>1. procs[q].state = "live" /\ q # p /\ f \in Folders /\ k \in Folders
      BY <1>9, <2>2, <2>5 DEF KnownAt, BornAt, Exit
    <3>2. CASE ~(running /\ procs[p].app = app /\ p \notin unleased)
      BY <1>9, <2>1, <2>2, <2>3, <3>1, <3>2 DEF Exit, KnownAt, ListedAt, LeasedAt
    <3>3. CASE running /\ procs[p].app = app /\ p \notin unleased
      <4>1. /\ servers' = [servers EXCEPT ![k] = IF @ = p THEN None ELSE @]
            /\ leases' = [leases EXCEPT ![k] = None]
            /\ erased' = erased \cup ({leases[k]} \ {p, None})
        BY <1>9, <3>3 DEF Exit
      <4>2. ListedAt(q)'
        BY <2>1, <2>2, <3>1, <4>1 DEF KnownAt, ListedAt, TypeOK
      <4>3. leases[f] = q => leases'[f] = q \/ q \in erased'
        BY <3>1, <4>1, NoneIsNoProcess DEF TypeOK, Procs
      <4>4. LeasedAt(q)'
        BY <2>1, <2>2, <3>1, <4>1, <4>3 DEF KnownAt, LeasedAt
      <4> QED BY <2>3, <4>2, <4>4 DEF KnownAt
    <3> QED BY <3>2, <3>3
  <2> QED BY <2>4, <2>5
<1>10. ASSUME KillAll PROVE KnownAt(q)'
  <2>1. UNCHANGED <<running, app, erased, unleased>> /\ running
    BY <1>10 DEF KillAll
  <2>2. /\ procs'[q].folder = procs[q].folder /\ procs'[q].app = procs[q].app
        /\ procs'[q].state # "unborn" => procs[q].state # "unborn"
        /\ procs'[q].state = "live" => procs[q].state = "live" /\ q \notin {servers[k] : k \in Folders}
    BY <1>10 DEF KillAll, TypeOK, Proc
  <2>3. BornAt(q)'
    BY <2>1, <2>2 DEF KnownAt, BornAt
  <2>4. CASE procs'[q].state # "live"
    BY <2>3, <2>4 DEF KnownAt, ListedAt, LeasedAt
  <2>5. CASE procs'[q].state = "live"
    <3>1. procs[q].app # app /\ procs[q].state = "live"
      BY <2>1, <2>2, <2>5 DEF KnownAt, ListedAt, BornAt
    <3> QED BY <2>1, <2>2, <2>3, <3>1 DEF KnownAt, ListedAt, LeasedAt
  <2> QED BY <2>4, <2>5
<1>11. ASSUME Down PROVE KnownAt(q)'
  BY <1>11 DEF Down, KnownAt, BornAt, ListedAt, LeasedAt
<1>12. ASSUME Launch PROVE KnownAt(q)'
  <2>1. app' = app + 1 /\ UNCHANGED <<erased, unleased>> /\ app \in Nat
    BY <1>12, BoundsAreNaturals DEF Launch, TypeOK
  <2>2. /\ procs'[q].folder = procs[q].folder /\ procs'[q].app = procs[q].app
        /\ procs'[q].state # "unborn" => procs[q].state # "unborn"
        /\ procs'[q].state = "live" => procs[q].state = "live" /\ q \notin {leases[k] : k \in Folders}
    BY <1>12 DEF Launch, TypeOK, Proc
  <2>3. procs[q].app \in Nat
    BY BoundsAreNaturals DEF TypeOK, Proc
  <2>4. BornAt(q)'
    BY <2>1, <2>2, <2>3 DEF KnownAt, BornAt
  <2>5. CASE procs'[q].state # "live"
    BY <2>4, <2>5 DEF KnownAt, ListedAt, LeasedAt
  <2>6. CASE procs'[q].state = "live"
    <3>1. procs[q].state = "live" /\ procs[q].app <= app /\ procs[q].folder \in Folders
      BY <2>2, <2>6 DEF KnownAt, BornAt
    <3>2. q \in erased \cup unleased
      BY <2>1, <2>2, <2>3, <2>6, <3>1 DEF KnownAt, LeasedAt
    <3>3. procs'[q].app < app' /\ procs'[q].app # app'
      BY <2>1, <2>2, <2>3, <3>1
    <3> QED BY <2>1, <2>4, <3>2, <3>3 DEF KnownAt, ListedAt, LeasedAt
  <2> QED BY <2>5, <2>6
<1>13. CASE UNCHANGED vars
  BY <1>1, <1>13 DEF vars, memory
<1> QED
  BY <1>2, <1>3, <1>4, <1>6, <1>7, <1>8, <1>9, <1>10, <1>11, <1>12, <1>13, <1>14
     DEF Next, StartupStep, Lists

Inv ==
  /\ TypeOK /\ CeilingHolds /\ NothingForgotten /\ NoStopUnderPanel
  /\ Locked /\ Prepared /\ Forgotten /\ Born /\ Leased

LEMMA InitInv == Init => Inv
<1> SUFFICES ASSUME Init PROVE Inv
  OBVIOUS
<1>1. TypeOK
  BY InitType
<1>2. CeilingHolds
  <2>1. Listed = {}
    BY DEF Init, Listed
  <2> QED BY <2>1, FS_EmptySet, BoundsAreNaturals DEF CeilingHolds
<1>3. NothingForgotten /\ Born /\ Leased
  BY DEF Init, NothingForgotten, Born, Leased, Unborn
<1>4. NoStopUnderPanel /\ Locked /\ Prepared /\ Forgotten
  BY DEF Init, NoStopUnderPanel, Locked, Prepared, Forgotten, NoStartup, At, Reuses
<1> QED BY <1>1, <1>2, <1>3, <1>4 DEF Inv

LEMMA StepInv == Inv /\ [Next]_vars => Inv'
<1> SUFFICES ASSUME Inv, [Next]_vars PROVE Inv'
  OBVIOUS
<1>1. TypeOK' /\ Locked'
  BY StepTyped, StepLocked DEF Inv
<1>2. Prepared' /\ CeilingHolds'
  BY StepPrepared DEF Inv
<1>3. NoStopUnderPanel' /\ Forgotten'
  BY StepNoStop, StepForgotten DEF Inv
<1>4. \A q \in Procs : KnownAt(q)
  BY KnownIsAll DEF Inv
<1>5. \A q \in Procs : KnownAt(q)'
  BY <1>4, StepKnown DEF Inv
<1>6. (Born /\ NothingForgotten /\ Leased)'
  BY <1>5 DEF Born, NothingForgotten, Leased, KnownAt, BornAt, ListedAt, LeasedAt
<1> QED BY <1>1, <1>2, <1>3, <1>6 DEF Inv

LEMMA InvHolds == Spec => []Inv
<1>1. Init => Inv
  BY InitInv
<1>2. Inv /\ [Next]_vars => Inv'
  BY StepInv
<1> QED BY <1>1, <1>2, PTL DEF Spec

(* Every variable of the manager keeps its type. *)
THEOREM TypeCorrect == Spec => []TypeOK
<1>1. Inv => TypeOK
  BY DEF Inv
<1> QED BY <1>1, InvHolds, PTL

(* The list of servers never passes the ceiling, although the check of its *)
(* size and the spawn are an await apart.                                  *)
THEOREM CeilingKept == Spec => []CeilingHolds
<1>1. Inv => CeilingHolds
  BY DEF Inv
<1> QED BY <1>1, InvHolds, PTL

(* A server of the running app that was not told to stop is on its list.   *)
THEOREM NothingIsForgotten == Spec => []NothingForgotten
<1>1. Inv => NothingForgotten
  BY DEF Inv
<1> QED BY <1>1, InvHolds, PTL

(* No stop is scheduled under a mounted panel: a remount cancels it.       *)
THEOREM PanelsAreSpared == Spec => []NoStopUnderPanel
<1>1. Inv => NoStopUnderPanel
  BY DEF Inv
<1> QED BY <1>1, InvHolds, PTL

(* A server that outlives a launch of the app had lost its lease to the    *)
(* late exit of its predecessor in the folder, or never had one, because   *)
(* writing it failed or the app went down before.                          *)
THEOREM SurvivorsHaveLostLeases == Spec => []SurvivorsExplained
<1>1. Inv => SurvivorsExplained
  BY DEF Inv, Leased, SurvivorsExplained
<1> QED BY <1>1, InvHolds, PTL

------------------------------------------------------------------------------
(* What is listed for a folder, or awaited by its startup, is a process of *)
(* that folder, and an app that is down has no panel.                      *)
Matched ==
  /\ \A k \in Folders : servers[k] # None =>
       procs[servers[k]].folder = k /\ procs[servers[k]].state # "unborn"
  /\ \A k \in Folders : startups[k].at \in {"reuse", "reseeding", "starting", "seeding"} =>
       /\ startups[k].proc \in Procs
       /\ procs[startups[k].proc].folder = k /\ procs[startups[k].proc].state # "unborn"
  /\ ~running => panel = {}

LEMMA KeepsMatched ==
  ASSUME TypeOK, Matched, ~running' => panel' = {},
         \A q \in Procs : /\ procs'[q].folder = procs[q].folder
                          /\ procs[q].state # "unborn" => procs'[q].state # "unborn",
         \A k \in Folders : servers'[k] \in {servers[k], None},
         \A k \in Folders : startups'[k].at \in {"reuse", "reseeding", "starting", "seeding"} =>
           /\ startups'[k].proc \in Procs
           /\ procs[startups'[k].proc].folder = k /\ procs[startups'[k].proc].state # "unborn"
  PROVE  Matched'
  BY DEF TypeOK, Matched

LEMMA StepMatched == TypeOK /\ Matched /\ [Next]_vars => Matched'
<1> SUFFICES ASSUME TypeOK, Matched, [Next]_vars PROVE Matched'
  OBVIOUS
<1> USE DEF At
<1>1. \A p : \A q \in Procs : (procs' = procs \/ procs' = Stop(p)) =>
        /\ procs'[q].folder = procs[q].folder
        /\ procs[q].state # "unborn" => procs'[q].state # "unborn"
  BY DEF TypeOK, Stop, Proc
<1>2. \A j \in Folders : /\ startups'[j] = startups[j]
                         /\ startups[j].at \in {"reuse", "reseeding", "starting", "seeding"}
        => /\ startups'[j].proc \in Procs
           /\ procs[startups'[j].proc].folder = j /\ procs[startups'[j].proc].state # "unborn"
  BY DEF Matched
<1>3. ASSUME NEW k \in Folders, Mount(k) \/ Unmount(k) PROVE Matched'
  <2>1. \A j \in Folders : startups'[j] = startups[j] \/ startups'[j].at = "waiting"
    BY <1>3 DEF Mount, Unmount, Ensure, TypeOK
  <2>2. running' /\ procs' = procs /\ servers' = servers
    BY <1>3 DEF Mount, Unmount
  <2> QED BY <1>1, <1>2, <2>1, <2>2, KeepsMatched
<1>4. ASSUME NEW k \in Folders, TimerFires(k) PROVE Matched'
  <2>1. procs' = procs \/ procs' = Stop(servers[k])
    BY <1>4 DEF TimerFires
  <2>2. \A j \in Folders : servers'[j] \in {servers[j], None}
    BY <1>4 DEF TimerFires, TypeOK
  <2>3. UNCHANGED <<startups, running, panel>>
    BY <1>4 DEF TimerFires
  <2>4. ~running' => panel' = {}
    BY <2>3 DEF Matched
  <2> QED BY <1>1, <1>2, <2>1, <2>2, <2>3, <2>4, KeepsMatched
<1>5. ASSUME NEW k \in Folders, StartupStep(k), ~Lists(k) PROVE Matched'
  <2>1. UNCHANGED <<running, panel>> /\ \E p : procs' = procs \/ procs' = Stop(p)
    BY <1>5 DEF Lists, StartupStep, StartServer, ReuseAnswers, ReuseServes, ReuseFails, NothingSpawned,
       Answers, StartupServes, StartupFails
  <2>2. \A j \in Folders : servers'[j] \in {servers[j], None}
    BY <1>5 DEF TypeOK, Lists, StartupStep, StartServer, Probes, ReuseAnswers, ReuseServes, ReuseFails,
       NothingSpawned, Answers, StartupServes, StartupFails
  <2>3. \A j \in Folders : j # k => startups'[j] = startups[j]
    BY <1>5, OthersStay
  <2>4. \/ startups'[k].at \in {"none", "port"}
        \/ startups'[k].at = "reuse" /\ startups'[k].proc = servers[k] /\ servers[k] # None
        \/ startups[k].at \in {"reuse", "starting"} /\ startups'[k].proc = startups[k].proc
    <3>1. CASE StartServer(k)
      BY <3>1 DEF StartServer, Probes, Alive, Begins, Moves, Settles, NoStartup, TypeOK
    <3>2. CASE ReuseFails(k)
      BY <3>2 DEF ReuseFails, Begins, Moves, Settles, NoStartup, TypeOK
    <3>3. CASE Answers(k) \/ ReuseAnswers(k)
      BY <3>3 DEF Answers, ReuseAnswers, Moves, TypeOK
    <3>4. CASE ReuseServes(k) \/ NothingSpawned(k) \/ StartupServes(k) \/ StartupFails(k)
      BY <3>4 DEF ReuseServes, NothingSpawned, StartupServes, StartupFails, Settles, NoStartup, TypeOK
    <3> QED BY <1>5, <3>1, <3>2, <3>3, <3>4 DEF StartupStep, Lists
  <2>5. startups'[k].at \in {"reuse", "reseeding", "starting", "seeding"} =>
          /\ startups'[k].proc \in Procs
          /\ procs[startups'[k].proc].folder = k /\ procs[startups'[k].proc].state # "unborn"
    BY <2>4 DEF Matched, TypeOK
  <2>6. ~running' => panel' = {}
    BY <2>1 DEF Matched
  <2> QED BY <1>1, <1>2, <2>1, <2>2, <2>3, <2>5, <2>6, KeepsMatched
<1>6. ASSUME NEW k \in Folders, Lists(k) PROVE Matched'
  <2>1. PICK p \in Procs :
          /\ procs[p].state = "unborn"
          /\ procs' = [procs EXCEPT ![p] = [state |-> "live", folder |-> k, app |-> app]]
          /\ servers' = [servers EXCEPT ![k] = p]
          /\ \/ startups' = [startups EXCEPT ![k] = [at |-> "starting", proc |-> p]]
             \/ startups' = [startups EXCEPT ![k] = NoStartup]
    BY <1>6 DEF Lists, Spawn, LeaseFails, Spawned, Moves, Settles
  <2>2. \A q \in Procs : procs[q].state # "unborn" => procs'[q] = procs[q]
    BY <2>1 DEF TypeOK
  <2>3. procs'[p].folder = k /\ procs'[p].state = "live"
    BY <2>1 DEF TypeOK
  <2>4. \A j \in Folders : servers[j] \in Procs \cup {None}
    BY DEF TypeOK
  <2>5. servers'[k] = p /\ \A j \in Folders : j # k => servers'[j] = servers[j]
    BY <2>1 DEF TypeOK
  <2>6. /\ startups'[k].proc = p \/ startups'[k].at = "none"
        /\ \A j \in Folders : j # k => startups'[j] = startups[j]
    BY <2>1 DEF TypeOK, NoStartup
  <2>7. ~running' => panel' = {}
    BY <1>6 DEF Lists, Spawn, LeaseFails, Matched
  <2>8. ASSUME NEW j \in Folders, servers'[j] # None
        PROVE  procs'[servers'[j]].folder = j /\ procs'[servers'[j]].state # "unborn"
    BY <2>2, <2>3, <2>4, <2>5, <2>8 DEF Matched
  <2>9. ASSUME NEW j \in Folders, startups'[j].at \in {"reuse", "reseeding", "starting", "seeding"}
        PROVE  /\ startups'[j].proc \in Procs
               /\ procs'[startups'[j].proc].folder = j /\ procs'[startups'[j].proc].state # "unborn"
    BY <2>2, <2>3, <2>6, <2>9 DEF Matched
  <2> QED BY <2>7, <2>8, <2>9 DEF Matched
<1>7. ASSUME NEW p \in Procs, Exit(p) PROVE Matched'
  <2>1. \A q \in Procs : procs'[q].folder = procs[q].folder
                         /\ (procs[q].state # "unborn" => procs'[q].state # "unborn")
    BY <1>7 DEF Exit, TypeOK, Proc
  <2>2. \A j \in Folders : servers'[j] \in {servers[j], None}
    BY <1>7 DEF Exit, TypeOK
  <2>3. UNCHANGED <<startups, running, panel>>
    BY <1>7 DEF Exit
  <2>4. ~running' => panel' = {}
    BY <2>3 DEF Matched
  <2> QED BY <1>2, <2>1, <2>2, <2>3, <2>4, KeepsMatched
<1>8. ASSUME KillAll \/ Launch PROVE Matched'
  <2>1. \A q \in Procs : procs'[q].folder = procs[q].folder
                         /\ (procs[q].state # "unborn" => procs'[q].state # "unborn")
    <3>1. \A q \in Procs : procs'[q] \in {procs[q], [procs[q] EXCEPT !.state = "dying"]}
      BY <1>8 DEF KillAll, Launch
    <3>2. \A q \in Procs : procs[q] \in Proc
      BY DEF TypeOK
    <3> QED BY <3>1, <3>2 DEF Proc
  <2>2. \A j \in Folders : servers'[j] \in {servers[j], None}
    BY <1>8 DEF KillAll, Launch, memory
  <2>3. startups' = startups /\ running'
    BY <1>8 DEF KillAll, Launch, memory
  <2> QED BY <1>2, <2>1, <2>2, <2>3, KeepsMatched
<1>9. CASE Down \/ \E k \in Folders : DownSpawning(k)
  BY <1>9 DEF Down, DownSpawning, Forgets, Matched, NoStartup
<1>10. CASE UNCHANGED vars
  BY <1>10 DEF vars, memory, Matched
<1> QED BY <1>3, <1>4, <1>5, <1>6, <1>7, <1>8, <1>9, <1>10 DEF Next, Lists

(* A server that runs is told to stop only when no panel of its folder is  *)
(* mounted, or by the folder's own startup.                                *)
THEOREM LiveServersSpared == Spec => LiveServersAreSpared
<1> DEFINE Spared(p) ==
      LET k == procs[p].folder
      IN  \/ k \notin panel'
          \/ startups[k].proc = p /\ startups[k].at \in {"reuse", "reseeding", "starting", "seeding"}
<1>1. Init => Inv /\ Matched
  BY InitInv DEF Init, Matched, NoStartup
<1>2. Inv /\ Matched /\ [Next]_vars => Inv' /\ Matched'
  BY StepInv, StepMatched DEF Inv
<1>3. ASSUME Inv, Matched, [Next]_vars, NEW p \in Procs,
             procs[p].state = "live", procs'[p].state = "dying"
      PROVE  Spared(p)
  <2> DEFINE k == procs[p].folder
  <2>1. \A q : procs' = Stop(q) => q = p
    BY <1>3 DEF Inv, TypeOK, Stop
  <2>2. ASSUME NEW j \in Folders, TimerFires(j) PROVE Spared(p)
    <3>1. servers[j] = p /\ servers[j] # None
      BY <1>3, <2>1, <2>2 DEF TimerFires
    <3>2. k = j
      BY <1>3, <3>1 DEF Matched
    <3> QED BY <1>3, <2>2, <3>2 DEF TimerFires, Inv, NoStopUnderPanel
  <2>3. ASSUME NEW j \in Folders, ReuseFails(j) PROVE Spared(p)
    <3>1. startups[j].proc = p /\ startups[j].at \in {"reuse", "reseeding"}
      BY <2>1, <2>3 DEF ReuseFails, At
    <3> QED BY <1>3, <3>1 DEF Matched
  <2>4. ASSUME NEW j \in Folders, StartupFails(j) PROVE Spared(p)
    <3>1. startups[j].proc = p /\ startups[j].at \in {"starting", "seeding"}
      BY <1>3, <2>1, <2>4 DEF StartupFails, At
    <3> QED BY <1>3, <3>1 DEF Matched
  <2>5. ASSUME NEW j \in Folders, Lists(j) \/ DownSpawning(j) PROVE FALSE
    BY <1>3, <2>5 DEF Lists, Spawn, LeaseFails, DownSpawning, Spawned, Inv, TypeOK
  <2>6. ASSUME NEW q \in Procs, Exit(q) PROVE FALSE
    BY <1>3, <2>6 DEF Exit, Inv, TypeOK, Proc
  <2>7. ASSUME KillAll \/ Launch PROVE Spared(p)
    BY <1>3, <2>7 DEF KillAll, Launch, memory, Matched
  <2>8. ASSUME \/ \E j \in Folders : \/ Mount(j) \/ Unmount(j) \/ StartServer(j) \/ ReuseAnswers(j)
                                     \/ ReuseServes(j) \/ NothingSpawned(j) \/ Answers(j) \/ StartupServes(j)
               \/ Down \/ UNCHANGED vars
        PROVE  FALSE
    BY <1>3, <2>8 DEF Mount, Unmount, StartServer, ReuseAnswers, ReuseServes, NothingSpawned, Answers,
       StartupServes, Down, vars
  <2> QED BY <1>3, <2>2, <2>3, <2>4, <2>5, <2>6, <2>7, <2>8 DEF Next, StartupStep, Lists
<1>4. Inv /\ Matched /\ [Next]_vars
      => [\A p \in Procs : procs[p].state = "live" /\ procs'[p].state = "dying" => Spared(p)]_vars
  BY <1>3
<1> QED BY <1>1, <1>2, <1>4, PTL DEF Spec, LiveServersAreSpared
==============================================================================
