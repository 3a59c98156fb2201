----------------------------- MODULE VsCodeServers -----------------------------
(***************************************************************************)
(* The embedded VS Code servers of vscode-server-manager.ts: one child     *)
(* process per workspace folder, started under a lock when its panel       *)
(* mounts, stopped by a timer after the panel unmounts, listed in the      *)
(* memory of the main process and, for the launch after a crash, in lease  *)
(* files, which may fail to be written.                                    *)
(*                                                                         *)
(* A process told to stop is "dying" until it exits; its exit callback     *)
(* runs in the step of the exit if the app that started it still runs.     *)
(* One action is the code from one await, callback or timer to the next.   *)
(***************************************************************************)
EXTENDS Naturals, Sequences, FiniteSets

CONSTANTS
  Folders,   \* server keys: a workspace and its folder
  None,      \* no process
  MaxOwned,  \* MAX_OWNED_VSCODE_SERVERS
  MaxProcs,  \* bound: processes spawned
  MaxApps    \* bound: launches of the app

ASSUME BoundsAreNaturals == MaxOwned \in Nat /\ MaxProcs \in Nat /\ MaxApps \in Nat \ {0}
ASSUME NoneIsNoProcess == None \notin Nat
ASSUME FoldersAreFinite == IsFiniteSet(Folders)

VARIABLES
  panel,     \* the folders whose panel is mounted
  servers,   \* servers: the process listed for each folder
  startups,  \* serverStartups: where each folder's startup awaits, and on what
  queue,     \* startupQueue: the folders whose startup holds or awaits the lock
  timers,    \* scheduledServerStops
  procs,     \* the processes, by the order in which they were spawned
  leases,    \* the lease file of each folder: the process it names
  running,   \* the app runs
  app,       \* which launch of the app this is
  erased,    \* history: processes whose lease another process's exit removed
  unleased   \* history: processes whose lease was never written, nor their exit heard

memory == <<panel, servers, startups, queue, timers>>
vars == <<memory, procs, leases, running, app, erased, unleased>>

Procs == 1 .. MaxProcs
Proc == [state: {"unborn", "live", "dying", "dead"}, folder: Folders \cup {None}, app: 0 .. MaxApps]
Startup == [at: {"none", "waiting", "reuse", "reseeding", "port", "starting", "seeding"},
            proc: Procs \cup {None}]
Unborn == [state |-> "unborn", folder |-> None, app |-> 0]
(* Mutant: the process field is deleted, not cleared. *)
NoStartupBare == [at |-> "none"]
NoStartup == [at |-> "none", proc |-> None]

At(k, point) == startups[k].at = point
HoldsLock(k) == queue # <<>> /\ Head(queue) = k
Listed == {k \in Folders : servers[k] # None}
Alive(p) == p # None /\ procs[p].state # "dead"

(* seedVSCodeBrowserSettings, which loads a page and runs a script in it   *)
(* with no timeout.                                                        *)
Seeds(k) == startups[k].at \in {"reseeding", "seeding"}

Stop(p) == [procs EXCEPT ![p].state = IF @ = "live" THEN "dying" ELSE @]

------------------------------------------------------------------------------
Forgets ==
  /\ panel' = {}
  /\ servers' = [k \in Folders |-> None]
  /\ startups' = [k \in Folders |-> NoStartup]
  /\ queue' = <<>>
  /\ timers' = {}

Init ==
  /\ panel = {}
  /\ servers = [k \in Folders |-> None]
  /\ startups = [k \in Folders |-> NoStartup]
  /\ queue = <<>>
  /\ timers = {}
  /\ procs = [p \in Procs |-> Unborn]
  /\ leases = [k \in Folders |-> None]
  /\ running = TRUE
  /\ app = 1
  /\ erased = {} /\ unleased = {}

(* Mutant: a call that joins a pending startup returns before it cancels   *)
(* the scheduled stop.                                                     *)
EnsureJoinsFirst(k) ==
  IF At(k, "none")
  THEN /\ timers' = timers \ {k}
       /\ startups' = [startups EXCEPT ![k] = [at |-> "waiting", proc |-> None]]
       /\ queue' = Append(queue, k)
  ELSE UNCHANGED <<timers, startups, queue>>

(* ensureVSCodeServer: cancel the stop, and join the pending startup or    *)
(* queue one for the lock.                                                 *)
Ensure(k) ==
  /\ timers' = timers \ {k}
  /\ IF At(k, "none")
     THEN /\ startups' = [startups EXCEPT ![k] = [at |-> "waiting", proc |-> None]]
          /\ queue' = Append(queue, k)
     ELSE UNCHANGED <<startups, queue>>

(* The panel mounts, or its Retry button is pressed. *)
Mount(k) ==
  /\ running
  /\ panel' = panel \cup {k}
  /\ k \in panel => At(k, "none")
  /\ Ensure(k)
  /\ UNCHANGED <<servers, procs, leases, running, app, erased, unleased>>

(* The panel unmounts: killVSCodeServer schedules the stop. *)
Unmount(k) ==
  /\ running
  /\ k \in panel
  /\ panel' = panel \ {k}
  /\ timers' = timers \cup {k}
  /\ UNCHANGED <<servers, startups, queue, procs, leases, running, app, erased, unleased>>

(* The scheduled stop. *)
TimerFires(k) ==
  /\ k \in timers
  /\ timers' = timers \ {k}
  /\ IF servers[k] = None
     THEN UNCHANGED <<servers, procs, leases>>
     ELSE /\ procs' = Stop(servers[k])
          /\ leases' = [leases EXCEPT ![k] = None]
          /\ servers' = [servers EXCEPT ![k] = None]
  /\ UNCHANGED <<panel, startups, queue, running, app, erased, unleased>>

------------------------------------------------------------------------------
(* Mutant: the lock is released only by a startup that succeeds. *)
SettlesHoldingLock(k) ==
  /\ startups' = [startups EXCEPT ![k] = NoStartup]
  /\ queue' = IF At(k, "seeding") THEN Tail(queue) ELSE queue

(* The startup settles either way: the lock is released, and the promise   *)
(* forgotten.                                                              *)
Settles(k) ==
  /\ startups' = [startups EXCEPT ![k] = NoStartup]
  /\ queue' = Tail(queue)

Moves(k, point, p) ==
  /\ startups' = [startups EXCEPT ![k] = [at |-> point, proc |-> p]]
  /\ UNCHANGED queue

(* startVSCodeServer with no server of its own to reuse: refuse at the     *)
(* ceiling, or look for a port.                                            *)
Begins(k, listed) ==
  IF Cardinality(listed) >= MaxOwned THEN Settles(k) ELSE Moves(k, "port", None)

(* A listed server that is alive is probed; one that has died unheard is   *)
(* dropped from the list.                                                  *)
Probes(k) ==
  \/ Alive(servers[k]) /\ Moves(k, "reuse", servers[k]) /\ UNCHANGED servers
  \/ ~Alive(servers[k]) /\ Begins(k, Listed \ {k}) /\ servers' = [servers EXCEPT ![k] = None]

(* Mutant: startups do not wait for each other. *)
StartServerUnlocked(k) ==
  /\ At(k, "waiting")
  /\ Probes(k)
  /\ UNCHANGED <<panel, timers, procs, leases, running, app, erased, unleased>>

(* The lock is free. *)
StartServer(k) ==
  /\ At(k, "waiting")
  /\ HoldsLock(k)
  /\ Probes(k)
  /\ UNCHANGED <<panel, timers, procs, leases, running, app, erased, unleased>>

(* The listed server answers, ... *)
ReuseAnswers(k) ==
  /\ At(k, "reuse")
  /\ Moves(k, "reseeding", startups[k].proc)
  /\ UNCHANGED <<panel, servers, timers, procs, leases, running, app, erased, unleased>>

(* ... and its settings are seeded. *)
ReuseServes(k) ==
  /\ At(k, "reseeding")
  /\ Settles(k)
  /\ UNCHANGED <<panel, servers, timers, procs, leases, running, app, erased, unleased>>

(* Mutant: a server that does not answer is dropped from the list alone. *)
ReuseFailsQuietly(k) ==
  /\ At(k, "reuse") \/ At(k, "reseeding")
  /\ servers' = [servers EXCEPT ![k] = None]
  /\ Begins(k, Listed \ {k})
  /\ UNCHANGED <<panel, timers, procs, leases, running, app, erased, unleased>>

(* It does not answer in time, or the seeding fails: stop it and start     *)
(* another.                                                                *)
ReuseFails(k) ==
  /\ At(k, "reuse") \/ At(k, "reseeding")
  /\ procs' = Stop(startups[k].proc)
  /\ leases' = [leases EXCEPT ![k] = None]
  /\ servers' = [servers EXCEPT ![k] = None]
  /\ Begins(k, Listed \ {k})
  /\ UNCHANGED <<panel, timers, running, app, erased, unleased>>

(* No installation, no port, no directories, or no process. *)
NothingSpawned(k) ==
  /\ \/ At(k, "port")
     \/ At(k, "waiting") /\ HoldsLock(k) /\ ~Alive(servers[k])
  /\ servers' = [servers EXCEPT ![k] = None]
  /\ Settles(k)
  /\ UNCHANGED <<panel, timers, procs, leases, running, app, erased, unleased>>

(* The port is found, and a process spawned. *)
Spawned(k, p) ==
  /\ At(k, "port")
  /\ procs[p].state = "unborn" /\ \A q \in 1 .. p - 1 : procs[q].state # "unborn"
  /\ procs' = [procs EXCEPT ![p] = [state |-> "live", folder |-> k, app |-> app]]

(* Mutant: no lease is written. *)
SpawnUnleased(k) ==
  \E p \in Procs :
    /\ Spawned(k, p)
    /\ servers' = [servers EXCEPT ![k] = p]
    /\ Moves(k, "starting", p)
    /\ UNCHANGED <<panel, timers, leases, running, app, erased, unleased>>

(* It is listed and leased. *)
Spawn(k) ==
  \E p \in Procs :
    /\ Spawned(k, p)
    /\ servers' = [servers EXCEPT ![k] = p]
    /\ leases' = [leases EXCEPT ![k] = p]
    /\ Moves(k, "starting", p)
    /\ UNCHANGED <<panel, timers, running, app, erased, unleased>>

(* writeLease throws once it is listed: the startup rejects before it      *)
(* listens to the exit, and nothing takes the server off the list.         *)
LeaseFails(k) ==
  \E p \in Procs :
    /\ Spawned(k, p)
    /\ servers' = [servers EXCEPT ![k] = p]
    /\ unleased' = unleased \cup {p}
    /\ Settles(k)
    /\ UNCHANGED <<panel, timers, leases, running, app, erased>>

(* The app goes down between the spawn and the rename of the lease. *)
DownSpawning(k) ==
  \E p \in Procs :
    /\ Spawned(k, p)
    /\ running' = FALSE
    /\ Forgets
    /\ unleased' = unleased \cup {p}
    /\ UNCHANGED <<leases, app, erased>>

(* waitForVSCodeServerReady: the endpoint answers. *)
Answers(k) ==
  /\ At(k, "starting")
  /\ procs[startups[k].proc].state # "dead"
  /\ Moves(k, "seeding", startups[k].proc)
  /\ UNCHANGED <<panel, servers, timers, procs, leases, running, app, erased, unleased>>

(* The settings are seeded, and the pause is over. *)
StartupServes(k) ==
  /\ At(k, "seeding")
  /\ Settles(k)
  /\ UNCHANGED <<panel, servers, timers, procs, leases, running, app, erased, unleased>>

(* It exits or stays silent, or the seeding fails: the catch stops it if   *)
(* it is still the listed one.                                             *)
StartupFails(k) ==
  LET p == startups[k].proc
  IN  /\ At(k, "starting") \/ At(k, "seeding")
      /\ IF servers[k] = p
         THEN /\ servers' = [servers EXCEPT ![k] = None]
              /\ procs' = Stop(p)
              /\ leases' = [leases EXCEPT ![k] = None]
         ELSE UNCHANGED <<servers, procs, leases>>
      /\ Settles(k)
      /\ UNCHANGED <<panel, timers, running, app, erased, unleased>>

------------------------------------------------------------------------------
(* A process ends; if its app still runs, and listens to it, the callback  *)
(* of its exit takes it off the list and removes the folder's lease,       *)
(* whosever it is by then.                                                 *)
Exit(p) ==
  LET k == procs[p].folder
      heard == running /\ procs[p].app = app /\ p \notin unleased
  IN  /\ procs[p].state \in {"live", "dying"}
      /\ procs' = [procs EXCEPT ![p].state = "dead"]
      /\ IF heard
         THEN /\ servers' = [servers EXCEPT ![k] = IF @ = p THEN None ELSE @]
              /\ leases' = [leases EXCEPT ![k] = None]
              /\ erased' = erased \cup ({leases[k]} \ {p, None})
         ELSE UNCHANGED <<servers, leases, erased>>
      /\ UNCHANGED <<panel, startups, queue, timers, running, app, unleased>>

(* killAllVSCodeServers, when the last window closes or the app is to      *)
(* quit.  The windows' panels are gone without unmounting.                 *)
KillAll ==
  /\ running
  /\ panel' = {}
  /\ timers' = {}
  /\ procs' = [p \in Procs |->
       IF p \in {servers[k] : k \in Folders} /\ procs[p].state = "live"
       THEN [procs[p] EXCEPT !.state = "dying"] ELSE procs[p]]
  /\ leases' = [k \in Folders |-> IF servers[k] = None THEN leases[k] ELSE None]
  /\ servers' = [k \in Folders |-> None]
  /\ UNCHANGED <<startups, queue, running, app, erased, unleased>>

(* The app exits or crashes, whatever is under way.  Its servers go on. *)
Down ==
  /\ running
  /\ running' = FALSE
  /\ Forgets
  /\ UNCHANGED <<procs, leases, app, erased, unleased>>

(* The next launch: reclaimStaleVSCodeServers stops what the leases name.  *)
(* ps identifies the processes, and no other process has taken the id of   *)
(* the old app.                                                            *)
Launch ==
  /\ ~running
  /\ app < MaxApps
  /\ running' = TRUE
  /\ app' = app + 1
  /\ procs' = [p \in Procs |->
       IF p \in {leases[k] : k \in Folders} /\ procs[p].state = "live"
       THEN [procs[p] EXCEPT !.state = "dying"] ELSE procs[p]]
  /\ leases' = [k \in Folders |-> None]
  /\ UNCHANGED <<memory, erased, unleased>>

StartupStep(k) ==
  \/ StartServer(k) \/ ReuseAnswers(k) \/ ReuseServes(k) \/ ReuseFails(k) \/ NothingSpawned(k)
  \/ Spawn(k) \/ LeaseFails(k) \/ Answers(k) \/ StartupServes(k) \/ StartupFails(k)

Next ==
  \/ \E k \in Folders : Mount(k) \/ Unmount(k) \/ TimerFires(k) \/ StartupStep(k)
  \/ \E p \in Procs : Exit(p)
  \/ KillAll \/ Down \/ Launch
  \/ \E k \in Folders : DownSpawning(k)

Spec == Init /\ [][Next]_vars

(* The probes of a startup have deadlines, and its files and ports settle; *)
(* nothing bounds the seeding.                                             *)
FairSpec == Spec /\ \A k \in Folders : WF_vars(~Seeds(k) /\ StartupStep(k))

------------------------------------------------------------------------------
TypeOK ==
  /\ panel \subseteq Folders
  /\ servers \in [Folders -> Procs \cup {None}]
  /\ startups \in [Folders -> Startup]
  /\ queue \in Seq(Folders)
  /\ timers \subseteq Folders
  /\ procs \in [Procs -> Proc]
  /\ leases \in [Folders -> Procs \cup {None}]
  /\ running \in BOOLEAN
  /\ app \in 0 .. MaxApps
  /\ erased \subseteq Procs /\ unleased \subseteq Procs

(* "a four-server ceiling": the check of servers.size and the spawn are    *)
(* an await apart, and the list never passes the ceiling.                  *)
CeilingHolds == Cardinality(Listed) <= MaxOwned

(* A server of this app that was not told to stop is on the list, where    *)
(* the panel's close, the quit and the ceiling find it, whatever startups, *)
(* stops, exits and failures interleave.                                   *)
NothingForgotten ==
  \A p \in Procs :
    running /\ procs[p].state = "live" /\ procs[p].app = app => servers[procs[p].folder] = p

(* "an immediate remount cancels this timer": no stop is scheduled under a *)
(* mounted panel.                                                          *)
NoStopUnderPanel == panel \cap timers = {}

(* After a launch, the servers of earlier launches are gone or told to     *)
(* stop, except those whose lease was removed by the late exit of their    *)
(* predecessor in the folder, or never came to be written.                 *)
SurvivorsExplained ==
  \A p \in Procs :
    running /\ procs[p].state = "live" /\ procs[p].app < app => p \in erased \cup unleased

(* Every startup is over in the end, whatever fails before it in the       *)
(* queue, unless one seeds for ever: nothing else holds the lock for good. *)
StartupsSettle ==
  \A k \in Folders :
    []<>At(k, "none") \/ \E j \in Folders : <>[]Seeds(j)

(* A server that runs is told to stop only when no panel of its folder is  *)
(* mounted, or by the folder's own startup, which it failed: never by a    *)
(* stop scheduled before a remount, and never in place of another folder's.*)
LiveServersAreSpared ==
  [][\A p \in Procs : procs[p].state = "live" /\ procs'[p].state = "dying" =>
       LET k == procs[p].folder
       IN  \/ k \notin panel'
           \/ startups[k].proc = p /\ startups[k].at \in {"reuse", "reseeding", "starting", "seeding"}]_vars
==============================================================================
