----------------------------- MODULE CatalogStore -----------------------------
(***************************************************************************)
(* JsonCatalogStore: the catalog of workspaces, sessions, worktrees and    *)
(* session files, held in memory and written as a whole, through a queue,  *)
(* to a temporary file that is then renamed over catalogs.json.            *)
(*                                                                         *)
(* Stores are the instances of the class over that one file in one         *)
(* process: the driver's, which changes workspaces and sessions, and the   *)
(* desktop's, which changes worktrees.  Every change of an entry is known  *)
(* by a version; an entry's content is its newest version.                 *)
(***************************************************************************)
EXTENDS Naturals, Sequences, FiniteSets

CONSTANTS
  Stores,
  Keys,         \* catalog entries
  KeysOf,       \* the entries each store changes
  NoFile,       \* no file of that name
  MaxVersion,   \* bound: changes
  MaxFailures,  \* bound: failed reads and writes
  MaxCrashes,   \* bound: crashes of the process
  Ticks         \* the milliseconds Date.now() may read

ASSUME StoresAreFinite == IsFiniteSet(Stores)
ASSUME KeysOfStores == KeysOf \in [Stores -> SUBSET Keys]
ASSUME SomeTick == Ticks # {}
ASSUME BoundsAreNaturals == MaxVersion \in Nat /\ MaxFailures \in Nat /\ MaxCrashes \in Nat

VARIABLES
  disk,      \* the catalog file
  tmp,       \* temporary files of this process, by the tick in their name
  loaded,    \* getState: "no", "yes", or "failed", which loadPromise remembers
  memory,    \* this.state
  queue,     \* writes not yet settled: for each, the catalog as it was changed
  job,       \* the write at the head of writeQueue
  version,   \* history: changes so far
  acked,     \* history: the newest version of each entry a settled write vouches for
  rejected,  \* history: writes that rejected
  failures,  \* failed file operations so far
  crashes    \* crashes so far

store == <<loaded, memory, queue, job>>
vars == <<disk, tmp, store, version, acked, rejected, failures, crashes>>

Catalog == [Keys -> Nat]
File == [whole: BOOLEAN, entries: Catalog]

ASSUME NoFileIsNone == NoFile \notin File

Empty == [k \in Keys |-> 0]

(* A write's file is the temporary one, or catalogs.json once another      *)
(* store has renamed it, or neither once that was replaced.                *)
Job == [step: {"rest", "writing", "written"}, name: Ticks,
        place: {"tmp", "disk", "gone"}, payload: Catalog]

NoJob == [step |-> "rest", name |-> CHOOSE t \in Ticks : TRUE, place |-> "tmp",
          payload |-> Empty]

AtRest(s) == job[s].step = "rest"

Newer(a, b) == [k \in Keys |-> IF a[k] < b[k] THEN b[k] ELSE a[k]]

------------------------------------------------------------------------------
(* Mutant: a missing file is not an empty catalog. *)
InitNoFile ==
  /\ disk = NoFile
  /\ tmp = [t \in Ticks |-> NoFile]
  /\ loaded = [s \in Stores |-> "no"]
  /\ memory = [s \in Stores |-> Empty]
  /\ queue = [s \in Stores |-> <<>>]
  /\ job = [s \in Stores |-> NoJob]
  /\ version = 0
  /\ acked = Empty
  /\ rejected = 0
  /\ failures = 0
  /\ crashes = 0

Init ==
  /\ disk = [whole |-> TRUE, entries |-> Empty]
  /\ tmp = [t \in Ticks |-> NoFile]
  /\ loaded = [s \in Stores |-> "no"]
  /\ memory = [s \in Stores |-> Empty]
  /\ queue = [s \in Stores |-> <<>>]
  /\ job = [s \in Stores |-> NoJob]
  /\ version = 0
  /\ acked = Empty
  /\ rejected = 0
  /\ failures = 0
  /\ crashes = 0

(* loadState, for the first operation that calls getState.  A missing file *)
(* is an empty catalog; a file that does not parse rejects.                *)
Load(s) ==
  /\ loaded[s] = "no"
  /\ disk.whole
  /\ loaded' = [loaded EXCEPT ![s] = "yes"]
  /\ memory' = [memory EXCEPT ![s] = disk.entries]
  /\ UNCHANGED <<disk, tmp, queue, job, version, acked, rejected, failures, crashes>>

LoadFails(s) ==
  /\ loaded[s] = "no"
  /\ \/ ~disk.whole
        /\ UNCHANGED failures
     \/ disk.whole
        /\ failures < MaxFailures
        /\ failures' = failures + 1
  /\ loaded' = [loaded EXCEPT ![s] = "failed"]
  /\ UNCHANGED <<disk, tmp, memory, queue, job, version, acked, rejected, crashes>>

(* mutateState: the entry is changed in memory and the write queued in one *)
(* step.                                                                   *)
MutateState(s, k) ==
  /\ loaded[s] = "yes"
  /\ version < MaxVersion
  /\ version' = version + 1
  /\ memory' = [memory EXCEPT ![s][k] = version + 1]
  /\ queue' = [queue EXCEPT ![s] = Append(@, memory'[s])]
  /\ UNCHANGED <<disk, tmp, loaded, job, acked, rejected, failures, crashes>>

(* Mutant: catalogs.json is written in place. *)
BeginWriteInPlace(s) ==
  /\ queue[s] # <<>>
  /\ AtRest(s)
  /\ \E t \in Ticks :
       job' = [job EXCEPT ![s] =
            [step |-> "writing", name |-> t, place |-> "disk", payload |-> memory[s]]]
  /\ disk' = [disk EXCEPT !.whole = FALSE]
  /\ UNCHANGED <<tmp, loaded, memory, queue, version, acked, rejected, failures, crashes>>

(* persistState's operation begins: the state of now is the payload, and   *)
(* writeFile creates or truncates the temporary file.                      *)
BeginWrite(s) ==
  /\ queue[s] # <<>>
  /\ AtRest(s)
  /\ \E t \in Ticks :
       /\ job' = [job EXCEPT ![s] =
            [step |-> "writing", name |-> t, place |-> "tmp", payload |-> memory[s]]]
       /\ tmp' = [tmp EXCEPT ![t] = [whole |-> FALSE, entries |-> Empty]]
  /\ UNCHANGED <<disk, loaded, memory, queue, version, acked, rejected, failures, crashes>>

(* Two writes into one file at once may leave any mixture behind. *)
SharesFile(r, s) ==
  r # s /\ ~AtRest(r) /\ job[r].name = job[s].name /\ job[r].place = job[s].place

(* writeFile is done. *)
EndWrite(s) ==
  /\ job[s].step = "writing"
  /\ job' = [job EXCEPT ![s].step = "written"]
  /\ \E mixed \in BOOLEAN :
       LET written == [whole |-> ~mixed, entries |-> job[s].payload]
       IN  /\ mixed => \E r \in Stores : SharesFile(r, s)
           /\ \/ /\ job[s].place = "tmp"
                 /\ tmp' = [tmp EXCEPT ![job[s].name] = written]
                 /\ UNCHANGED disk
              \/ /\ job[s].place = "disk"
                 /\ disk' = written
                 /\ UNCHANGED tmp
              \/ /\ job[s].place = "gone"
                 /\ UNCHANGED <<disk, tmp>>
  /\ UNCHANGED <<loaded, memory, queue, version, acked, rejected, failures, crashes>>

(* The write settles: the next one in the queue may begin. *)
Settle(s, jobs) ==
  /\ job' = [jobs EXCEPT ![s] = NoJob]
  /\ queue' = [queue EXCEPT ![s] = Tail(@)]

(* Where the other writes' files are once file t has been renamed. *)
AfterRename(t) ==
  [r \in Stores |->
     IF AtRest(r) THEN NoJob
     ELSE IF job[r].place = "disk" THEN [job[r] EXCEPT !.place = "gone"]
     ELSE IF job[r].name = t THEN [job[r] EXCEPT !.place = "disk"]
     ELSE job[r]]

Rename(s) ==
  LET t == job[s].name
  IN  /\ job[s].step = "written"
      /\ tmp[t] # NoFile
      /\ disk' = tmp[t]
      /\ tmp' = [tmp EXCEPT ![t] = NoFile]
      /\ acked' = Newer(acked, Head(queue[s]))
      /\ Settle(s, AfterRename(t))
      /\ UNCHANGED <<loaded, memory, version, rejected, failures, crashes>>

(* Mutant: a failed write is logged and resolves. *)
WriteFailsSilently(s) ==
  /\ queue[s] # <<>>
  /\ failures < MaxFailures
  /\ failures' = failures + 1
  /\ acked' = Newer(acked, Head(queue[s]))
  /\ Settle(s, job)
  /\ UNCHANGED <<disk, tmp, loaded, memory, version, rejected, crashes>>

(* Mutant: writeQueue carries the rejection on to the writes behind. *)
WriteFailsForAll(s) ==
  /\ queue[s] # <<>>
  /\ failures < MaxFailures
  /\ failures' = failures + 1
  /\ rejected' = rejected + Len(queue[s])
  /\ job' = [job EXCEPT ![s] = NoJob]
  /\ queue' = [queue EXCEPT ![s] = <<>>]
  /\ UNCHANGED <<disk, tmp, loaded, memory, version, acked, crashes>>

(* Mutant: writeQueue never settles once a write has failed. *)
WriteFailsForGood(s) ==
  /\ queue[s] # <<>>
  /\ failures < MaxFailures
  /\ failures' = failures + 1
  /\ rejected' = rejected + 1
  /\ job' = [job EXCEPT ![s].step = "failed"]
  /\ UNCHANGED <<disk, tmp, loaded, memory, queue, version, acked, crashes>>

(* Mutant: a change whose write fails is taken back by reading the file. *)
WriteFailsUndone(s) ==
  /\ queue[s] # <<>>
  /\ failures < MaxFailures
  /\ failures' = failures + 1
  /\ rejected' = rejected + 1
  /\ memory' = [memory EXCEPT ![s] = disk.entries]
  /\ Settle(s, job)
  /\ UNCHANGED <<disk, tmp, loaded, version, acked, crashes>>

(* mkdir, writeFile or rename rejects, and with it this one operation; the *)
(* catalog in memory keeps the change, and the queue goes on.              *)
WriteFails(s) ==
  /\ queue[s] # <<>>
  /\ \/ /\ job[s].step = "written"
        /\ tmp[job[s].name] = NoFile
        /\ UNCHANGED failures
     \/ /\ failures < MaxFailures
        /\ failures' = failures + 1
  /\ rejected' = rejected + 1
  /\ Settle(s, job)
  /\ UNCHANGED <<disk, tmp, loaded, memory, version, acked, crashes>>

(* The process dies and starts again, with a process id of its own. *)
Crash ==
  /\ crashes < MaxCrashes
  /\ crashes' = crashes + 1
  /\ tmp' = [t \in Ticks |-> NoFile]
  /\ loaded' = [s \in Stores |-> "no"]
  /\ queue' = [s \in Stores |-> <<>>]
  /\ job' = [s \in Stores |-> NoJob]
  /\ UNCHANGED <<disk, memory, version, acked, rejected, failures>>

WriteStep(s) == BeginWrite(s) \/ EndWrite(s) \/ Rename(s) \/ WriteFails(s)

Next ==
  \/ \E s \in Stores :
       \/ Load(s)
       \/ LoadFails(s)
       \/ \E k \in KeysOf[s] : MutateState(s, k)
       \/ BeginWrite(s)
       \/ EndWrite(s)
       \/ Rename(s)
       \/ WriteFails(s)
  \/ Crash

Spec == Init /\ [][Next]_vars

(* A file operation settles, one way or the other. *)
FairSpec == Spec /\ \A s \in Stores : WF_vars(WriteStep(s))

------------------------------------------------------------------------------
TypeOK ==
  /\ disk \in File
  /\ tmp \in [Ticks -> File \cup {NoFile}]
  /\ loaded \in [Stores -> {"no", "yes", "failed"}]
  /\ memory \in [Stores -> Catalog]
  /\ queue \in [Stores -> Seq(Catalog)]
  /\ job \in [Stores -> Job]
  /\ version \in Nat
  /\ acked \in Catalog
  /\ rejected \in Nat
  /\ failures \in Nat
  /\ crashes \in Nat

(* The catalog file always parses, whenever the process dies. *)
DiskReadable == disk.whole

(* plans/runtime-resource-safety-and-regression-closeout.md: "Persistence  *)
(* is atomic, ordered, and single-writer per key".  A change whose write   *)
(* was acknowledged, and every change before it, its write rejected or     *)
(* not, is on disk, and stays there over crashes and later failures.       *)
AckedIsDurable ==
  disk.whole => \A k \in Keys : acked[k] <= disk.entries[k]

(* The file never goes back to an older version of an entry, which a       *)
(* payload taken too early, or a write overtaking another, would do.       *)
DiskAdvances == [][\A k \in Keys : disk.entries[k] <= disk'.entries[k]]_vars

(* With one store over the file: however the writes, their failures and    *)
(* the crashes interleave, the store is a DurableMap.  The file holds the  *)
(* catalog exactly as it was after one of the changes, never a mixture of  *)
(* two of them; a write that settles has stored its own change and all     *)
(* before it, one that rejects undoes nothing, and a crash leaves the file.*)
Sole == CHOOSE s \in Stores : TRUE

Promised == INSTANCE DurableMap WITH
  current <- IF loaded[Sole] = "yes" THEN memory[Sole] ELSE disk.entries,
  pending <- queue[Sole],
  stored <- disk.entries

ImplementsDurableMap == Promised!Spec

(* A failed file operation rejects the write it belongs to and no other.   *)
FailureIsIsolated == rejected <= failures

(* Every queued write settles, behind failed ones too. *)
WritesSettle == \A s \in Stores : queue[s] # <<>> ~> queue[s] = <<>>
==============================================================================
