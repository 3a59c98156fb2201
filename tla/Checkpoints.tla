------------------------------ MODULE Checkpoints ------------------------------
(***************************************************************************)
(* The checkpoints of checkpoint-store.ts: snapshots of the file an agent  *)
(* is about to edit, kept as manifests and content-addressed blobs under a *)
(* retention policy, restored after a rollback checkpoint was made.        *)
(*                                                                         *)
(* Creating, finalizing, restoring, rejecting hunks and changing the       *)
(* policy are queued: one job runs at a time.  A restore preview is not,   *)
(* and the file changes under all of them.  One action is the code from    *)
(* one await to the next, or a batch of unlinks, any of which may fail: a  *)
(* crash among them is one after the batch that got as far.  A manifest    *)
(* that cannot be read counts as absent, as the code has it.  A checkpoint *)
(* is of one file of one workspace, small enough to be stored.             *)
(***************************************************************************)
EXTENDS Integers, FiniteSets

CONSTANTS
  Contents,    \* what the file may hold
  Absent,      \* there is no file
  None,        \* no manifest, no policy file
  DefaultMax,  \* maxCheckpoints of the store
  Limits,      \* the limits a user may set
  MaxIds,      \* bound: checkpoints made
  MaxRequests, \* bound: jobs and previews
  MaxEdits,    \* bound: changes of the file from outside
  MaxCrashes   \* bound: crashes

ASSUME LimitsArePositive == DefaultMax \in Nat \ {0} /\ Limits \subseteq Nat \ {0}
ASSUME AbsentIsNoContent == Absent \notin Contents
ASSUME BoundsAreNaturals ==
  MaxIds \in Nat /\ MaxRequests \in Nat /\ MaxEdits \in Nat /\ MaxCrashes \in Nat

VARIABLES
  file,      \* the content of the file
  manifests, \* the manifest of each checkpoint, while it has one
  blobs,     \* the blobs that are whole
  torn,      \* the blobs whose writing has begun and not ended
  disk,      \* retention.json
  policy,    \* retentionPolicy
  load,      \* retentionLoaded, and who awaits the first read of the policy
  found,     \* what that read has found, until it ends
  job,       \* the queued operation under way
  view,      \* a preview, or a read of the policy, outside the queue
  made,      \* checkpoints made so far
  requests, edits, crashes,
  edited,    \* history: the file changed since the job last looked at it
  promised,  \* history: the checkpoints the user was told are protected
  strayed,   \* history: the policy was used during its load, or could not be read,
             \* or an older one landed last
  missed     \* history: the checkpoints whose manifest a collection could not read

store == <<manifests, blobs, torn, disk>>
bounds == <<requests, edits, crashes>>
history == <<edited, promised, strayed, missed>>
vars == <<file, store, policy, load, found, job, view, made, bounds, history>>

Ids == 1 .. MaxIds
Held == Contents \cup {Absent}
Snapshot == [hash: Held, blob: Held]
Manifest == [hash: Held, blob: Held, after: Held]
Policy == [max: Limits \cup {DefaultMax}, kept: SUBSET Ids, leased: SUBSET Ids]
Default == [max |-> DefaultMax, kept |-> {}, leased |-> {}]
Empty == [hash |-> Absent, blob |-> Absent]

Job == [op: {"none", "create", "finalize", "set", "release", "restore", "reject"},
        at: {"idle", "hash", "read", "write", "record", "retain", "prune", "collect", "set",
             "release", "landing", "lease", "leasing", "classify", "check", "replace", "unlease",
             "unleasing"},
        id: 0 .. MaxIds,   \* the checkpoint asked for
        goal: Snapshot,    \* restore: what it holds; reject: the text the hunks were applied to
        took: Snapshot,    \* the capture under way
        own: 0 .. MaxIds,  \* the checkpoint the job made
        noop: BOOLEAN, doomed: SUBSET Ids, payload: Policy]
Idle == [op |-> "none", at |-> "idle", id |-> 0, goal |-> Empty, took |-> Empty, own |-> 0,
         noop |-> FALSE, doomed |-> {}, payload |-> Default]
View == [at: {"idle", "lease", "policy", "landing"}, id: 0 .. MaxIds, payload: Policy]
NoView == [at |-> "idle", id |-> 0, payload |-> Default]

ASSUME NoneIsNothing == None \notin Manifest /\ None \notin Policy

Present == {i \in Ids : manifests[i] # None}
Needs(i) == {manifests[i].blob, manifests[i].after} \ {Absent}
At(point) == job.at = point
Goes(point) == job' = [job EXCEPT !.at = point]
Ends == job' = Idle
Retained == policy.kept \cup policy.leased

(* ensureRetentionLoaded: only the caller that began the load awaits it. *)
Loaded(who) == load = "done" \/ (load # "cold" /\ load # who)

(* The policy is used: by the caller of the load, or while another awaits it. *)
Used == strayed' = (strayed \/ load # "done")

Init ==
  /\ file \in Held
  /\ manifests = [i \in Ids |-> None]
  /\ blobs = {} /\ torn = {} /\ disk = None
  /\ policy = Default /\ load = "cold" /\ found = None
  /\ job = Idle /\ view = NoView
  /\ made = 0 /\ requests = 0 /\ edits = 0 /\ crashes = 0
  /\ edited = FALSE /\ promised = {} /\ strayed = FALSE /\ missed = {}

------------------------------------------------------------------------------
Starts(op, point, i) ==
  /\ job.op = "none"
  /\ requests < MaxRequests
  /\ requests' = requests + 1
  /\ job' = [Idle EXCEPT !.op = op, !.at = point, !.id = i]

(* toolStarted: create. *)
CreateStarts ==
  /\ made < MaxIds
  /\ Starts("create", "hash", 0)
  /\ UNCHANGED <<file, store, policy, load, found, view, made, edits, crashes, history>>

(* toolFinished: finalizeExpectedAfter. *)
FinalizeStarts(i) ==
  /\ i \in Present
  /\ Starts("finalize", "hash", i)
  /\ UNCHANGED <<file, store, policy, load, found, view, made, edits, crashes, history>>

(* setRetentionPolicy, releaseRestoreLease. *)
PolicyJobStarts(op, i) ==
  /\ Starts(op, op, i)
  /\ UNCHANGED <<file, store, policy, load, found, view, made, edits, crashes, history>>

(* restore: read the manifest. *)
RestoreStarts(i) ==
  /\ made < MaxIds
  /\ i \in Present
  /\ job.op = "none" /\ requests < MaxRequests
  /\ requests' = requests + 1
  /\ job' = [Idle EXCEPT !.op = "restore", !.at = "lease", !.id = i,
               !.goal = [hash |-> manifests[i].hash, blob |-> manifests[i].blob]]
  /\ UNCHANGED <<file, store, policy, load, found, view, made, edits, crashes, history>>

(* rejectHunks: the texts before and after the edit are there, and the     *)
(* hunks are applied to the text of now.                                   *)
RejectStarts(i) ==
  /\ made < MaxIds
  /\ i \in Present /\ {manifests[i].blob, manifests[i].after} \subseteq blobs
  /\ file # Absent
  /\ job.op = "none" /\ requests < MaxRequests
  /\ requests' = requests + 1
  /\ job' = [Idle EXCEPT !.op = "reject", !.at = "hash", !.id = i,
               !.goal = [hash |-> file, blob |-> Absent]]
  /\ UNCHANGED <<file, store, policy, load, found, view, made, edits, crashes, history>>

------------------------------------------------------------------------------
(* captureFile: lstat and hash, *)
Hash ==
  /\ At("hash")
  /\ job' = [job EXCEPT !.took = [hash |-> file, blob |-> Absent],
                        !.at = IF file = Absent THEN "record" ELSE "read"]
  /\ edited' = FALSE
  /\ UNCHANGED <<file, store, policy, load, found, view, made, bounds, promised, strayed, missed>>

(* Mutant: a blob that exists is taken to be whole. *)
ReadFileTrusts ==
  /\ At("read")
  /\ job' = IF file = Absent THEN Idle
            ELSE [job EXCEPT !.took.blob = file,
                             !.at = IF file \in blobs \cup torn THEN "record" ELSE "write"]
  /\ torn' = IF file \in {Absent} \cup blobs THEN torn ELSE torn \cup {file}
  /\ UNCHANGED <<file, manifests, blobs, disk, policy, load, found, view, made, bounds, history>>

(* then read the file again and write its blob, unless it is there.  One   *)
(* that is there and not whole is taken for corruption.                    *)
ReadFile ==
  /\ At("read")
  /\ job' = IF file \in {Absent} \cup torn THEN Idle
            ELSE [job EXCEPT !.took.blob = file,
                             !.at = IF file \in blobs THEN "record" ELSE "write"]
  /\ torn' = IF file \in {Absent} \cup blobs THEN torn ELSE torn \cup {file}
  /\ UNCHANGED <<file, manifests, blobs, disk, policy, load, found, view, made, bounds, history>>

WriteBlob ==
  /\ At("write")
  /\ blobs' = blobs \cup {job.took.blob}
  /\ torn' = torn \ {job.took.blob}
  /\ Goes("record")
  /\ UNCHANGED <<file, manifests, disk, policy, load, found, view, made, bounds, history>>

(* finalizeExpectedAfter, the manifest written again. *)
RecordAfter ==
  /\ At("record") /\ job.op = "finalize"
  /\ manifests' = [manifests EXCEPT ![job.id].after =
                     IF job.took.blob = Absent THEN @ ELSE job.took.blob]
  /\ Ends
  /\ UNCHANGED <<file, blobs, torn, disk, policy, load, found, view, made, bounds, history>>

(* createUnlocked, the manifest of a new checkpoint. *)
Record ==
  /\ At("record") /\ job.op # "finalize"
  /\ made' = made + 1
  /\ manifests' = [manifests EXCEPT ![made + 1] =
                     [hash |-> job.took.hash, blob |-> job.took.blob, after |-> Absent]]
  /\ job' = [job EXCEPT !.at = "retain", !.own = made + 1]
  /\ UNCHANGED <<file, blobs, torn, disk, policy, load, found, view, bounds, history>>

------------------------------------------------------------------------------
(* applyRetention: of the manifests its list could read, the oldest not    *)
(* retained, as many as are too many.                                      *)
Doomed(seen) ==
  LET free == seen \ Retained
  IN  {i \in free : Cardinality({j \in free : j < i}) < Cardinality(seen) - policy.max}

Retain ==
  \E seen \in SUBSET Present :
    /\ At("retain") /\ Loaded("job")
    /\ job' = [job EXCEPT !.at = "prune", !.doomed = Doomed(seen)]
    /\ Used
    /\ UNCHANGED <<file, store, policy, load, found, view, made, bounds, edited, promised, missed>>

(* Their manifests are unlinked, or stay where that fails. *)
Prune ==
  \E gone \in SUBSET job.doomed :
    /\ At("prune")
    /\ manifests' = [i \in Ids |-> IF i \in gone THEN None ELSE manifests[i]]
    /\ job' = [job EXCEPT !.at = "collect", !.doomed = {}]
    /\ UNCHANGED <<file, blobs, torn, disk, policy, load, found, view, made, bounds, history>>

(* garbageCollectBlobs, over the manifests that a second list could read;  *)
(* then the job goes on, or is answered.                                   *)
Collect ==
  \E seen \in SUBSET Present :
    \E gone \in SUBSET ((blobs \cup torn) \ UNION {Needs(i) : i \in seen}) :
      /\ At("collect")
      /\ blobs' = blobs \ gone /\ torn' = torn \ gone
      /\ missed' = missed \cup (Present \ seen)
      /\ job' = IF job.op \in {"restore", "reject"} THEN [job EXCEPT !.at = "check"] ELSE Idle
      /\ promised' = IF job.op = "set" THEN job.payload.kept \cap Present ELSE promised
      /\ UNCHANGED <<file, manifests, disk, policy, load, found, view, made, bounds, edited,
                     strayed>>

------------------------------------------------------------------------------
(* The first to need the policy begins to read it *)
LoadStarts(who) ==
  /\ load = "cold"
  /\ IF who = "job" THEN job.at \in {"retain", "set", "release", "lease"}
                    ELSE view.at \in {"lease", "policy"}
  /\ load' = who
  /\ UNCHANGED <<file, store, policy, found, job, view, made, bounds, history>>

(* and finds, unless that fails, what the file is at some time meanwhile, *)
LoadReads ==
  /\ load \in {"job", "view"} /\ found = None
  /\ disk # None /\ found' = disk
  /\ UNCHANGED <<file, store, policy, load, job, view, made, bounds, history>>

(* Mutant: a policy file that is missing counts as read. *)
LoadEndsBare ==
  /\ load \in {"job", "view"}
  /\ load' = "done" /\ found' = None
  /\ policy' = found
  /\ strayed' = (strayed \/ (found = None /\ disk # None))
  /\ UNCHANGED <<file, store, job, view, made, bounds, edited, promised, missed>>

(* which replaces the policy in memory, or leaves it the default.          *)
LoadEnds ==
  /\ load \in {"job", "view"}
  /\ load' = "done" /\ found' = None
  /\ policy' = IF found = None THEN policy ELSE found
  /\ strayed' = (strayed \/ (found = None /\ disk # None))
  /\ UNCHANGED <<file, store, job, view, made, bounds, edited, promised, missed>>

(* persistRetentionPolicy begins: what it will write is chosen. *)
Persists(p, point) ==
  /\ policy' = p
  /\ job' = [job EXCEPT !.at = point, !.payload = p]

(* Mutant: the policy that is set is not written. *)
SetPolicyUnwritten ==
  \E max \in Limits, kept \in SUBSET Present :
    /\ At("set") /\ Loaded("job")
    /\ Persists([policy EXCEPT !.max = max, !.kept = kept], "retain")
    /\ Used
    /\ promised' = promised \cap kept
    /\ UNCHANGED <<file, store, load, found, view, made, bounds, edited, missed>>

(* setRetentionPolicy. *)
SetPolicy ==
  \E max \in Limits, kept \in SUBSET Present :
    /\ At("set") /\ Loaded("job")
    /\ Persists([policy EXCEPT !.max = max, !.kept = kept], "landing")
    /\ Used
    /\ promised' = promised \cap kept
    /\ UNCHANGED <<file, store, load, found, view, made, bounds, edited, missed>>

(* releaseRestoreLease. *)
Release ==
  /\ At("release") /\ Loaded("job")
  /\ Persists([policy EXCEPT !.leased = @ \ {job.id}], "landing")
  /\ Used
  /\ UNCHANGED <<file, store, load, found, view, made, bounds, edited, promised, missed>>

(* restore: acquireRestoreLease of its preview, and the end. *)
Lease ==
  /\ At("lease") /\ Loaded("job")
  /\ IF job.id \in policy.leased
     THEN Goes("classify") /\ UNCHANGED <<policy, strayed>>
     ELSE Persists([policy EXCEPT !.leased = @ \cup {job.id}], "leasing") /\ Used
  /\ UNCHANGED <<file, store, load, found, view, made, bounds, edited, promised, missed>>

Unlease ==
  /\ At("unlease") /\ Loaded("job")
  /\ IF job.id \notin policy.leased
     THEN Ends /\ UNCHANGED <<policy, strayed>>
     ELSE Persists([policy EXCEPT !.leased = @ \ {job.id}], "unleasing") /\ Used
  /\ UNCHANGED <<file, store, load, found, view, made, bounds, edited, promised, missed>>

(* The policy file is renamed into place. *)
Lands ==
  /\ job.at \in {"landing", "leasing", "unleasing"}
  /\ disk' = job.payload
  /\ strayed' = (strayed \/ job.payload # policy)
  /\ job' = IF At("unleasing") THEN Idle
            ELSE [job EXCEPT !.at = IF At("landing") THEN "retain" ELSE "classify"]
  /\ UNCHANGED <<file, manifests, blobs, torn, policy, load, found, view, made, bounds, edited, promised,
                 missed>>

------------------------------------------------------------------------------
(* restore: its preview finds the file as it was, changed, or in conflict, *)
(* and the user confirmed what has to be confirmed.                        *)
Classify ==
  /\ At("classify")
  /\ job.goal.blob \in blobs \cup {Absent}
  /\ job' = [job EXCEPT !.at = "hash", !.noop = (file = job.goal.hash)]
  /\ UNCHANGED <<file, store, policy, load, found, view, made, bounds, history>>

(* Mutant: the file is not looked at again after the rollback checkpoint. *)
CheckNothing ==
  /\ At("check")
  /\ edited' = FALSE
  /\ Goes("replace")
  /\ UNCHANGED <<file, store, policy, load, found, view, made, bounds, promised, strayed, missed>>

(* The file is still what the rollback checkpoint captured; for a reject,  *)
(* the rollback captured what the hunks were applied to.                   *)
Check ==
  /\ At("check")
  /\ edited' = IF job.op = "restore" THEN FALSE ELSE edited
  /\ IF job.op = "restore"
     THEN Goes(IF ~job.noop /\ file = job.took.hash THEN "replace" ELSE "unlease")
     ELSE IF job.goal.hash = job.took.hash THEN Goes("replace") ELSE Ends
  /\ UNCHANGED <<file, store, policy, load, found, view, made, bounds, promised, strayed, missed>>

(* applyRestoreEntry: the file is removed, or replaced by the blob if it   *)
(* is there and is what was hashed.                                        *)
Restore ==
  /\ At("replace") /\ job.op = "restore"
  /\ \/ job.goal.hash = Absent
     \/ job.goal.blob \in blobs /\ job.goal.blob = job.goal.hash
  /\ file' = job.goal.hash
  /\ Goes("unlease")
  /\ UNCHANGED <<store, policy, load, found, view, made, bounds, history>>

(* rejectHunks: the file is replaced by the text without the hunks. *)
Reject ==
  /\ At("replace") /\ job.op = "reject"
  /\ file' \in Contents \ {job.goal.hash}
  /\ Ends
  /\ UNCHANGED <<store, policy, load, found, view, made, bounds, history>>

(* A read or a write rejects, or the restore is refused: the job rejects;  *)
(* from the last check on, a restore counts the path as failed.            *)
JobFails ==
  /\ job.at \in {"hash", "read", "write", "record", "landing", "leasing", "classify", "check",
                 "replace", "unleasing"}
  /\ IF job.op = "restore" /\ job.at \in {"check", "replace"} THEN Goes("unlease") ELSE Ends
  /\ UNCHANGED <<file, store, policy, load, found, view, made, bounds, history>>

------------------------------------------------------------------------------
(* A preview reads the manifest; getRetentionPolicy only loads the policy. *)
ViewStarts(i) ==
  /\ view = NoView
  /\ requests < MaxRequests
  /\ requests' = requests + 1
  /\ i = 0 \/ i \in Present
  /\ view' = [NoView EXCEPT !.at = IF i = 0 THEN "policy" ELSE "lease", !.id = i]
  /\ UNCHANGED <<file, store, policy, load, found, job, made, edits, crashes, history>>

(* acquireRestoreLease. *)
ViewLeases ==
  /\ view.at \in {"lease", "policy"} /\ Loaded("view")
  /\ IF view.at = "policy" \/ view.id \in policy.leased
     THEN view' = NoView /\ UNCHANGED <<policy, strayed>>
     ELSE LET p == [policy EXCEPT !.leased = @ \cup {view.id}]
          IN  policy' = p /\ view' = [view EXCEPT !.at = "landing", !.payload = p] /\ Used
  /\ UNCHANGED <<file, store, load, found, job, made, bounds, edited, promised, missed>>

(* Its policy file is renamed into place, or is not. *)
ViewLands ==
  /\ view.at = "landing"
  /\ \/ disk' = view.payload /\ strayed' = (strayed \/ view.payload # policy)
     \/ UNCHANGED <<disk, strayed>>
  /\ view' = NoView
  /\ UNCHANGED <<file, manifests, blobs, torn, policy, load, found, job, made, bounds, edited, promised,
                 missed>>

(* The tool, the user or git changes the file. *)
Edit ==
  /\ edits < MaxEdits
  /\ edits' = edits + 1
  /\ file' \in Held \ {file}
  /\ edited' = TRUE
  /\ UNCHANGED <<store, policy, load, found, job, view, made, requests, crashes, promised, strayed,
                 missed>>

(* The app stops, and starts again on what is on disk. *)
Crash ==
  /\ crashes < MaxCrashes
  /\ crashes' = crashes + 1
  /\ policy' = Default /\ load' = "cold" /\ found' = None
  /\ Ends /\ view' = NoView
  /\ UNCHANGED <<file, store, made, requests, edits, history>>

JobStep ==
  \/ Hash \/ ReadFile \/ WriteBlob \/ RecordAfter \/ Record
  \/ Retain \/ Prune \/ Collect
  \/ SetPolicy \/ Release \/ Lease \/ Unlease \/ Lands
  \/ Classify \/ Check \/ Restore \/ Reject \/ JobFails

Next ==
  \/ CreateStarts
  \/ \E i \in Ids : \/ FinalizeStarts(i) \/ RestoreStarts(i) \/ RejectStarts(i)
                    \/ PolicyJobStarts("release", i)
  \/ PolicyJobStarts("set", 0)
  \/ JobStep
  \/ LoadStarts("job") \/ LoadStarts("view") \/ LoadReads \/ LoadEnds
  \/ \E i \in 0 .. MaxIds : ViewStarts(i)
  \/ ViewLeases \/ ViewLands
  \/ Edit \/ Crash

Spec == Init /\ [][Next]_vars

------------------------------------------------------------------------------
TypeOK ==
  /\ file \in Held
  /\ manifests \in [Ids -> Manifest \cup {None}]
  /\ blobs \subseteq Contents /\ torn \subseteq Contents
  /\ disk \in Policy \cup {None} /\ policy \in Policy
  /\ load \in {"cold", "job", "view", "done"} /\ found \in Policy \cup {None}
  /\ job \in Job /\ view \in View
  /\ made \in 0 .. MaxIds
  /\ requests \in 0 .. MaxRequests /\ edits \in 0 .. MaxEdits /\ crashes \in 0 .. MaxCrashes
  /\ edited \in BOOLEAN /\ promised \subseteq Ids /\ strayed \in BOOLEAN
  /\ missed \subseteq Ids

(* The blobs of every checkpoint, taken before and after the edit, are on  *)
(* disk and whole, through pruning, failures and crashes in the middle of  *)
(* a write, unless a collection could not read its manifest.               *)
BlobsReachable == \A i \in Present \ missed : Needs(i) \subseteq blobs

(* What the user was told is protected is there, unless the policy was     *)
(* used while its first read was under way, that read failed, or an older  *)
(* policy landed last.                                                     *)
RemovalsExplained == promised \subseteq Present \/ strayed

(* Checkpoint i holds the content c. *)
Holds(i, c) ==
  /\ i \in Present
  /\ manifests[i].hash = c /\ manifests[i].blob = c
  /\ c \in blobs \cup {Absent}

(* A restore or a reject that replaces the file destroys nothing that its  *)
(* rollback checkpoint does not hold in a blob, unless the file changed    *)
(* after the last look at it, or changed between the two reads of the      *)
(* capture (and back), the rollback's manifest could not be read by the    *)
(* collection, the policy strayed, or the checkpoints it retains alone     *)
(* fill the limit, when the rollback is itself pruned.                     *)
OverwritesAreSaved ==
  [][file' # file /\ edits' = edits =>
       \/ Holds(job.own, file)
       \/ edited \/ job.took.hash # job.took.blob
       \/ job.own \in missed
       \/ strayed \/ Cardinality(Retained) >= policy.max]_vars

(* A restore puts back what its checkpoint holds, and the lease keeps that *)
(* checkpoint through the pruning after the rollback checkpoint, through   *)
(* previews that lease and through failures, unless the policy strayed.    *)
RestoresAreFaithful ==
  [][file' # file /\ edits' = edits /\ job.op = "restore" =>
       strayed \/ (job.id \in Present /\ file' = manifests[job.id].hash)]_vars
==============================================================================
