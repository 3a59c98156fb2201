--------------------------- MODULE CheckpointsProofs ---------------------------
(***************************************************************************)
(* Proofs about Checkpoints, for any contents, limits, numbers of          *)
(* checkpoints, requests, edits and crashes.                               *)
(***************************************************************************)
EXTENDS Checkpoints, FiniteSetTheorems, TLAPS

(* A job that will record a checkpoint has an id left for it, and one that *)
(* finalizes a checkpoint has its manifest.                                *)
Ready ==
  /\ job.op \in {"create", "restore", "reject"}
       /\ job.at \in {"lease", "leasing", "classify", "hash", "read", "write", "record"}
     => made < MaxIds
  /\ job.op = "finalize" => job.id \in Present /\ job.at \in {"hash", "read", "write", "record"}
  /\ job.at \in {"hash", "read", "write", "record"}
     => job.op \in {"create", "finalize", "restore", "reject"}
  /\ job.at = "write" => job.took.blob \in Contents
  /\ job.op = "restore" => job.id \in Ids
  /\ job.at \in {"lease", "leasing", "classify"} => job.op = "restore"
  /\ job.at \in {"set", "release", "landing"} => job.op \in {"set", "release"}
  /\ view.at = "lease" => view.id \in Ids

LEMMA Basics ==
  /\ Default \in Policy /\ Idle \in Job /\ NoView \in View
  /\ Idle = [op |-> "none", at |-> "idle", id |-> 0, goal |-> Empty, took |-> Empty, own |-> 0,
             noop |-> FALSE, doomed |-> {}, payload |-> Default]
<1>1. Default \in Policy
  BY DEF Default, Policy
<1>2. Idle \in Job
  BY <1>1, BoundsAreNaturals DEF Idle, Job, Snapshot, Empty, Held
<1>3. NoView \in View
  BY <1>1, BoundsAreNaturals DEF NoView, View
<1> QED BY <1>1, <1>2, <1>3 DEF Idle

LEMMA InitType == Init => TypeOK
<1> SUFFICES ASSUME Init PROVE TypeOK
  OBVIOUS
<1>1. /\ made \in 0 .. MaxIds /\ requests \in 0 .. MaxRequests
      /\ edits \in 0 .. MaxEdits /\ crashes \in 0 .. MaxCrashes
  BY BoundsAreNaturals DEF Init
<1>2. manifests \in [Ids -> Manifest \cup {None}]
  BY DEF Init
<1> QED BY <1>1, <1>2, Basics DEF Init, TypeOK

LEMMA StartTyped ==
  ASSUME NEW op \in {"create", "finalize", "set", "release", "restore", "reject"},
         NEW point \in {"hash", "set", "release", "lease"},
         NEW i \in 0 .. MaxIds
  PROVE  [Idle EXCEPT !.op = op, !.at = point, !.id = i] \in Job
  BY Basics DEF Job

LEMMA StartWithGoalTyped ==
  ASSUME NEW op \in {"restore", "reject"}, NEW point \in {"hash", "lease"},
         NEW i \in 0 .. MaxIds, NEW goal \in Snapshot
  PROVE  [Idle EXCEPT !.op = op, !.at = point, !.id = i, !.goal = goal] \in Job
  BY Basics DEF Job

LEMMA IdsAreNumbers == Ids \subseteq 0 .. MaxIds /\ 0 \in 0 .. MaxIds
  BY BoundsAreNaturals DEF Ids

LEMMA GoesTyped ==
  ASSUME TypeOK,
         NEW point \in {"record", "retain", "prune", "landing", "leasing", "classify", "check",
                        "replace", "unlease", "unleasing", "hash", "write"}
  PROVE  [job EXCEPT !.at = point] \in Job
  BY DEF TypeOK, Job

LEMMA FieldsTyped ==
  ASSUME TypeOK
  PROVE  /\ job.took \in Snapshot /\ job.goal \in Snapshot /\ job.payload \in Policy
         /\ job.id \in 0 .. MaxIds /\ job.own \in 0 .. MaxIds /\ job.doomed \subseteq Ids
         /\ view.payload \in Policy /\ view.id \in 0 .. MaxIds
         /\ \A i \in Present : /\ manifests[i] \in Manifest
                               /\ manifests[i].hash \in Held /\ manifests[i].blob \in Held
                               /\ manifests[i].after \in Held
         /\ job.took.hash \in Held /\ job.took.blob \in Held
         /\ policy.max \in Nat /\ policy.kept \subseteq Ids /\ policy.leased \subseteq Ids
  BY LimitsArePositive DEF TypeOK, Job, View, Present, Manifest, Snapshot, Policy

LEMMA StepTyped == TypeOK /\ Ready /\ [Next]_vars => TypeOK'
<1> SUFFICES ASSUME TypeOK, Ready, [Next]_vars PROVE TypeOK'
  OBVIOUS
<1> USE DEF store, bounds, history
<1>1. ASSUME CreateStarts PROVE TypeOK'
  <2>1. job' \in Job
    BY <1>1, StartTyped, IdsAreNumbers DEF CreateStarts, Starts
  <2> QED BY <1>1, <2>1, BoundsAreNaturals DEF CreateStarts, Starts, TypeOK
<1>2. ASSUME NEW i \in Ids, FinalizeStarts(i) PROVE TypeOK'
  <2>1. job' \in Job
    BY <1>2, StartTyped, IdsAreNumbers DEF FinalizeStarts, Starts
  <2> QED BY <1>2, <2>1, BoundsAreNaturals DEF FinalizeStarts, Starts, TypeOK
<1>3. ASSUME NEW i \in Ids \cup {0}, NEW op \in {"set", "release"}, PolicyJobStarts(op, i)
      PROVE  TypeOK'
  <2>1. job' \in Job
    BY <1>3, StartTyped, IdsAreNumbers DEF PolicyJobStarts, Starts
  <2> QED BY <1>3, <2>1, BoundsAreNaturals DEF PolicyJobStarts, Starts, TypeOK
<1>4. ASSUME NEW i \in Ids, RestoreStarts(i) PROVE TypeOK'
  <2>1. [hash |-> manifests[i].hash, blob |-> manifests[i].blob] \in Snapshot
    BY <1>4, FieldsTyped DEF RestoreStarts, Snapshot
  <2>2. job' \in Job
    BY <1>4, <2>1, StartWithGoalTyped, IdsAreNumbers DEF RestoreStarts
  <2> QED BY <1>4, <2>2, BoundsAreNaturals DEF RestoreStarts, TypeOK
<1>5. ASSUME NEW i \in Ids, RejectStarts(i) PROVE TypeOK'
  <2>1. [hash |-> file, blob |-> Absent] \in Snapshot
    BY DEF TypeOK, Snapshot, Held
  <2>2. job' \in Job
    BY <1>5, <2>1, StartWithGoalTyped, IdsAreNumbers DEF RejectStarts
  <2> QED BY <1>5, <2>2, BoundsAreNaturals DEF RejectStarts, TypeOK
<1>6. ASSUME Hash PROVE TypeOK'
  <2>1. [hash |-> file, blob |-> Absent] \in Snapshot
    BY DEF TypeOK, Snapshot, Held
  <2>2. job' \in Job
    BY <1>6, <2>1 DEF Hash, TypeOK, Job
  <2> QED BY <1>6, <2>2 DEF Hash, TypeOK
<1>7. ASSUME ReadFile PROVE TypeOK'
  <2>1. job' \in Job
    <3>1. CASE file \in {Absent} \cup torn
      BY <1>7, <3>1, Basics DEF ReadFile
    <3>2. CASE file \notin {Absent} \cup torn
      <4>1. job' = [job EXCEPT !.took.blob = file, !.at = IF file \in blobs THEN "record" ELSE "write"]
        BY <1>7, <3>2 DEF ReadFile
      <4> QED BY <4>1 DEF TypeOK, Job, Snapshot
    <3> QED BY <3>1, <3>2
  <2>2. torn' \subseteq Contents
    BY <1>7 DEF ReadFile, TypeOK, Held
  <2> QED BY <1>7, <2>1, <2>2 DEF ReadFile, TypeOK
<1>8. ASSUME WriteBlob PROVE TypeOK'
  <2>1. job.took.blob \in Contents
    BY <1>8 DEF WriteBlob, At, Ready
  <2> QED BY <1>8, <2>1, GoesTyped DEF WriteBlob, Goes, TypeOK
<1>9. ASSUME RecordAfter PROVE TypeOK'
  <2>1. job.id \in Ids /\ manifests[job.id] \in Manifest
    BY <1>9, FieldsTyped DEF RecordAfter, Ready, Present
  <2>2. (IF job.took.blob = Absent THEN manifests[job.id].after ELSE job.took.blob) \in Held
    BY <2>1, FieldsTyped DEF Manifest
  <2>3. manifests' \in [Ids -> Manifest \cup {None}]
    BY <1>9, <2>1, <2>2 DEF RecordAfter, TypeOK, Manifest
  <2> QED BY <1>9, <2>3, Basics DEF RecordAfter, Ends, TypeOK
<1>10. ASSUME Record PROVE TypeOK'
  <2>1. made < MaxIds
    BY <1>10 DEF Record, At, Ready
  <2>2. made + 1 \in Ids /\ made + 1 \in 0 .. MaxIds
    BY <2>1, BoundsAreNaturals DEF TypeOK, Ids
  <2>3. [hash |-> job.took.hash, blob |-> job.took.blob, after |-> Absent] \in Manifest
    BY FieldsTyped DEF Manifest, Held
  <2>4. manifests' \in [Ids -> Manifest \cup {None}]
    BY <1>10, <2>3 DEF Record, TypeOK
  <2>5. job' \in Job
    BY <1>10, <2>2 DEF Record, TypeOK, Job
  <2> QED BY <1>10, <2>2, <2>4, <2>5 DEF Record, TypeOK
<1>11. ASSUME Retain PROVE TypeOK'
  <2>1. PICK seen \in SUBSET Present : job' = [job EXCEPT !.at = "prune", !.doomed = Doomed(seen)]
    BY <1>11 DEF Retain
  <2>2. Doomed(seen) \subseteq Ids
    BY DEF Doomed, Present
  <2>3. job' \in Job
    BY <2>1, <2>2 DEF TypeOK, Job
  <2> QED BY <1>11, <2>3 DEF Retain, Used, TypeOK
<1>12. ASSUME Prune PROVE TypeOK'
  <2>1. job' \in Job
    BY <1>12 DEF Prune, TypeOK, Job
  <2> QED BY <1>12, <2>1 DEF Prune, TypeOK
<1>13. ASSUME Collect PROVE TypeOK'
  <2>1. job' \in Job
    BY <1>13, GoesTyped, Basics DEF Collect
  <2> QED BY <1>13, <2>1 DEF Collect, Present, TypeOK
<1>14. ASSUME LoadReads PROVE TypeOK'
  BY <1>14 DEF LoadReads, TypeOK
<1>15. ASSUME NEW who \in {"job", "view"}, LoadStarts(who) PROVE TypeOK'
  BY <1>15 DEF LoadStarts, TypeOK
<1>16. ASSUME LoadEnds PROVE TypeOK'
  BY <1>16 DEF LoadEnds, TypeOK
<1>17. ASSUME SetPolicy PROVE TypeOK'
  <2>1. PICK max \in Limits, kept \in SUBSET Present :
          /\ Persists([policy EXCEPT !.max = max, !.kept = kept], "landing")
          /\ Used /\ promised' = promised \cap kept
          /\ UNCHANGED <<file, store, load, found, view, made, bounds, edited, missed>>
    BY <1>17 DEF SetPolicy
  <2>2. [policy EXCEPT !.max = max, !.kept = kept] \in Policy
    BY DEF TypeOK, Policy, Present
  <2> QED BY <2>1, <2>2 DEF Persists, Used, TypeOK, Job
<1>18. ASSUME Release PROVE TypeOK'
  <2>1. [policy EXCEPT !.leased = @ \ {job.id}] \in Policy
    BY DEF TypeOK, Policy
  <2> QED BY <1>18, <2>1 DEF Release, Persists, Used, TypeOK, Job
<1>19. ASSUME Lease PROVE TypeOK'
  <2>1. CASE job.id \in policy.leased
    BY <1>19, <2>1, GoesTyped DEF Lease, Goes, TypeOK
  <2>2. CASE job.id \notin policy.leased
    <3>1. job.id \in Ids
      BY <1>19, <2>2 DEF Lease, At, Ready
    <3>2. [policy EXCEPT !.leased = @ \cup {job.id}] \in Policy
      BY <3>1 DEF TypeOK, Policy
    <3>3. Persists([policy EXCEPT !.leased = @ \cup {job.id}], "leasing") /\ Used
      BY <1>19, <2>2 DEF Lease
    <3>4. job' \in Job
      BY <3>2, <3>3 DEF Persists, TypeOK, Job
    <3> QED BY <1>19, <3>2, <3>3, <3>4 DEF Lease, Persists, Used, TypeOK
  <2> QED BY <2>1, <2>2
<1>20. ASSUME Unlease PROVE TypeOK'
  <2>1. [policy EXCEPT !.leased = @ \ {job.id}] \in Policy
    BY DEF TypeOK, Policy
  <2>2. CASE job.id \notin policy.leased
    BY <1>20, <2>2, Basics DEF Unlease, Ends, TypeOK
  <2>3. CASE job.id \in policy.leased
    <3>1. Persists([policy EXCEPT !.leased = @ \ {job.id}], "unleasing") /\ Used
      BY <1>20, <2>3 DEF Unlease
    <3>2. job' \in Job
      BY <2>1, <3>1 DEF Persists, TypeOK, Job
    <3> QED BY <1>20, <2>1, <3>1, <3>2 DEF Unlease, Persists, Used, TypeOK
  <2> QED BY <2>2, <2>3
<1>21. ASSUME Lands PROVE TypeOK'
  BY <1>21, GoesTyped, FieldsTyped, Basics DEF Lands, At, TypeOK
<1>22. ASSUME Classify PROVE TypeOK'
  BY <1>22 DEF Classify, TypeOK, Job
<1>23. ASSUME Check PROVE TypeOK'
  BY <1>23, GoesTyped, Basics DEF Check, Goes, Ends, TypeOK
<1>24. ASSUME Restore PROVE TypeOK'
  BY <1>24, GoesTyped, FieldsTyped DEF Restore, Goes, TypeOK, Snapshot
<1>25. ASSUME Reject PROVE TypeOK'
  BY <1>25, Basics DEF Reject, Ends, TypeOK, Held
<1>26. ASSUME JobFails PROVE TypeOK'
  BY <1>26, GoesTyped, Basics DEF JobFails, Goes, Ends, TypeOK
<1>27. ASSUME NEW i \in 0 .. MaxIds, ViewStarts(i) PROVE TypeOK'
  <2>1. view' \in View
    BY <1>27, Basics DEF ViewStarts, NoView, View
  <2> QED BY <1>27, <2>1, BoundsAreNaturals DEF ViewStarts, TypeOK
<1>28. ASSUME ViewLeases PROVE TypeOK'
  <2>1. CASE view.at = "policy" \/ view.id \in policy.leased
    BY <1>28, <2>1, Basics DEF ViewLeases, TypeOK
  <2>2. CASE ~(view.at = "policy" \/ view.id \in policy.leased)
    <3>1. view.id \in Ids
      BY <1>28, <2>2 DEF ViewLeases, Ready
    <3> DEFINE p == [policy EXCEPT !.leased = @ \cup {view.id}]
    <3>2. p \in Policy
      BY <3>1 DEF TypeOK, Policy
    <3>3. policy' = p /\ view' = [view EXCEPT !.at = "landing", !.payload = p] /\ Used
      BY <1>28, <2>2 DEF ViewLeases
    <3>4. view' \in View
      BY <3>2, <3>3 DEF TypeOK, View
    <3> QED BY <1>28, <3>2, <3>3, <3>4 DEF ViewLeases, Used, TypeOK
  <2> QED BY <2>1, <2>2
<1>29. ASSUME ViewLands PROVE TypeOK'
  BY <1>29, FieldsTyped, Basics DEF ViewLands, TypeOK
<1>30. ASSUME Edit PROVE TypeOK'
  BY <1>30, BoundsAreNaturals DEF Edit, TypeOK
<1>31. ASSUME Crash PROVE TypeOK'
  BY <1>31, Basics, BoundsAreNaturals DEF Crash, Ends, TypeOK
<1>32. CASE UNCHANGED vars
  BY <1>32 DEF vars, TypeOK
<1> QED
  BY <1>1, <1>2, <1>3, <1>4, <1>5, <1>6, <1>7, <1>8, <1>9, <1>10, <1>11, <1>12, <1>13, <1>14,
     <1>15, <1>16, <1>17, <1>18, <1>19, <1>20, <1>21, <1>22, <1>23, <1>24, <1>25, <1>26, <1>27,
     <1>28, <1>29, <1>30, <1>31, <1>32 DEF Next, JobStep

LEMMA StepReady == TypeOK /\ Ready /\ [Next]_vars => Ready'
<1> SUFFICES ASSUME TypeOK, Ready, [Next]_vars PROVE Ready'
  OBVIOUS
<1> USE DEF Ready, store, bounds, At
<1>1. ASSUME CreateStarts PROVE Ready'
  BY <1>1, Basics DEF CreateStarts, Starts
<1>2. ASSUME NEW i \in Ids, FinalizeStarts(i) PROVE Ready'
  BY <1>2, Basics DEF FinalizeStarts, Starts, Present
<1>3. ASSUME NEW i \in Ids \cup {0}, NEW op \in {"set", "release"}, PolicyJobStarts(op, i)
      PROVE  Ready'
  BY <1>3, Basics DEF PolicyJobStarts, Starts
<1>4. ASSUME NEW i \in Ids, RestoreStarts(i) PROVE Ready'
  BY <1>4, Basics DEF RestoreStarts
<1>5. ASSUME NEW i \in Ids, RejectStarts(i) PROVE Ready'
  BY <1>5, Basics DEF RejectStarts
<1>6. ASSUME Hash PROVE Ready'
  BY <1>6 DEF Hash, TypeOK, Job, Present
<1>7. ASSUME ReadFile PROVE Ready'
  <2>1. CASE file \in {Absent} \cup torn
    BY <1>7, <2>1, Basics DEF ReadFile
  <2>2. CASE file \notin {Absent} \cup torn
    <3>1. job' = [job EXCEPT !.took.blob = file, !.at = IF file \in blobs THEN "record" ELSE "write"]
      BY <1>7, <2>2 DEF ReadFile
    <3> QED BY <1>7, <2>2, <3>1 DEF ReadFile, TypeOK, Job, Snapshot, Held, Present
  <2> QED BY <2>1, <2>2
<1>8. ASSUME WriteBlob PROVE Ready'
  BY <1>8 DEF WriteBlob, Goes, TypeOK, Job, Present
<1>9. ASSUME RecordAfter \/ Reject PROVE Ready'
  BY <1>9, Basics DEF RecordAfter, Reject, Ends
<1>10. ASSUME Record PROVE Ready'
  BY <1>10 DEF Record, TypeOK, Job
<1>11. ASSUME Retain PROVE Ready'
  BY <1>11 DEF Retain, TypeOK, Job, Present
<1>12. ASSUME Prune PROVE Ready'
  BY <1>12 DEF Prune, TypeOK, Job
<1>13. ASSUME Collect PROVE Ready'
  BY <1>13, Basics DEF Collect, Present, TypeOK, Job
<1>14. ASSUME LoadReads PROVE Ready'
  BY <1>14 DEF LoadReads, Present
<1>15. ASSUME SetPolicy PROVE Ready'
  BY <1>15 DEF SetPolicy, Persists, Present, TypeOK, Job
<1>16. ASSUME Release PROVE Ready'
  BY <1>16 DEF Release, Persists, Present, TypeOK, Job
<1>17. ASSUME Lease PROVE Ready'
  BY <1>17 DEF Lease, Persists, Goes, Present, TypeOK, Job
<1>18. ASSUME Unlease PROVE Ready'
  <2>1. CASE job' = Idle
    BY <1>18, <2>1, Basics DEF Unlease
  <2>2. CASE job' # Idle
    <3>1. Persists([policy EXCEPT !.leased = @ \ {job.id}], "unleasing")
      BY <1>18, <2>2 DEF Unlease, Ends
    <3>2. job'.op = job.op /\ job'.id = job.id /\ job'.at = "unleasing"
      BY <3>1 DEF Persists, TypeOK, Job
    <3> QED BY <1>18, <3>2 DEF Unlease, Present
  <2> QED BY <2>1, <2>2
<1>19. ASSUME Lands PROVE Ready'
  BY <1>19, Basics DEF Lands, Present, TypeOK, Job
<1>20. ASSUME Classify PROVE Ready'
  BY <1>20 DEF Classify, Present, TypeOK, Job
<1>21. ASSUME Check PROVE Ready'
  BY <1>21, Basics DEF Check, Goes, Ends, Present, TypeOK, Job
<1>22. ASSUME Restore PROVE Ready'
  BY <1>22 DEF Restore, Goes, Present, TypeOK, Job
<1>23. ASSUME JobFails PROVE Ready'
  BY <1>23, Basics DEF JobFails, Goes, Ends, Present, TypeOK, Job
<1>24. ASSUME NEW who \in {"job", "view"}, LoadStarts(who) PROVE Ready'
  BY <1>24 DEF LoadStarts, Present
<1>25. ASSUME LoadEnds \/ Edit PROVE Ready'
  BY <1>25 DEF LoadEnds, Edit, Present
<1>26. ASSUME NEW i \in 0 .. MaxIds, ViewStarts(i) PROVE Ready'
  BY <1>26, Basics DEF ViewStarts, NoView, Present
<1>27. ASSUME ViewLeases PROVE Ready'
  BY <1>27, Basics DEF ViewLeases, NoView, Present, TypeOK, View
<1>28. ASSUME ViewLands PROVE Ready'
  BY <1>28, Basics DEF ViewLands, NoView, Present
<1>29. ASSUME Crash PROVE Ready'
  BY <1>29, Basics DEF Crash, Ends, NoView
<1>30. CASE UNCHANGED vars
  BY <1>30 DEF vars, Present
<1> QED
  BY <1>1, <1>2, <1>3, <1>4, <1>5, <1>6, <1>7, <1>8, <1>9, <1>10, <1>11, <1>12, <1>13, <1>14,
     <1>15, <1>16, <1>17, <1>18, <1>19, <1>20, <1>21, <1>22, <1>23, <1>24, <1>25, <1>26, <1>27,
     <1>28, <1>29, <1>30 DEF Next, JobStep

------------------------------------------------------------------------------
(* The blob of the capture under way is there when its manifest is to be   *)
(* written.                                                                *)
Reachable ==
  /\ BlobsReachable
  /\ At("record") => job.took.blob \in blobs \cup {Absent}

LEMMA QuietReachable ==
  ASSUME Reachable, UNCHANGED <<manifests, blobs, missed>>, job'.at # "record"
  PROVE  Reachable'
  BY DEF Reachable, BlobsReachable, Needs, Present, At

LEMMA StepReachable == TypeOK /\ Ready /\ Reachable /\ [Next]_vars => Reachable'
<1> SUFFICES ASSUME TypeOK, Ready, Reachable, [Next]_vars PROVE Reachable'
  OBVIOUS
<1> USE DEF store, bounds, history, At
<1>1. ASSUME \/ CreateStarts
             \/ \E i \in Ids : FinalizeStarts(i) \/ RestoreStarts(i) \/ RejectStarts(i)
             \/ \E i \in Ids \cup {0} : PolicyJobStarts("set", i) \/ PolicyJobStarts("release", i)
      PROVE  Reachable'
  <2>1. UNCHANGED <<manifests, blobs, missed>>
    BY <1>1 DEF CreateStarts, FinalizeStarts, RestoreStarts, RejectStarts, PolicyJobStarts
  <2>2. job'.at # "record"
    BY <1>1, Basics
       DEF CreateStarts, FinalizeStarts, RestoreStarts, RejectStarts, PolicyJobStarts, Starts
  <2> QED BY <2>1, <2>2, QuietReachable
<1>2. ASSUME Hash PROVE Reachable'
  <2>1. job'.at = "record" => job'.took.blob = Absent
    BY <1>2 DEF Hash, TypeOK, Job
  <2> QED BY <1>2, <2>1 DEF Hash, Reachable, BlobsReachable, Needs, Present
<1>3. ASSUME ReadFile PROVE Reachable'
  <2>1. job'.at = "record" => job'.took.blob \in blobs
    BY <1>3, Basics DEF ReadFile, TypeOK, Job, Snapshot
  <2> QED BY <1>3, <2>1 DEF ReadFile, Reachable, BlobsReachable, Needs, Present
<1>4. ASSUME WriteBlob PROVE Reachable'
  <2>1. job'.took = job.took
    BY <1>4 DEF WriteBlob, Goes, TypeOK, Job
  <2> QED BY <1>4, <2>1 DEF WriteBlob, Reachable, BlobsReachable, Needs, Present
<1>5. ASSUME NEW m \in Manifest, NEW k \in Ids, manifests' = [manifests EXCEPT ![k] = m],
             k \in missed \/ {m.blob, m.after} \subseteq blobs \cup {Absent},
             blobs' = blobs, missed' = missed, job'.at # "record"
      PROVE  Reachable'
  <2>1. \A i \in Present' : \/ i = k /\ manifests'[i] = m
                            \/ i \in Present /\ manifests'[i] = manifests[i]
    BY <1>5 DEF TypeOK, Present
  <2> QED BY <1>5, <2>1 DEF Reachable, BlobsReachable, Needs
<1>6. ASSUME RecordAfter PROVE Reachable'
  <2> DEFINE m == [manifests[job.id] EXCEPT
                     !.after = IF job.took.blob = Absent THEN @ ELSE job.took.blob]
  <2>1. job.id \in Present /\ job.id \in Ids
    BY <1>6 DEF RecordAfter, Ready, Present
  <2>2. m \in Manifest /\ m.blob = manifests[job.id].blob
        /\ m.after \in {manifests[job.id].after, job.took.blob}
    BY <2>1, FieldsTyped DEF Manifest
  <2>3. job.id \in missed \/ {m.blob, m.after} \subseteq blobs \cup {Absent}
    BY <1>6, <2>1, <2>2 DEF RecordAfter, Reachable, BlobsReachable, Needs
  <2>4. manifests' = [manifests EXCEPT ![job.id] = m]
    BY <1>6, <2>1, FieldsTyped DEF RecordAfter, TypeOK, Manifest
  <2>5. blobs' = blobs /\ missed' = missed /\ job'.at # "record"
    BY <1>6, Basics DEF RecordAfter, Ends
  <2> HIDE DEF m
  <2> QED BY <1>5, <2>1, <2>2, <2>3, <2>4, <2>5
<1>7. ASSUME Record PROVE Reachable'
  <2> DEFINE m == [hash |-> job.took.hash, blob |-> job.took.blob, after |-> Absent]
  <2>1. made + 1 \in Ids
    BY <1>7, BoundsAreNaturals DEF Record, Ready, TypeOK, Ids
  <2>2. m \in Manifest
    BY FieldsTyped DEF Manifest, Held
  <2>3. {m.blob, m.after} \subseteq blobs \cup {Absent}
    BY <1>7 DEF Record, Reachable
  <2>4. manifests' = [manifests EXCEPT ![made + 1] = m] /\ blobs' = blobs /\ missed' = missed
    BY <1>7 DEF Record
  <2>5. job'.at # "record"
    BY <1>7 DEF Record, TypeOK, Job
  <2> HIDE DEF m
  <2> QED BY <1>5, <2>1, <2>2, <2>3, <2>4, <2>5
<1>8. ASSUME Prune PROVE Reachable'
  <2>1. \A i \in Present' : i \in Present /\ manifests'[i] = manifests[i]
    BY <1>8 DEF Prune, TypeOK, Present
  <2>2. job'.at # "record" /\ blobs' = blobs /\ missed' = missed
    BY <1>8 DEF Prune, TypeOK, Job
  <2> QED BY <2>1, <2>2 DEF Reachable, BlobsReachable, Needs
<1>9. ASSUME Collect PROVE Reachable'
  <2>1. PICK seen \in SUBSET Present :
          \E gone \in SUBSET ((blobs \cup torn) \ UNION {Needs(i) : i \in seen}) :
            blobs' = blobs \ gone /\ missed' = missed \cup (Present \ seen)
    BY <1>9 DEF Collect
  <2>2. manifests' = manifests /\ job'.at # "record"
    BY <1>9, Basics DEF Collect, TypeOK, Job
  <2>3. \A i \in Present \ missed' : i \in seen /\ Needs(i) \subseteq blobs
    BY <2>1 DEF Reachable, BlobsReachable
  <2>4. \A i \in Present \ missed' : Needs(i) \subseteq blobs'
    BY <2>1, <2>3
  <2> QED BY <2>2, <2>4 DEF Reachable, BlobsReachable, Needs, Present
<1>10. ASSUME \/ Retain \/ SetPolicy \/ Release \/ Lease \/ Unlease \/ Lands
              \/ Classify \/ Check \/ Restore \/ Reject
       PROVE  Reachable'
  <2>1. UNCHANGED <<manifests, blobs, missed>>
    BY <1>10 DEF Retain, SetPolicy, Release, Lease, Unlease, Lands, Classify, Check, Restore, Reject
  <2>2. CASE Retain
    BY <2>1, <2>2, QuietReachable DEF Retain, TypeOK, Job
  <2>3. CASE SetPolicy \/ Release \/ Lease \/ Unlease \/ Lands
    <3>1. job'.at # "record"
      BY <2>3, Basics DEF SetPolicy, Release, Lease, Unlease, Lands, Persists, Goes, Ends, TypeOK, Job
    <3> QED BY <2>1, <3>1, QuietReachable
  <2>4. CASE Classify \/ Check \/ Restore \/ Reject
    <3>1. job'.at # "record"
      BY <2>4, Basics DEF Classify, Check, Restore, Reject, Goes, Ends, TypeOK, Job
    <3> QED BY <2>1, <3>1, QuietReachable
  <2> QED BY <1>10, <2>2, <2>3, <2>4
<1>11. ASSUME JobFails \/ Crash PROVE Reachable'
  <2>1. UNCHANGED <<manifests, blobs, missed>>
    BY <1>11 DEF JobFails, Crash
  <2>2. job'.at # "record"
    BY <1>11, Basics DEF JobFails, Crash, Goes, Ends, TypeOK, Job
  <2> QED BY <2>1, <2>2, QuietReachable
<1>12. ASSUME \/ \E who \in {"job", "view"} : LoadStarts(who)
              \/ LoadReads \/ LoadEnds \/ ViewLeases \/ ViewLands \/ Edit \/ UNCHANGED vars
              \/ \E i \in 0 .. MaxIds : ViewStarts(i)
       PROVE  Reachable'
  <2>1. UNCHANGED <<manifests, blobs, missed, job>>
    BY <1>12 DEF LoadStarts, LoadReads, LoadEnds, ViewLeases, ViewLands, Edit, ViewStarts, vars
  <2> QED BY <2>1 DEF Reachable, BlobsReachable, Needs, Present
<1> QED
  BY <1>1, <1>2, <1>3, <1>4, <1>6, <1>7, <1>8, <1>9, <1>10, <1>11, <1>12 DEF Next, JobStep

------------------------------------------------------------------------------
(* Unless the policy strayed, a promise is kept by the policy in memory,   *)
(* once it is loaded, and by the one on disk, which a read under way has   *)
(* found if it has found any.                                              *)
Keeping ==
  /\ promised \subseteq Present
  /\ promised # {} => disk # None /\ promised \subseteq disk.kept
  /\ load = "done" => promised \subseteq policy.kept
  /\ promised \cap job.doomed = {}
  /\ job.op = "set" /\ job.at \in {"retain", "prune", "collect"}
     => disk # None /\ job.payload.kept \subseteq disk.kept /\ job.payload.kept \subseteq policy.kept
  /\ job.at \in {"landing", "leasing", "unleasing"} => load = "done"
  /\ view.at = "landing" => load = "done"
  /\ found \in {None, disk} /\ (load \in {"cold", "done"} => found = None)

LEMMA QuietKeeping ==
  ASSUME Keeping, UNCHANGED <<manifests, disk, policy, load, found, promised, view>>,
         job'.doomed \subseteq job.doomed,
         ~(job'.op = "set" /\ job'.at \in {"retain", "prune", "collect"}),
         job'.at \notin {"landing", "leasing", "unleasing"}
  PROVE  Keeping'
  BY DEF Keeping, Present

LEMMA StepKeeping ==
  TypeOK /\ Ready /\ (strayed \/ Keeping) /\ [Next]_vars => strayed' \/ Keeping'
<1> SUFFICES ASSUME TypeOK, Ready, strayed \/ Keeping, [Next]_vars, ~strayed' PROVE Keeping'
  OBVIOUS
<1> USE DEF store, bounds, history, At
<1>0. Keeping
  <2>1. SUFFICES ASSUME strayed PROVE strayed'
    OBVIOUS
  <2>2. CASE \/ CreateStarts
             \/ \E i \in Ids : FinalizeStarts(i) \/ RestoreStarts(i) \/ RejectStarts(i)
             \/ \E i \in Ids \cup {0} : PolicyJobStarts("set", i) \/ PolicyJobStarts("release", i)
    BY <2>1, <2>2 DEF CreateStarts, FinalizeStarts, RestoreStarts, RejectStarts, PolicyJobStarts
  <2>3. CASE JobStep
    BY <2>1, <2>3 DEF JobStep, Hash, ReadFile, WriteBlob, RecordAfter, Record, Retain, Prune,
       Collect, SetPolicy, Release, Lease, Unlease, Lands, Classify, Check, Restore,
       Reject, JobFails, Used
  <2>4. CASE \/ \E who \in {"job", "view"} : LoadStarts(who)
             \/ LoadReads \/ LoadEnds \/ ViewLeases \/ ViewLands \/ Edit \/ Crash \/ UNCHANGED vars
             \/ \E i \in 0 .. MaxIds : ViewStarts(i)
    BY <2>1, <2>4 DEF LoadStarts, LoadReads, LoadEnds, ViewLeases, ViewLands, Edit, Crash, ViewStarts, vars, Used
  <2> QED BY <2>2, <2>3, <2>4 DEF Next
<1>1. ASSUME \/ CreateStarts
             \/ \E i \in Ids : FinalizeStarts(i) \/ RestoreStarts(i) \/ RejectStarts(i)
             \/ \E i \in Ids \cup {0} : PolicyJobStarts("set", i) \/ PolicyJobStarts("release", i)
      PROVE  Keeping'
  <2>1. UNCHANGED <<manifests, disk, policy, load, found, promised, view>>
    BY <1>1 DEF CreateStarts, FinalizeStarts, RestoreStarts, RejectStarts, PolicyJobStarts
  <2>2. job'.doomed = {} /\ job'.at \in {"hash", "set", "release", "lease"}
    BY <1>1, Basics
       DEF CreateStarts, FinalizeStarts, RestoreStarts, RejectStarts, PolicyJobStarts, Starts
  <2> QED BY <1>0, <2>1, <2>2, QuietKeeping
<1>2. ASSUME Hash \/ ReadFile \/ WriteBlob PROVE Keeping'
  <2>1. UNCHANGED <<manifests, disk, policy, load, found, promised, view>>
    BY <1>2 DEF Hash, ReadFile, WriteBlob
  <2>2. job'.doomed \in {{}, job.doomed} /\ job'.at \in {"record", "read", "write", "idle"}
    <3>1. CASE Hash
      BY <3>1, Basics DEF Hash, TypeOK, Job
    <3>2. CASE ReadFile
      BY <3>2, Basics DEF ReadFile, Snapshot, TypeOK, Job
    <3>3. CASE WriteBlob
      BY <3>3, Basics DEF WriteBlob, Goes, TypeOK, Job
    <3> QED BY <1>2, <3>1, <3>2, <3>3
  <2> QED BY <1>0, <2>1, <2>2, QuietKeeping
<1>3. ASSUME RecordAfter PROVE Keeping'
  <2>1. job.id \in Present /\ manifests[job.id] \in Manifest
    BY <1>3, FieldsTyped DEF RecordAfter, Ready
  <2>2. [manifests[job.id] EXCEPT
           !.after = IF job.took.blob = Absent THEN @ ELSE job.took.blob] \in Manifest
    BY <2>1, FieldsTyped DEF Manifest
  <2>3. Present' = Present
    BY <1>3, <2>1, <2>2, NoneIsNothing DEF RecordAfter, TypeOK, Present
  <2>4. job' = Idle /\ UNCHANGED <<disk, policy, load, found, promised, view>>
    BY <1>3 DEF RecordAfter, Ends
  <2> QED BY <1>0, <2>3, <2>4, Basics DEF Keeping
<1>4. ASSUME Record PROVE Keeping'
  <2>1. [hash |-> job.took.hash, blob |-> job.took.blob, after |-> Absent] \in Manifest
    BY FieldsTyped DEF Manifest, Held
  <2>2. Present \subseteq Present'
    BY <1>4, <2>1, NoneIsNothing DEF Record, TypeOK, Present
  <2>3. job'.doomed = job.doomed /\ job'.at = "retain" /\ job'.op = job.op
    BY <1>4 DEF Record, TypeOK, Job
  <2>4. job.op # "set"
    BY <1>4 DEF Record, Ready
  <2> QED BY <1>0, <1>4, <2>2, <2>3, <2>4 DEF Keeping, Record
<1>5. ASSUME Retain PROVE Keeping'
  <2>1. load = "done"
    BY <1>5 DEF Retain, Used
  <2>2. \A seen \in SUBSET Present : promised \cap Doomed(seen) = {}
    BY <1>0, <2>1 DEF Keeping, Doomed, Retained
  <2>3. /\ \E seen \in SUBSET Present : job'.doomed = Doomed(seen)
        /\ job'.at = "prune" /\ job'.op = job.op /\ job'.payload = job.payload
    BY <1>5 DEF Retain, TypeOK, Job
  <2> QED BY <1>0, <1>5, <2>1, <2>2, <2>3 DEF Keeping, Retain, Present
<1>6. ASSUME Prune PROVE Keeping'
  <2>1. PICK gone \in SUBSET job.doomed :
          manifests' = [i \in Ids |-> IF i \in gone THEN None ELSE manifests[i]]
    BY <1>6 DEF Prune
  <2>2. promised \cap gone = {}
    BY <1>0, <2>1 DEF Keeping
  <2>3. promised \subseteq Present'
    BY <1>0, <2>1, <2>2 DEF Keeping, Present
  <2>4. job'.doomed = {} /\ job'.at = "collect" /\ job'.op = job.op /\ job'.payload = job.payload
    BY <1>6 DEF Prune, TypeOK, Job
  <2>5. UNCHANGED <<disk, policy, load, found, promised, view>> /\ job.at = "prune"
    BY <1>6 DEF Prune
  <2> QED BY <1>0, <2>3, <2>4, <2>5 DEF Keeping
<1>7. ASSUME Collect PROVE Keeping'
  <2>1. job'.at \in {"check", "idle"} /\ job'.doomed \in {{}, job.doomed}
    BY <1>7, Basics DEF Collect, TypeOK, Job
  <2>2. UNCHANGED <<manifests, disk, policy, load, found, view>> /\ job.at = "collect"
    BY <1>7 DEF Collect
  <2>3. promised' = IF job.op = "set" THEN job.payload.kept \cap Present ELSE promised
    BY <1>7 DEF Collect
  <2>4. CASE job.op = "set"
    <3>1. job' = Idle
      BY <1>7, <2>4 DEF Collect
    <3> QED BY <1>0, <2>1, <2>2, <2>3, <2>4, <3>1, Basics DEF Keeping, Present
  <2>5. CASE job.op # "set"
    BY <1>0, <2>1, <2>2, <2>3, <2>5, QuietKeeping
  <2> QED BY <2>4, <2>5
<1>8. ASSUME SetPolicy PROVE Keeping'
  <2>1. PICK max \in Limits, kept \in SUBSET Present :
          /\ Persists([policy EXCEPT !.max = max, !.kept = kept], "landing")
          /\ Used /\ promised' = promised \cap kept
          /\ UNCHANGED <<file, store, load, found, view, made, bounds, edited, missed>>
    BY <1>8 DEF SetPolicy
  <2>2. load = "done" /\ policy'.kept = kept
    BY <2>1 DEF Used, Persists, TypeOK, Policy
  <2>3. job'.doomed = job.doomed /\ job'.at = "landing"
    BY <2>1 DEF Persists, TypeOK, Job
  <2> QED BY <1>0, <2>1, <2>2, <2>3 DEF Keeping, Present
<1>9. ASSUME Release \/ Lease \/ Unlease PROVE Keeping'
  <2>1. UNCHANGED <<manifests, disk, load, found, promised, view>>
    BY <1>9 DEF Release, Lease, Unlease
  <2>2. policy'.kept = policy.kept
    BY <1>9 DEF Release, Lease, Unlease, Persists, TypeOK, Policy
  <2>3. job'.doomed \in {{}, job.doomed} /\ job'.at \in {"landing", "classify", "leasing", "idle", "unleasing"}
    <3>1. CASE Release
      BY <3>1, Basics DEF Release, Persists, TypeOK, Job
    <3>2. CASE Lease
      BY <3>2, Basics DEF Lease, Persists, Goes, TypeOK, Job
    <3>3. CASE Unlease
      <4>1. job' = Idle \/ \E p : job' = [job EXCEPT !.at = "unleasing", !.payload = p]
        BY <3>3 DEF Unlease, Persists, Ends
      <4>2. CASE job' = Idle
        BY <4>2, Basics
      <4>3. ASSUME NEW p, job' = [job EXCEPT !.at = "unleasing", !.payload = p]
            PROVE  job'.doomed = job.doomed /\ job'.at = "unleasing"
        BY <4>3 DEF TypeOK, Job
      <4> QED BY <4>1, <4>2, <4>3
    <3> QED BY <1>9, <3>1, <3>2, <3>3
  <2>4. job'.at \in {"landing", "leasing", "unleasing"} => load = "done"
    BY <1>9, Basics DEF Release, Lease, Unlease, Goes, Ends, Used, TypeOK, Job
  <2> QED BY <1>0, <2>1, <2>2, <2>3, <2>4 DEF Keeping, Present
<1>10. ASSUME Lands PROVE Keeping'
  <2>1. disk' = policy /\ job.payload = policy /\ UNCHANGED <<manifests, policy, load, found, view, promised>>
    BY <1>10 DEF Lands
  <2>2. policy # None /\ load = "done"
    BY <1>0, <1>10, NoneIsNothing DEF Lands, Keeping, TypeOK
  <2>3. job'.doomed \in {{}, job.doomed} /\ job'.at \in {"idle", "retain", "classify"}
    BY <1>10, Basics DEF Lands, TypeOK, Job
  <2>4. job'.at = "retain" => job'.payload = policy
    BY <1>10, <2>1, Basics DEF Lands, TypeOK, Job
  <2> QED BY <1>0, <2>1, <2>2, <2>3, <2>4 DEF Keeping, Present
<1>11. ASSUME Classify \/ Check \/ Restore \/ Reject \/ JobFails PROVE Keeping'
  <2>1. UNCHANGED <<manifests, disk, policy, load, found, promised, view>>
    BY <1>11 DEF Classify, Check, Restore, Reject, JobFails
  <2>2. job'.doomed \in {{}, job.doomed} /\ job'.at \in {"hash", "replace", "unlease", "idle"}
    <3>1. CASE Classify
      BY <3>1, Basics DEF Classify, TypeOK, Job
    <3>2. CASE Check
      BY <3>2, Basics DEF Check, Goes, Ends, TypeOK, Job
    <3>3. CASE Restore
      BY <3>3, Basics DEF Restore, Goes, TypeOK, Job
    <3>4. CASE Reject
      BY <3>4, Basics DEF Reject, Ends, TypeOK, Job
    <3>5. CASE JobFails
      BY <3>5, Basics DEF JobFails, Goes, Ends, TypeOK, Job
    <3> QED BY <1>11, <3>1, <3>2, <3>3, <3>4, <3>5
  <2> QED BY <1>0, <2>1, <2>2, QuietKeeping
<1>12. ASSUME LoadReads \/ Edit \/ UNCHANGED vars PROVE Keeping'
  BY <1>0, <1>12 DEF LoadReads, Edit, vars, Keeping, Present
<1>13. ASSUME NEW who \in {"job", "view"}, LoadStarts(who) PROVE Keeping'
  BY <1>0, <1>13 DEF LoadStarts, Keeping, Present
<1>14. ASSUME LoadEnds PROVE Keeping'
  BY <1>0, <1>14 DEF LoadEnds, Keeping, Present
<1>15. ASSUME NEW i \in 0 .. MaxIds, ViewStarts(i) PROVE Keeping'
  <2>1. view'.at # "landing"
    BY <1>15, Basics DEF ViewStarts, NoView
  <2> QED BY <1>0, <1>15, <2>1 DEF ViewStarts, Keeping, Present
<1>16. ASSUME ViewLeases PROVE Keeping'
  <2>1. policy'.kept = policy.kept
    BY <1>16 DEF ViewLeases, TypeOK, Policy
  <2>2. view'.at = "landing" => load = "done"
    <3>1. view' = NoView \/ Used
      BY <1>16 DEF ViewLeases
    <3>2. Used => load = "done"
      BY DEF Used
    <3>3. NoView.at # "landing"
      BY DEF NoView
    <3> QED BY <3>1, <3>2, <3>3
  <2> QED BY <1>0, <1>16, <2>1, <2>2 DEF ViewLeases, Keeping, Present
<1>17. ASSUME ViewLands PROVE Keeping'
  <2>1. view'.at # "landing" /\ UNCHANGED <<manifests, policy, load, found, job, promised>>
    BY <1>17 DEF ViewLands, NoView
  <2>2. disk' = disk \/ disk' = policy
    BY <1>17 DEF ViewLands
  <2>3. policy # None /\ load = "done"
    BY <1>0, <1>17, NoneIsNothing DEF ViewLands, Keeping, TypeOK
  <2> QED BY <1>0, <2>1, <2>2, <2>3 DEF Keeping, Present
<1>18. ASSUME Crash PROVE Keeping'
  BY <1>0, <1>18, Basics DEF Crash, Ends, NoView, Keeping, Present
<1> QED
  BY <1>1, <1>2, <1>3, <1>4, <1>5, <1>6, <1>7, <1>8, <1>9, <1>10, <1>11, <1>12, <1>13, <1>14,
     <1>15, <1>16, <1>17, <1>18 DEF Next, JobStep

------------------------------------------------------------------------------
Overwrites == job.op \in {"restore", "reject"}

(* What the rollback checkpoint holds is what was captured, the file is    *)
(* what was hashed, and unless the policy strayed or its retained          *)
(* checkpoints fill the limit, the rollback is spared by the retention.    *)
Saving ==
  /\ \A i \in Present : i <= made
  /\ Overwrites /\ job.at \in {"read", "write", "record", "retain", "prune", "collect", "check",
                              "replace"}
     => edited \/ file = job.took.hash
  /\ Overwrites /\ job.at \in {"retain", "prune", "collect", "check", "replace"}
     => /\ job.own = made
        /\ job.own \in Present => /\ manifests[job.own].hash = job.took.hash
                                 /\ manifests[job.own].blob = job.took.blob
  /\ Overwrites /\ At("retain") => job.own \in Present
  /\ Overwrites /\ job.at \in {"prune", "collect", "check", "replace"}
     => \/ strayed
        \/ load = "done" /\ \/ job.own \in Present /\ job.own \notin job.doomed
                            \/ Cardinality(Retained) >= policy.max

LEMMA SetsAreFinite ==
  ASSUME TypeOK
  PROVE  IsFiniteSet(Ids) /\ IsFiniteSet(Present) /\ IsFiniteSet(Retained)
<1>1. IsFiniteSet(Ids)
  BY FS_Interval, BoundsAreNaturals DEF Ids
<1>2. Present \subseteq Ids /\ Retained \subseteq Ids
  BY FieldsTyped DEF Present, Retained
<1> QED BY <1>1, <1>2, FS_Subset

(* The newest checkpoint is pruned only when the retained fill the limit.  *)
LEMMA NewestDoomed ==
  ASSUME TypeOK, NEW seen \in SUBSET Present, NEW own \in Doomed(seen), \A i \in Present : i <= own
  PROVE  Cardinality(Retained) >= policy.max
<1> DEFINE free == seen \ Retained
           older == {j \in free : j < own}
<1>1. own \in free /\ Cardinality(older) < Cardinality(seen) - policy.max
  BY DEF Doomed
<1>2. seen \subseteq Present /\ Present \subseteq Int
  BY BoundsAreNaturals DEF Present, Ids
<1>3. older = free \ {own}
  <2>1. \A j \in free : j \in Int /\ j <= own
    BY <1>2
  <2> QED BY <1>1, <2>1
<1>4. IsFiniteSet(seen) /\ IsFiniteSet(Retained) /\ IsFiniteSet(free)
  BY <1>2, SetsAreFinite, FS_Subset, FS_Difference
<1>5. Cardinality(older) = Cardinality(free) - 1
  BY <1>1, <1>3, <1>4, FS_RemoveElement
<1>6. Cardinality(free) = Cardinality(seen) - Cardinality(seen \cap Retained)
  BY <1>4, FS_Difference
<1>7. Cardinality(seen \cap Retained) <= Cardinality(Retained)
  <2>1. seen \cap Retained \subseteq Retained
    OBVIOUS
  <2> QED BY <1>4, <2>1, FS_Subset
<1>8. /\ Cardinality(seen) \in Nat /\ Cardinality(free) \in Nat /\ Cardinality(Retained) \in Nat
      /\ Cardinality(seen \cap Retained) \in Nat
  BY <1>4, FS_CardinalityType, FS_Intersection
<1>9. policy.max \in Nat
  BY FieldsTyped
<1> HIDE DEF free, older
<1> QED BY <1>1, <1>5, <1>6, <1>7, <1>8, <1>9

(* A step to a point where nothing is said of the job. *)
LEMMA QuietSaving ==
  ASSUME Saving, UNCHANGED <<manifests, made>>,
         \/ job'.op \notin {"restore", "reject"}
         \/ job'.at \notin {"read", "write", "record", "retain", "prune", "collect", "check",
                         "replace"}
  PROVE  Saving'
  BY DEF Saving, Overwrites, Present, At

LEMMA StepSaving == TypeOK /\ Ready /\ Saving /\ [Next]_vars => Saving'
<1> SUFFICES ASSUME TypeOK, Ready, Saving, [Next]_vars PROVE Saving'
  OBVIOUS
<1> USE DEF store, bounds, history, At
<1>1. ASSUME \/ CreateStarts
             \/ \E i \in Ids : FinalizeStarts(i) \/ RestoreStarts(i) \/ RejectStarts(i)
             \/ \E i \in Ids \cup {0} : PolicyJobStarts("set", i) \/ PolicyJobStarts("release", i)
      PROVE  Saving'
  <2>1. UNCHANGED <<manifests, made>>
    BY <1>1 DEF CreateStarts, FinalizeStarts, RestoreStarts, RejectStarts, PolicyJobStarts
  <2>2. job'.at \in {"hash", "set", "release", "lease"}
    BY <1>1, Basics
       DEF CreateStarts, FinalizeStarts, RestoreStarts, RejectStarts, PolicyJobStarts, Starts
  <2> QED BY <2>1, <2>2, QuietSaving
<1>2. ASSUME Hash PROVE Saving'
  <2>1. job'.at \in {"record", "read"} /\ job'.took.hash = file /\ file' = file
    BY <1>2 DEF Hash, TypeOK, Job
  <2> QED BY <1>2, <2>1 DEF Hash, Saving, Overwrites, Present
<1>3. ASSUME ReadFile PROVE Saving'
  <2>1. CASE job' = Idle
    <3>1. job'.at = "idle"
      BY <2>1, Basics
    <3>2. UNCHANGED <<manifests, made>>
      BY <1>3 DEF ReadFile
    <3> QED BY <3>1, <3>2, QuietSaving
  <2>2. CASE job' # Idle
    <3>1. job' = [job EXCEPT !.took.blob = file, !.at = IF file \in blobs THEN "record" ELSE "write"]
      BY <1>3, <2>2 DEF ReadFile
    <3>2. job'.at \in {"record", "write"} /\ job'.took.hash = job.took.hash /\ job'.op = job.op
      BY <3>1 DEF TypeOK, Job, Snapshot
    <3> QED BY <1>3, <3>2 DEF ReadFile, Saving, Overwrites, Present
  <2> QED BY <2>1, <2>2
<1>4. ASSUME WriteBlob PROVE Saving'
  <2>1. job'.at = "record" /\ job'.took = job.took /\ job'.op = job.op
    BY <1>4 DEF WriteBlob, Goes, TypeOK, Job
  <2> QED BY <1>4, <2>1 DEF WriteBlob, Saving, Overwrites, Present
<1>5. ASSUME RecordAfter PROVE Saving'
  <2>1. job.id \in Present
    BY <1>5 DEF RecordAfter, Ready
  <2>2. Present' \subseteq Present
    BY <1>5, <2>1 DEF RecordAfter, TypeOK, Present
  <2>3. job' = Idle /\ made' = made
    BY <1>5 DEF RecordAfter, Ends
  <2> QED BY <2>2, <2>3, Basics DEF Saving, Overwrites
<1>6. ASSUME Record PROVE Saving'
  <2> DEFINE m == [hash |-> job.took.hash, blob |-> job.took.blob, after |-> Absent]
  <2>1. made + 1 \in Ids /\ made \in Nat
    <3>1. made < MaxIds
      BY <1>6 DEF Record, Ready
    <3> QED BY <3>1, BoundsAreNaturals DEF TypeOK, Ids
  <2>2. m \in Manifest /\ m # None /\ m.hash = job.took.hash /\ m.blob = job.took.blob
    BY FieldsTyped, NoneIsNothing DEF Manifest, Held
  <2>3. manifests' = [manifests EXCEPT ![made + 1] = m] /\ made' = made + 1
    BY <1>6 DEF Record
  <2> HIDE DEF m
  <2>4. Present' = Present \cup {made + 1} /\ manifests'[made + 1] = m
    BY <2>1, <2>2, <2>3 DEF TypeOK, Present
  <2>5. \A i \in Present' : i <= made'
    <3>1. Present \subseteq Int
      BY BoundsAreNaturals DEF Present, Ids
    <3>2. ASSUME NEW i \in Present PROVE i <= made + 1
      BY <2>1, <3>1 DEF Saving
    <3> QED BY <2>1, <2>3, <2>4, <3>2
  <2>6. job'.at = "retain" /\ job'.own = made + 1 /\ job'.took = job.took /\ job'.op = job.op
    BY <1>6 DEF Record, TypeOK, Job
  <2> QED BY <1>6, <2>2, <2>3, <2>4, <2>5, <2>6 DEF Record, Saving, Overwrites
<1>7. ASSUME Retain PROVE Saving'
  <2>1. PICK seen \in SUBSET Present : job' = [job EXCEPT !.at = "prune", !.doomed = Doomed(seen)]
    BY <1>7 DEF Retain
  <2>2. /\ job'.at = "prune" /\ job'.own = job.own /\ job'.took = job.took /\ job'.op = job.op
        /\ job'.doomed = Doomed(seen)
    BY <2>1 DEF TypeOK, Job
  <2>3. strayed' \/ load' = "done"
    BY <1>7 DEF Retain, Used
  <2>4. UNCHANGED <<file, manifests, made, edited, policy>> /\ job.at = "retain"
    BY <1>7 DEF Retain
  <2>5. job.own \in Doomed(seen) /\ Overwrites => Cardinality(Retained) >= policy.max
    BY <2>4, NewestDoomed DEF Saving
  <2>6. Retained' = Retained /\ Present' = Present
    BY <2>4 DEF Retained, Present
  <2> QED BY <2>2, <2>3, <2>4, <2>5, <2>6 DEF Saving, Overwrites
<1>8. ASSUME Prune PROVE Saving'
  <2>1. PICK gone \in SUBSET job.doomed :
          manifests' = [i \in Ids |-> IF i \in gone THEN None ELSE manifests[i]]
    BY <1>8 DEF Prune
  <2>2. Present' \subseteq Present /\ \A j \in Present : j \notin gone => j \in Present'
    BY <2>1 DEF Present
  <2>3. \A j \in Present' : manifests'[j] = manifests[j]
    BY <2>1 DEF Present
  <2>4. /\ job'.doomed = {} /\ job'.at = "collect" /\ job'.op = job.op
        /\ job'.own = job.own /\ job'.took = job.took
    BY <1>8 DEF Prune, TypeOK, Job
  <2>5. Retained' = Retained /\ job.at = "prune"
    BY <1>8 DEF Prune, Retained
  <2>6. UNCHANGED <<file, policy, load, made, edited, strayed>>
    BY <1>8 DEF Prune
  <2> QED BY <2>1, <2>2, <2>3, <2>4, <2>5, <2>6 DEF Saving, Overwrites
<1>9. ASSUME Collect PROVE Saving'
  <2>1. CASE job.op \in {"restore", "reject"}
    <3>1. /\ job'.at = "check" /\ job'.op = job.op /\ job'.own = job.own /\ job'.took = job.took
          /\ job'.doomed = job.doomed
      BY <1>9, <2>1 DEF Collect, TypeOK, Job
    <3>2. UNCHANGED <<file, manifests, policy, load, made, edited, strayed>> /\ job.at = "collect"
      BY <1>9 DEF Collect
    <3> QED BY <3>1, <3>2 DEF Saving, Overwrites, Present, Retained
  <2>2. CASE job.op \notin {"restore", "reject"}
    BY <1>9, <2>2, QuietSaving, Basics DEF Collect
  <2> QED BY <2>1, <2>2
<1>10. ASSUME SetPolicy \/ Release \/ Lease \/ Unlease PROVE Saving'
  <2>1. UNCHANGED <<manifests, made>>
    BY <1>10 DEF SetPolicy, Release, Lease, Unlease
  <2>2. job'.at \in {"landing", "leasing", "unleasing", "classify", "idle"}
    <3>1. CASE SetPolicy \/ Release
      BY <3>1 DEF SetPolicy, Release, Persists, TypeOK, Job
    <3>2. CASE Lease
      BY <3>2 DEF Lease, Persists, Goes, TypeOK, Job
    <3>3. CASE Unlease
      <4>1. job' = Idle \/ \E p : job' = [job EXCEPT !.at = "unleasing", !.payload = p]
        BY <3>3 DEF Unlease, Persists, Ends
      <4>2. ASSUME NEW p, job' = [job EXCEPT !.at = "unleasing", !.payload = p]
            PROVE  job'.at = "unleasing"
        BY <4>2 DEF TypeOK, Job
      <4>3. Idle.at = "idle"
        BY Basics
      <4> QED BY <4>1, <4>2, <4>3
    <3> QED BY <1>10, <3>1, <3>2, <3>3
  <2> QED BY <2>1, <2>2, QuietSaving
<1>11. ASSUME Lands PROVE Saving'
  <2>1. job'.at \in {"idle", "classify"} \/ job'.op \notin {"restore", "reject"}
    BY <1>11, Basics DEF Lands, Ready, TypeOK, Job
  <2>2. UNCHANGED <<manifests, made>>
    BY <1>11 DEF Lands
  <2> QED BY <2>1, <2>2, QuietSaving
<1>12. ASSUME Classify \/ Restore \/ Reject \/ Crash PROVE Saving'
  <2>1. UNCHANGED <<manifests, made>>
    BY <1>12 DEF Classify, Restore, Reject, Crash
  <2>2. job'.at \in {"hash", "unlease", "idle"}
    BY <1>12, Basics DEF Classify, Restore, Reject, Crash, Goes, Ends, TypeOK, Job
  <2> QED BY <2>1, <2>2, QuietSaving
<1>13. ASSUME Check PROVE Saving'
  <2>1. CASE job'.at # "replace"
    <3>1. job'.at \in {"unlease", "idle"}
      BY <1>13, <2>1, Basics DEF Check, Goes, Ends, TypeOK, Job
    <3> QED BY <1>13, <3>1, QuietSaving DEF Check
  <2>2. CASE job'.at = "replace"
    <3>1. job' = [job EXCEPT !.at = "replace"]
      BY <1>13, <2>2, Basics DEF Check, Goes, Ends, TypeOK, Job
    <3>2. /\ job'.op = job.op /\ job'.own = job.own /\ job'.took = job.took
          /\ job'.doomed = job.doomed
      BY <3>1 DEF TypeOK, Job
    <3>3. edited' = edited \/ file = job.took.hash
      BY <1>13, <3>1, <2>2, Basics DEF Check, Goes, Ends, TypeOK, Job
    <3> QED BY <1>13, <2>2, <3>2, <3>3 DEF Check, Saving, Overwrites, Present, Retained
  <2> QED BY <2>1, <2>2
<1>14. ASSUME JobFails PROVE Saving'
  <2>1. job'.at \in {"unlease", "idle"}
    BY <1>14, Basics DEF JobFails, Goes, Ends, TypeOK, Job
  <2> QED BY <1>14, <2>1, QuietSaving DEF JobFails
<1>15. ASSUME LoadReads PROVE Saving'
  BY <1>15 DEF LoadReads, Saving, Overwrites, Present, Retained
<1>16. ASSUME NEW who \in {"job", "view"}, LoadStarts(who) PROVE Saving'
  BY <1>16 DEF LoadStarts, Saving, Overwrites, Present, Retained
<1>17. ASSUME LoadEnds PROVE Saving'
  BY <1>17 DEF LoadEnds, Saving, Overwrites, Present
<1>18. ASSUME NEW i \in 0 .. MaxIds, ViewStarts(i) PROVE Saving'
  BY <1>18 DEF ViewStarts, Saving, Overwrites, Present, Retained
<1>19. ASSUME ViewLeases PROVE Saving'
  <2>1. UNCHANGED <<file, manifests, job, made, edited>> /\ load' = load
    BY <1>19 DEF ViewLeases
  <2>2. policy'.max = policy.max /\ Retained \subseteq Retained'
    BY <1>19 DEF ViewLeases, TypeOK, Policy, Retained
  <2>3. strayed => strayed'
    BY <1>19 DEF ViewLeases, Used
  <2>4. Retained' \subseteq Ids
    BY <1>19, FieldsTyped DEF ViewLeases, Ready, Retained, TypeOK, Policy
  <2>5. IsFiniteSet(Retained')
    BY <2>4, SetsAreFinite, FS_Subset
  <2>6. Cardinality(Retained) <= Cardinality(Retained')
    BY <2>2, <2>5, FS_Subset
  <2>7. Cardinality(Retained) >= policy.max => Cardinality(Retained') >= policy'.max
    <3>1. Cardinality(Retained) \in Nat /\ Cardinality(Retained') \in Nat /\ policy.max \in Nat
      BY <2>5, SetsAreFinite, FS_CardinalityType, FieldsTyped
    <3> QED BY <2>2, <2>6, <3>1
  <2>8. Present' = Present
    BY <2>1 DEF Present
  <2> QED BY <2>1, <2>3, <2>7, <2>8 DEF Saving, Overwrites
<1>20. ASSUME ViewLands PROVE Saving'
  BY <1>20 DEF ViewLands, Saving, Overwrites, Present, Retained
<1>21. ASSUME Edit PROVE Saving'
  BY <1>21 DEF Edit, Saving, Overwrites, Present, Retained
<1>22. CASE UNCHANGED vars
  BY <1>22 DEF vars, Saving, Overwrites, Present, Retained
<1> QED
  BY <1>1, <1>2, <1>3, <1>4, <1>5, <1>6, <1>7, <1>8, <1>9, <1>10, <1>11, <1>12, <1>13, <1>14,
     <1>15, <1>16, <1>17, <1>18, <1>19, <1>20, <1>21, <1>22 DEF Next, JobStep

------------------------------------------------------------------------------
Inv == TypeOK /\ Ready /\ Reachable /\ (strayed \/ Keeping) /\ Saving

LEMMA InitInv == Init => Inv
<1> SUFFICES ASSUME Init PROVE Inv
  OBVIOUS
<1>1. TypeOK
  BY InitType
<1>2. Ready /\ Reachable /\ Keeping
  BY Basics DEF Init, Ready, Reachable, BlobsReachable, Needs, Present, Keeping, At, NoView
<1>3. Saving
  BY Basics DEF Init, Saving, Overwrites, Present
<1> QED BY <1>1, <1>2, <1>3 DEF Inv

LEMMA StepInv == Inv /\ [Next]_vars => Inv'
  BY StepTyped, StepReady, StepReachable, StepKeeping, StepSaving DEF Inv

LEMMA InvHolds == Spec => []Inv
<1>1. Init => Inv
  BY InitInv
<1>2. Inv /\ [Next]_vars => Inv'
  BY StepInv
<1> QED BY <1>1, <1>2, PTL DEF Spec

(* Every variable of the store keeps its type; a manifest is never read    *)
(* where there is none.                                                    *)
THEOREM TypeCorrect == Spec => []TypeOK
<1>1. Inv => TypeOK
  BY DEF Inv
<1> QED BY <1>1, InvHolds, PTL

(* The garbage collection removes no blob of a manifest that it could      *)
(* read, and no manifest refers to a blob that is not whole.               *)
THEOREM BlobsAreReachable == Spec => []BlobsReachable
<1>1. Inv => BlobsReachable
  BY DEF Inv, Reachable
<1> QED BY <1>1, InvHolds, PTL

(* A checkpoint the user was told is protected is removed only after the   *)
(* policy strayed.                                                         *)
THEOREM RemovalsAreExplained == Spec => []RemovalsExplained
<1>1. Inv => RemovalsExplained
  BY DEF Inv, Keeping, RemovalsExplained
<1> QED BY <1>1, InvHolds, PTL

(* No step but Restore and Reject replaces the file without an edit. *)
LEMMA OnlyOverwrites ==
  ASSUME TypeOK, [Next]_vars, file' # file, edits' = edits
  PROVE  Restore \/ Reject
<1> USE DEF store, bounds, history
<1>1. ASSUME Edit PROVE edits' # edits
  BY <1>1 DEF Edit, TypeOK
<1>2. ASSUME JobStep, ~Restore, ~Reject PROVE file' = file
  BY <1>2 DEF JobStep, Hash, ReadFile, WriteBlob, RecordAfter, Record, Retain, Prune,
     Collect, SetPolicy, Release, Lease, Unlease, Lands, Classify, Check, JobFails
<1>3. ASSUME \/ CreateStarts
             \/ \E i \in Ids : \/ FinalizeStarts(i) \/ RestoreStarts(i) \/ RejectStarts(i)
                              \/ PolicyJobStarts("release", i)
             \/ PolicyJobStarts("set", 0)
             \/ LoadStarts("job") \/ LoadStarts("view") \/ LoadReads \/ LoadEnds
             \/ \E i \in 0 .. MaxIds : ViewStarts(i)
             \/ ViewLeases \/ ViewLands \/ Crash \/ UNCHANGED vars
      PROVE  file' = file
  BY <1>3 DEF CreateStarts, FinalizeStarts, RestoreStarts, RejectStarts, PolicyJobStarts,
     LoadStarts, LoadReads, LoadEnds, ViewStarts, ViewLeases, ViewLands, Crash, vars
<1> QED BY <1>1, <1>2, <1>3 DEF Next

(* What a restore or a reject replaces is held by a blob of its rollback   *)
(* checkpoint, but for a change after the last look or between the reads   *)
(* of the capture, a rollback whose manifest the collection could not      *)
(* read, a policy that strayed, or a limit filled by the retained.         *)
THEOREM OverwritesSaved == Spec => OverwritesAreSaved
<1> DEFINE Excused == \/ Holds(job.own, file)
                      \/ edited \/ job.took.hash # job.took.blob
                      \/ job.own \in missed
                      \/ strayed \/ Cardinality(Retained) >= policy.max
<1>1. Inv /\ [Next]_vars => (file' # file /\ edits' = edits => Excused)
  <2> SUFFICES ASSUME Inv, [Next]_vars, file' # file, edits' = edits PROVE Excused
    OBVIOUS
  <2>1. Restore \/ Reject
    BY OnlyOverwrites DEF Inv
  <2>2. At("replace") /\ Overwrites
    BY <2>1 DEF Restore, Reject, Overwrites
  <2>3. SUFFICES ASSUME ~edited, ~strayed, job.own \notin missed, job.took.hash = job.took.blob,
                        job.own \in Present
                 PROVE  Holds(job.own, file)
    BY <2>2 DEF Inv, Saving, At
  <2>4. /\ file = job.took.hash
        /\ manifests[job.own].hash = job.took.hash /\ manifests[job.own].blob = job.took.blob
    BY <2>2, <2>3 DEF Inv, Saving, At
  <2>5. Needs(job.own) \subseteq blobs
    BY <2>3 DEF Inv, Reachable, BlobsReachable
  <2> QED BY <2>3, <2>4, <2>5 DEF Holds, Needs
<1>2. Inv /\ [Next]_vars => [file' # file /\ edits' = edits => Excused]_vars
  BY <1>1
<1> QED BY <1>2, InvHolds, PTL DEF Spec, OverwritesAreSaved

------------------------------------------------------------------------------
(* Until the policy is read it has no leases, and past its lease a restore *)
(* has one; its checkpoint stays as it was read.                           *)
Sparing ==
  /\ load # "done" => policy.leased = {}
  /\ job.op = "restore" =>
       /\ job.id \in Present
       /\ manifests[job.id].hash = job.goal.hash
       /\ job.id \notin job.doomed
       /\ job.at \in {"lease", "unlease", "unleasing"} \/ (load = "done" /\ job.id \in policy.leased)

(* The job goes on, or another than a restore begins, and the policy stays. *)
LEMMA QuietSparing ==
  ASSUME Sparing, UNCHANGED <<manifests, policy, load>>,
         \/ job'.op # "restore"
         \/ /\ job'.op = job.op /\ job'.id = job.id /\ job'.goal = job.goal
            /\ job'.doomed \subseteq job.doomed
            /\ \/ job'.at \in {"lease", "unlease", "unleasing"}
               \/ job.at \notin {"lease", "unlease", "unleasing"}
  PROVE  Sparing'
  BY DEF Sparing, Present

LEMMA StepSparing ==
  TypeOK /\ Ready /\ Saving /\ (strayed \/ Sparing) /\ [Next]_vars => strayed' \/ Sparing'
<1> SUFFICES ASSUME TypeOK, Ready, Saving, strayed \/ Sparing, [Next]_vars, ~strayed' PROVE Sparing'
  OBVIOUS
<1> USE DEF store, bounds, history, At
<1>0. Sparing
  <2>1. SUFFICES ASSUME strayed PROVE strayed'
    OBVIOUS
  <2> QED
    BY <2>1 DEF Next, JobStep, CreateStarts, FinalizeStarts, RestoreStarts, RejectStarts,
       PolicyJobStarts, Hash, ReadFile, WriteBlob, RecordAfter, Record, Retain, Prune, Collect,
       SetPolicy, Release, Lease, Unlease, Lands, Classify, Check, Restore, Reject,
       JobFails, LoadStarts, LoadReads, LoadEnds, ViewStarts, ViewLeases, ViewLands, Edit, Crash, Used, vars
<1>1. ASSUME \/ CreateStarts
             \/ \E i \in Ids : FinalizeStarts(i) \/ RejectStarts(i)
             \/ \E i \in Ids \cup {0} : PolicyJobStarts("set", i) \/ PolicyJobStarts("release", i)
      PROVE  Sparing'
  <2>1. job'.op # "restore"
    BY <1>1, Basics DEF CreateStarts, FinalizeStarts, RejectStarts, PolicyJobStarts, Starts
  <2>2. UNCHANGED <<manifests, policy, load>>
    BY <1>1 DEF CreateStarts, FinalizeStarts, RejectStarts, PolicyJobStarts
  <2> QED BY <1>0, <2>1, <2>2, QuietSparing
<1>2. ASSUME NEW i \in Ids, RestoreStarts(i) PROVE Sparing'
  <2>1. /\ job'.at = "lease" /\ job'.id = i /\ job'.doomed = {}
        /\ job'.goal.hash = manifests[i].hash
    BY <1>2, Basics DEF RestoreStarts
  <2> QED BY <1>0, <1>2, <2>1 DEF RestoreStarts, Sparing, Present
<1>3. ASSUME Hash \/ WriteBlob \/ Collect \/ Classify \/ Check \/ Restore \/ JobFails \/ Reject
      PROVE  Sparing'
  <2>1. UNCHANGED <<manifests, policy, load>>
    BY <1>3 DEF Hash, WriteBlob, Collect, Classify, Check, Restore, JobFails, Reject
  <2>2. job' = Idle \/ /\ job'.op = job.op /\ job'.id = job.id /\ job'.goal = job.goal
                       /\ job'.doomed = job.doomed
    <3>1. CASE Collect
      BY <3>1 DEF Collect, TypeOK, Job
    <3>2. CASE ~Collect
      BY <1>3, <3>2 DEF Hash, WriteBlob, Classify, Check, Restore, JobFails, Reject, Goes, Ends,
         TypeOK, Job
    <3> QED BY <3>1, <3>2
  <2>3. job.at \notin {"lease", "unlease"} /\ (job.at = "unleasing" => job' = Idle)
    BY <1>3 DEF Hash, WriteBlob, Collect, Classify, Check, Restore, JobFails, Reject, Ends
  <2> QED BY <1>0, <2>1, <2>2, <2>3, QuietSparing, Basics
<1>4. ASSUME ReadFile PROVE Sparing'
  <2>1. job' = Idle \/ job' = [job EXCEPT !.took.blob = file,
                                          !.at = IF file \in blobs THEN "record" ELSE "write"]
    BY <1>4 DEF ReadFile
  <2>2. job' = Idle \/ /\ job'.op = job.op /\ job'.id = job.id /\ job'.goal = job.goal
                       /\ job'.doomed = job.doomed
    BY <2>1 DEF TypeOK, Job
  <2>3. UNCHANGED <<manifests, policy, load>> /\ job.at = "read"
    BY <1>4 DEF ReadFile
  <2> QED BY <1>0, <2>2, <2>3, QuietSparing, Basics
<1>5. ASSUME RecordAfter PROVE Sparing'
  BY <1>0, <1>5, Basics DEF RecordAfter, Ends, Sparing
<1>6. ASSUME Record PROVE Sparing'
  <2>1. made + 1 # job.id \/ job.op # "restore"
    <3>1. ASSUME job.op = "restore" PROVE job.id \in Int /\ job.id <= made /\ made \in Int
      BY <1>0, <3>1, BoundsAreNaturals DEF Sparing, Saving, TypeOK, Present, Ids
    <3> QED BY <3>1
  <2>2. job.op = "restore" => job.id \in Present' /\ manifests'[job.id] = manifests[job.id]
    BY <1>0, <1>6, <2>1 DEF Record, Sparing, TypeOK, Present
  <2>3. /\ job'.op = job.op /\ job'.id = job.id /\ job'.goal = job.goal
        /\ job'.doomed = job.doomed /\ job.at = "record"
    BY <1>6 DEF Record, TypeOK, Job
  <2>4. policy' = policy /\ load' = load
    BY <1>6 DEF Record
  <2> QED BY <1>0, <2>2, <2>3, <2>4 DEF Sparing
<1>7. ASSUME Retain PROVE Sparing'
  <2>1. PICK seen \in SUBSET Present : job' = [job EXCEPT !.at = "prune", !.doomed = Doomed(seen)]
    BY <1>7 DEF Retain
  <2>2. /\ job'.op = job.op /\ job'.id = job.id /\ job'.goal = job.goal /\ job'.doomed = Doomed(seen)
        /\ job.at = "retain"
    BY <1>7, <2>1 DEF Retain, TypeOK, Job
  <2>3. \A i \in policy.leased : i \notin Doomed(seen)
    BY DEF Doomed, Retained
  <2>4. UNCHANGED <<manifests, policy, load>>
    BY <1>7 DEF Retain
  <2> QED BY <1>0, <2>2, <2>3, <2>4 DEF Sparing, Present
<1>8. ASSUME Prune PROVE Sparing'
  <2>1. PICK gone \in SUBSET job.doomed :
          manifests' = [i \in Ids |-> IF i \in gone THEN None ELSE manifests[i]]
    BY <1>8 DEF Prune
  <2>2. job.op = "restore" => job.id \in Present' /\ manifests'[job.id] = manifests[job.id]
    BY <1>0, <2>1 DEF Sparing, Present
  <2>3. /\ job'.op = job.op /\ job'.id = job.id /\ job'.goal = job.goal
        /\ job'.doomed = {} /\ job.at = "prune" /\ job'.at = "collect"
    BY <1>8 DEF Prune, TypeOK, Job
  <2>4. policy' = policy /\ load' = load
    BY <1>8 DEF Prune
  <2> QED BY <1>0, <2>2, <2>3, <2>4 DEF Sparing
<1>9. ASSUME SetPolicy \/ Release PROVE Sparing'
  <2>1. job'.op # "restore" /\ load' = load
    BY <1>9 DEF SetPolicy, Release, Persists, Ready, TypeOK, Job
  <2>2. load = "done"
    BY <1>9 DEF SetPolicy, Release, Used
  <2> QED BY <2>1, <2>2 DEF Sparing
<1>10. ASSUME Lease PROVE Sparing'
  <2>1. job.op = "restore" /\ UNCHANGED <<manifests, load>>
    BY <1>10 DEF Lease, Ready
  <2>2. load = "done"
    BY <1>0, <1>10 DEF Lease, Used, Sparing
  <2>3. job.id \in policy'.leased
    BY <1>10 DEF Lease, Persists, TypeOK, Policy
  <2>4. /\ job'.op = job.op /\ job'.id = job.id /\ job'.goal = job.goal
        /\ job'.doomed = job.doomed
    BY <1>10 DEF Lease, Persists, Goes, TypeOK, Job
  <2> QED BY <1>0, <2>1, <2>2, <2>3, <2>4 DEF Sparing, Present
<1>11. ASSUME Unlease PROVE Sparing'
  <2>1. CASE job.id \notin policy.leased
    BY <1>0, <1>11, <2>1, QuietSparing, Basics DEF Unlease, Ends
  <2>2. CASE job.id \in policy.leased
    <3>1. Persists([policy EXCEPT !.leased = @ \ {job.id}], "unleasing") /\ Used
      BY <1>11, <2>2 DEF Unlease
    <3>2. load = "done" /\ UNCHANGED <<manifests, load>>
      BY <1>11, <3>1 DEF Unlease, Used
    <3>3. /\ job'.op = job.op /\ job'.id = job.id /\ job'.goal = job.goal
          /\ job'.doomed = job.doomed /\ job'.at = "unleasing"
      BY <3>1 DEF Persists, TypeOK, Job
    <3> QED BY <1>0, <3>2, <3>3 DEF Sparing, Present
  <2> QED BY <2>1, <2>2
<1>12. ASSUME Lands PROVE Sparing'
  <2>1. UNCHANGED <<manifests, policy, load>>
    BY <1>12 DEF Lands
  <2>2. job' = Idle \/ /\ job'.op = job.op /\ job'.id = job.id /\ job'.goal = job.goal
                       /\ job'.doomed = job.doomed
    BY <1>12 DEF Lands, TypeOK, Job
  <2>3. job.at = "unleasing" => job' = Idle
    BY <1>12 DEF Lands
  <2>4. job.at \in {"landing", "leasing", "unleasing"}
    BY <1>12 DEF Lands
  <2> QED BY <1>0, <2>1, <2>2, <2>3, <2>4, QuietSparing, Basics
<1>13. ASSUME LoadReads \/ Edit \/ ViewLands \/ \E i \in 0 .. MaxIds : ViewStarts(i)
       PROVE  Sparing'
  BY <1>0, <1>13 DEF LoadReads, Edit, ViewLands, ViewStarts, Sparing, Present
<1>14. ASSUME NEW who \in {"job", "view"}, LoadStarts(who) PROVE Sparing'
  BY <1>0, <1>14 DEF LoadStarts, Sparing, Present
<1>15. ASSUME LoadEnds PROVE Sparing'
  BY <1>0, <1>15 DEF LoadEnds, Sparing, Present
<1>16. ASSUME ViewLeases PROVE Sparing'
  <2>1. UNCHANGED <<manifests, load, job>>
    BY <1>16 DEF ViewLeases
  <2>2. policy.leased \subseteq policy'.leased
    BY <1>16 DEF ViewLeases, TypeOK, Policy
  <2>3. policy' = policy \/ load = "done"
    BY <1>16 DEF ViewLeases, Used
  <2> QED BY <1>0, <2>1, <2>2, <2>3 DEF Sparing, Present
<1>17. ASSUME Crash PROVE Sparing'
  BY <1>17, Basics DEF Crash, Ends, Sparing, Default
<1>18. CASE UNCHANGED vars
  BY <1>0, <1>18 DEF vars, Sparing, Present
<1> QED
  BY <1>1, <1>2, <1>3, <1>4, <1>5, <1>6, <1>7, <1>8, <1>9, <1>10, <1>11, <1>12, <1>13, <1>14,
     <1>15, <1>16, <1>17, <1>18 DEF Next, JobStep

LEMMA SparingHolds == Spec => [](Inv /\ (strayed \/ Sparing))
<1>1. Init => Inv /\ Sparing
  BY InitInv, Basics DEF Init, Sparing, Default
<1>2. Inv /\ (strayed \/ Sparing) /\ [Next]_vars => Inv' /\ (strayed' \/ Sparing')
  BY StepInv, StepSparing DEF Inv
<1> QED BY <1>1, <1>2, PTL DEF Spec

(* A restore that was not strayed finds its checkpoint still there when it   *)
(* replaces the file, and replaces it by what that checkpoint holds.       *)
THEOREM RestoresFaithful == Spec => RestoresAreFaithful
<1>1. Inv /\ (strayed \/ Sparing) /\ [Next]_vars
      => (file' # file /\ edits' = edits /\ job.op = "restore" =>
            strayed \/ (job.id \in Present /\ file' = manifests[job.id].hash))
  <2> SUFFICES ASSUME Inv, Sparing, [Next]_vars, file' # file, edits' = edits, job.op = "restore"
               PROVE  job.id \in Present /\ file' = manifests[job.id].hash
    OBVIOUS
  <2>1. Restore
    BY OnlyOverwrites DEF Inv, Reject
  <2> QED BY <2>1 DEF Restore, Sparing
<1>2. Inv /\ (strayed \/ Sparing) /\ [Next]_vars
      => [file' # file /\ edits' = edits /\ job.op = "restore" =>
            strayed \/ (job.id \in Present /\ file' = manifests[job.id].hash)]_vars
  BY <1>1
<1> QED BY <1>2, SparingHolds, PTL DEF Spec, RestoresAreFaithful
==============================================================================
