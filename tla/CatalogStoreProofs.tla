-------------------------- MODULE CatalogStoreProofs --------------------------
(***************************************************************************)
(* Theorems about CatalogStore: types for any number of stores, durability *)
(* for a store that has the file to itself.                                *)
(***************************************************************************)
EXTENDS CatalogStore, SequenceTheorems, TLAPS

(* A write is under way only for the head of the queue. *)
HeadUnderWay == \A s \in Stores : ~AtRest(s) => queue[s] # <<>>

TypeInv == TypeOK /\ HeadUnderWay

LEMMA NoJobTyped == NoJob \in Job /\ NoJob.step = "rest" /\ Empty \in Catalog
BY SomeTick DEF NoJob, Job, Empty, Catalog

LEMMA NewerTyped ==
  ASSUME NEW a \in Catalog, NEW b \in Catalog
  PROVE  Newer(a, b) \in Catalog
BY DEF Newer, Catalog

(* What settling leaves of the jobs and the queues. *)
LEMMA SettleTyped ==
  ASSUME TypeOK, NEW s \in Stores, queue[s] # <<>>, NEW jobs \in [Stores -> Job],
         \A r \in Stores : jobs[r].step # "rest" => ~AtRest(r),
         HeadUnderWay, Settle(s, jobs)
  PROVE  /\ job' \in [Stores -> Job]
         /\ queue' \in [Stores -> Seq(Catalog)]
         /\ HeadUnderWay'
<1>1. job' \in [Stores -> Job]
  BY NoJobTyped DEF Settle
<1>2. Tail(queue[s]) \in Seq(Catalog)
  <2>1. queue[s] \in Seq(Catalog)
    BY DEF TypeOK
  <2>2. QED
    BY <2>1, HeadTailProperties
<1>3. queue' \in [Stores -> Seq(Catalog)]
  BY <1>2 DEF Settle, TypeOK
<1>4. HeadUnderWay'
  <2> SUFFICES ASSUME NEW r \in Stores, job'[r].step # "rest"
               PROVE  queue'[r] # <<>>
    BY DEF HeadUnderWay, AtRest
  <2>1. r # s
    BY NoJobTyped DEF Settle
  <2>2. job'[r] = jobs[r] /\ queue'[r] = queue[r]
    BY <2>1 DEF Settle, TypeOK
  <2>3. QED
    BY <2>2 DEF HeadUnderWay
<1>5. QED
  BY <1>1, <1>3, <1>4

LEMMA AfterRenameTyped ==
  ASSUME TypeOK, NEW t
  PROVE  /\ AfterRename(t) \in [Stores -> Job]
         /\ \A r \in Stores : AfterRename(t)[r].step # "rest" => ~AtRest(r)
<1> DEFINE A == AfterRename(t)
<1>1. ASSUME NEW r \in Stores
      PROVE  A[r] \in Job /\ (A[r].step # "rest" => ~AtRest(r))
  <2>1. job[r] \in Job
    BY DEF TypeOK
  <2>2. CASE AtRest(r)
    BY <2>2, NoJobTyped DEF AfterRename
  <2>3. CASE ~AtRest(r)
    <3>1. A[r] \in {[job[r] EXCEPT !.place = "gone"], [job[r] EXCEPT !.place = "disk"], job[r]}
      BY <2>3 DEF AfterRename
    <3>2. A[r] \in Job
      BY <2>1, <3>1 DEF Job
    <3>3. QED
      BY <3>2, <2>3
  <2>4. QED
    BY <2>2, <2>3
<1>2. QED
  BY <1>1 DEF AfterRename

LEMMA TypeStep ==
  ASSUME TypeInv, [Next]_vars
  PROVE  TypeInv'
<1> USE DEF TypeInv
<1>1. ASSUME NEW s \in Stores, Load(s)
      PROVE  TypeInv'
  <2>1. disk.entries \in Catalog
    BY DEF TypeOK, File
  <2>2. QED
    BY <1>1, <2>1 DEF Load, TypeOK, HeadUnderWay, AtRest
<1>2. ASSUME NEW s \in Stores, LoadFails(s)
      PROVE  TypeInv'
  BY <1>2 DEF LoadFails, TypeOK, HeadUnderWay, AtRest
<1>3. ASSUME NEW s \in Stores, NEW k \in KeysOf[s], MutateState(s, k)
      PROVE  TypeInv'
  <2>1. version' \in Nat
    BY <1>3 DEF MutateState, TypeOK
  <2>2. memory' \in [Stores -> Catalog]
    <3>1. memory' = [memory EXCEPT ![s] = [memory[s] EXCEPT ![k] = version + 1]]
      BY <1>3 DEF MutateState
    <3>2. [memory[s] EXCEPT ![k] = version + 1] \in Catalog
      <4>1. memory[s] \in [Keys -> Nat] /\ version + 1 \in Nat
        BY DEF TypeOK, Catalog
      <4>2. QED
        BY <4>1 DEF Catalog
    <3>3. QED
      BY <3>1, <3>2 DEF TypeOK
  <2>3. memory'[s] \in Catalog /\ queue[s] \in Seq(Catalog)
    BY <2>2 DEF TypeOK
  <2>4. /\ Append(queue[s], memory'[s]) \in Seq(Catalog)
        /\ Append(queue[s], memory'[s]) # <<>>
    BY <2>3, AppendProperties, EmptySeq
  <2>5. queue' = [queue EXCEPT ![s] = Append(queue[s], memory'[s])]
    BY <1>3 DEF MutateState
  <2>6. queue' \in [Stores -> Seq(Catalog)]
    BY <2>4, <2>5 DEF TypeOK
  <2>7. HeadUnderWay'
    BY <1>3, <2>4, <2>5 DEF MutateState, TypeOK, HeadUnderWay, AtRest
  <2>8. QED
    BY <1>3, <2>1, <2>2, <2>6, <2>7 DEF MutateState, TypeOK
<1>4. ASSUME NEW s \in Stores, BeginWrite(s)
      PROVE  TypeInv'
  <2>1. PICK t \in Ticks :
          /\ job' = [job EXCEPT ![s] =
               [step |-> "writing", name |-> t, place |-> "tmp", payload |-> memory[s]]]
          /\ tmp' = [tmp EXCEPT ![t] = [whole |-> FALSE, entries |-> Empty]]
    BY <1>4 DEF BeginWrite
  <2>2. job' \in [Stores -> Job]
    BY <2>1 DEF TypeOK, Job
  <2>3. tmp' \in [Ticks -> File \cup {NoFile}]
    BY <2>1, NoJobTyped DEF TypeOK, File
  <2>4. HeadUnderWay'
    BY <1>4, <2>1 DEF BeginWrite, TypeOK, HeadUnderWay, AtRest
  <2>5. QED
    BY <1>4, <2>2, <2>3, <2>4 DEF BeginWrite, TypeOK
<1>5. ASSUME NEW s \in Stores, EndWrite(s)
      PROVE  TypeInv'
  <2>1. job[s] \in Job
    BY DEF TypeOK
  <2>2. job' = [job EXCEPT ![s] = [job[s] EXCEPT !.step = "written"]]
    BY <1>5 DEF EndWrite
  <2>3. [job[s] EXCEPT !.step = "written"] \in Job
    BY <2>1 DEF Job
  <2>4. job' \in [Stores -> Job]
    BY <2>2, <2>3 DEF TypeOK
  <2>5. PICK mixed \in BOOLEAN :
          \/ /\ tmp' = [tmp EXCEPT ![job[s].name] =
                          [whole |-> ~mixed, entries |-> job[s].payload]]
             /\ UNCHANGED disk
          \/ /\ disk' = [whole |-> ~mixed, entries |-> job[s].payload]
             /\ UNCHANGED tmp
          \/ UNCHANGED <<disk, tmp>>
    BY <1>5 DEF EndWrite
  <2>6. [whole |-> ~mixed, entries |-> job[s].payload] \in File
    BY <2>1 DEF Job, File
  <2>7. disk' \in File /\ tmp' \in [Ticks -> File \cup {NoFile}]
    BY <2>1, <2>5, <2>6 DEF TypeOK, Job
  <2>8. HeadUnderWay'
    BY <1>5, <2>2 DEF EndWrite, TypeOK, HeadUnderWay, AtRest
  <2>9. QED
    BY <1>5, <2>4, <2>7, <2>8 DEF EndWrite, TypeOK
<1>6. ASSUME NEW s \in Stores, Rename(s)
      PROVE  TypeInv'
  <2> DEFINE t == job[s].name
  <2>1. queue[s] # <<>> /\ queue[s] \in Seq(Catalog) /\ job[s] \in Job
    BY <1>6 DEF Rename, HeadUnderWay, AtRest, TypeOK
  <2>2. Head(queue[s]) \in Catalog
    BY <2>1, HeadTailProperties
  <2>3. acked' \in Catalog
    BY <1>6, <2>2, NewerTyped DEF Rename, TypeOK
  <2>4. disk' \in File /\ tmp' \in [Ticks -> File \cup {NoFile}]
    BY <1>6, <2>1 DEF Rename, TypeOK, Job
  <2>5. Settle(s, AfterRename(t))
    BY <1>6 DEF Rename
  <2>6. /\ job' \in [Stores -> Job]
        /\ queue' \in [Stores -> Seq(Catalog)]
        /\ HeadUnderWay'
    BY <2>1, <2>5, AfterRenameTyped, SettleTyped
  <2>7. QED
    BY <1>6, <2>3, <2>4, <2>6 DEF Rename, TypeOK
<1>7. ASSUME NEW s \in Stores, WriteFails(s)
      PROVE  TypeInv'
  <2>1. queue[s] # <<>> /\ Settle(s, job) /\ job \in [Stores -> Job]
    BY <1>7 DEF WriteFails, TypeOK
  <2>2. /\ job' \in [Stores -> Job]
        /\ queue' \in [Stores -> Seq(Catalog)]
        /\ HeadUnderWay'
    BY <2>1, SettleTyped DEF AtRest
  <2>3. failures' \in Nat /\ rejected' \in Nat
    BY <1>7 DEF WriteFails, TypeOK
  <2>4. QED
    BY <1>7, <2>2, <2>3 DEF WriteFails, TypeOK
<1>8. ASSUME Crash
      PROVE  TypeInv'
  BY <1>8, NoJobTyped, EmptySeq DEF Crash, TypeOK, HeadUnderWay, AtRest
<1>9. CASE UNCHANGED vars
  BY <1>9 DEF vars, store, TypeOK, HeadUnderWay, AtRest
<1>10. QED
  BY <1>1, <1>2, <1>3, <1>4, <1>5, <1>6, <1>7, <1>8, <1>9 DEF Next

LEMMA TypeInit == Init => TypeInv
<1> SUFFICES ASSUME Init PROVE TypeInv
  OBVIOUS
<1>1. disk \in File
  BY NoJobTyped DEF Init, File
<1>2. queue \in [Stores -> Seq(Catalog)]
  BY EmptySeq DEF Init
<1>3. QED
  BY <1>1, <1>2, NoJobTyped DEF Init, TypeInv, TypeOK, HeadUnderWay, AtRest

LEMMA TypeInvariance == Spec => []TypeInv
<1>1. QED
  BY TypeInit, TypeStep, PTL DEF Spec

(* The stores' variables keep their types (JsonCatalogStore), for any      *)
(* stores, entries and bounds.                                             *)
THEOREM TypeCorrect == Spec => []TypeOK
<1>1. TypeInv => TypeOK
  BY DEF TypeInv
<1>2. QED
  BY <1>1, TypeInvariance, PTL

------------------------------------------------------------------------------
(* The proofs below are about a store that has the file to itself.         *)

LE(a, b) == \A k \in Keys : a[k] <= b[k]

(* What is in memory is as new as whatever is on disk, in a payload or     *)
(* promised, and a payload once written is whole.                          *)
SoleWriter(s) ==
  /\ disk.whole
  /\ loaded[s] = "yes" => LE(disk.entries, memory[s])
  /\ loaded[s] # "yes" => queue[s] = <<>>
  /\ \A i \in DOMAIN queue[s] : LE(queue[s][i], memory[s])
  /\ LE(disk.entries, [k \in Keys |-> version])
  /\ loaded[s] = "yes" => LE(memory[s], [k \in Keys |-> version])
  /\ ~AtRest(s) => /\ job[s].place = "tmp"
                   /\ LE(disk.entries, job[s].payload)
                   /\ LE(job[s].payload, memory[s])
                   /\ LE(queue[s][1], job[s].payload)
  /\ job[s].step = "written" =>
       tmp[job[s].name] = [whole |-> TRUE, entries |-> job[s].payload]
  /\ LE(acked, disk.entries)

LEMMA LETransitive ==
  ASSUME NEW a \in Catalog, NEW b \in Catalog, NEW c \in Catalog, LE(a, b), LE(b, c)
  PROVE  LE(a, c)
BY DEF LE, Catalog

LEMMA LEReflexive ==
  ASSUME NEW a \in Catalog
  PROVE  LE(a, a)
BY DEF LE, Catalog

LEMMA NewerIsLeast ==
  ASSUME NEW a \in Catalog, NEW b \in Catalog, NEW c \in Catalog, LE(a, c), LE(b, c)
  PROVE  LE(Newer(a, b), c)
BY DEF LE, Catalog, Newer

LEMMA SoleInit ==
  ASSUME NEW s \in Stores, Init
  PROVE  SoleWriter(s)
<1>1. LE(Empty, Empty) /\ LE(Empty, [k \in Keys |-> 0])
  BY DEF LE, Empty
<1>2. QED
  BY <1>1, NoJobTyped DEF Init, SoleWriter, AtRest

(* One store's settling keeps its promises for the writes behind. *)
LEMMA TailPromises ==
  ASSUME NEW q \in Seq(Catalog), NEW m, q # <<>>, \A i \in DOMAIN q : LE(q[i], m)
  PROVE  \A i \in DOMAIN Tail(q) : LE(Tail(q)[i], m)
<1> SUFFICES ASSUME NEW i \in DOMAIN Tail(q)
             PROVE  LE(Tail(q)[i], m)
  OBVIOUS
<1>1. /\ Tail(q) \in Seq(Catalog) /\ Len(Tail(q)) = Len(q) - 1
      /\ \A j \in 1 .. Len(Tail(q)) : Tail(q)[j] = q[j + 1]
  BY HeadTailProperties
<1>2. i \in 1 .. Len(Tail(q))
  BY <1>1, LenProperties
<1>3. i + 1 \in DOMAIN q
  BY <1>1, <1>2, LenProperties
<1>4. QED
  BY <1>1, <1>2, <1>3

LEMMA SoleStep ==
  ASSUME NEW s, Stores = {s}, TypeInv, SoleWriter(s), [Next]_vars
  PROVE  SoleWriter(s)' /\ LE(disk.entries, disk.entries')
<1> s \in Stores
  OBVIOUS
<1>a. /\ disk.entries \in Catalog /\ memory[s] \in Catalog /\ acked \in Catalog
      /\ queue[s] \in Seq(Catalog) /\ job[s] \in Job /\ job[s].payload \in Catalog
      /\ job[s].name \in Ticks /\ version \in Nat
      /\ DOMAIN queue[s] = 1 .. Len(queue[s])
  <2>1. disk \in File /\ job[s] \in Job /\ queue[s] \in Seq(Catalog)
    BY DEF TypeInv, TypeOK
  <2>2. QED
    BY <2>1, LenProperties DEF TypeInv, TypeOK, File, Job
<1>b. \A a \in Catalog : LE(a, a)
  BY LEReflexive
<1>c. ~AtRest(s) => queue[s] # <<>>
  BY DEF TypeInv, HeadUnderWay
<1> DEFINE Bound(n) == [k \in Keys |-> n]
<1>1. ASSUME Load(s)
      PROVE  SoleWriter(s)' /\ LE(disk.entries, disk.entries')
  <2>1. disk' = disk /\ tmp' = tmp /\ queue' = queue /\ job' = job /\ version' = version
        /\ acked' = acked /\ loaded'[s] = "yes" /\ memory'[s] = disk.entries
        /\ loaded[s] # "yes"
    BY <1>1 DEF Load, TypeInv, TypeOK
  <2>2. queue[s] = <<>> /\ AtRest(s)
    BY <2>1, <1>c DEF SoleWriter
  <2>3. DOMAIN queue[s] = {}
    BY <2>2, EmptySeq
  <2>4. job[s].step # "written"
    BY <2>2 DEF AtRest
  <2>5. QED
    BY <1>a, <1>b, <2>1, <2>2, <2>3, <2>4 DEF SoleWriter, AtRest
<1>2. ASSUME LoadFails(s)
      PROVE  SoleWriter(s)' /\ LE(disk.entries, disk.entries')
  <2>1. disk' = disk /\ tmp' = tmp /\ queue' = queue /\ job' = job /\ version' = version
        /\ acked' = acked /\ memory' = memory /\ loaded'[s] # "yes" /\ loaded[s] # "yes"
    BY <1>2 DEF LoadFails, TypeInv, TypeOK
  <2>2. QED
    BY <1>a, <1>b, <2>1 DEF SoleWriter, AtRest
<1>3. ASSUME NEW k \in KeysOf[s], MutateState(s, k)
      PROVE  SoleWriter(s)' /\ LE(disk.entries, disk.entries')
  <2>1. /\ disk' = disk /\ tmp' = tmp /\ loaded' = loaded /\ job' = job /\ acked' = acked
        /\ loaded[s] = "yes" /\ version' = version + 1
        /\ memory'[s] = [memory[s] EXCEPT ![k] = version + 1]
        /\ queue'[s] = Append(queue[s], memory'[s])
    BY <1>3 DEF MutateState, TypeInv, TypeOK
  <2>2. memory'[s] \in Catalog
    <3>1. memory[s] \in [Keys -> Nat] /\ version + 1 \in Nat
      BY <1>a DEF Catalog
    <3>2. QED
      BY <2>1, <3>1 DEF Catalog
  <2>3. LE(memory[s], Bound(version)) /\ LE(disk.entries, memory[s])
    BY <2>1 DEF SoleWriter
  <2>4. LE(memory[s], memory'[s]) /\ LE(memory'[s], Bound(version'))
        /\ LE(disk.entries, Bound(version'))
    BY <1>a, <2>1, <2>3 DEF LE, Catalog
  <2>5. LE(disk.entries, memory'[s])
    BY <1>a, <2>2, <2>3, <2>4, LETransitive
  <2>6. \A i \in DOMAIN queue'[s] : LE(queue'[s][i], memory'[s])
    <3> SUFFICES ASSUME NEW i \in DOMAIN queue'[s]
                 PROVE  LE(queue'[s][i], memory'[s])
      OBVIOUS
    <3>1. /\ Append(queue[s], memory'[s]) \in Seq(Catalog)
          /\ Len(Append(queue[s], memory'[s])) = Len(queue[s]) + 1
          /\ \A j \in 1 .. Len(queue[s]) : Append(queue[s], memory'[s])[j] = queue[s][j]
          /\ Append(queue[s], memory'[s])[Len(queue[s]) + 1] = memory'[s]
      BY <1>a, <2>2, AppendProperties
    <3>2. i \in 1 .. (Len(queue[s]) + 1)
      BY <2>1, <3>1, LenProperties
    <3>3. CASE i = Len(queue[s]) + 1
      BY <1>b, <2>1, <2>2, <3>1, <3>3
    <3>4. CASE i # Len(queue[s]) + 1
      <4>1. i \in 1 .. Len(queue[s])
        BY <1>a, <3>2, <3>4, LenProperties
      <4>2. queue'[s][i] = queue[s][i]
        BY <2>1, <3>1, <4>1
      <4>3. queue[s][i] \in Catalog
        BY <1>a, <4>1, ElementOfSeq
      <4>4. LE(queue[s][i], memory[s])
        BY <1>a, <4>1 DEF SoleWriter
      <4>5. QED
        BY <1>a, <2>2, <2>4, <4>2, <4>3, <4>4, LETransitive
    <3>5. QED
      BY <3>3, <3>4
  <2>7. ~AtRest(s) => LE(job[s].payload, memory'[s]) /\ queue'[s][1] = queue[s][1]
    <3> SUFFICES ASSUME ~AtRest(s)
                 PROVE  LE(job[s].payload, memory'[s]) /\ queue'[s][1] = queue[s][1]
      OBVIOUS
    <3>1. 1 \in 1 .. Len(queue[s])
      BY <1>a, <1>c, EmptySeq, LenProperties
    <3>2. queue'[s][1] = queue[s][1]
      BY <1>a, <2>1, <2>2, <3>1, AppendProperties
    <3>3. QED
      BY <1>a, <2>2, <2>4, <3>2, LETransitive DEF SoleWriter
  <2>8. QED
    BY <1>a, <1>b, <2>1, <2>4, <2>5, <2>6, <2>7 DEF SoleWriter, AtRest
<1>4. ASSUME BeginWrite(s)
      PROVE  SoleWriter(s)' /\ LE(disk.entries, disk.entries')
  <2>1. /\ disk' = disk /\ queue' = queue /\ loaded' = loaded /\ acked' = acked
        /\ version' = version /\ memory' = memory /\ queue[s] # <<>>
        /\ job'[s].step = "writing" /\ job'[s].place = "tmp" /\ job'[s].payload = memory[s]
    BY <1>4 DEF BeginWrite, TypeInv, TypeOK
  <2>2. loaded[s] = "yes" /\ LE(disk.entries, memory[s])
    BY <2>1 DEF SoleWriter
  <2>3. LE(queue[s][1], memory[s])
    <3>1. 1 \in DOMAIN queue[s]
      BY <1>a, <2>1, EmptySeq, LenProperties
    <3>2. QED
      BY <3>1 DEF SoleWriter
  <2>4. QED
    BY <1>a, <1>b, <2>1, <2>2, <2>3 DEF SoleWriter, AtRest
<1>5. ASSUME EndWrite(s)
      PROVE  SoleWriter(s)' /\ LE(disk.entries, disk.entries')
  <2>1. ~AtRest(s) /\ ~\E r \in Stores : SharesFile(r, s)
    BY <1>5 DEF EndWrite, AtRest, SharesFile
  <2>2. job[s].place = "tmp"
    BY <2>1 DEF SoleWriter
  <2>3. /\ tmp' = [tmp EXCEPT ![job[s].name] =
                     [whole |-> TRUE, entries |-> job[s].payload]]
        /\ disk' = disk
    BY <1>5, <2>1, <2>2 DEF EndWrite
  <2>4. /\ queue' = queue /\ loaded' = loaded /\ acked' = acked
        /\ version' = version /\ memory' = memory
        /\ job'[s].step = "written" /\ job'[s].place = job[s].place
        /\ job'[s].payload = job[s].payload /\ job'[s].name = job[s].name
    BY <1>5, <1>a DEF EndWrite, TypeInv, TypeOK, Job
  <2>5. tmp'[job[s].name] = [whole |-> TRUE, entries |-> job[s].payload]
    BY <1>a, <2>3 DEF TypeInv, TypeOK
  <2>6. QED
    BY <1>a, <1>b, <2>1, <2>3, <2>4, <2>5 DEF SoleWriter, AtRest
<1>6. ASSUME Rename(s)
      PROVE  SoleWriter(s)' /\ LE(disk.entries, disk.entries')
  <2>1. job[s].step = "written" /\ ~AtRest(s)
    BY <1>6 DEF Rename, AtRest
  <2>2. disk' = [whole |-> TRUE, entries |-> job[s].payload]
    BY <1>6, <2>1 DEF Rename, SoleWriter
  <2>3. /\ loaded' = loaded /\ memory' = memory /\ version' = version
        /\ acked' = Newer(acked, Head(queue[s]))
        /\ job'[s] = NoJob /\ queue'[s] = Tail(queue[s])
    BY <1>6 DEF Rename, Settle, AfterRename, TypeInv, TypeOK
  <2>4. LE(disk.entries, job[s].payload) /\ LE(job[s].payload, memory[s])
        /\ LE(queue[s][1], job[s].payload)
    BY <2>1 DEF SoleWriter
  <2>5. queue[s] # <<>> /\ loaded[s] = "yes"
    BY <1>c, <2>1 DEF SoleWriter
  <2>6. Head(queue[s]) = queue[s][1] /\ Head(queue[s]) \in Catalog
    BY <1>a, <2>5, HeadTailProperties
  <2>7. LE(acked', disk'.entries)
    <3>1. LE(acked, job[s].payload)
      BY <1>a, <2>4, LETransitive DEF SoleWriter
    <3>2. LE(Newer(acked, Head(queue[s])), job[s].payload)
      BY <1>a, <2>4, <2>6, <3>1, NewerIsLeast
    <3>3. QED
      BY <2>2, <2>3, <3>2
  <2>8. \A i \in DOMAIN queue'[s] : LE(queue'[s][i], memory'[s])
    <3>1. \A i \in DOMAIN queue[s] : LE(queue[s][i], memory[s])
      BY DEF SoleWriter
    <3>2. QED
      BY <1>a, <2>3, <2>5, <3>1, TailPromises
  <2>9. LE(memory[s], Bound(version)) /\ LE(job[s].payload, Bound(version))
    <3>1. LE(memory[s], Bound(version))
      BY <2>5 DEF SoleWriter
    <3>2. Bound(version) \in Catalog
      BY <1>a DEF Catalog
    <3>3. QED
      BY <1>a, <2>4, <3>1, <3>2, LETransitive
  <2>10. job'[s].step = "rest"
    BY <2>3, NoJobTyped
  <2>11. QED
    BY <2>2, <2>3, <2>4, <2>5, <2>7, <2>8, <2>9, <2>10 DEF SoleWriter, AtRest
<1>7. ASSUME WriteFails(s)
      PROVE  SoleWriter(s)' /\ LE(disk.entries, disk.entries')
  <2>1. /\ disk' = disk /\ loaded' = loaded /\ memory' = memory /\ version' = version
        /\ acked' = acked /\ job'[s] = NoJob /\ queue'[s] = Tail(queue[s])
        /\ queue[s] # <<>>
    BY <1>7 DEF WriteFails, Settle, TypeInv, TypeOK
  <2>2. \A i \in DOMAIN queue'[s] : LE(queue'[s][i], memory'[s])
    <3>1. \A i \in DOMAIN queue[s] : LE(queue[s][i], memory[s])
      BY DEF SoleWriter
    <3>2. QED
      BY <1>a, <2>1, <3>1, TailPromises
  <2>3. job'[s].step = "rest" /\ loaded[s] = "yes"
    BY <2>1, NoJobTyped DEF SoleWriter
  <2>4. QED
    BY <1>a, <1>b, <2>1, <2>2, <2>3 DEF SoleWriter, AtRest
<1>8. ASSUME Crash
      PROVE  SoleWriter(s)' /\ LE(disk.entries, disk.entries')
  <2>1. /\ disk' = disk /\ memory' = memory /\ version' = version /\ acked' = acked
        /\ loaded'[s] = "no" /\ queue'[s] = <<>> /\ job'[s].step = "rest"
    BY <1>8, NoJobTyped DEF Crash
  <2>2. DOMAIN queue'[s] = {}
    BY <2>1, EmptySeq
  <2>3. QED
    BY <1>a, <1>b, <2>1, <2>2 DEF SoleWriter, AtRest
<1>9. CASE UNCHANGED vars
  BY <1>9, <1>a, <1>b DEF vars, store, SoleWriter, AtRest
<1>10. QED
  BY <1>1, <1>2, <1>3, <1>4, <1>5, <1>6, <1>7, <1>8, <1>9 DEF Next

LEMMA SoleWriterInvariance ==
  ASSUME NEW s, Stores = {s}
  PROVE  Spec => [](TypeInv /\ SoleWriter(s))
<1>1. Init => TypeInv /\ SoleWriter(s)
  BY TypeInit, SoleInit
<1>2. TypeInv /\ SoleWriter(s) /\ [Next]_vars => TypeInv' /\ SoleWriter(s)'
  BY TypeStep, SoleStep
<1>3. QED
  BY <1>1, <1>2, PTL DEF Spec

(* persistState with one instance of the class over the file: whenever the *)
(* process dies, catalogs.json parses.                                     *)
THEOREM Readable ==
  ASSUME NEW s, Stores = {s}
  PROVE  Spec => []DiskReadable
<1>1. SoleWriter(s) => DiskReadable
  BY DEF SoleWriter, DiskReadable
<1>2. QED
  BY <1>1, SoleWriterInvariance, PTL

(* mutateState with one instance of the class over the file: a change that *)
(* was acknowledged is on disk for good, over any number of failed writes  *)
(* and crashes.                                                            *)
THEOREM Durable ==
  ASSUME NEW s, Stores = {s}
  PROVE  Spec => []AckedIsDurable
<1>1. SoleWriter(s) => AckedIsDurable
  BY DEF SoleWriter, AckedIsDurable, LE
<1>2. QED
  BY <1>1, SoleWriterInvariance, PTL

(* No write of the one instance takes an entry on disk back to an older    *)
(* version (persistState's queue).                                         *)
THEOREM Advances ==
  ASSUME NEW s, Stores = {s}
  PROVE  Spec => DiskAdvances
<1>1. TypeInv /\ SoleWriter(s) /\ [Next]_vars
        => [\A k \in Keys : disk.entries[k] <= disk'.entries[k]]_vars
  BY SoleStep DEF LE
<1>2. QED
  BY <1>1, SoleWriterInvariance, PTL DEF Spec, DiskAdvances

------------------------------------------------------------------------------
(* Where the store has the file to itself, a written temporary file is     *)
(* still there when its rename comes, so only a failure rejects a write.   *)
LEMMA IsolatedStep ==
  ASSUME NEW s, Stores = {s}, TypeInv, SoleWriter(s), FailureIsIsolated, [Next]_vars
  PROVE  FailureIsIsolated'
<1> s \in Stores
  OBVIOUS
<1>a. rejected \in Nat /\ failures \in Nat
  BY DEF TypeInv, TypeOK
<1>1. CASE LoadFails(s)
  BY <1>1, <1>a DEF LoadFails, FailureIsIsolated
<1>2. CASE WriteFails(s)
  <2>1. job[s].step = "written" => tmp[job[s].name] # NoFile
    <3> SUFFICES ASSUME job[s].step = "written"
                 PROVE  tmp[job[s].name] # NoFile
      OBVIOUS
    <3>1. tmp[job[s].name] = [whole |-> TRUE, entries |-> job[s].payload]
      BY DEF SoleWriter
    <3>2. job[s] \in Job /\ job[s].payload \in Catalog
      BY DEF TypeInv, TypeOK, Job
    <3>3. tmp[job[s].name] \in File
      BY <3>1, <3>2 DEF File
    <3>4. QED
      BY <3>3, NoFileIsNone
  <2>2. rejected' = rejected + 1 /\ failures' = failures + 1
    BY <1>2, <2>1 DEF WriteFails
  <2>3. QED
    BY <1>a, <2>2 DEF FailureIsIsolated
<1>3. CASE \/ Load(s) \/ \E k \in KeysOf[s] : MutateState(s, k)
           \/ BeginWrite(s) \/ EndWrite(s) \/ Rename(s) \/ Crash \/ UNCHANGED vars
  <2>1. UNCHANGED <<rejected, failures>>
    BY <1>3 DEF Load, MutateState, BeginWrite, EndWrite, Rename, Crash, vars
  <2>2. QED
    BY <2>1 DEF FailureIsIsolated
<1>4. QED
  BY <1>1, <1>2, <1>3 DEF Next

(* persistState with one instance of the class over the file: every write  *)
(* that rejects has a failed file operation of its own, and takes none of  *)
(* the writes queued behind it along.                                      *)
THEOREM Isolated ==
  ASSUME NEW s, Stores = {s}
  PROVE  Spec => []FailureIsIsolated
<1>1. Init => FailureIsIsolated
  BY DEF Init, FailureIsIsolated
<1>2. TypeInv /\ SoleWriter(s) /\ FailureIsIsolated /\ [Next]_vars => FailureIsIsolated'
  BY IsolatedStep
<1>3. QED
  BY <1>1, <1>2, SoleWriterInvariance, PTL DEF Spec
------------------------------------------------------------------------------
(* Where the store has the file to itself, it implements DurableMap.  What *)
(* a write puts on disk is then one of the contents that are still queued: *)
(* the memory of when the write began was that of the newest change, and   *)
(* the queue has only grown since.                                         *)
Queued(s) ==
  /\ queue[s] # <<>> => queue[s][Len(queue[s])] = memory[s]
  /\ ~AtRest(s) => \E i \in DOMAIN queue[s] : job[s].payload = queue[s][i]

LEMMA SoleIs ==
  ASSUME NEW s, Stores = {s}
  PROVE  Sole = s
BY DEF Sole

(* What the store's steps do to the queue. *)
LEMMA AppendQueued ==
  ASSUME NEW q \in Seq(Catalog), NEW m \in Catalog
  PROVE  /\ Append(q, m) # <<>>
         /\ Append(q, m)[Len(Append(q, m))] = m
         /\ \A i \in DOMAIN q : i \in DOMAIN Append(q, m) /\ Append(q, m)[i] = q[i]
<1>1. /\ Append(q, m) \in Seq(Catalog) /\ Len(Append(q, m)) = Len(q) + 1
      /\ \A i \in 1 .. Len(q) : Append(q, m)[i] = q[i]
      /\ Append(q, m)[Len(q) + 1] = m
  BY AppendProperties
<1>2. Len(q) \in Nat /\ DOMAIN q = 1 .. Len(q) /\ DOMAIN Append(q, m) = 1 .. (Len(q) + 1)
  BY <1>1, LenProperties
<1>3. \A i \in DOMAIN q : i \in DOMAIN Append(q, m)
  BY <1>2
<1>4. Append(q, m) # <<>>
  BY <1>1, <1>2, EmptySeq
<1>5. QED
  BY <1>1, <1>2, <1>3, <1>4

LEMMA TailQueued ==
  ASSUME NEW q \in Seq(Catalog), Tail(q) # <<>>, q # <<>>
  PROVE  Tail(q)[Len(Tail(q))] = q[Len(q)]
<1>1. /\ Tail(q) \in Seq(Catalog) /\ Len(Tail(q)) = Len(q) - 1
      /\ \A j \in 1 .. Len(Tail(q)) : Tail(q)[j] = q[j + 1]
  BY HeadTailProperties
<1>2. Len(Tail(q)) \in Nat /\ Len(Tail(q)) # 0 /\ Len(q) \in Nat
  BY <1>1, EmptySeq, LenProperties
<1>3. Len(Tail(q)) \in 1 .. Len(Tail(q))
  BY <1>2
<1>4. Tail(q)[Len(Tail(q))] = q[Len(Tail(q)) + 1]
  BY <1>1, <1>3
<1>5. Len(Tail(q)) + 1 = Len(q)
  BY <1>1, <1>2
<1>6. QED
  BY <1>4, <1>5

LEMMA QueuedInit ==
  ASSUME NEW s \in Stores, Init
  PROVE  Queued(s)
BY NoJobTyped DEF Init, Queued, AtRest

LEMMA QueuedStep ==
  ASSUME NEW s, Stores = {s}, TypeInv, SoleWriter(s), Queued(s), [Next]_vars
  PROVE  Queued(s)'
<1> s \in Stores
  OBVIOUS
<1>a. queue[s] \in Seq(Catalog) /\ memory[s] \in Catalog /\ DOMAIN queue[s] = 1 .. Len(queue[s])
      /\ Len(queue[s]) \in Nat
  BY LenProperties DEF TypeInv, TypeOK
<1>b. ~AtRest(s) => queue[s] # <<>>
  BY DEF TypeInv, HeadUnderWay
<1>c. queue[s] # <<>> => Len(queue[s]) \in DOMAIN queue[s]
  BY <1>a, EmptySeq
<1>1. ASSUME NEW k \in KeysOf[s], MutateState(s, k)
      PROVE  Queued(s)'
  <2>1. queue'[s] = Append(queue[s], memory'[s]) /\ job' = job
    BY <1>1 DEF MutateState, TypeInv, TypeOK
  <2>2. memory'[s] \in Catalog
    <3>1. memory'[s] = [memory[s] EXCEPT ![k] = version + 1] /\ version + 1 \in Nat
      BY <1>1 DEF MutateState, TypeInv, TypeOK
    <3>2. QED
      BY <1>a, <3>1 DEF Catalog
  <2>3. QED
    BY <1>a, <2>1, <2>2, AppendQueued DEF Queued, AtRest
<1>2. ASSUME BeginWrite(s)
      PROVE  Queued(s)'
  <2>1. queue' = queue /\ memory' = memory /\ queue[s] # <<>> /\ job'[s].payload = memory[s]
    BY <1>2 DEF BeginWrite, TypeInv, TypeOK
  <2>2. QED
    BY <1>c, <2>1 DEF Queued
<1>3. ASSUME EndWrite(s)
      PROVE  Queued(s)'
  <2>1. /\ queue' = queue /\ memory' = memory /\ ~AtRest(s)
        /\ job'[s].payload = job[s].payload
    BY <1>3 DEF EndWrite, AtRest, TypeInv, TypeOK, Job
  <2>2. QED
    BY <2>1 DEF Queued
<1>4. ASSUME Rename(s) \/ WriteFails(s)
      PROVE  Queued(s)'
  <2>1. queue[s] # <<>> /\ queue'[s] = Tail(queue[s]) /\ memory' = memory /\ job'[s] = NoJob
    <3>1. CASE Rename(s)
      BY <1>b, <3>1 DEF Rename, Settle, AfterRename, AtRest, TypeInv, TypeOK
    <3>2. CASE WriteFails(s)
      BY <3>2 DEF WriteFails, Settle, TypeInv, TypeOK
    <3>3. QED
      BY <1>4, <3>1, <3>2
  <2>2. queue'[s] # <<>> => queue'[s][Len(queue'[s])] = memory'[s]
    BY <1>a, <2>1, TailQueued DEF Queued
  <2>3. QED
    BY <2>1, <2>2, NoJobTyped DEF Queued, AtRest
<1>5. ASSUME Crash
      PROVE  Queued(s)'
  BY <1>5, NoJobTyped DEF Crash, Queued, AtRest
<1>6. ASSUME Load(s) \/ LoadFails(s) \/ UNCHANGED vars
      PROVE  Queued(s)'
  <2>1. queue' = queue /\ job' = job /\ (queue[s] = <<>> \/ memory' = memory)
    BY <1>6 DEF Load, LoadFails, vars, store, SoleWriter
  <2>2. QED
    BY <2>1 DEF Queued, AtRest
<1>7. QED
  BY <1>1, <1>2, <1>3, <1>4, <1>5, <1>6 DEF Next
(* One step of the store is one of DurableMap or changes nothing there.    *)
LEMMA PromisedStep ==
  ASSUME NEW s, Stores = {s}, TypeInv, TypeInv', SoleWriter(s), SoleWriter(s)', Queued(s),
         LE(disk.entries, disk'.entries), [Next]_vars
  PROVE  [Promised!Next]_Promised!vars
<1> DEFINE current == IF loaded[s] = "yes" THEN memory[s] ELSE disk.entries
           q == queue[s]
<1> s \in Stores /\ Sole = s
  BY SoleIs
<1>a. /\ memory[s] \in Catalog /\ disk.entries \in Catalog /\ q \in Seq(Catalog)
      /\ version \in Nat /\ job[s] \in Job
      /\ \A k \in Keys : memory[s][k] \in Nat
  BY DEF TypeInv, TypeOK, File, Catalog
<1>b. ~AtRest(s) => q # <<>>
  BY DEF TypeInv, HeadUnderWay
<1>1. ASSUME NEW k \in KeysOf[s], MutateState(s, k)
      PROVE  Promised!Change(k)
  <2>1. /\ loaded[s] = "yes" /\ loaded' = loaded /\ disk' = disk /\ acked' = acked
        /\ memory'[s] = [memory[s] EXCEPT ![k] = version + 1]
        /\ queue'[s] = Append(queue[s], memory'[s])
    BY <1>1 DEF MutateState, TypeInv, TypeOK
  <2>2. k \in Keys
    BY KeysOfStores
  <2>3. memory[s][k] <= version /\ memory[s][k] \in Nat
    BY <1>a, <2>1, <2>2 DEF SoleWriter, LE
  <2>4. memory'[s][k] = version + 1
    BY <1>a, <2>1, <2>2 DEF Catalog
  <2>5. memory[s][k] < memory'[s][k]
    BY <1>a, <2>3, <2>4
  <2>6. memory'[s] = [memory[s] EXCEPT ![k] = memory'[s][k]]
    BY <2>1, <2>4
  <2>7. QED
    BY <2>1, <2>5, <2>6 DEF Promised!Change
<1>2. ASSUME Rename(s)
      PROVE  Promised!Save
  <2>1. job[s].step = "written" /\ ~AtRest(s)
    BY <1>2 DEF Rename, AtRest
  <2>2. disk'.entries = job[s].payload
    BY <1>2, <2>1 DEF Rename, SoleWriter
  <2>3. /\ loaded' = loaded /\ memory' = memory /\ loaded[s] = "yes"
        /\ acked' = Newer(acked, Head(queue[s])) /\ queue'[s] = Tail(queue[s])
    BY <1>2, <1>b, <2>1 DEF Rename, Settle, SoleWriter, TypeInv, TypeOK
  <2>4. \E i \in DOMAIN queue[s] : disk'.entries = queue[s][i]
    BY <2>1, <2>2 DEF Queued
  <2>5. LE(Head(queue[s]), disk'.entries)
    BY <1>a, <1>b, <2>1, <2>2, HeadTailProperties DEF SoleWriter
  <2>6. Newer(acked, Head(queue[s])) = Promised!Newest(acked, Head(queue[s]))
    BY DEF Newer, Promised!Newest
  <2>7. QED
    BY <2>3, <2>4, <2>5, <2>6 DEF Promised!Save, LE
<1>3. ASSUME WriteFails(s)
      PROVE  Promised!Reject
  <2>1. /\ loaded' = loaded /\ memory' = memory /\ disk' = disk /\ acked' = acked
        /\ queue[s] # <<>> /\ queue'[s] = Tail(queue[s])
    BY <1>3 DEF WriteFails, Settle, TypeInv, TypeOK
  <2>2. QED
    BY <2>1 DEF Promised!Reject
<1>4. ASSUME Crash
      PROVE  Promised!Crash
  <2>1. loaded'[s] = "no" /\ queue'[s] = <<>> /\ disk' = disk /\ acked' = acked
    BY <1>4 DEF Crash
  <2>2. QED
    BY <2>1 DEF Promised!Crash
<1>5. ASSUME \/ Load(s) \/ LoadFails(s) \/ BeginWrite(s) \/ EndWrite(s)
             \/ UNCHANGED vars
      PROVE  UNCHANGED Promised!vars
  <2>1. disk' = disk
    <3>1. CASE EndWrite(s)
      <4>1. job[s].place = "tmp"
        BY <3>1 DEF EndWrite, SoleWriter, AtRest
      <4>2. QED
        BY <3>1, <4>1 DEF EndWrite
    <3>2. QED
      BY <1>5, <3>1 DEF Load, LoadFails, BeginWrite, vars
  <2>2. queue' = queue /\ acked' = acked
    BY <1>5 DEF Load, LoadFails, BeginWrite, EndWrite, vars, store
  <2>3. current' = current
    <3>1. CASE Load(s) \/ LoadFails(s)
      BY <2>1, <3>1 DEF Load, LoadFails, TypeInv, TypeOK
    <3>2. CASE BeginWrite(s) \/ EndWrite(s) \/ UNCHANGED vars
      BY <2>1, <3>2 DEF BeginWrite, EndWrite, vars, store
    <3>3. QED
      BY <1>5, <3>1, <3>2
  <2>4. QED
    BY <2>1, <2>2, <2>3 DEF Promised!vars
<1>6. QED
  <2>1. ASSUME NEW k \in KeysOf[s], MutateState(s, k)
        PROVE  Promised!Next
    BY <1>1, <2>1, KeysOfStores DEF Promised!Next
  <2>2. CASE Rename(s) \/ WriteFails(s) \/ Crash
    BY <1>2, <1>3, <1>4, <2>2 DEF Promised!Next
  <2>3. QED
    BY <1>5, <2>1, <2>2 DEF Next

(* JsonCatalogStore with the file to itself (persistState, mutateState,    *)
(* getState): whatever writes fail and whenever the process dies, what its *)
(* callers see is a map that stores whole snapshots of itself, in order.   *)
THEOREM Refinement ==
  ASSUME NEW s, Stores = {s}
  PROVE  Spec => ImplementsDurableMap
<1> s \in Stores /\ Sole = s
  BY SoleIs
<1>1. Init => Promised!Init
  BY DEF Init, Promised!Init, Empty
<1>2. Init => Queued(s)
  BY QueuedInit
<1>3. TypeInv /\ SoleWriter(s) /\ Queued(s) /\ [Next]_vars => Queued(s)'
  BY QueuedStep
<1>4. /\ TypeInv /\ TypeInv' /\ SoleWriter(s) /\ SoleWriter(s)'
      /\ Queued(s) /\ [Next]_vars
      => [Promised!Next]_Promised!vars
  <2>1. TypeInv /\ SoleWriter(s) /\ [Next]_vars => LE(disk.entries, disk'.entries)
    BY SoleStep
  <2>2. QED
    BY <2>1, PromisedStep
<1>5. QED
  BY <1>1, <1>2, <1>3, <1>4, SoleWriterInvariance, PTL
  DEF Spec, ImplementsDurableMap, Promised!Spec
==============================================================================
