--------------------------- MODULE TranscriptsProofs ---------------------------
(***************************************************************************)
(* Proofs about Transcripts, for any sessions, and any numbers of events,  *)
(* works waiting, failed writes, rejected messages and evictions.          *)
(***************************************************************************)
EXTENDS Transcripts, SequenceTheorems, TLAPS

Works == Events \cup Flushes
IsEvent(e) == e.kind \in Kinds

(* The work that awaits its write is the end of a run. *)
AwaitsEnd == awaiting # None => chain # <<>> /\ chain[1].kind = "end"

(* Transcripts are closed under what is added to them. *)
LEMMA TextFacts ==
  /\ <<>> \in Texts /\ <<0>> \in Texts /\ {0} \in Rows /\ None \notin Rows
  /\ \A i \in 1 .. MaxItems : <<i>> \in Texts
  /\ \A a, b \in Texts : a \o b \in Texts
  /\ \A a \in Texts : Elements(a) \in Rows
<1>1. \A a, b \in Texts : a \o b \in Texts
  BY ConcatProperties DEF Texts
<1>2. \A a \in Texts : Elements(a) \in Rows
  BY ElementOfSeq DEF Texts, Elements, Rows
<1> QED BY <1>1, <1>2, NoneIsNothing, BoundsAreNaturals DEF Texts, Rows

(* What is cached. *)
LEMMA KeptFacts ==
  ASSUME TypeOK, NEW s \in Sessions
  PROVE  Kept(s) \in Rows /\ (cache[s] # None => Kept(s) = cache[s])
  BY DEF Kept, TypeOK, Rows

LEMMA WorkFacts ==
  /\ \A e \in Works : IsEvent(e) => e \in Events
  /\ [kind |-> "flush"] \in Works /\ [kind |-> "quit"] \in Works
  /\ \A e \in Flushes : ~IsEvent(e)
  BY DEF Works, Events, Flushes, IsEvent, Kinds

(* The work that is under way is the head of the chain. *)
LEMMA HeadFacts ==
  ASSUME TypeOK, NEW kind, Under(kind)
  PROVE  /\ chain \in Seq(Works) /\ chain # <<>> /\ awaiting = None
         /\ Head(chain) = chain[1] /\ chain[1].kind = kind /\ Len(chain) \in Nat \ {0}
         /\ Tail(chain) \in Seq(Works)
         /\ kind \in Kinds => Head(chain) \in Events
<1>1. chain \in Seq(Works) /\ chain # <<>> /\ awaiting = None /\ Head(chain).kind = kind
  BY DEF TypeOK, Under, Works
<1>2. Head(chain) \in Works /\ Tail(chain) \in Seq(Works) /\ Head(chain) = chain[1]
      /\ Len(chain) \in Nat \ {0}
  BY <1>1, HeadTailProperties, EmptySeq
<1> QED BY <1>1, <1>2, WorkFacts DEF IsEvent

(* Adding changes one session, and keeps the types. *)
LEMMA AddsFacts ==
  ASSUME TypeOK, NEW s \in Sessions, NEW more \in Texts, Adds(s, more)
  PROVE  /\ cache' \in [Sessions -> Rows \cup {None}] /\ applied' \in [Sessions -> Texts]
         /\ torn' \subseteq Sessions
         /\ cache'[s] = Kept(s) \cup Elements(more) /\ cache'[s] \in Rows
         /\ applied'[s] = applied[s] \o more
         /\ \A q \in Sessions \ {s} : cache'[q] = cache[q] /\ applied'[q] = applied[q]
<1>1. Kept(s) \in Rows /\ Elements(more) \in Rows
  BY KeptFacts, TextFacts
<1>2. Kept(s) \cup Elements(more) \in Rows /\ applied[s] \o more \in Texts
  BY <1>1, TextFacts DEF TypeOK, Rows
<1> QED BY <1>2 DEF Adds, TypeOK

(* A timer is set, and covers what was quiet. *)
LEMMA SchedulesFacts ==
  ASSUME TypeOK, NEW s \in Sessions, Schedules(s)
  PROVE  /\ timers' \subseteq Sessions /\ quiet' \in [Sessions -> Rows]
         /\ timers' = timers \cup {s} /\ quiet'[s] = {}
         /\ \A q \in Sessions \ {s} : quiet'[q] = quiet[q]
  BY DEF Schedules, TypeOK, Rows

LEMMA InitType == Init => TypeOK /\ AwaitsEnd /\ DeltasWillArrive
<1> SUFFICES ASSUME Init PROVE TypeOK /\ AwaitsEnd /\ DeltasWillArrive
  OBVIOUS
<1>1. cache \in [Sessions -> Rows \cup {None}]
  BY TextFacts DEF Init
<1>2. /\ batch \in [Sessions -> Texts] /\ loads \in [Sessions -> Rows \cup {None}]
      /\ file \in [Sessions -> Rows] /\ applied \in [Sessions -> Texts]
  BY TextFacts DEF Init
<1>3. chain \in Seq(Events \cup Flushes) /\ writes \in [Sessions -> Seq(Rows)]
  BY DEF Init
<1>4. /\ items \in 0 .. MaxItems /\ faults \in 0 .. MaxAll
      /\ before \in [Sessions -> Rows] /\ quiet \in [Sessions -> Rows]
      /\ gone \in [Sessions -> Rows] /\ owed \in [Sessions -> Nat]
      /\ sending \in [Sessions -> Nat]
  BY BoundsAreNaturals DEF Init, Rows
<1>5. TypeOK
  BY <1>1, <1>2, <1>3, <1>4 DEF Init, TypeOK, Quits
<1> QED BY <1>5 DEF Init, AwaitsEnd, DeltasWillArrive, Pending

(* A write of a session is under way, and ends. *)
LEMMA WriteEndsTyped ==
  ASSUME TypeOK, AwaitsEnd, NEW s \in Sessions, WriteEnds(s)
  PROVE  /\ writes' \in [Sessions -> Seq(Rows)] /\ owed' \in [Sessions -> Nat]
         /\ awaiting' \in Sessions \cup {None} /\ chain' \in Seq(Works)
         /\ Head(writes[s]) \in Rows
         /\ \/ awaiting' = awaiting /\ chain' = chain
            \/ awaiting = s /\ awaiting' = None /\ chain # <<>> /\ chain' = Tail(chain)
<1>1. /\ writes[s] \in Seq(Rows) /\ writes[s] # <<>>
      /\ writes' = [writes EXCEPT ![s] = Tail(@)]
      /\ owed' = [owed EXCEPT ![s] = IF @ = 0 THEN 0 ELSE @ - 1]
  BY DEF WriteEnds, TypeOK
<1>2. Head(writes[s]) \in Rows /\ Tail(writes[s]) \in Seq(Rows)
  BY <1>1, HeadTailProperties
<1>3. owed' \in [Sessions -> Nat]
  BY <1>1 DEF TypeOK
<1>4. \/ awaiting' = awaiting /\ chain' = chain
      \/ awaiting = s /\ awaiting' = None /\ chain # <<>> /\ chain' = Tail(chain)
  BY NoneIsNothing DEF WriteEnds, AwaitsEnd
<1>5. chain \in Seq(Works) /\ (chain # <<>> => Tail(chain) \in Seq(Works))
  BY HeadTailProperties DEF TypeOK, Works
<1> QED BY <1>1, <1>2, <1>3, <1>4, <1>5 DEF TypeOK

LEMMA BeforeTyped ==
  ASSUME TypeOK, NEW s \in Sessions
  PROVE  Elements(applied[s]) \cup Elements(batch[s])
           \cup {chain[i].id : i \in {j \in 1 .. Len(chain) :
                   chain[j].kind \in Kinds /\ chain[j].session = s}}
         \in Rows
<1>1. \A t \in Texts : Elements(t) \subseteq 0 .. MaxItems
  BY TextFacts DEF Rows
<1>2. ASSUME NEW i \in 1 .. Len(chain), chain[i].kind \in Kinds
      PROVE  chain[i].id \in 0 .. MaxItems
  <2>1. chain[i] \in Works
    BY ElementOfSeq DEF TypeOK, Works
  <2>2. chain[i] \in Events
    BY <1>2, <2>1, WorkFacts DEF IsEvent
  <2> QED BY <2>2, BoundsAreNaturals DEF Events
<1> QED BY <1>1, <1>2 DEF TypeOK, Rows

LEMMA RoomFacts == TypeOK /\ Room => faults + 1 \in 0 .. MaxAll
  BY BoundsAreNaturals DEF TypeOK, Room

LEMMA StepType == TypeOK /\ AwaitsEnd /\ [Next]_vars => TypeOK'
<1> SUFFICES ASSUME TypeOK, AwaitsEnd, [Next]_vars PROVE TypeOK'
  OBVIOUS
<1> USE DEF runtime, batcher, memory, disk, quitting, histories
<1>1. ASSUME NEW s \in Sessions, NEW kind \in Kinds, Emit(s, kind)
      PROVE  TypeOK'
  <2>1. items + 1 \in 1 .. MaxItems /\ items' \in 0 .. MaxItems
    BY <1>1, BoundsAreNaturals DEF Emit, TypeOK
  <2>2. [kind |-> kind, session |-> s, id |-> items + 1] \in Works
    BY <2>1 DEF Works, Events
  <2>3. chain' \in Seq(Works)
    BY <1>1, <2>2, AppendProperties DEF Emit, TypeOK, Works
  <2> QED BY <1>1, <2>1, <2>3 DEF Emit, TypeOK, Works
<1>2. ASSUME NEW s \in Sessions, Send(s) PROVE TypeOK'
  <2>1. items + 1 \in 1 .. MaxItems /\ items' \in 0 .. MaxItems
    BY <1>2, BoundsAreNaturals DEF Send, TypeOK
  <2>2. <<items + 1>> \in Texts
    BY <2>1, TextFacts
  <2>3. /\ cache' \in [Sessions -> Rows \cup {None}] /\ applied' \in [Sessions -> Texts]
        /\ torn' \subseteq Sessions
    BY <1>2, <2>2, AddsFacts DEF Send
  <2>4. timers' \subseteq Sessions /\ quiet' \in [Sessions -> Rows]
    BY <1>2, SchedulesFacts DEF Send
  <2>5. sending' \in [Sessions -> Nat]
    BY <1>2 DEF Send, TypeOK
  <2> QED BY <1>2, <2>1, <2>3, <2>4, <2>5 DEF Send, TypeOK
<1>18. ASSUME NEW s \in Sessions, Rejected(s) PROVE TypeOK'
  <2>1. PICK row \in SUBSET Kept(s) :
          /\ cache' = [cache EXCEPT ![s] = Kept(s) \ row]
          /\ gone' = [gone EXCEPT ![s] = @ \cup row]
    BY <1>18 DEF Rejected
  <2>2. row \in Rows /\ Kept(s) \ row \in Rows
    BY KeptFacts DEF Rows
  <2>3. cache' \in [Sessions -> Rows \cup {None}] /\ gone' \in [Sessions -> Rows]
    BY <2>1, <2>2 DEF TypeOK, Rows
  <2>4. timers' \subseteq Sessions /\ quiet' \in [Sessions -> Rows]
    BY <1>18, SchedulesFacts DEF Rejected
  <2>5. sending' \in [Sessions -> Nat] /\ torn' \subseteq Sessions
    BY <1>18 DEF Rejected, TypeOK
  <2>6. faults' \in 0 .. MaxAll
    BY <1>18, RoomFacts DEF Rejected
  <2> QED BY <1>18, <2>3, <2>4, <2>5, <2>6 DEF Rejected, TypeOK
<1>3. CASE HandleDelta
  <2>1. Head(chain) \in Events /\ Tail(chain) \in Seq(Works)
    BY <1>3, HeadFacts DEF HandleDelta, Kinds
  <2>2. Append(batch[Head(chain).session], Head(chain).id) \in Texts
    BY <2>1, AppendProperties, BoundsAreNaturals DEF TypeOK, Events, Texts
  <2>3. batch' \in [Sessions -> Texts]
    BY <1>3, <2>1, <2>2 DEF HandleDelta, TypeOK, Events
  <2> QED BY <1>3, <2>1, <2>3 DEF HandleDelta, TypeOK, Works
<1>4. ASSUME NEW s \in Sessions, ApplyBatch(s) PROVE TypeOK'
  <2>1. /\ cache' \in [Sessions -> Rows \cup {None}] /\ applied' \in [Sessions -> Texts]
        /\ torn' \subseteq Sessions
    BY <1>4, AddsFacts DEF ApplyBatch, TypeOK
  <2>2. batch' \in [Sessions -> Texts] /\ ticking' \in BOOLEAN
    BY <1>4, TextFacts DEF ApplyBatch, TypeOK
  <2>3. timers' \subseteq Sessions /\ quiet' \in [Sessions -> Rows]
    BY <1>4, SchedulesFacts DEF ApplyBatch
  <2> QED BY <1>4, <2>1, <2>2, <2>3 DEF ApplyBatch, TypeOK
<1>5. CASE Tick
  <2>1. chain' \in Seq(Works)
    BY <1>5, WorkFacts, AppendProperties DEF Tick, TypeOK, Works
  <2> QED BY <1>5, <2>1 DEF Tick, TypeOK, Works
<1>6. CASE FlushEnds
  <2>1. chain' \in Seq(Works)
    BY <1>6, HeadFacts DEF FlushEnds
  <2> QED BY <1>6, <2>1 DEF FlushEnds, TypeOK, Works
<1>7. CASE HandleNote
  <2>1. Head(chain) \in Events /\ Tail(chain) \in Seq(Works)
    BY <1>7, HeadFacts DEF HandleNote, Kinds
  <2>2. Head(chain).session \in Sessions /\ <<Head(chain).id>> \in Texts
    BY <2>1, TextFacts DEF Events
  <2>3. /\ cache' \in [Sessions -> Rows \cup {None}] /\ applied' \in [Sessions -> Texts]
        /\ torn' \subseteq Sessions
    BY <1>7, <2>2, AddsFacts DEF HandleNote
  <2>4. timers' \subseteq Sessions /\ quiet' \in [Sessions -> Rows]
    BY <1>7, <2>2, SchedulesFacts DEF HandleNote
  <2> QED BY <1>7, <2>1, <2>2, <2>3, <2>4 DEF HandleNote, TypeOK, Works
<1>19. CASE HandleNotice
  <2>1. Head(chain) \in Events /\ Tail(chain) \in Seq(Works)
    BY <1>19, HeadFacts DEF HandleNotice, Kinds
  <2>2. /\ Head(chain).session \in Sessions /\ <<Head(chain).id>> \in Texts
        /\ Head(chain).id \in 0 .. MaxItems
    BY <2>1, TextFacts, BoundsAreNaturals DEF Events
  <2>3. /\ cache' \in [Sessions -> Rows \cup {None}] /\ applied' \in [Sessions -> Texts]
        /\ torn' \subseteq Sessions
    BY <1>19, <2>2, AddsFacts DEF HandleNotice
  <2>4. quiet' \in [Sessions -> Rows]
    BY <1>19, <2>2 DEF HandleNotice, TypeOK, Rows
  <2> QED BY <1>19, <2>1, <2>2, <2>3, <2>4 DEF HandleNotice, TypeOK, Works
<1>8. CASE HandleEnd
  <2> DEFINE s == Head(chain).session
  <2>1. Head(chain) \in Events
    BY <1>8, HeadFacts DEF HandleEnd, Kinds
  <2>2. s \in Sessions /\ <<Head(chain).id>> \in Texts
    BY <2>1, TextFacts DEF Events
  <2>3. /\ cache' \in [Sessions -> Rows \cup {None}] /\ applied' \in [Sessions -> Texts]
        /\ torn' \subseteq Sessions /\ cache'[s] \in Rows
    BY <1>8, <2>2, AddsFacts DEF HandleEnd
  <2>5. quiet' \in [Sessions -> Rows]
    BY <1>8 DEF HandleEnd, TypeOK, Rows
  <2>4. writes' \in [Sessions -> Seq(Rows)]
    <3>1. writes' = [writes EXCEPT ![s] = Append(@, cache'[s])]
      BY <1>8 DEF HandleEnd
    <3>2. Append(writes[s], cache'[s]) \in Seq(Rows)
      BY <2>2, <2>3, AppendProperties DEF TypeOK
    <3> QED BY <2>2, <3>1, <3>2 DEF TypeOK
  <2> QED BY <1>8, <2>2, <2>3, <2>4, <2>5 DEF HandleEnd, TypeOK
<1>9. ASSUME NEW s \in Sessions, TimerFires(s) PROVE TypeOK'
  <2>1. Kept(s) \in Rows
    BY KeptFacts
  <2>2. Append(writes[s], Kept(s)) \in Seq(Rows)
    BY <2>1, AppendProperties DEF TypeOK
  <2>3. writes' \in [Sessions -> Seq(Rows)]
    BY <1>9, <2>2 DEF TimerFires, TypeOK
  <2> QED BY <1>9, <2>3 DEF TimerFires, TypeOK
<1>10. ASSUME NEW s \in Sessions, WriteLands(s) \/ WriteFails(s) PROVE TypeOK'
  <2>1. WriteEnds(s)
    BY <1>10 DEF WriteLands, WriteFails
  <2>2. file' \in [Sessions -> Rows]
    BY <1>10, <2>1, WriteEndsTyped DEF WriteLands, WriteFails, TypeOK
  <2>3. failed' \subseteq Sessions /\ faults' \in 0 .. MaxAll
    BY <1>10, RoomFacts DEF WriteLands, WriteFails, TypeOK
  <2>4. quit' \in Quits
    BY <1>10 DEF WriteLands, WriteFails, TypeOK, Quits
  <2> QED BY <2>1, <2>2, <2>3, <2>4, WriteEndsTyped DEF WriteEnds, TypeOK, Works
<1>11. ASSUME NEW s \in Sessions, LoadReads(s) PROVE TypeOK'
  <2>1. loads' \in [Sessions -> Rows \cup {None}] /\ torn' \subseteq Sessions
    BY <1>11 DEF LoadReads, TypeOK
  <2> QED BY <1>11, <2>1 DEF LoadReads, TypeOK
<1>12. ASSUME NEW s \in Sessions, LoadEnds(s) PROVE TypeOK'
  BY <1>12 DEF LoadEnds, TypeOK
<1>13. ASSUME NEW s \in Sessions, Evict(s) PROVE TypeOK'
  <2>1. quiet' \in [Sessions -> Rows] /\ gone' \in [Sessions -> Rows]
    BY <1>13 DEF Evict, TypeOK, Rows
  <2>2. faults' \in 0 .. MaxAll
    BY <1>13, RoomFacts DEF Evict
  <2> QED BY <1>13, <2>1, <2>2 DEF Evict, TypeOK
<1>14. CASE QuitStarts
  <2>1. chain' \in Seq(Works)
    BY <1>14, WorkFacts, AppendProperties DEF QuitStarts, TypeOK, Works
  <2>2. before' \in [Sessions -> Rows]
    BY <1>14, BeforeTyped DEF QuitStarts
  <2> QED BY <1>14, <2>1, <2>2 DEF QuitStarts, TypeOK, Works, Quits
<1>15. CASE QuitCollects
  <2>1. chain' \in Seq(Works)
    BY <1>15, HeadFacts DEF QuitCollects
  <2>2. \A s \in Sessions : Append(writes[s], Kept(s)) \in Seq(Rows)
    <3> TAKE s \in Sessions
    <3>1. Kept(s) \in Rows
      BY KeptFacts
    <3> QED BY <3>1, AppendProperties DEF TypeOK
  <2>5. before' \in [Sessions -> Rows]
    BY <1>15 DEF QuitCollects, TypeOK, Rows
  <2>3. writes' \in [Sessions -> Seq(Rows)]
    BY <1>15, <2>2 DEF QuitCollects, TypeOK
  <2>4. owed' \in [Sessions -> Nat]
    <3>1. owed' = [s \in Sessions |-> IF s \in timers THEN Len(writes'[s]) ELSE 0]
      BY <1>15 DEF QuitCollects
    <3>2. \A s \in Sessions : Len(writes'[s]) \in Nat
      BY <2>3, LenProperties
    <3> QED BY <3>1, <3>2
  <2> QED BY <1>15, <2>1, <2>3, <2>4, <2>5 DEF QuitCollects, TypeOK, Works, Quits
<1>16. CASE QuitEnds \/ QuitTimesOut
  BY <1>16 DEF QuitEnds, QuitTimesOut, TypeOK, Quits
<1>17. CASE UNCHANGED vars
  BY <1>17 DEF vars, TypeOK
<1> QED BY <1>1, <1>2, <1>3, <1>4, <1>5, <1>6, <1>7, <1>8, <1>9, <1>10, <1>11, <1>12, <1>13,
           <1>14, <1>15, <1>16, <1>17, <1>18, <1>19 DEF Next, ChainStep

(* What is put on the chain is behind what was there. *)
LEMMA AppendFacts ==
  ASSUME TypeOK, NEW e \in Works, chain' = Append(chain, e)
  PROVE  /\ Len(chain) \in Nat /\ Len(chain') = Len(chain) + 1
         /\ \A i \in 1 .. Len(chain) : chain'[i] = chain[i]
         /\ chain'[Len(chain) + 1] = e /\ chain' # <<>>
<1>1. chain \in Seq(Works) /\ Len(chain) \in Nat
  BY LenProperties DEF TypeOK, Works
<1> QED BY <1>1, AppendProperties

(* What was behind the work that is done moves one place forward. *)
LEMMA TailFacts ==
  ASSUME TypeOK, chain # <<>>, chain' = Tail(chain)
  PROVE  /\ Len(chain) \in Nat \ {0} /\ Len(chain') = Len(chain) - 1
         /\ \A i \in 1 .. Len(chain') : chain'[i] = chain[i + 1]
<1>1. chain \in Seq(Works) /\ Len(chain) \in Nat \ {0}
  BY EmptySeq, LenProperties DEF TypeOK, Works
<1> QED BY <1>1, HeadTailProperties

LEMMA StepAwaits == TypeOK /\ AwaitsEnd /\ [Next]_vars => AwaitsEnd'
<1> SUFFICES ASSUME TypeOK, AwaitsEnd, [Next]_vars, awaiting' # None
             PROVE  chain' # <<>> /\ chain'[1].kind = "end"
  BY DEF AwaitsEnd
<1>1. ASSUME NEW e \in Works, chain' = Append(chain, e), awaiting' = awaiting
      PROVE  chain' # <<>> /\ chain'[1].kind = "end"
  <2>1. chain # <<>> /\ chain[1].kind = "end" /\ 1 \in 1 .. Len(chain)
    BY <1>1, EmptySeq, LenProperties DEF AwaitsEnd, TypeOK
  <2> QED BY <1>1, <2>1, AppendFacts
<1>2. ASSUME chain' = chain, awaiting' = awaiting
      PROVE  chain' # <<>> /\ chain'[1].kind = "end"
  BY <1>2 DEF AwaitsEnd
<1>3. ASSUME NEW s \in Sessions, NEW kind \in Kinds, Emit(s, kind)
      PROVE  chain' # <<>> /\ chain'[1].kind = "end"
  <2>1. [kind |-> kind, session |-> s, id |-> items + 1] \in Works
    BY <1>3, BoundsAreNaturals DEF Emit, Works, Events, TypeOK
  <2> QED BY <1>1, <1>3, <2>1 DEF Emit
<1>4. ASSUME Tick \/ QuitStarts
      PROVE  chain' # <<>> /\ chain'[1].kind = "end"
  BY <1>1, <1>4, WorkFacts DEF Tick, QuitStarts
<1>5. ~(HandleDelta \/ HandleNote \/ HandleNotice \/ FlushEnds \/ QuitCollects)
  BY DEF HandleDelta, HandleNote, HandleNotice, FlushEnds, QuitCollects, Under
<1>6. CASE HandleEnd
  BY <1>6, HeadFacts DEF HandleEnd
<1>7. ASSUME NEW s \in Sessions, WriteEnds(s)
      PROVE  chain' # <<>> /\ chain'[1].kind = "end"
  BY <1>2, <1>7, WriteEndsTyped
<1>8. ASSUME NEW s \in Sessions,
             \/ Send(s) \/ Rejected(s) \/ TimerFires(s) \/ LoadReads(s) \/ LoadEnds(s)
             \/ Evict(s) \/ ApplyBatch(s)
      PROVE  chain' # <<>> /\ chain'[1].kind = "end"
  BY <1>2, <1>8 DEF Send, Rejected, TimerFires, LoadReads, LoadEnds, Evict, ApplyBatch
<1>9. CASE QuitEnds \/ QuitTimesOut \/ UNCHANGED vars
  BY <1>2, <1>9 DEF QuitEnds, QuitTimesOut, vars
<1> QED BY <1>3, <1>4, <1>5, <1>6, <1>7, <1>8, <1>9 DEF Next, ChainStep, WriteLands, WriteFails

LEMMA StepDeltas == TypeOK /\ AwaitsEnd /\ DeltasWillArrive /\ [Next]_vars => DeltasWillArrive'
<1> DEFINE Flush == \E i \in 1 .. Len(chain) : chain[i].kind \in {"flush", "quit"}
<1> SUFFICES ASSUME TypeOK, AwaitsEnd, DeltasWillArrive, [Next]_vars, Pending' # {}
             PROVE  ticking' \/ Flush'
  BY DEF DeltasWillArrive
<1> USE DEF batcher
<1>1. ASSUME NEW e \in Works, chain' = Append(chain, e), UNCHANGED batcher
      PROVE  ticking' \/ Flush'
  <2>1. ticking \/ Flush
    BY <1>1 DEF DeltasWillArrive, Pending
  <2> QED BY <1>1, <2>1, AppendFacts
<1>2. ASSUME UNCHANGED <<chain, batcher>> PROVE ticking' \/ Flush'
  BY <1>2 DEF DeltasWillArrive, Pending
<1>3. ASSUME chain # <<>>, chain[1].kind \in Kinds, chain' = Tail(chain),
             UNCHANGED batcher
      PROVE  ticking' \/ Flush'
  <2>1. CASE ticking
    BY <1>3, <2>1
  <2>2. CASE Flush
    <3>1. PICK i \in 1 .. Len(chain) : chain[i].kind \in {"flush", "quit"}
      BY <2>2
    <3>2. i # 1
      BY <1>3, <3>1 DEF Kinds
    <3>3. i - 1 \in 1 .. Len(chain') /\ chain'[i - 1] = chain[i]
      BY <1>3, <3>2, TailFacts
    <3> QED BY <3>1, <3>3
  <2> QED BY <1>3, <2>1, <2>2 DEF DeltasWillArrive, Pending
<1>4. ASSUME NEW s \in Sessions, NEW kind \in Kinds, Emit(s, kind)
      PROVE  ticking' \/ Flush'
  <2>1. [kind |-> kind, session |-> s, id |-> items + 1] \in Works
    BY <1>4, BoundsAreNaturals DEF Emit, Works, Events, TypeOK
  <2> QED BY <1>1, <1>4, <2>1 DEF Emit
<1>5. CASE QuitStarts
  BY <1>1, <1>5, WorkFacts DEF QuitStarts
<1>6. CASE Tick
  <2>1. chain' = Append(chain, [kind |-> "flush"])
    BY <1>6 DEF Tick
  <2>2. Len(chain) + 1 \in 1 .. Len(chain') /\ chain'[Len(chain) + 1].kind = "flush"
    BY <2>1, WorkFacts, AppendFacts
  <2> QED BY <2>2
<1>7. CASE HandleDelta
  BY <1>7 DEF HandleDelta
<1>8. ASSUME NEW s \in Sessions, ApplyBatch(s) PROVE ticking' \/ Flush'
  <2>1. Pending' = Pending \ {s} /\ chain' = chain
    BY <1>8 DEF ApplyBatch, Pending, TypeOK
  <2>2. ticking' = (ticking /\ Pending # {s})
    BY <1>8 DEF ApplyBatch
  <2>3. ticking \/ Flush
    BY <2>1 DEF DeltasWillArrive
  <2> QED BY <2>1, <2>2, <2>3
<1>9. CASE FlushEnds \/ QuitCollects
  BY <1>9 DEF FlushEnds, QuitCollects, Pending
<1>10. CASE HandleNote \/ HandleNotice
  BY <1>3, <1>10, HeadFacts DEF HandleNote, HandleNotice, Kinds
<1>11. CASE HandleEnd
  BY <1>2, <1>11 DEF HandleEnd
<1>12. ASSUME NEW s \in Sessions, WriteEnds(s) PROVE ticking' \/ Flush'
  <2>1. UNCHANGED batcher
    BY <1>12 DEF WriteEnds
  <2>2. CASE awaiting' = awaiting /\ chain' = chain
    BY <1>2, <2>1, <2>2
  <2>3. CASE awaiting = s /\ awaiting' = None /\ chain # <<>> /\ chain' = Tail(chain)
    BY <1>3, <2>1, <2>3, NoneIsNothing DEF AwaitsEnd, Kinds
  <2> QED BY <1>12, <2>2, <2>3, WriteEndsTyped
<1>13. ASSUME NEW s \in Sessions,
              \/ Send(s) \/ Rejected(s) \/ TimerFires(s) \/ LoadReads(s) \/ LoadEnds(s)
              \/ Evict(s)
       PROVE  ticking' \/ Flush'
  BY <1>2, <1>13 DEF Send, Rejected, TimerFires, LoadReads, LoadEnds, Evict
<1>14. CASE QuitEnds \/ QuitTimesOut \/ UNCHANGED vars
  BY <1>2, <1>14 DEF QuitEnds, QuitTimesOut, vars
<1> QED BY <1>4, <1>5, <1>6, <1>7, <1>8, <1>9, <1>10, <1>11, <1>12, <1>13, <1>14
        DEF Next, ChainStep, WriteLands, WriteFails

(* The variables keep their types, and what awaits a write is a run's end. *)
THEOREM TypeCorrect == Spec => [](TypeOK /\ AwaitsEnd)
<1>1. TypeOK /\ AwaitsEnd /\ [Next]_vars => (TypeOK /\ AwaitsEnd)'
  BY StepType, StepAwaits
<1> QED BY InitType, <1>1, PTL DEF Spec

(* While a delta waits in the batcher, its timer is set or a flush is on   *)
(* the chain: batcher and chain are never left with nothing to move it.    *)
THEOREM DeltasArrive == Spec => []DeltasWillArrive
<1> QED BY InitType, TypeCorrect, StepDeltas, PTL DEF Spec

------------------------------------------------------------------------------
(* What the app holds of a session, in memory or in the batcher. *)
Has(s) == Elements(applied[s]) \cup Elements(batch[s])

(* What a transcript holds, when more is added. *)
LEMMA ConcatElements ==
  ASSUME NEW a \in Texts, NEW b \in Texts
  PROVE  Elements(a \o b) = Elements(a) \cup Elements(b)
<1> USE DEF Elements, Texts
<1>1. Len(a) \in Nat /\ Len(b) \in Nat
  BY LenProperties
<1>2. /\ Len(a \o b) = Len(a) + Len(b)
      /\ \A i \in 1 .. Len(a) + Len(b) : (a \o b)[i] = IF i <= Len(a) THEN a[i] ELSE b[i - Len(a)]
  BY ConcatProperties
<1>3. Elements(a \o b) \subseteq Elements(a) \cup Elements(b)
  BY <1>1, <1>2
<1>4. Elements(a) \subseteq Elements(a \o b)
  BY <1>1, <1>2
<1>5. Elements(b) \subseteq Elements(a \o b)
  <2> SUFFICES ASSUME NEW i \in 1 .. Len(b) PROVE b[i] \in Elements(a \o b)
    OBVIOUS
  <2>1. Len(a) + i \in 1 .. Len(a \o b) /\ (a \o b)[Len(a) + i] = b[i]
    BY <1>1, <1>2
  <2> QED BY <2>1
<1> QED BY <1>3, <1>4, <1>5

LEMMA AppendElements ==
  ASSUME NEW a \in Texts, NEW e \in 0 .. MaxItems
  PROVE  Elements(Append(a, e)) = Elements(a) \cup {e} /\ Elements(<<e>>) = {e}
<1>1. /\ Len(a) \in Nat /\ Len(Append(a, e)) = Len(a) + 1 /\ Append(a, e)[Len(a) + 1] = e
      /\ \A i \in 1 .. Len(a) : Append(a, e)[i] = a[i]
  BY LenProperties, AppendProperties DEF Texts
<1> QED BY <1>1 DEF Elements

(* Nothing that was added is ever lost from the history. *)
LEMMA AddsElements ==
  ASSUME TypeOK, NEW s \in Sessions, NEW more \in Texts, Adds(s, more)
  PROVE  /\ Elements(applied'[s]) = Elements(applied[s]) \cup Elements(more)
         /\ \A q \in Sessions : Elements(applied[q]) \subseteq Elements(applied'[q])
<1>1. applied'[s] = applied[s] \o more /\ applied[s] \in Texts
  BY AddsFacts DEF TypeOK
<1>2. Elements(applied'[s]) = Elements(applied[s]) \cup Elements(more)
  BY <1>1, ConcatElements
<1> QED BY <1>2, AddsFacts

(* What is in order but for the members of S. *)
Ordered(t, S) ==
  \A i, j \in 1 .. Len(t) : i < j /\ {t[i], t[j]} \cap S = {} => t[i] < t[j]

(* An event on the chain that is still to be added: not the one under way  *)
(* once its write is awaited.                                              *)
Comes(i) == IsEvent(chain[i]) /\ ~(i = 1 /\ awaiting # None)

Filed(s) ==
  /\ Ordered(applied[s], sent) /\ Ordered(batch[s], sent)
  /\ \A x \in Elements(applied[s]) \ sent, y \in Elements(batch[s]) \ sent : x < y
  /\ \A x \in Has(s) : x <= items

(* The chain is in the order of the events, all later than those it has    *)
(* given to the batcher and the transcripts.                               *)
InLine(i) ==
  /\ chain[i].id <= items
  /\ \A s \in Sessions : \A x \in Has(s) \ sent : x < chain[i].id
  /\ \A j \in 1 .. Len(chain) : i < j /\ Comes(j) => chain[i].id < chain[j].id

Order ==
  /\ \A s \in Sessions : Filed(s)
  /\ \A i \in 1 .. Len(chain) : Comes(i) => InLine(i)

(* What is in order stays so when what is later is put behind it. *)
LEMMA OrderedFacts ==
  ASSUME NEW a \in Texts, NEW b \in Texts, NEW S, Ordered(a, S), Ordered(b, S),
         \A x \in Elements(a) \ S, y \in Elements(b) \ S : x < y
  PROVE  Ordered(a \o b, S)
<1> DEFINE c == a \o b
<1>1. Len(a) \in Nat /\ Len(b) \in Nat
  BY LenProperties DEF Texts
<1>2. /\ Len(c) = Len(a) + Len(b)
      /\ \A i \in 1 .. Len(a) + Len(b) : c[i] = IF i <= Len(a) THEN a[i] ELSE b[i - Len(a)]
  BY ConcatProperties DEF Texts
<1> HIDE DEF c
<1>3. SUFFICES ASSUME NEW i \in 1 .. Len(c), NEW j \in 1 .. Len(c), i < j,
                      c[i] \notin S, c[j] \notin S
               PROVE  c[i] < c[j]
  BY DEF Ordered, c
<1>4. CASE j <= Len(a)
  <2>1. i \in 1 .. Len(a) /\ j \in 1 .. Len(a) /\ c[i] = a[i] /\ c[j] = a[j]
    BY <1>1, <1>2, <1>3, <1>4
  <2> QED BY <1>3, <2>1 DEF Ordered
<1>5. CASE i > Len(a)
  <2>1. /\ i - Len(a) \in 1 .. Len(b) /\ j - Len(a) \in 1 .. Len(b) /\ i - Len(a) < j - Len(a)
        /\ c[i] = b[i - Len(a)] /\ c[j] = b[j - Len(a)]
    BY <1>1, <1>2, <1>3, <1>5
  <2> QED BY <1>3, <2>1 DEF Ordered
<1>6. CASE i <= Len(a) /\ j > Len(a)
  <2>1. i \in 1 .. Len(a) /\ j - Len(a) \in 1 .. Len(b) /\ c[i] = a[i] /\ c[j] = b[j - Len(a)]
    BY <1>1, <1>2, <1>3, <1>6
  <2>2. a[i] \in Elements(a) \ S /\ b[j - Len(a)] \in Elements(b) \ S
    BY <1>3, <2>1 DEF Elements
  <2> QED BY <2>1, <2>2
<1> QED BY <1>1, <1>2, <1>4, <1>5, <1>6

LEMMA OneIsOrdered ==
  ASSUME NEW x, NEW S PROVE Ordered(<<x>>, S) /\ Ordered(<<>>, S)
  BY EmptySeq DEF Ordered

(* What is still to come stays in line while the chain moves by k places,  *)
(* if what is new in memory is earlier.                                    *)
LEMMA LineMoves ==
  ASSUME TypeOK, \A i \in 1 .. Len(chain) : Comes(i) => InLine(i),
         NEW k \in {0, 1}, Len(chain') = Len(chain) - k,
         \A i \in 1 .. Len(chain') : chain'[i] = chain[i + k] /\ (Comes(i)' => Comes(i + k)),
         items' \in {items, items + 1},
         \A s \in Sessions : \A x \in Has(s)' \ sent' :
           x \in Has(s) \ sent \/ \A i \in 1 .. Len(chain') : Comes(i)' => x < chain'[i].id
  PROVE  \A i \in 1 .. Len(chain') : Comes(i)' => InLine(i)'
<1>1. Len(chain) \in Nat /\ items \in Nat
  BY LenProperties, BoundsAreNaturals DEF TypeOK
<1> TAKE i \in 1 .. Len(chain')
<1> HAVE Comes(i)'
<1>2. i + k \in 1 .. Len(chain) /\ InLine(i + k) /\ chain'[i] = chain[i + k]
  BY <1>1
<1>3. chain[i + k] \in Events
  <2>1. chain[i + k] \in Works /\ IsEvent(chain[i + k])
    BY <1>2, ElementOfSeq DEF TypeOK, Works, Comes
  <2> QED BY <2>1, WorkFacts
<1>4. chain'[i].id <= items'
  BY <1>1, <1>2, <1>3, BoundsAreNaturals DEF InLine, Events
<1>5. \A s \in Sessions : \A x \in Has(s)' \ sent' : x < chain'[i].id
  BY <1>2 DEF InLine
<1>6. ASSUME NEW j \in 1 .. Len(chain'), i < j, Comes(j)' PROVE chain'[i].id < chain'[j].id
  <2>1. j + k \in 1 .. Len(chain) /\ i + k < j + k /\ Comes(j + k) /\ chain'[j] = chain[j + k]
    BY <1>1, <1>6
  <2> QED BY <1>2, <2>1 DEF InLine
<1> QED BY <1>4, <1>5, <1>6 DEF InLine

(* A session nothing is added to. *)
LEMMA FiledStays ==
  ASSUME TypeOK, NEW s \in Sessions, Filed(s), applied'[s] = applied[s], batch'[s] = batch[s],
         sent \subseteq sent', items' \in {items, items + 1}
  PROVE  Filed(s)'
<1>1. Ordered(applied[s], sent)' /\ Ordered(batch[s], sent)'
  BY DEF Filed, Ordered
<1>2. \A x \in Elements(applied'[s]) \ sent', y \in Elements(batch'[s]) \ sent' : x < y
  BY DEF Filed
<1>3. ASSUME NEW x \in Has(s)' PROVE x <= items'
  <2>1. x \in Has(s) /\ x <= items
    BY <1>3 DEF Filed, Has
  <2>2. x \in Nat /\ items \in Nat
    <3>1. applied[s] \in Texts /\ batch[s] \in Texts
      BY DEF TypeOK
    <3>2. x \in 0 .. MaxItems
      BY <2>1, <3>1, ElementOfSeq DEF Has, Elements, Texts
    <3> QED BY <3>2, BoundsAreNaturals DEF TypeOK
  <2> QED BY <2>1, <2>2
<1> QED BY <1>1, <1>2, <1>3 DEF Filed

(* What is added is later than all that was there. *)
LEMMA AddedIsFiled ==
  ASSUME TypeOK, NEW s \in Sessions, NEW more \in Texts, Filed(s), Adds(s, more),
         sent' = sent, items' = items, batch'[s] = <<>>, Ordered(more, sent),
         \A x \in Elements(applied[s]) \ sent, y \in Elements(more) \ sent : x < y,
         \A y \in Elements(more) : y <= items
  PROVE  Filed(s)'
<1>1. applied'[s] = applied[s] \o more /\ applied[s] \in Texts
  BY AddsFacts DEF TypeOK
<1>2. Elements(applied'[s]) = Elements(applied[s]) \cup Elements(more) /\ Elements(batch'[s]) = {}
  <2>1. Elements(batch'[s]) = {}
    BY EmptySeq DEF Elements
  <2> QED BY <2>1, AddsElements
<1>3. Ordered(applied[s] \o more, sent)
  BY <1>1, OrderedFacts DEF Filed
<1>4. Ordered(applied[s], sent)' /\ Ordered(batch[s], sent)'
  <2>1. Ordered(applied'[s], sent)
    BY <1>1, <1>3
  <2>2. Ordered(batch'[s], sent)
    BY OneIsOrdered
  <2> QED BY <2>1, <2>2
<1>5. \A x \in Has(s)' : x <= items'
  BY <1>2 DEF Filed, Has
<1> QED BY <1>2, <1>4, <1>5 DEF Filed

(* The event at the head of the chain, when it is still to be added. *)
LEMMA HeadIsInLine ==
  ASSUME TypeOK, Order, NEW kind \in Kinds, Under(kind)
  PROVE  /\ chain[1].session \in Sessions /\ chain[1].id \in 0 .. MaxItems
         /\ <<chain[1].id>> \in Texts
         /\ Comes(1) /\ InLine(1) /\ Head(chain) = chain[1] /\ chain # <<>> /\ awaiting = None
<1>1. /\ chain # <<>> /\ awaiting = None /\ Head(chain) = chain[1] /\ chain[1].kind = kind
      /\ Len(chain) \in Nat \ {0} /\ chain[1] \in Events
  BY HeadFacts
<1>2. chain[1].session \in Sessions /\ chain[1].id \in 1 .. MaxItems
  BY <1>1 DEF Events
<1>3. chain[1].id \in 0 .. MaxItems /\ <<chain[1].id>> \in Texts
  BY <1>2, TextFacts, BoundsAreNaturals
<1>4. Comes(1) /\ 1 \in 1 .. Len(chain)
  BY <1>1 DEF Comes, IsEvent
<1> QED BY <1>1, <1>2, <1>3, <1>4 DEF Order

(* An event that is added to its transcript, nothing of it being batched. *)
LEMMA EventIsFiled ==
  ASSUME TypeOK, Order, NEW kind \in {"note", "notice", "end"}, Under(kind), NEW s \in Sessions,
         s = chain[1].session, batch[s] = <<>>, Adds(s, <<chain[1].id>>),
         sent' = sent, items' = items, batch' = batch,
         NEW k \in {0, 1}, Len(chain') = Len(chain) - k,
         \A i \in 1 .. Len(chain') :
           chain'[i] = chain[i + k] /\ (Comes(i)' => i + k # 1 /\ Comes(i + k))
  PROVE  Order'
<1>1. /\ chain[1].id \in 0 .. MaxItems /\ <<chain[1].id>> \in Texts /\ Comes(1) /\ InLine(1)
  BY HeadIsInLine DEF Kinds
<1>2. Elements(<<chain[1].id>>) = {chain[1].id}
  BY <1>1, TextFacts, AppendElements
<1>3. Filed(s)'
  <2>1. \A x \in Elements(applied[s]) \ sent : x < chain[1].id
    BY <1>1 DEF InLine, Has
  <2>2. Filed(s) /\ batch'[s] = <<>> /\ Ordered(<<chain[1].id>>, sent) /\ chain[1].id <= items
    BY <1>1, OneIsOrdered DEF Order, InLine
  <2> HIDE DEF Order
  <2> QED BY <1>1, <1>2, <2>1, <2>2, AddedIsFiled
<1>4. ASSUME NEW q \in Sessions, q # s PROVE Filed(q)'
  <2>1. applied'[q] = applied[q] /\ batch'[q] = batch[q] /\ Filed(q)
    BY <1>1, <1>4, AddsFacts DEF Order
  <2> QED BY <2>1, FiledStays
<1>5. ASSUME NEW q \in Sessions, NEW x \in Has(q)' \ sent'
      PROVE  x \in Has(q) \ sent \/ \A i \in 1 .. Len(chain') : Comes(i)' => x < chain'[i].id
  <2>1. x \in Has(q) \ sent \/ x = chain[1].id
    <3>1. CASE q = s
      <4>1. Elements(applied'[s]) = Elements(applied[s]) \cup {chain[1].id}
        BY <1>1, <1>2, AddsElements
      <4> QED BY <1>5, <3>1, <4>1 DEF Has
    <3>2. CASE q # s
      BY <1>1, <1>5, <3>2, AddsFacts DEF Has
    <3> QED BY <3>1, <3>2
  <2>2. ASSUME NEW i \in 1 .. Len(chain'), Comes(i)' PROVE chain[1].id < chain'[i].id
    <3>1. i + k \in 1 .. Len(chain) /\ 1 < i + k /\ Comes(i + k) /\ chain'[i] = chain[i + k]
      <4>1. Len(chain) \in Nat
        BY LenProperties DEF TypeOK
      <4> QED BY <2>2, <4>1
    <3> QED BY <1>1, <3>1 DEF InLine
  <2> QED BY <2>1, <2>2
<1>6. \A i \in 1 .. Len(chain') : Comes(i)' => InLine(i)'
  <2>1. \A i \in 1 .. Len(chain) : Comes(i) => InLine(i)
    BY DEF Order
  <2>2. \A i \in 1 .. Len(chain') : chain'[i] = chain[i + k] /\ (Comes(i)' => Comes(i + k))
    OBVIOUS
  <2> QED BY <1>5, <2>1, <2>2, LineMoves
<1> QED BY <1>3, <1>4, <1>6 DEF Order

(* A step that adds nothing, and takes nothing from the chain or only a    *)
(* work that is no event still to be added.                                *)
LEMMA OrderStays ==
  ASSUME TypeOK, Order, UNCHANGED <<applied, batch, sent, items>>,
         \/ chain' = chain /\ awaiting' = awaiting
         \/ chain # <<>> /\ chain' = Tail(chain) /\ awaiting' = None
  PROVE  Order'
<1>1. \A s \in Sessions : Filed(s)'
  BY FiledStays DEF Order
<1>2. \A s \in Sessions : \A x \in Has(s)' \ sent' : x \in Has(s) \ sent
  BY DEF Has
<1>3. Len(chain) \in Nat /\ \A i \in 1 .. Len(chain) : Comes(i) => InLine(i)
  BY LenProperties DEF Order, TypeOK
<1>4. CASE chain' = chain /\ awaiting' = awaiting
  <2>1. \A i \in 1 .. Len(chain') : Comes(i)' => InLine(i)'
    BY <1>2, <1>3, <1>4 DEF Comes, IsEvent, InLine
  <2> QED BY <1>1, <2>1 DEF Order
<1>5. CASE chain # <<>> /\ chain' = Tail(chain) /\ awaiting' = None
  <2>1. /\ Len(chain') = Len(chain) - 1 /\ \A i \in 1 .. Len(chain') : chain'[i] = chain[i + 1]
    BY <1>5, TailFacts
  <2>2. \A i \in 1 .. Len(chain') : chain'[i] = chain[i + 1] /\ (Comes(i)' => Comes(i + 1))
    BY <1>3, <2>1 DEF Comes, IsEvent
  <2>3. \A i \in 1 .. Len(chain') : Comes(i)' => InLine(i)'
    BY <1>2, <1>3, <2>1, <2>2, LineMoves
  <2> QED BY <1>1, <2>3 DEF Order
<1> QED BY <1>4, <1>5

(* A work is put on the chain, the last event if it is an event. *)
LEMMA OrderGrows ==
  ASSUME TypeOK, AwaitsEnd, Order, NEW e \in Works, chain' = Append(chain, e),
         UNCHANGED <<applied, batch, sent, awaiting>>, items' \in {items, items + 1},
         IsEvent(e) => e.id = items + 1 /\ items' = items + 1
  PROVE  Order'
<1>1. /\ Len(chain) \in Nat /\ Len(chain') = Len(chain) + 1 /\ items \in Nat
      /\ \A i \in 1 .. Len(chain) : chain'[i] = chain[i]
      /\ chain'[Len(chain) + 1] = e
  BY AppendFacts, BoundsAreNaturals DEF TypeOK
<1>2. \A s \in Sessions : Filed(s)'
  BY FiledStays DEF Order
<1>3. \A s \in Sessions : Has(s)' = Has(s) /\ \A x \in Has(s) : x <= items /\ x \in Nat
  <2> TAKE s \in Sessions
  <2>1. applied[s] \in Texts /\ batch[s] \in Texts
    BY DEF TypeOK
  <2>2. \A x \in Has(s) : x \in 0 .. MaxItems
    BY <2>1, ElementOfSeq DEF Has, Elements, Texts
  <2> QED BY <2>2, BoundsAreNaturals DEF Has, Order, Filed
<1>4. ASSUME NEW i \in 1 .. Len(chain), Comes(i)'
      PROVE  /\ Comes(i) /\ InLine(i) /\ chain[i].id \in Nat
  <2>1. Comes(i)
    BY <1>1, <1>4 DEF Comes, IsEvent
  <2>2. chain[i] \in Events
    <3>1. chain[i] \in Works /\ IsEvent(chain[i])
      BY <2>1, ElementOfSeq DEF TypeOK, Works, Comes
    <3> QED BY <3>1, WorkFacts
  <2> QED BY <2>1, <2>2, BoundsAreNaturals DEF Order, Events
<1>5. ASSUME NEW i \in 1 .. Len(chain), Comes(i)' PROVE InLine(i)'
  <2>1. chain'[i].id <= items'
    BY <1>1, <1>4, <1>5 DEF InLine
  <2>2. \A s \in Sessions : \A x \in Has(s)' \ sent' : x < chain'[i].id
    BY <1>1, <1>3, <1>4, <1>5 DEF InLine
  <2>3. ASSUME NEW j \in 1 .. Len(chain'), i < j, Comes(j)' PROVE chain'[i].id < chain'[j].id
    <3>1. CASE j \in 1 .. Len(chain)
      <4>1. Comes(j)
        BY <1>4, <2>3, <3>1
      <4> QED BY <1>1, <1>4, <1>5, <2>3, <3>1, <4>1 DEF InLine
    <3>2. CASE j = Len(chain) + 1
      <4>1. chain'[j].id = items + 1
        BY <1>1, <2>3, <3>2 DEF Comes, IsEvent
      <4>2. chain'[i].id <= items /\ chain'[i].id \in Nat
        BY <1>1, <1>4, <1>5 DEF InLine
      <4> QED BY <1>1, <4>1, <4>2
    <3> QED BY <1>1, <3>1, <3>2
  <2> QED BY <2>1, <2>2, <2>3 DEF InLine
<1>6. ASSUME NEW i \in 1 .. Len(chain'), i = Len(chain) + 1, Comes(i)' PROVE InLine(i)'
  <2>1. chain'[i].id = items + 1 /\ items' = items + 1
    BY <1>1, <1>6 DEF Comes, IsEvent
  <2>2. \A s \in Sessions : \A x \in Has(s)' \ sent' : x < items + 1
    BY <1>1, <1>3
  <2>3. \A j \in 1 .. Len(chain') : ~(i < j)
    BY <1>1, <1>6
  <2> QED BY <1>1, <2>1, <2>2, <2>3 DEF InLine
<1>7. ASSUME NEW i \in 1 .. Len(chain'), Comes(i)' PROVE InLine(i)'
  BY <1>1, <1>5, <1>6, <1>7
<1> QED BY <1>2, <1>7 DEF Order

LEMMA StepOrder == TypeOK /\ AwaitsEnd /\ Order /\ [Next]_vars => Order'
<1> SUFFICES ASSUME TypeOK, AwaitsEnd, Order, [Next]_vars PROVE Order'
  OBVIOUS
<1> USE DEF runtime, batcher, memory, disk, quitting, histories
<1>1. ASSUME NEW s \in Sessions, NEW kind \in Kinds, Emit(s, kind) PROVE Order'
  <2> DEFINE e == [kind |-> kind, session |-> s, id |-> items + 1]
  <2>1. e \in Works /\ e.id = items + 1
    BY <1>1, BoundsAreNaturals DEF Emit, Works, Events, TypeOK
  <2>2. /\ chain' = Append(chain, e) /\ items' = items + 1
        /\ UNCHANGED <<applied, batch, sent, awaiting>>
    BY <1>1 DEF Emit
  <2> HIDE DEF e
  <2> QED BY <2>1, <2>2, OrderGrows
<1>2. ASSUME NEW e \in Flushes, chain' = Append(chain, e),
             UNCHANGED <<applied, batch, sent, awaiting, items>>
      PROVE  Order'
  <2>1. e \in Works /\ ~IsEvent(e)
    BY WorkFacts DEF Works
  <2> QED BY <1>2, <2>1, OrderGrows
<1>3. CASE Tick \/ QuitStarts
  BY <1>2, <1>3 DEF Tick, QuitStarts, Flushes
<1>4. ASSUME NEW s \in Sessions, Send(s) PROVE Order'
  <2>1. /\ items + 1 \in 1 .. MaxItems /\ items \in Nat /\ items' = items + 1
        /\ sent' = sent \cup {items + 1} /\ Adds(s, <<items + 1>>)
        /\ UNCHANGED <<chain, awaiting, batch>>
    BY <1>4, BoundsAreNaturals DEF Send, TypeOK
  <2>2. <<items + 1>> \in Texts /\ items + 1 \in 0 .. MaxItems
    BY <2>1, TextFacts, BoundsAreNaturals
  <2>3. /\ applied'[s] = applied[s] \o <<items + 1>> /\ applied[s] \in Texts /\ batch[s] \in Texts
        /\ \A q \in Sessions \ {s} : applied'[q] = applied[q]
    BY <2>1, <2>2, AddsFacts DEF TypeOK
  <2>4. Elements(applied'[s]) = Elements(applied[s]) \cup {items + 1}
    BY <2>1, <2>2, AddsElements, AppendElements
  <2>5. Filed(s) /\ \A q \in Sessions : Filed(q)
    BY DEF Order
  <2>6. Ordered(applied'[s], sent')
    <3>1. Ordered(applied[s], sent') /\ Ordered(<<items + 1>>, sent')
      <4>1. Ordered(applied[s], sent')
        BY <2>1, <2>5 DEF Filed, Ordered
      <4> QED BY <4>1, OneIsOrdered
    <3>2. Elements(<<items + 1>>) \ sent' = {}
      <4>1. Elements(<<items + 1>>) = {items + 1}
        BY <2>2, TextFacts, AppendElements
      <4> QED BY <2>1, <4>1
    <3>3. Ordered(applied[s] \o <<items + 1>>, sent')
      BY <2>2, <2>3, <3>1, <3>2, OrderedFacts
    <3> QED BY <2>3, <3>3
  <2>7. Filed(s)'
    <3>1. Ordered(batch'[s], sent')
      BY <2>1, <2>5 DEF Filed, Ordered
    <3>2. \A x \in Elements(applied'[s]) \ sent', y \in Elements(batch'[s]) \ sent' : x < y
      BY <2>1, <2>4, <2>5 DEF Filed
    <3>3. ASSUME NEW x \in Has(s)' PROVE x <= items'
      <4>1. x \in Has(s) \/ x = items + 1
        BY <2>1, <2>4, <3>3 DEF Has
      <4>2. \A y \in Has(s) : y \in Nat /\ y <= items
        <5>1. \A y \in Has(s) : y \in 0 .. MaxItems
          BY <2>3, ElementOfSeq DEF Has, Elements, Texts
        <5> QED BY <2>5, <5>1, BoundsAreNaturals DEF Filed
      <4> QED BY <2>1, <4>1, <4>2
    <3>4. Ordered(applied[s], sent)' /\ Ordered(batch[s], sent)'
      BY <2>6, <3>1
    <3> QED BY <3>2, <3>3, <3>4 DEF Filed
  <2>8. ASSUME NEW q \in Sessions, q # s PROVE Filed(q)'
    BY <2>1, <2>3, <2>5, <2>8, FiledStays
  <2>9. ASSUME NEW q \in Sessions, NEW x \in Has(q)' \ sent' PROVE x \in Has(q) \ sent
    BY <2>1, <2>3, <2>4, <2>9 DEF Has
  <2>10. \A i \in 1 .. Len(chain') : Comes(i)' => InLine(i)'
    <3>1. \A i \in 1 .. Len(chain) : Comes(i) => InLine(i)
      BY DEF Order
    <3>2. /\ Len(chain') = Len(chain) - 0 /\ Len(chain) \in Nat
          /\ \A i \in 1 .. Len(chain') : chain'[i] = chain[i + 0] /\ (Comes(i)' => Comes(i + 0))
      <4>1. Len(chain) \in Nat
        BY LenProperties DEF TypeOK
      <4> QED BY <2>1, <4>1 DEF Comes, IsEvent
    <3>3. items' \in {items, items + 1}
      BY <2>1
    <3> QED BY <2>9, <3>1, <3>2, <3>3, LineMoves
  <2> QED BY <2>7, <2>8, <2>10 DEF Order
<1>5. CASE HandleDelta
  <2>1. /\ chain[1].session \in Sessions /\ chain[1].id \in 0 .. MaxItems
        /\ <<chain[1].id>> \in Texts /\ Comes(1) /\ InLine(1) /\ Head(chain) = chain[1]
        /\ chain # <<>> /\ awaiting = None
    BY <1>5, HeadIsInLine DEF HandleDelta, Kinds
  <2>2. PICK s \in Sessions, x \in 0 .. MaxItems : s = chain[1].session /\ x = chain[1].id
    BY <2>1
  <2>3. /\ batch' = [batch EXCEPT ![s] = Append(@, x)] /\ chain' = Tail(chain)
        /\ UNCHANGED <<applied, sent, items, awaiting>>
    BY <1>5, <2>1, <2>2 DEF HandleDelta
  <2>4. /\ batch[s] \in Texts /\ batch'[s] = Append(batch[s], x)
        /\ \A q \in Sessions \ {s} : batch'[q] = batch[q]
    BY <2>3 DEF TypeOK
  <2>5. Elements(batch'[s]) = Elements(batch[s]) \cup {x} /\ Elements(<<x>>) = {x}
    BY <2>4, AppendElements
  <2>6. Filed(s) /\ x <= items /\ \A y \in Has(s) \ sent : y < x
    BY <2>1, <2>2 DEF InLine, Order
  <2>7. Ordered(batch'[s], sent)
    <3>1. batch'[s] = batch[s] \o <<x>>
      BY <2>4, AppendIsConcat DEF Texts
    <3>2. Ordered(batch[s], sent) /\ Ordered(<<x>>, sent)
      BY <2>6, OneIsOrdered DEF Filed
    <3>3. \A y \in Elements(batch[s]) \ sent, z \in Elements(<<x>>) \ sent : y < z
      BY <2>5, <2>6 DEF Has
    <3>4. <<x>> \in Texts
      BY <2>1, <2>2
    <3>5. Ordered(batch[s] \o <<x>>, sent)
      BY <2>4, <3>2, <3>3, <3>4, OrderedFacts
    <3> QED BY <3>1, <3>5
  <2>8. Filed(s)'
    <3>1. Ordered(applied[s], sent)' /\ Ordered(batch[s], sent)'
      <4>1. Ordered(applied'[s], sent')
        BY <2>3, <2>6 DEF Filed
      <4>2. Ordered(batch'[s], sent')
        BY <2>3, <2>7
      <4> QED BY <4>1, <4>2
    <3>2. \A y \in Elements(applied'[s]) \ sent', z \in Elements(batch'[s]) \ sent' : y < z
      BY <2>3, <2>5, <2>6 DEF Filed, Has
    <3>3. \A y \in Has(s)' : y <= items'
      BY <2>3, <2>5, <2>6 DEF Filed, Has
    <3> QED BY <3>1, <3>2, <3>3 DEF Filed
  <2>9. ASSUME NEW q \in Sessions, q # s PROVE Filed(q)'
    <3>1. Filed(q) /\ applied'[q] = applied[q] /\ batch'[q] = batch[q]
      BY <2>3, <2>4, <2>9 DEF Order
    <3> QED BY <2>3, <3>1, FiledStays
  <2>10. /\ Len(chain) \in Nat /\ Len(chain') = Len(chain) - 1
         /\ \A i \in 1 .. Len(chain') : chain'[i] = chain[i + 1]
    BY <2>1, <2>3, TailFacts
  <2>11. \A i \in 1 .. Len(chain') :
           chain'[i] = chain[i + 1] /\ i + 1 \in 1 .. Len(chain) /\ 1 < i + 1
             /\ (Comes(i)' => Comes(i + 1))
    BY <2>1, <2>10 DEF Comes, IsEvent
  <2>12. ASSUME NEW q \in Sessions, NEW y \in Has(q)' \ sent'
         PROVE  y \in Has(q) \ sent \/ \A i \in 1 .. Len(chain') : Comes(i)' => y < chain'[i].id
    <3>1. y \in Has(q) \ sent \/ y = x
      BY <2>3, <2>4, <2>5, <2>12 DEF Has
    <3>2. \A i \in 1 .. Len(chain') : Comes(i)' => x < chain'[i].id
      BY <2>1, <2>2, <2>11 DEF InLine
    <3> QED BY <3>1, <3>2
  <2>13. \A i \in 1 .. Len(chain') : Comes(i)' => InLine(i)'
    <3>1. \A i \in 1 .. Len(chain) : Comes(i) => InLine(i)
      BY DEF Order
    <3> QED BY <2>3, <2>10, <2>11, <2>12, <3>1, LineMoves
  <2> QED BY <2>8, <2>9, <2>13 DEF Order
<1>6. ASSUME NEW s \in Sessions, ApplyBatch(s) PROVE Order'
  <2>1. /\ Adds(s, batch[s]) /\ batch[s] \in Texts /\ batch' = [batch EXCEPT ![s] = <<>>]
        /\ UNCHANGED <<chain, awaiting, sent, items>>
    BY <1>6 DEF ApplyBatch, TypeOK
  <2>2. Filed(s) /\ batch'[s] = <<>> /\ \A q \in Sessions \ {s} : batch'[q] = batch[q]
    BY <2>1 DEF Order, TypeOK
  <2>3. /\ Elements(applied'[s]) = Elements(applied[s]) \cup Elements(batch[s])
        /\ Elements(batch'[s]) = {}
    <3>1. Elements(batch'[s]) = {}
      BY <2>2, EmptySeq DEF Elements
    <3> QED BY <2>1, <3>1, AddsElements
  <2>4. Filed(s)'
    <3>1. /\ Ordered(batch[s], sent) /\ \A y \in Elements(batch[s]) : y <= items
          /\ \A x \in Elements(applied[s]) \ sent, y \in Elements(batch[s]) \ sent : x < y
      BY <2>2 DEF Filed, Has
    <3> QED BY <2>1, <2>2, <3>1, AddedIsFiled
  <2>5. ASSUME NEW q \in Sessions, q # s PROVE Filed(q)' /\ Has(q)' = Has(q)
    <3>1. applied'[q] = applied[q] /\ batch'[q] = batch[q] /\ Filed(q)
      BY <2>1, <2>2, <2>5, AddsFacts DEF Order
    <3> QED BY <2>1, <3>1, FiledStays DEF Has
  <2>6. \A q \in Sessions : Has(q)' = Has(q)
    BY <2>3, <2>5 DEF Has
  <2>7. \A i \in 1 .. Len(chain') : Comes(i)' => InLine(i)'
    <3>1. \A i \in 1 .. Len(chain) : Comes(i) => InLine(i)
      BY DEF Order
    <3> QED BY <2>1, <2>6, <3>1 DEF Comes, IsEvent, InLine
  <2> QED BY <2>4, <2>5, <2>7 DEF Order
<1>7. CASE HandleNote
  <2>1. Under("note") /\ Head(chain) = chain[1] /\ chain # <<>> /\ awaiting = None
        /\ chain[1].session \in Sessions
    BY <1>7, HeadIsInLine DEF HandleNote, Kinds
  <2>2. PICK s \in Sessions : s = chain[1].session
    BY <2>1
  <2>3. /\ batch[s] = <<>> /\ Adds(s, <<chain[1].id>>) /\ chain' = Tail(chain)
        /\ UNCHANGED <<sent, items, batch, awaiting>>
    BY <1>7, <2>1, <2>2 DEF HandleNote
  <2>4. /\ Len(chain) \in Nat /\ Len(chain') = Len(chain) - 1
        /\ \A i \in 1 .. Len(chain') : chain'[i] = chain[i + 1]
    BY <2>1, <2>3, TailFacts
  <2>5. \A i \in 1 .. Len(chain') :
          chain'[i] = chain[i + 1] /\ (Comes(i)' => i + 1 # 1 /\ Comes(i + 1))
    BY <2>1, <2>4 DEF Comes, IsEvent
  <2> QED BY <2>1, <2>2, <2>3, <2>4, <2>5, EventIsFiled
<1>13. CASE HandleNotice
  <2>1. Under("notice") /\ Head(chain) = chain[1] /\ chain # <<>> /\ awaiting = None
        /\ chain[1].session \in Sessions
    BY <1>13, HeadIsInLine DEF HandleNotice, Kinds
  <2>2. PICK s \in Sessions : s = chain[1].session
    BY <2>1
  <2>3. /\ batch[s] = <<>> /\ Adds(s, <<chain[1].id>>) /\ chain' = Tail(chain)
        /\ UNCHANGED <<sent, items, batch, awaiting>>
    BY <1>13, <2>1, <2>2 DEF HandleNotice
  <2>4. /\ Len(chain) \in Nat /\ Len(chain') = Len(chain) - 1
        /\ \A i \in 1 .. Len(chain') : chain'[i] = chain[i + 1]
    BY <2>1, <2>3, TailFacts
  <2>5. \A i \in 1 .. Len(chain') :
          chain'[i] = chain[i + 1] /\ (Comes(i)' => i + 1 # 1 /\ Comes(i + 1))
    BY <2>1, <2>4 DEF Comes, IsEvent
  <2> QED BY <2>1, <2>2, <2>3, <2>4, <2>5, EventIsFiled
<1>8. CASE HandleEnd
  <2>1. Under("end") /\ Head(chain) = chain[1] /\ chain # <<>> /\ awaiting = None
        /\ chain[1].session \in Sessions
    BY <1>8, HeadIsInLine DEF HandleEnd, Kinds
  <2>2. PICK s \in Sessions : s = chain[1].session
    BY <2>1
  <2>3. /\ batch[s] = <<>> /\ Adds(s, <<chain[1].id>>) /\ chain' = chain /\ awaiting' = s
        /\ UNCHANGED <<sent, items, batch>>
    BY <1>8, <2>1, <2>2 DEF HandleEnd
  <2>4. Len(chain) \in Nat /\ Len(chain') = Len(chain) - 0
    <3>1. Len(chain) \in Nat
      BY LenProperties DEF TypeOK
    <3> QED BY <2>3, <3>1
  <2>5. \A i \in 1 .. Len(chain') :
          chain'[i] = chain[i + 0] /\ (Comes(i)' => i + 0 # 1 /\ Comes(i + 0))
    BY <2>1, <2>3, <2>4, NoneIsNothing DEF Comes, IsEvent
  <2> QED BY <2>1, <2>2, <2>3, <2>4, <2>5, EventIsFiled
<1>9. CASE FlushEnds \/ QuitCollects
  <2>1. chain # <<>> /\ awaiting = None
    BY <1>9, HeadFacts DEF FlushEnds, QuitCollects
  <2> QED BY <1>9, <2>1, OrderStays DEF FlushEnds, QuitCollects
<1>10. ASSUME NEW s \in Sessions, WriteLands(s) \/ WriteFails(s) PROVE Order'
  <2>1. WriteEnds(s) /\ UNCHANGED <<applied, batch, sent, items>>
    BY <1>10 DEF WriteLands, WriteFails, WriteEnds
  <2>2. \/ chain' = chain /\ awaiting' = awaiting
        \/ chain # <<>> /\ chain' = Tail(chain) /\ awaiting' = None
    BY <2>1, WriteEndsTyped
  <2> QED BY <2>1, <2>2, OrderStays
<1>11. ASSUME NEW s \in Sessions, Rejected(s) \/ TimerFires(s) \/ LoadReads(s) \/ LoadEnds(s)
                                \/ Evict(s)
       PROVE  Order'
  BY <1>11, OrderStays DEF Rejected, TimerFires, LoadReads, LoadEnds, Evict
<1>12. CASE QuitEnds \/ QuitTimesOut \/ UNCHANGED vars
  BY <1>12, OrderStays DEF QuitEnds, QuitTimesOut, vars
<1> QED BY <1>1, <1>3, <1>4, <1>5, <1>6, <1>7, <1>8, <1>9, <1>10, <1>11, <1>12, <1>13
        DEF Next, ChainStep

LEMMA AlwaysInOrder == Spec => []Order
<1>1. Init => Order
  <2> SUFFICES ASSUME Init PROVE Order
    OBVIOUS
  <2>1. ASSUME NEW s \in Sessions PROVE Filed(s)
    <3>1. applied[s] = <<0>> /\ batch[s] = <<>> /\ items = 0
      BY DEF Init
    <3>2. Elements(<<0>>) = {0} /\ Elements(<<>>) = {}
      BY EmptySeq DEF Elements
    <3> QED BY <3>1, <3>2, OneIsOrdered DEF Filed, Has
  <2>2. Len(chain) = 0
    BY EmptySeq DEF Init
  <2> QED BY <2>1, <2>2 DEF Order
<1> QED BY <1>1, TypeCorrect, StepOrder, PTL DEF Spec

(* The events of a session are added in the order in which they came, the  *)
(* deltas that waited in the batcher included.                             *)
THEOREM AddedInOrder == Spec => []EventsInOrder
<1>1. Order => EventsInOrder
  BY DEF Order, Filed, Ordered, EventsInOrder
<1> QED BY <1>1, AlwaysInOrder, PTL

------------------------------------------------------------------------------
(* An event is no message, and every number is given once. *)
Numbered ==
  /\ sent \subseteq 1 .. items
  /\ \A i \in 1 .. Len(chain) : IsEvent(chain[i]) => chain[i].id \in (1 .. items) \ sent
  /\ \A s \in Sessions : Elements(batch[s]) \cap sent = {}

(* What more is added to a session was not there before. *)
Fresh(s, more) == Elements(more) \cap Elements(applied[s]) = {}

LEMMA AppendedIs ==
  ASSUME TypeOK, NEW e \in Works, chain' = Append(chain, e)
  PROVE  \A i \in 1 .. Len(chain') : chain'[i] = e \/ (i \in 1 .. Len(chain) /\ chain'[i] = chain[i])
<1> SUFFICES ASSUME NEW i \in 1 .. Len(chain')
             PROVE  chain'[i] = e \/ (i \in 1 .. Len(chain) /\ chain'[i] = chain[i])
  OBVIOUS
<1>1. /\ Len(chain) \in Nat /\ Len(chain') = Len(chain) + 1
      /\ \A k \in 1 .. Len(chain) : chain'[k] = chain[k]
      /\ chain'[Len(chain) + 1] = e
  BY AppendFacts
<1>2. i = Len(chain) + 1 \/ i \in 1 .. Len(chain)
  BY <1>1
<1> QED BY <1>1, <1>2

LEMMA StepNumbered == TypeOK /\ AwaitsEnd /\ Order /\ Numbered /\ [Next]_vars => Numbered'
<1> SUFFICES ASSUME TypeOK, AwaitsEnd, Order, Numbered, [Next]_vars PROVE Numbered'
  OBVIOUS
<1> USE DEF runtime, batcher, memory, disk, quitting, histories
<1>0. items \in Nat /\ Len(chain) \in Nat
  BY LenProperties, BoundsAreNaturals DEF TypeOK
<1>1. ASSUME UNCHANGED <<items, sent>>,
             \/ chain' = chain
             \/ chain # <<>> /\ chain' = Tail(chain)
             \/ \E e \in Flushes : chain' = Append(chain, e),
             \A s \in Sessions : Elements(batch'[s]) \cap sent = {}
      PROVE  Numbered'
  <2>1. CASE chain' = chain
    BY <1>1, <2>1 DEF Numbered, IsEvent
  <2>2. CASE chain # <<>> /\ chain' = Tail(chain)
    <3>1. \A i \in 1 .. Len(chain') : i + 1 \in 1 .. Len(chain) /\ chain'[i] = chain[i + 1]
      BY <2>2, TailFacts
    <3> QED BY <1>1, <3>1 DEF Numbered, IsEvent
  <2>3. ASSUME NEW e \in Flushes, chain' = Append(chain, e) PROVE Numbered'
    <3>1. e \in Works /\ ~IsEvent(e)
      BY <2>3, WorkFacts DEF Works
    <3>2. \A i \in 1 .. Len(chain') :
            chain'[i] = e \/ (i \in 1 .. Len(chain) /\ chain'[i] = chain[i])
      BY <1>0, <2>3, <3>1, AppendedIs
    <3> QED BY <1>1, <3>1, <3>2 DEF Numbered, IsEvent
  <2> QED BY <1>1, <2>1, <2>2, <2>3
<1>2. ASSUME batch' = batch PROVE \A s \in Sessions : Elements(batch'[s]) \cap sent = {}
  BY <1>2 DEF Numbered
<1>3. ASSUME NEW s \in Sessions, NEW kind \in Kinds, Emit(s, kind) PROVE Numbered'
  <2> DEFINE e == [kind |-> kind, session |-> s, id |-> items + 1]
  <2>1. e \in Works /\ e.id = items + 1
    BY <1>3, BoundsAreNaturals DEF Emit, Works, Events, TypeOK
  <2>2. chain' = Append(chain, e) /\ items' = items + 1 /\ sent' = sent /\ batch' = batch
    BY <1>3 DEF Emit
  <2> HIDE DEF e
  <2>3. \A i \in 1 .. Len(chain') : chain'[i] = e \/ (i \in 1 .. Len(chain) /\ chain'[i] = chain[i])
    BY <1>0, <2>1, <2>2, AppendedIs
  <2>4. items + 1 \notin sent /\ 1 .. items \subseteq 1 .. items + 1
    BY <1>0 DEF Numbered
  <2> QED BY <1>0, <2>1, <2>2, <2>3, <2>4 DEF Numbered, IsEvent
<1>4. CASE Tick \/ QuitStarts
  BY <1>1, <1>2, <1>4 DEF Tick, QuitStarts, Flushes
<1>5. ASSUME NEW s \in Sessions, Send(s) PROVE Numbered'
  <2>1. /\ chain' = chain /\ items' = items + 1 /\ sent' = sent \cup {items + 1}
        /\ batch' = batch
    BY <1>5 DEF Send
  <2>2. \A q \in Sessions : items + 1 \notin Elements(batch[q])
    <3> SUFFICES ASSUME NEW q \in Sessions, items + 1 \in Elements(batch[q]) PROVE FALSE
      OBVIOUS
    <3>1. items + 1 <= items
      BY DEF Order, Filed, Has
    <3> QED BY <1>0, <3>1
  <2>3. \A i \in 1 .. Len(chain) : IsEvent(chain[i]) =>
          chain[i].id \in 1 .. items /\ chain[i].id \notin sent
    BY DEF Numbered
  <2>4. items + 1 \notin 1 .. items /\ items' = items + 1 /\ 1 .. items \subseteq 1 .. items'
    BY <1>0, <2>1
  <2>5. sent' \subseteq 1 .. items'
    BY <1>0, <2>1, <2>4 DEF Numbered
  <2>6. \A i \in 1 .. Len(chain) : IsEvent(chain[i]) => chain[i].id \in (1 .. items') \ sent'
    BY <2>1, <2>3, <2>4
  <2>7. \A q \in Sessions : Elements(batch[q]) \cap sent' = {}
    BY <2>1, <2>2 DEF Numbered
  <2> QED BY <2>1, <2>5, <2>6, <2>7 DEF Numbered, IsEvent
<1>6. CASE HandleDelta
  <2>1. /\ chain # <<>> /\ chain[1] \in Events /\ chain[1].kind = "delta" /\ 1 \in 1 .. Len(chain)
        /\ Head(chain) = chain[1]
    BY <1>6, HeadFacts DEF HandleDelta, Kinds
  <2>2. PICK s \in Sessions, x \in 0 .. MaxItems : s = chain[1].session /\ x = chain[1].id
    BY <2>1, BoundsAreNaturals DEF Events
  <2>3. batch' = [batch EXCEPT ![s] = Append(@, x)] /\ chain' = Tail(chain)
        /\ UNCHANGED <<items, sent>>
    BY <1>6, <2>1, <2>2 DEF HandleDelta
  <2>4. batch[s] \in Texts /\ batch'[s] = Append(batch[s], x)
        /\ \A q \in Sessions \ {s} : batch'[q] = batch[q]
    BY <2>3 DEF TypeOK
  <2>5. Elements(batch'[s]) = Elements(batch[s]) \cup {x} /\ x \notin sent
    BY <2>1, <2>2, <2>4, AppendElements DEF Numbered, IsEvent, Kinds
  <2>6. \A q \in Sessions : Elements(batch'[q]) \cap sent = {}
    BY <2>4, <2>5 DEF Numbered
  <2> QED BY <1>1, <2>1, <2>3, <2>6
<1>7. ASSUME NEW s \in Sessions, ApplyBatch(s) PROVE Numbered'
  <2>1. /\ UNCHANGED <<items, sent, chain>> /\ batch'[s] = <<>>
        /\ \A q \in Sessions \ {s} : batch'[q] = batch[q]
    BY <1>7 DEF ApplyBatch, TypeOK
  <2>2. Elements(batch'[s]) = {}
    BY <2>1, EmptySeq DEF Elements
  <2>3. \A q \in Sessions : Elements(batch'[q]) \cap sent = {}
    BY <2>1, <2>2 DEF Numbered
  <2> QED BY <1>1, <2>1, <2>3
<1>8. CASE HandleNote \/ HandleNotice \/ FlushEnds \/ QuitCollects
  <2>1. chain # <<>> /\ chain' = Tail(chain) /\ UNCHANGED <<items, sent, batch>>
    BY <1>8 DEF HandleNote, HandleNotice, FlushEnds, QuitCollects, Under
  <2> QED BY <1>1, <1>2, <2>1
<1>9. ASSUME NEW s \in Sessions, WriteLands(s) \/ WriteFails(s) PROVE Numbered'
  <2>1. WriteEnds(s) /\ UNCHANGED <<items, sent, batch>>
    BY <1>9 DEF WriteLands, WriteFails, WriteEnds
  <2>2. chain' = chain \/ (chain # <<>> /\ chain' = Tail(chain))
    BY <2>1, WriteEndsTyped
  <2> QED BY <1>1, <1>2, <2>1, <2>2
<1>10. ASSUME NEW s \in Sessions, Rejected(s) \/ TimerFires(s) \/ LoadReads(s) \/ LoadEnds(s)
                                \/ Evict(s)
       PROVE  Numbered'
  BY <1>1, <1>2, <1>10 DEF Rejected, TimerFires, LoadReads, LoadEnds, Evict
<1>11. CASE HandleEnd \/ QuitEnds \/ QuitTimesOut \/ UNCHANGED vars
  BY <1>1, <1>2, <1>11 DEF HandleEnd, QuitEnds, QuitTimesOut, vars
<1> QED BY <1>3, <1>4, <1>5, <1>6, <1>7, <1>8, <1>9, <1>10, <1>11 DEF Next, ChainStep

LEMMA AlwaysNumbered == Spec => []Numbered
<1>1. Init => Numbered
  <2>1. Elements(<<>>) = {} /\ Len(<<>>) = 0
    BY EmptySeq DEF Elements
  <2> QED BY <2>1 DEF Init, Numbered
<1> QED BY <1>1, TypeCorrect, AlwaysInOrder, StepNumbered, PTL DEF Spec

(* Neither a message, nor what the batcher has, nor the event at the head  *)
(* of the chain was added before.                                          *)
LEMMA IsFresh ==
  ASSUME TypeOK, Order, Numbered, NEW s \in Sessions
  PROVE  /\ Send(s) => Fresh(s, <<items + 1>>)
         /\ Fresh(s, batch[s])
         /\ \A kind \in Kinds : Under(kind) => Fresh(s, <<chain[1].id>>)
<1>1. /\ applied[s] \in Texts /\ items \in Nat /\ Filed(s)
      /\ \A x \in Elements(applied[s]) \cup Elements(batch[s]) : x \in Nat
  <2>1. applied[s] \in Texts /\ batch[s] \in Texts
    BY DEF TypeOK
  <2>2. Elements(applied[s]) \in Rows /\ Elements(batch[s]) \in Rows
    BY <2>1, TextFacts
  <2> QED BY <2>1, <2>2, BoundsAreNaturals DEF TypeOK, Order, Rows
<1>2. ASSUME Send(s) PROVE Fresh(s, <<items + 1>>)
  <2>1. items + 1 \in 0 .. MaxItems
    BY <1>1, <1>2, BoundsAreNaturals DEF Send, TypeOK
  <2>2. Elements(<<items + 1>>) = {items + 1}
    BY <1>1, <2>1, AppendElements
  <2>3. items + 1 \notin Elements(applied[s])
    BY <1>1 DEF Filed, Has
  <2> QED BY <2>2, <2>3 DEF Fresh
<1>3. Fresh(s, batch[s])
  <2>1. ASSUME NEW x \in Elements(batch[s]), x \in Elements(applied[s]) PROVE FALSE
    <3>1. x \notin sent /\ x \in Nat
      BY <1>1, <2>1 DEF Numbered
    <3>2. x < x
      BY <1>1, <2>1, <3>1 DEF Filed
    <3> QED BY <3>1, <3>2
  <2> QED BY <2>1 DEF Fresh
<1>4. ASSUME NEW kind \in Kinds, Under(kind) PROVE Fresh(s, <<chain[1].id>>)
  <2>1. chain[1].id \in 0 .. MaxItems /\ InLine(1) /\ Comes(1) /\ chain # <<>>
    BY <1>4, HeadIsInLine
  <2>2. 1 \in 1 .. Len(chain)
    BY <1>4, HeadFacts
  <2>3. chain[1].id \notin sent
    BY <2>1, <2>2 DEF Numbered, Comes
  <2>4. chain[1].id \notin Elements(applied[s])
    <3>1. chain[1].id \in Elements(applied[s]) => chain[1].id < chain[1].id
      BY <2>1, <2>3 DEF InLine, Has
    <3> QED BY <2>1, <3>1, BoundsAreNaturals
  <2>5. Elements(<<chain[1].id>>) = {chain[1].id}
    BY <1>1, <2>1, AppendElements
  <2> QED BY <2>4, <2>5 DEF Fresh
<1> QED BY <1>2, <1>3, <1>4

------------------------------------------------------------------------------
(* What the store has of a session, loaded or not, is what was added, less *)
(* what is gone; a timer leaves nothing quiet.                             *)
Remembered(s) ==
  /\ s \in loaded => cache[s] # None /\ loads[s] = None
  /\ s \notin torn =>
       /\ gone[s] \cup quiet[s] \subseteq Elements(applied[s])
       /\ s \in timers => quiet[s] = {}
       /\ s \in loaded => cache[s] = Left(s)
       /\ s \notin loaded => cache[s] = None /\ s \notin timers /\ quiet[s] = {}
                             /\ (loads[s] # None => loads[s] = Left(s))

(* Rows that were added, and nothing without what came before. *)
Holds(s, rows) == rows \subseteq Elements(applied[s]) /\ Begins(s, rows)

(* Neither the file nor a write holds what the writes behind it lack. *)
Growing(s) ==
  \A i \in 1 .. Len(writes[s]) :
    /\ file[s] \subseteq writes[s][i] \cup gone[s]
    /\ \A j \in i .. Len(writes[s]) : writes[s][i] \subseteq writes[s][j] \cup gone[s]

(* The last write, or the file if there is none, is all there is left but  *)
(* what is quiet, unless there is a timer or a failed write.               *)
Written(s) ==
  s \notin torn =>
    /\ Holds(s, file[s]) /\ \A i \in 1 .. Len(writes[s]) : Holds(s, writes[s][i])
    /\ Growing(s)
    /\ s \notin timers /\ writes[s] # <<>> => writes[s][Len(writes[s])] = Left(s) \ quiet[s]
    /\ s \notin timers \cup failed /\ writes[s] = <<>> => file[s] = Left(s) \ quiet[s]

Stored == \A s \in Sessions : Remembered(s) /\ Written(s)

(* A step that does not concern the session. *)
Spared(s) ==
  /\ cache'[s] = cache[s] /\ quiet'[s] = quiet[s] /\ loads'[s] = loads[s]
  /\ applied'[s] = applied[s] /\ gone'[s] = gone[s]
  /\ writes'[s] = writes[s] /\ file'[s] = file[s]
  /\ (s \in loaded' <=> s \in loaded) /\ (s \in timers' <=> s \in timers)
  /\ (s \in failed' <=> s \in failed) /\ (s \in torn' <=> s \in torn)

(* A step that does not concern the session disturbs nothing of it. *)
LEMMA SparedKeeps ==
  ASSUME NEW s \in Sessions, Spared(s), Remembered(s), Written(s)
  PROVE  Remembered(s)' /\ Written(s)'
<1>1. Left(s)' = Left(s)
  BY DEF Spared, Left, Elements
<1>2. Remembered(s)'
  BY <1>1 DEF Spared, Remembered, Elements
<1>3. \A rows : Holds(s, rows) => /\ rows \subseteq Elements(applied'[s])
                                  /\ \A i, j \in 1 .. Len(applied'[s]) :
                                       i < j /\ applied'[s][j] \in rows
                                         => applied'[s][i] \in rows \cup gone'[s]
  BY DEF Spared, Holds, Begins
<1>4. Written(s)'
  BY <1>1, <1>3 DEF Spared, Written, Growing, Holds, Begins
<1> QED BY <1>2, <1>4

(* What a timer or the quit writes is all there is left, nothing is quiet. *)
LEMMA KeptIsLeft ==
  ASSUME NEW s \in Sessions, Remembered(s), s \notin torn, s \in timers
  PROVE  Kept(s) = Left(s) /\ quiet[s] = {}
  BY DEF Remembered, Kept

(* Rows stay a beginning when more is added behind them, or some of them   *)
(* are gone.                                                               *)
LEMMA HoldsStays ==
  ASSUME TypeOK, NEW s \in Sessions, NEW more \in Texts, NEW rows, Holds(s, rows),
         Fresh(s, more), applied'[s] = applied[s] \o more, gone[s] \subseteq gone'[s]
  PROVE  /\ rows \subseteq Elements(applied'[s])
         /\ \A i, j \in 1 .. Len(applied'[s]) :
              i < j /\ applied'[s][j] \in rows => applied'[s][i] \in rows \cup gone'[s]
<1>1. applied[s] \in Texts /\ Len(applied[s]) \in Nat /\ Len(more) \in Nat
  BY LenProperties DEF TypeOK, Texts
<1>2. /\ Len(applied'[s]) = Len(applied[s]) + Len(more)
      /\ \A i \in 1 .. Len(applied[s]) + Len(more) :
           applied'[s][i] = IF i <= Len(applied[s]) THEN applied[s][i] ELSE more[i - Len(applied[s])]
  BY <1>1, ConcatProperties DEF Texts
<1>3. Elements(applied'[s]) = Elements(applied[s]) \cup Elements(more)
  BY <1>1, ConcatElements
<1>4. ASSUME NEW i \in 1 .. Len(applied'[s]), NEW j \in 1 .. Len(applied'[s]), i < j,
             applied'[s][j] \in rows
      PROVE  applied'[s][i] \in rows \cup gone'[s]
  <2>1. j <= Len(applied[s])
    <3> SUFFICES ASSUME j > Len(applied[s]) PROVE FALSE
      BY <1>1, <1>2
    <3>1. j - Len(applied[s]) \in 1 .. Len(more) /\ applied'[s][j] = more[j - Len(applied[s])]
      BY <1>1, <1>2
    <3>2. applied'[s][j] \in Elements(more) /\ applied'[s][j] \in Elements(applied[s])
      BY <1>4, <3>1 DEF Elements, Holds
    <3> QED BY <3>2 DEF Fresh
  <2>2. /\ i \in 1 .. Len(applied[s]) /\ j \in 1 .. Len(applied[s])
        /\ applied'[s][i] = applied[s][i] /\ applied'[s][j] = applied[s][j]
    BY <1>1, <1>2, <1>4, <2>1
  <2>3. applied[s][i] \in rows \cup gone[s]
    BY <1>4, <2>2 DEF Holds, Begins
  <2> QED BY <2>2, <2>3
<1> QED BY <1>3, <1>4 DEF Holds

(* What the writes are behind each other stays, when more is added or gone *)
(* and no write begins or ends.                                            *)
LEMMA WritesStay ==
  ASSUME TypeOK, NEW s \in Sessions, NEW more \in Texts, Written(s), s \notin torn,
         Fresh(s, more), applied'[s] = applied[s] \o more, gone[s] \subseteq gone'[s],
         writes'[s] = writes[s], file'[s] = file[s]
  PROVE  /\ Holds(s, file[s])' /\ \A i \in 1 .. Len(writes'[s]) : Holds(s, writes[s][i])'
         /\ Growing(s)'
<1>1. Growing(s)'
  BY DEF Written, Growing
<1>2. Holds(s, file[s])'
  <2>1. Holds(s, file[s])
    BY DEF Written
  <2> QED BY <2>1, HoldsStays DEF Holds, Begins
<1>3. ASSUME NEW i \in 1 .. Len(writes[s]) PROVE Holds(s, writes[s][i])'
  <2>1. Holds(s, writes[s][i])
    BY DEF Written
  <2> QED BY <2>1, HoldsStays DEF Holds, Begins
<1> QED BY <1>1, <1>2, <1>3

LEMMA WritesShrink ==
  ASSUME TypeOK, NEW s \in Sessions, Written(s), s \notin torn,
         applied' = applied, gone[s] \subseteq gone'[s],
         writes'[s] = writes[s], file'[s] = file[s]
  PROVE  /\ Holds(s, file[s])' /\ \A i \in 1 .. Len(writes'[s]) : Holds(s, writes[s][i])'
         /\ Growing(s)'
<1>1. applied[s] \in Texts /\ <<>> \in Texts
  BY TextFacts DEF TypeOK
<1>2. applied'[s] = applied[s] \o <<>>
  BY <1>1, ConcatEmptySeq DEF Texts
<1>3. Fresh(s, <<>>)
  BY EmptySeq DEF Fresh, Elements
<1> QED BY <1>1, <1>2, <1>3, WritesStay

(* All that is left is queued behind the other writes. *)
LEMMA AppendedIsWritten ==
  ASSUME TypeOK, TypeOK', NEW s \in Sessions, NEW more \in Texts, NEW t \in Rows,
         Written(s), Fresh(s, more), applied'[s] = applied[s] \o more,
         gone' = gone, file' = file, torn \subseteq torn', quiet'[s] = {},
         s \notin torn' => t = Left(s)',
         writes'[s] = Append(writes[s], t)
  PROVE  Written(s)'
<1>1. writes[s] \in Seq(Rows)
  BY DEF TypeOK
<1>2. /\ Len(writes[s]) \in Nat /\ Len(writes'[s]) = Len(writes[s]) + 1
      /\ \A i \in 1 .. Len(writes[s]) : writes'[s][i] = writes[s][i]
      /\ writes'[s][Len(writes[s]) + 1] = t /\ writes'[s] # <<>>
  BY <1>1, AppendProperties, LenProperties
<1> SUFFICES ASSUME s \notin torn'
             PROVE  /\ Holds(s, file[s])'
                    /\ \A i \in 1 .. Len(writes'[s]) : Holds(s, writes[s][i])'
                    /\ Growing(s)' /\ writes'[s][Len(writes'[s])] = Left(s)'
  BY <1>2 DEF Written
<1>3. t = Left(s)' /\ s \notin torn
  OBVIOUS
<1>4. ASSUME NEW rows, Holds(s, rows)
      PROVE  /\ rows \subseteq Elements(applied'[s])
             /\ \A i, j \in 1 .. Len(applied'[s]) :
                  i < j /\ applied'[s][j] \in rows => applied'[s][i] \in rows \cup gone'[s]
  BY <1>4, HoldsStays
<1>5. Holds(s, file[s])'
  <2>1. Holds(s, file[s])
    BY <1>3 DEF Written
  <2> QED BY <1>4, <2>1 DEF Holds, Begins
<1>6. t \subseteq Elements(applied'[s])
      /\ \A rows : rows \subseteq Elements(applied'[s]) => rows \subseteq t \cup gone'[s]
  BY <1>3 DEF Left
<1>7. ASSUME NEW i \in 1 .. Len(writes'[s])
      PROVE  /\ Holds(s, writes[s][i])'
             /\ writes'[s][i] \subseteq Elements(applied'[s])
             /\ i \in 1 .. Len(writes[s]) \/ (i = Len(writes'[s]) /\ writes'[s][i] = t)
  <2>1. CASE i \in 1 .. Len(writes[s])
    <3>1. Holds(s, writes[s][i]) /\ writes'[s][i] = writes[s][i]
      BY <1>2, <1>3, <2>1 DEF Written
    <3> QED BY <1>4, <2>1, <3>1 DEF Holds, Begins
  <2>2. CASE i = Len(writes[s]) + 1
    <3>1. writes'[s][i] = t
      BY <1>2, <2>2
    <3>2. \A k, j \in 1 .. Len(applied'[s]) :
            k < j /\ applied'[s][j] \in t => applied'[s][k] \in t \cup gone'[s]
      BY <1>6 DEF Elements
    <3> QED BY <1>2, <1>6, <2>2, <3>1, <3>2 DEF Holds, Begins
  <2> QED BY <1>2, <2>1, <2>2
<1>8. Growing(s)'
  <2>1. ASSUME NEW i \in 1 .. Len(writes'[s]) PROVE file'[s] \subseteq writes'[s][i] \cup gone'[s]
    <3>1. file'[s] \subseteq Elements(applied'[s])
      BY <1>5 DEF Holds
    <3>2. CASE i \in 1 .. Len(writes[s])
      BY <1>2, <1>3, <3>2 DEF Written, Growing
    <3>3. CASE writes'[s][i] = t
      BY <1>6, <3>1, <3>3
    <3> QED BY <1>7, <3>2, <3>3
  <2>2. ASSUME NEW i \in 1 .. Len(writes'[s]), NEW j \in i .. Len(writes'[s])
        PROVE  writes'[s][i] \subseteq writes'[s][j] \cup gone'[s]
    <3>1. j \in 1 .. Len(writes'[s])
      BY <1>2
    <3>2. CASE j \in 1 .. Len(writes[s])
      <4>1. i \in 1 .. Len(writes[s]) /\ j \in i .. Len(writes[s])
        BY <1>2, <2>2, <3>2
      <4>2. writes[s][i] \subseteq writes[s][j] \cup gone[s]
        BY <1>3, <4>1 DEF Written, Growing
      <4> QED BY <1>2, <4>1, <3>2, <4>2
    <3>3. CASE writes'[s][j] = t
      BY <1>6, <1>7, <3>3
    <3> QED BY <1>7, <3>1, <3>2, <3>3
  <2> QED BY <2>1, <2>2 DEF Growing
<1>9. writes'[s][Len(writes'[s])] = Left(s)'
  BY <1>2, <1>3
<1> QED BY <1>5, <1>7, <1>8, <1>9

(* What is left of a session, when more is added. *)
LEMMA AddedIsLeft ==
  ASSUME TypeOK, TypeOK', NEW s \in Sessions, NEW more \in Texts, Remembered(s),
         Adds(s, more), Fresh(s, more), gone' = gone, loaded' = loaded, loads' = loads,
         s \in timers' => quiet'[s] = {}, quiet'[s] \subseteq quiet[s] \cup Elements(more), s \in loaded \/ timers' = timers \cup {s}
                                          \/ s \notin timers'
  PROVE  Remembered(s)' /\ (s \notin torn' => Left(s)' = Left(s) \cup Elements(more)
                                               /\ cache'[s] = Left(s)')
<1>1. /\ cache'[s] = Kept(s) \cup Elements(more) /\ cache'[s] \in Rows
      /\ torn' = IF s \in loaded THEN torn ELSE torn \cup {s}
  BY AddsFacts DEF Adds
<1>2. cache'[s] # None
  BY <1>1, TextFacts
<1>3. Elements(applied'[s]) = Elements(applied[s]) \cup Elements(more)
  BY AddsElements
<1>4. ASSUME s \notin torn'
      PROVE  /\ s \in loaded /\ gone'[s] \cup quiet'[s] \subseteq Elements(applied'[s])
             /\ Left(s)' = Left(s) \cup Elements(more) /\ cache'[s] = Left(s)'
  <2>1. s \in loaded /\ s \notin torn /\ Kept(s) = Left(s) /\ gone[s] \subseteq Elements(applied[s])
        /\ quiet[s] \subseteq Elements(applied[s])
    BY <1>1, <1>4 DEF Remembered, Kept
  <2>2. Left(s)' = Left(s) \cup Elements(more)
    BY <1>3, <2>1 DEF Left, Fresh
  <2> QED BY <1>1, <1>3, <2>1, <2>2
<1>5. Remembered(s)'
  BY <1>2, <1>4 DEF Remembered
<1> QED BY <1>4, <1>5

(* Something is added, and will be written after a pause. *)
LEMMA AddedIsStored ==
  ASSUME TypeOK, TypeOK', NEW s \in Sessions, NEW more \in Texts, Remembered(s), Written(s),
         Adds(s, more), Fresh(s, more), Schedules(s),
         UNCHANGED <<loaded, loads, writes, file, gone, failed>>
  PROVE  Remembered(s)' /\ Written(s)'
<1>1. timers' = timers \cup {s} /\ quiet'[s] = {} /\ torn \subseteq torn'
  BY SchedulesFacts DEF Adds
<1>2. Remembered(s)'
  BY <1>1, AddedIsLeft
<1>3. applied'[s] = applied[s] \o more
  BY AddsFacts
<1>4. s \notin torn' => /\ Holds(s, file[s])' /\ Growing(s)'
                        /\ \A i \in 1 .. Len(writes'[s]) : Holds(s, writes[s][i])'
  BY <1>1, <1>3, WritesStay
<1> QED BY <1>1, <1>2, <1>4 DEF Written

(* A notice is added, which will be written with what waits already, or is *)
(* quiet.                                                                  *)
LEMMA NoticeIsStored ==
  ASSUME TypeOK, TypeOK', NEW s \in Sessions, NEW more \in Texts, Remembered(s), Written(s),
         Adds(s, more), Fresh(s, more),
         quiet'[s] = IF s \in timers THEN quiet[s] ELSE quiet[s] \cup Elements(more),
         UNCHANGED <<loaded, loads, timers, writes, file, gone, failed>>
  PROVE  Remembered(s)' /\ Written(s)'
<1> SUFFICES ASSUME s \notin torn' PROVE Remembered(s)' /\ Written(s)'
  <2>1. cache'[s] \in Rows
    BY AddsFacts
  <2>2. cache'[s] # None
    BY <2>1, TextFacts
  <2> QED BY <2>2 DEF Remembered, Written
<1>1. s \in loaded /\ s \notin torn /\ applied'[s] = applied[s] \o more
  BY AddsFacts DEF Adds
<1>2. Remembered(s)' /\ Left(s)' = Left(s) \cup Elements(more)
  BY <1>1, AddedIsLeft DEF Remembered
<1>3. /\ Holds(s, file[s])' /\ Growing(s)'
      /\ \A i \in 1 .. Len(writes'[s]) : Holds(s, writes[s][i])'
  BY <1>1, WritesStay
<1>4. s \notin timers => Left(s)' \ quiet'[s] = Left(s) \ quiet[s]
  BY <1>2 DEF Left, Fresh
<1> QED BY <1>1, <1>2, <1>3, <1>4 DEF Written

(* The last row is taken back, and the rest will be written. *)
LEMMA TakenBackIsStored ==
  ASSUME TypeOK, TypeOK', NEW s \in Sessions, Remembered(s), Written(s), Rejected(s)
  PROVE  Remembered(s)' /\ Written(s)'
<1>1. PICK row \in SUBSET Kept(s) :
        /\ cache' = [cache EXCEPT ![s] = Kept(s) \ row]
        /\ gone' = [gone EXCEPT ![s] = @ \cup row]
  BY DEF Rejected
<1>2. /\ UNCHANGED <<loaded, loads, writes, file, applied, failed>> /\ Schedules(s)
      /\ torn' = IF s \in loaded THEN torn ELSE torn \cup {s}
  BY DEF Rejected
<1>3. timers' = timers \cup {s} /\ quiet'[s] = {}
  BY <1>2, SchedulesFacts
<1>4. cache'[s] = Kept(s) \ row /\ gone'[s] = gone[s] \cup row
  BY <1>1 DEF TypeOK
<1>5. cache'[s] # None
  <2>1. Kept(s) \ row \in Rows
    BY KeptFacts DEF Rows
  <2> QED BY <1>4, <2>1, TextFacts
<1>6. s \notin torn' => /\ s \in loaded /\ s \notin torn /\ Kept(s) = Left(s)
  BY <1>2 DEF Remembered, Kept
<1>7. Remembered(s)'
  BY <1>2, <1>3, <1>4, <1>5, <1>6 DEF Remembered, Left, Elements
<1>8. s \notin torn' => /\ Holds(s, file[s])' /\ Growing(s)'
                        /\ \A i \in 1 .. Len(writes'[s]) : Holds(s, writes[s][i])'
  BY <1>2, <1>4, <1>6, WritesShrink
<1> QED BY <1>2, <1>3, <1>7, <1>8 DEF Written

(* What is evicted is in the file, or will be, or is quiet and gone. *)
LEMMA EvictedIsStored ==
  ASSUME TypeOK, TypeOK', NEW s \in Sessions, Remembered(s), Written(s), Evict(s)
  PROVE  Remembered(s)' /\ Written(s)'
<1>1. /\ s \notin timers /\ loaded' = loaded \ {s} /\ quiet' = [quiet EXCEPT ![s] = {}]
      /\ cache[s] # None /\ cache' = [cache EXCEPT ![s] = None]
      /\ gone' = [gone EXCEPT ![s] = @ \cup quiet[s]]
      /\ UNCHANGED <<loads, timers, writes, file, applied, failed, torn>>
  BY DEF Evict, disk
<1>2. cache'[s] = None /\ quiet'[s] = {} /\ gone'[s] = gone[s] \cup quiet[s]
  BY <1>1 DEF TypeOK
<1>3. s \notin torn => Left(s)' = Left(s) \ quiet[s]
                       /\ gone'[s] \cup quiet'[s] \subseteq Elements(applied'[s])
  BY <1>1, <1>2 DEF Left, Remembered, Elements
<1>4. s \notin torn => /\ Holds(s, file[s])' /\ Growing(s)'
                       /\ \A i \in 1 .. Len(writes'[s]) : Holds(s, writes[s][i])'
  BY <1>1, <1>2, WritesShrink
<1>5. Remembered(s)'
  BY <1>1, <1>2, <1>3 DEF Remembered
<1>6. Written(s)'
  BY <1>1, <1>2, <1>3, <1>4 DEF Written
<1> QED BY <1>5, <1>6

(* The write under way ends: the others move up. *)
LEMMA EndedFacts ==
  ASSUME TypeOK, NEW s \in Sessions, WriteLands(s) \/ WriteFails(s)
  PROVE  /\ writes[s] # <<>> /\ Len(writes[s]) \in Nat \ {0}
         /\ writes'[s] \in Seq(Rows) /\ Len(writes'[s]) = Len(writes[s]) - 1
         /\ \A i \in 1 .. Len(writes'[s]) : writes'[s][i] = writes[s][i + 1]
         /\ (writes'[s] = <<>> <=> Len(writes[s]) = 1)
         /\ UNCHANGED <<memory, timers, torn, applied, gone>>
         /\ \/ WriteLands(s) /\ file'[s] = writes[s][1] /\ s \notin failed'
            \/ WriteFails(s) /\ file'[s] = file[s] /\ s \in failed'
<1>1. /\ writes[s] \in Seq(Rows) /\ writes[s] # <<>> /\ writes'[s] = Tail(writes[s])
      /\ UNCHANGED <<memory, timers, torn, applied, gone>>
  BY DEF WriteLands, WriteFails, WriteEnds, TypeOK
<1>2. /\ Len(writes[s]) \in Nat \ {0} /\ Len(writes'[s]) = Len(writes[s]) - 1
      /\ \A i \in 1 .. Len(writes'[s]) : writes'[s][i] = writes[s][i + 1]
      /\ Head(writes[s]) = writes[s][1] /\ writes'[s] \in Seq(Rows)
  BY <1>1, EmptySeq, HeadTailProperties, LenProperties
<1>3. writes'[s] = <<>> <=> Len(writes[s]) = 1
  <2>1. writes'[s] = <<>> <=> Len(writes'[s]) = 0
    BY <1>2, EmptySeq
  <2>2. Len(writes[s]) - 1 = 0 <=> Len(writes[s]) = 1
    BY <1>2
  <2> QED BY <1>2, <2>1, <2>2
<1> QED BY <1>1, <1>2, <1>3 DEF WriteLands, WriteFails, TypeOK

(* A write that ends leaves the others, and the file one of them or as it was. *)
LEMMA EndedIsStored ==
  ASSUME TypeOK, NEW s \in Sessions, Remembered(s), Written(s), WriteLands(s) \/ WriteFails(s)
  PROVE  Remembered(s)' /\ Written(s)'
<1>1. /\ writes[s] # <<>> /\ Len(writes[s]) \in Nat \ {0} /\ Len(writes'[s]) = Len(writes[s]) - 1
      /\ \A i \in 1 .. Len(writes'[s]) : writes'[s][i] = writes[s][i + 1]
      /\ (writes'[s] = <<>> <=> Len(writes[s]) = 1)
      /\ UNCHANGED <<cache, quiet, loaded, loads, timers, torn, applied, gone>>
      /\ \/ file'[s] = writes[s][1] /\ s \notin failed'
         \/ file'[s] = file[s] /\ s \in failed'
  BY EndedFacts DEF memory
<1>2. Left(s)' = Left(s)
  BY <1>1 DEF Left, Elements
<1>3. Remembered(s)'
  BY <1>1, <1>2 DEF Remembered, Elements
<1> SUFFICES ASSUME s \notin torn
             PROVE  /\ Holds(s, file[s])' /\ \A i \in 1 .. Len(writes'[s]) : Holds(s, writes[s][i])'
                    /\ Growing(s)'
                    /\ s \notin timers /\ writes'[s] # <<>>
                         => writes'[s][Len(writes'[s])] = Left(s) \ quiet[s]
                    /\ s \notin timers \cup failed' /\ writes'[s] = <<>>
                         => file'[s] = Left(s) \ quiet[s]
  BY <1>1, <1>2, <1>3 DEF Written
<1>4. \A rows : Holds(s, rows) => /\ rows \subseteq Elements(applied'[s])
                                  /\ \A i, j \in 1 .. Len(applied'[s]) :
                                       i < j /\ applied'[s][j] \in rows
                                         => applied'[s][i] \in rows \cup gone'[s]
  BY <1>1 DEF Holds, Begins
<1>5. /\ 1 \in 1 .. Len(writes[s])
      /\ \A i \in 1 .. Len(writes'[s]) : i + 1 \in 1 .. Len(writes[s])
  BY <1>1
<1>6. Holds(s, file[s]) /\ Holds(s, writes[s][1])
      /\ \A i \in 1 .. Len(writes'[s]) : Holds(s, writes[s][i + 1])
  BY <1>5 DEF Written
<1>7. Holds(s, file[s])'
  <2>1. Holds(s, file'[s])
    BY <1>1, <1>6
  <2> QED BY <1>4, <2>1 DEF Holds, Begins
<1>8. ASSUME NEW i \in 1 .. Len(writes'[s]) PROVE Holds(s, writes[s][i])'
  <2>1. Holds(s, writes'[s][i])
    BY <1>1, <1>6
  <2> QED BY <1>4, <2>1 DEF Holds, Begins
<1>9. Growing(s)'
  <2>1. ASSUME NEW i \in 1 .. Len(writes'[s]) PROVE file'[s] \subseteq writes'[s][i] \cup gone'[s]
    <3>1. i + 1 \in 1 .. Len(writes[s])
          /\ writes'[s][i] = writes[s][i + 1]
      BY <1>1
    <3>2. /\ file[s] \subseteq writes[s][i + 1] \cup gone[s]
          /\ writes[s][1] \subseteq writes[s][i + 1] \cup gone[s]
      BY <1>5, <3>1 DEF Written, Growing
    <3> QED BY <1>1, <3>1, <3>2
  <2>2. ASSUME NEW i \in 1 .. Len(writes'[s]), NEW j \in i .. Len(writes'[s])
        PROVE  writes'[s][i] \subseteq writes'[s][j] \cup gone'[s]
    <3>1. /\ i + 1 \in 1 .. Len(writes[s]) /\ j + 1 \in i + 1 .. Len(writes[s])
          /\ writes'[s][i] = writes[s][i + 1] /\ writes'[s][j] = writes[s][j + 1]
      BY <1>1
    <3>2. writes[s][i + 1] \subseteq writes[s][j + 1] \cup gone[s]
      BY <3>1 DEF Written, Growing
    <3> QED BY <1>1, <3>1, <3>2
  <2> QED BY <2>1, <2>2 DEF Growing
<1>10. ASSUME s \notin timers, writes'[s] # <<>>
       PROVE  writes'[s][Len(writes'[s])] = Left(s) \ quiet[s]
  <2>1. writes'[s][Len(writes'[s])] = writes[s][Len(writes[s])]
    BY <1>1, <1>10
  <2> QED BY <1>1, <1>10, <2>1 DEF Written
<1>11. ASSUME s \notin timers \cup failed', writes'[s] = <<>>
       PROVE  file'[s] = Left(s) \ quiet[s]
  BY <1>1, <1>11 DEF Written
<1> QED BY <1>7, <1>8, <1>9, <1>10, <1>11

(* A write of all that is cached is queued. *)
LEMMA QueuedIsStored ==
  ASSUME TypeOK, TypeOK', NEW s \in Sessions, Remembered(s), Written(s), s \in timers,
         timers' = timers \ {s} \/ timers' = {}, writes'[s] = Append(writes[s], Kept(s)),
         UNCHANGED <<memory, file, applied, gone, failed, torn>>
  PROVE  Remembered(s)' /\ Written(s)'
<1>0. UNCHANGED <<cache, quiet, loaded, loads>>
  BY DEF memory
<1>1. Kept(s) \in Rows /\ applied[s] \in Texts /\ <<>> \in Texts
  BY KeptFacts, TextFacts DEF TypeOK
<1>2. applied'[s] = applied[s] \o <<>> /\ Left(s)' = Left(s)
  BY <1>1, ConcatEmptySeq DEF Texts, Left, Elements
<1>3. Fresh(s, <<>>)
  BY EmptySeq DEF Fresh, Elements
<1>4. s \notin torn => Kept(s) = Left(s) /\ quiet[s] = {}
  BY KeptIsLeft
<1>5. Remembered(s)'
  BY <1>0, <1>2, <1>4 DEF Remembered, Elements
<1>6. CASE s \in torn
  BY <1>5, <1>6 DEF Written
<1>7. CASE s \notin torn
  BY <1>0, <1>1, <1>2, <1>3, <1>4, <1>5, <1>7, AppendedIsWritten
<1> QED BY <1>6, <1>7

LEMMA StepStored ==
  TypeOK /\ AwaitsEnd /\ Order /\ Numbered /\ Stored /\ [Next]_vars => Stored'
<1> SUFFICES ASSUME TypeOK, AwaitsEnd, Order, Numbered, Stored, [Next]_vars PROVE Stored'
  OBVIOUS
<1>0. TypeOK' /\ \A s \in Sessions : Remembered(s) /\ Written(s)
  BY StepType DEF Stored
<1> USE DEF runtime, batcher, disk, quitting, histories
<1>1. ASSUME NEW s \in Sessions, \A q \in Sessions \ {s} : Spared(q), Remembered(s)', Written(s)'
      PROVE  Stored'
  BY <1>0, <1>1, SparedKeeps DEF Stored
<1>2. ASSUME \A q \in Sessions : Spared(q) PROVE Stored'
  BY <1>0, <1>2, SparedKeeps DEF Stored
<1>3. ASSUME NEW s \in Sessions, NEW kind \in Kinds, Emit(s, kind) PROVE Stored'
  BY <1>2, <1>3 DEF Emit, Spared, memory
<1>4. ASSUME NEW s \in Sessions, NEW more \in Texts, Adds(s, more), Fresh(s, more), Schedules(s),
             UNCHANGED <<loaded, loads, writes, file, gone, failed>>
      PROVE  Stored'
  <2>1. Remembered(s)' /\ Written(s)'
    BY <1>0, <1>4, AddedIsStored
  <2>2. ASSUME NEW q \in Sessions \ {s} PROVE Spared(q)
    BY <1>4, AddsFacts, SchedulesFacts DEF Adds, Spared
  <2> QED BY <1>1, <2>1, <2>2
<1>5. ASSUME NEW s \in Sessions, Send(s) PROVE Stored'
  <2>1. <<items + 1>> \in Texts
    BY <1>5, TextFacts, BoundsAreNaturals DEF Send, TypeOK
  <2>2. Fresh(s, <<items + 1>>)
    BY <1>5, IsFresh
  <2> QED BY <1>4, <1>5, <2>1, <2>2 DEF Send
<1>6. ASSUME NEW s \in Sessions, ApplyBatch(s) PROVE Stored'
  <2>1. batch[s] \in Texts /\ Fresh(s, batch[s])
    BY IsFresh DEF TypeOK
  <2> QED BY <1>4, <1>6, <2>1 DEF ApplyBatch
<1>7. ASSUME NEW kind \in Kinds, Under(kind)
      PROVE  \E s \in Sessions : \E more \in Texts :
               /\ s = Head(chain).session /\ more = <<Head(chain).id>> /\ Fresh(s, more)
               /\ Elements(more) = {Head(chain).id}
  <2>1. Head(chain) = chain[1] /\ Head(chain) \in Events
    BY <1>7, HeadFacts
  <2>2. Head(chain).session \in Sessions /\ <<Head(chain).id>> \in Texts
        /\ Head(chain).id \in 0 .. MaxItems
    BY <2>1, TextFacts, BoundsAreNaturals DEF Events
  <2>3. Fresh(Head(chain).session, <<Head(chain).id>>)
    BY <1>7, <2>1, <2>2, IsFresh
  <2>4. Elements(<<Head(chain).id>>) = {Head(chain).id}
    BY <2>2, TextFacts, AppendElements
  <2> QED BY <2>2, <2>3, <2>4
<1>8. CASE HandleNote
  <2>1. PICK s \in Sessions, more \in Texts :
          s = Head(chain).session /\ more = <<Head(chain).id>> /\ Fresh(s, more)
    BY <1>7, <1>8 DEF HandleNote, Kinds
  <2> QED BY <1>4, <1>8, <2>1 DEF HandleNote
<1>9. CASE HandleNotice
  <2>1. PICK s \in Sessions, more \in Texts :
          /\ s = Head(chain).session /\ more = <<Head(chain).id>> /\ Fresh(s, more)
          /\ Elements(more) = {Head(chain).id}
    BY <1>7, <1>9 DEF HandleNotice, Kinds
  <2>2. /\ Adds(s, more) /\ UNCHANGED <<loaded, loads, timers, writes, file, gone, failed>>
        /\ quiet' = IF s \in timers THEN quiet ELSE [quiet EXCEPT ![s] = @ \cup Elements(more)]
    BY <1>9, <2>1 DEF HandleNotice
  <2>3. quiet'[s] = IF s \in timers THEN quiet[s] ELSE quiet[s] \cup Elements(more)
    BY <2>2 DEF TypeOK
  <2>4. Remembered(s)' /\ Written(s)'
    BY <1>0, <2>1, <2>2, <2>3, NoticeIsStored
  <2>5. ASSUME NEW q \in Sessions \ {s} PROVE Spared(q)
    BY <2>2, AddsFacts DEF Adds, Spared
  <2> QED BY <1>1, <2>4, <2>5
<1>10. CASE HandleEnd
  <2>1. PICK s \in Sessions, more \in Texts :
          s = Head(chain).session /\ more = <<Head(chain).id>> /\ Fresh(s, more)
    BY <1>7, <1>10 DEF HandleEnd, Kinds
  <2>2. /\ Adds(s, more) /\ timers' = timers \ {s} /\ quiet' = [quiet EXCEPT ![s] = {}]
        /\ writes' = [writes EXCEPT ![s] = Append(@, cache'[s])]
        /\ UNCHANGED <<loaded, loads, file, gone, failed>>
    BY <1>10, <2>1 DEF HandleEnd
  <2>3. writes'[s] = Append(writes[s], cache'[s]) /\ quiet'[s] = {} /\ torn \subseteq torn'
    BY <2>2 DEF TypeOK, Adds
  <2>4. Remembered(s)' /\ (s \notin torn' => cache'[s] = Left(s)')
    BY <1>0, <2>1, <2>2, <2>3, AddedIsLeft
  <2>5. cache'[s] \in Rows /\ applied'[s] = applied[s] \o more
    BY <2>2, AddsFacts
  <2>6. Written(s)'
    BY <1>0, <2>1, <2>2, <2>3, <2>4, <2>5, AppendedIsWritten
  <2>7. ASSUME NEW q \in Sessions \ {s} PROVE Spared(q)
    <3>1. writes'[q] = writes[q] /\ quiet'[q] = quiet[q] /\ (q \in timers' <=> q \in timers)
      BY <2>2 DEF TypeOK
    <3> QED BY <2>2, <3>1, AddsFacts DEF Adds, Spared
  <2> QED BY <1>1, <2>4, <2>6, <2>7
<1>11. ASSUME NEW s \in Sessions, TimerFires(s) PROVE Stored'
  <2>1. writes'[s] = Append(writes[s], Kept(s))
    BY <1>11 DEF TimerFires, TypeOK
  <2>2. Remembered(s)' /\ Written(s)'
    BY <1>0, <1>11, <2>1, QueuedIsStored DEF TimerFires
  <2>3. \A q \in Sessions \ {s} : Spared(q)
    BY <1>11 DEF TimerFires, Spared, TypeOK, memory
  <2> QED BY <1>1, <2>2, <2>3
<1>12. ASSUME NEW s \in Sessions, WriteLands(s) \/ WriteFails(s) PROVE Stored'
  <2>1. Remembered(s)' /\ Written(s)'
    BY <1>0, <1>12, EndedIsStored
  <2>2. \A q \in Sessions \ {s} : Spared(q)
    BY <1>12 DEF WriteLands, WriteFails, WriteEnds, Spared, TypeOK, memory
  <2> QED BY <1>1, <2>1, <2>2
<1>13. ASSUME NEW s \in Sessions, LoadReads(s) PROVE Stored'
  <2>1. /\ s \notin loaded /\ loads'[s] = file[s]
        /\ torn' = (IF writes[s] # <<>> \/ s \in failed THEN torn \cup {s} ELSE torn)
        /\ UNCHANGED <<cache, quiet, loaded, timers, writes, file, applied, gone, failed>>
    BY <1>13 DEF LoadReads, TypeOK
  <2>2. Left(s)' = Left(s)
    BY <2>1 DEF Left, Elements
  <2>3. s \notin torn' => s \notin timers /\ quiet[s] = {} /\ file[s] = Left(s)
    BY <1>0, <2>1 DEF Remembered, Written
  <2>4. Remembered(s)'
    BY <1>0, <2>1, <2>2, <2>3 DEF Remembered, Elements
  <2>5. Written(s)'
    BY <1>0, <2>1, <2>2 DEF Written, Holds, Begins, Growing, Elements
  <2>6. \A q \in Sessions \ {s} : Spared(q)
    BY <1>13 DEF LoadReads, Spared, TypeOK
  <2> QED BY <1>1, <2>4, <2>5, <2>6
<1>14. ASSUME NEW s \in Sessions, LoadEnds(s) PROVE Stored'
  <2>1. /\ loads[s] # None /\ cache'[s] = loads[s] /\ loads'[s] = None /\ loaded' = loaded \cup {s}
        /\ UNCHANGED <<quiet, timers, writes, file, applied, gone, failed, torn>>
    BY <1>14 DEF LoadEnds, TypeOK
  <2>2. Left(s)' = Left(s)
    BY <2>1 DEF Left, Elements
  <2>3. Remembered(s)'
    BY <1>0, <2>1, <2>2 DEF Remembered, Elements
  <2>4. Written(s)'
    BY <1>0, <2>1, <2>2 DEF Written, Holds, Begins, Growing, Elements
  <2>5. \A q \in Sessions \ {s} : Spared(q)
    BY <1>14 DEF LoadEnds, Spared, TypeOK
  <2> QED BY <1>1, <2>3, <2>4, <2>5
<1>15. ASSUME NEW s \in Sessions, Evict(s) PROVE Stored'
  <2>1. Remembered(s)' /\ Written(s)'
    BY <1>0, <1>15, EvictedIsStored
  <2>2. \A q \in Sessions \ {s} : Spared(q)
    BY <1>15 DEF Evict, Spared, TypeOK
  <2> QED BY <1>1, <2>1, <2>2
<1>16. ASSUME NEW s \in Sessions, Rejected(s) PROVE Stored'
  <2>1. Remembered(s)' /\ Written(s)'
    BY <1>0, <1>16, TakenBackIsStored
  <2>2. ASSUME NEW q \in Sessions \ {s} PROVE Spared(q)
    <3>1. PICK row \in SUBSET Kept(s) :
            /\ cache' = [cache EXCEPT ![s] = Kept(s) \ row]
            /\ gone' = [gone EXCEPT ![s] = @ \cup row]
      BY <1>16 DEF Rejected
    <3>2. /\ Schedules(s) /\ UNCHANGED <<loaded, loads, writes, file, applied, failed>>
          /\ torn' = IF s \in loaded THEN torn ELSE torn \cup {s}
      BY <1>16 DEF Rejected
    <3>3. quiet'[q] = quiet[q] /\ timers' = timers \cup {s}
      BY <3>2, SchedulesFacts
    <3>4. cache'[q] = cache[q] /\ gone'[q] = gone[q]
      BY <3>1 DEF TypeOK
    <3> QED BY <3>2, <3>3, <3>4 DEF Spared
  <2> QED BY <1>1, <2>1, <2>2
<1>17. CASE QuitCollects
  <2>1. ASSUME NEW s \in Sessions PROVE Remembered(s)' /\ Written(s)'
    <3>1. CASE s \in timers
      <4>1. writes'[s] = Append(writes[s], Kept(s)) /\ timers' = {}
        BY <1>17, <3>1 DEF QuitCollects
      <4> QED BY <1>0, <1>17, <3>1, <4>1, QueuedIsStored DEF QuitCollects
    <3>2. CASE s \notin timers
      <4>1. Spared(s)
        BY <1>17, <3>2 DEF QuitCollects, Spared, memory
      <4> QED BY <1>0, <4>1, SparedKeeps
    <3> QED BY <3>1, <3>2
  <2> QED BY <2>1 DEF Stored
<1>18. CASE HandleDelta \/ FlushEnds \/ Tick
  BY <1>2, <1>18 DEF HandleDelta, FlushEnds, Tick, Spared, memory
<1>19. CASE QuitStarts \/ QuitEnds \/ QuitTimesOut
  BY <1>2, <1>19 DEF QuitStarts, QuitEnds, QuitTimesOut, Spared, memory
<1>20. CASE UNCHANGED vars
  BY <1>2, <1>20 DEF vars, Spared, memory
<1> QED BY <1>3, <1>5, <1>6, <1>8, <1>9, <1>10, <1>11, <1>12, <1>13, <1>14, <1>15, <1>16,
           <1>17, <1>18, <1>19, <1>20 DEF Next, ChainStep

LEMMA InitStored == Init => Stored
<1> SUFFICES ASSUME Init, NEW s \in Sessions PROVE Remembered(s) /\ Written(s)
  BY DEF Stored
<1>1. /\ cache[s] = (IF s \in loaded THEN {0} ELSE None) /\ loads[s] = None /\ quiet[s] = {}
      /\ timers = {} /\ writes[s] = <<>> /\ file[s] = {0} /\ applied[s] = <<0>> /\ gone[s] = {}
  BY DEF Init
<1>2. {0} # None /\ Elements(<<0>>) = {0} /\ Len(<<>>) = 0 /\ Len(<<0>>) = 1
  BY TextFacts, EmptySeq DEF Elements
<1>3. Left(s) = {0}
  BY <1>1, <1>2 DEF Left
<1>4. Holds(s, file[s])
  BY <1>1, <1>2 DEF Holds, Begins
<1>5. Growing(s)
  BY <1>1, <1>2 DEF Growing
<1> QED BY <1>1, <1>2, <1>3, <1>4, <1>5 DEF Remembered, Written

(* What the store remembers of each session and what it writes agree with  *)
(* all that was added to its transcript, less what is gone.                *)
THEOREM AllIsStored == Spec => []Stored
<1> QED BY InitStored, TypeCorrect, AlwaysInOrder, AlwaysNumbered, StepStored, PTL DEF Spec

(* A transcript that is shown is all that was added to it, however often   *)
(* it was evicted and read back, but for what was taken back and for the   *)
(* notices that were evicted before anything had them written.             *)
THEOREM ShownWhole == Spec => []ShownIsComplete
<1>1. TypeOK /\ Stored => ShownIsComplete
  BY DEF TypeOK, Stored, Remembered, ShownIsComplete
<1> QED BY <1>1, TypeCorrect, AllIsStored, PTL

(* What a transcript holds beyond its file waits for a timer or a write,   *)
(* or is a quiet notice, and the file holds nothing without what came      *)
(* before it.                                                              *)
THEOREM FilesFollow == Spec => []FileFollows
<1>1. Stored => FileFollows
  BY DEF Stored, Written, Holds, FileFollows
<1> QED BY <1>1, AllIsStored, PTL

------------------------------------------------------------------------------
LEMMA LogNames ==
  /\ \A s : Log!Said(s) = Elements(applied[s])
  /\ \A s : Log!Left(s) = Left(s)
  /\ \A s, rows : Log!Begins(s, rows) <=> Begins(s, rows)
  BY DEF Log!Said, Log!Left, Log!Begins, Elements, Left, Begins

(* What is said before stays as it was. *)
LEMMA AddsPrefix ==
  ASSUME TypeOK, NEW s \in Sessions, NEW more \in Texts, Adds(s, more)
  PROVE  /\ applied' = [applied EXCEPT ![s] = applied'[s]]
         /\ Log!Prefix(applied[s], applied'[s])
         /\ torn' \in {torn, torn \cup {s}}
<1>1. /\ applied' = [applied EXCEPT ![s] = applied[s] \o more]
      /\ applied'[s] = applied[s] \o more /\ applied[s] \in Texts
      /\ torn' \in {torn, torn \cup {s}}
  BY DEF Adds, TypeOK
<1>2. Len(applied[s]) \in Nat /\ Len(more) \in Nat
  BY <1>1, LenProperties DEF Texts
<1>3. /\ Len(applied'[s]) = Len(applied[s]) + Len(more)
      /\ \A i \in 1 .. Len(applied[s]) + Len(more) :
           applied'[s][i] = IF i <= Len(applied[s]) THEN applied[s][i] ELSE more[i - Len(applied[s])]
  BY <1>1, ConcatProperties DEF Texts
<1>4. Len(applied[s]) <= Len(applied'[s])
      /\ \A i \in 1 .. Len(applied[s]) : applied[s][i] = applied'[s][i]
  BY <1>2, <1>3
<1>5. Log!Prefix(applied[s], applied'[s])
  BY <1>4 DEF Log!Prefix
<1> QED BY <1>1, <1>5

(* A step that adds to a transcript makes its file wait, and no other. *)
LEMMA AddsToLog ==
  ASSUME TypeOK, TypeOK', NEW s \in Sessions, NEW more \in Texts, Adds(s, more),
         UNCHANGED <<file, failed, gone>>, quiet' = [quiet EXCEPT ![s] = {}],
         \A q \in Sessions : (q \in timers' \/ writes'[q] # <<>>)
                              <=> (q = s \/ q \in timers \/ writes[q] # <<>>)
  PROVE  Log!Add(s)
<1>1. Unwritten' = Unwritten \cup {s}
  <2>1. timers \subseteq Sessions /\ timers' \subseteq Sessions /\ failed \subseteq Sessions
    BY DEF TypeOK
  <2> QED BY <2>1 DEF Unwritten
<1> QED BY <1>1, AddsPrefix DEF Log!Add

(* A notice is stored with what waits, or is loose. *)
LEMMA NoticeToLog ==
  ASSUME TypeOK, Order, Numbered, HandleNotice
  PROVE  \E s \in Sessions : Log!Add(s)
<1>1. Under("notice") /\ Head(chain) = chain[1] /\ Head(chain) \in Events
  BY HeadFacts DEF HandleNotice, Kinds
<1>2. PICK s \in Sessions, more \in Texts :
        /\ s = Head(chain).session /\ more = <<Head(chain).id>> /\ Fresh(s, more)
        /\ Elements(more) = {Head(chain).id}
  <2>1. Head(chain).session \in Sessions /\ <<Head(chain).id>> \in Texts
        /\ Head(chain).id \in 0 .. MaxItems
    BY <1>1, TextFacts, BoundsAreNaturals DEF Events
  <2>2. Fresh(Head(chain).session, <<Head(chain).id>>)
    BY <1>1, <2>1, IsFresh DEF Kinds
  <2>3. Elements(<<Head(chain).id>>) = {Head(chain).id}
    BY <2>1, TextFacts, AppendElements
  <2> QED BY <2>1, <2>2, <2>3
<1>3. /\ Adds(s, more) /\ UNCHANGED <<timers, writes, file, gone, failed>>
      /\ quiet' = IF s \in timers THEN quiet ELSE [quiet EXCEPT ![s] = @ \cup Elements(more)]
  BY <1>2 DEF HandleNotice, disk
<1>4. Unwritten' = Unwritten
  BY <1>3 DEF Unwritten
<1>5. Elements(applied'[s]) \ Elements(applied[s]) = Elements(more)
  BY <1>2, <1>3, AddsElements DEF Fresh
<1>6. Log!Said(s)' \ Log!Said(s) = Elements(more)
  BY <1>5 DEF Log!Said, Elements
<1>7. Log!Add(s)
  <2>1. CASE s \in timers
    <3>1. s \in Unwritten
      BY <2>1 DEF Unwritten
    <3> QED BY <1>3, <1>4, <2>1, <3>1, AddsPrefix DEF Log!Add
  <2>2. CASE s \notin timers
    BY <1>3, <1>4, <1>6, <2>2, AddsPrefix DEF Log!Add
  <2> QED BY <2>1, <2>2
<1> QED BY <1>7

(* A write that lands brings the file nearer, and never back. *)
LEMMA LandsInLog ==
  ASSUME TypeOK, TypeOK', NEW s \in Sessions, Written(s), Written(s)', WriteLands(s)
  PROVE  Log!Store(s)
<1>1. /\ writes[s] # <<>> /\ Len(writes[s]) \in Nat \ {0} /\ file'[s] = writes[s][1]
      /\ UNCHANGED <<torn, applied, gone, quiet, timers>>
  BY EndedFacts DEF WriteLands, WriteFails, memory
<1>2. /\ file' = [file EXCEPT ![s] = file'[s]] /\ failed' = failed \ {s}
      /\ \A q \in Sessions \ {s} : writes'[q] = writes[q]
  BY DEF WriteLands, WriteEnds, TypeOK
<1>3. s \in Unwritten /\ Unwritten' \in {Unwritten, Unwritten \ {s}}
  <2>1. s \in Unwritten
    BY <1>1 DEF Unwritten
  <2>2. \A q \in Sessions \ {s} : q \in Unwritten' <=> q \in Unwritten
    BY <1>1, <1>2 DEF Unwritten
  <2>3. Unwritten \subseteq Sessions /\ Unwritten' \subseteq Sessions
    BY DEF Unwritten, TypeOK
  <2> QED BY <2>1, <2>2, <2>3
<1>4. ASSUME s \notin torn
      PROVE  /\ file[s] \subseteq file'[s] \cup gone[s]
             /\ file'[s] \subseteq Log!Said(s) /\ Log!Begins(s, file'[s])
             /\ s \notin Unwritten' => file'[s] = Log!Left(s) \ quiet[s]
  <2>1. 1 \in 1 .. Len(writes[s])
    BY <1>1
  <2>2. Holds(s, writes[s][1]) /\ file[s] \subseteq writes[s][1] \cup gone[s]
    BY <1>4, <2>1 DEF Written, Growing
  <2>3. Left(s)' = Left(s)
    BY <1>1 DEF Left, Elements
  <2>4. s \notin Unwritten' => file'[s] = Left(s) \ quiet[s]
    BY <1>1, <1>4, <2>3 DEF Written, Unwritten
  <2> QED BY <1>1, <2>2, <2>4, LogNames DEF Holds
<1> QED BY <1>1, <1>2, <1>3, <1>4 DEF Log!Store

(* Every other step leaves the transcripts, their files and what is to be  *)
(* written, or reads a file that is behind.                                *)
LEMMA LogStep ==
  TypeOK /\ AwaitsEnd /\ Order /\ Numbered /\ Stored /\ [Next]_vars => [Log!Next]_(Log!vars)
<1> DEFINE Same == UNCHANGED <<applied, gone, quiet, file, Unwritten, torn>>
<1> SUFFICES ASSUME TypeOK, AwaitsEnd, Order, Numbered, Stored, [Next]_vars
             PROVE  (\E s \in Sessions : Log!Add(s) \/ Log!TakeBack(s) \/ Log!Lose(s)
                                          \/ Log!Store(s) \/ Log!Spoil(s))
                    \/ Same
  BY DEF Log!Next, Log!vars
<1>0. TypeOK' /\ Stored'
  BY StepType, StepStored
<1> USE DEF runtime, batcher, memory, disk, quitting, histories
<1>1. ASSUME NEW s \in Sessions, NEW more \in Texts, Adds(s, more), Schedules(s),
             UNCHANGED <<writes, file, failed, gone>>
      PROVE  Log!Add(s)
  <2>1. timers' = timers \cup {s} /\ quiet' = [quiet EXCEPT ![s] = {}]
    BY <1>1 DEF Schedules
  <2> QED BY <1>0, <1>1, <2>1, AddsToLog
<1>2. ASSUME NEW s \in Sessions, Send(s) PROVE Log!Add(s)
  <2>1. <<items + 1>> \in Texts
    BY <1>2, TextFacts, BoundsAreNaturals DEF Send, TypeOK
  <2> QED BY <1>1, <1>2, <2>1 DEF Send
<1>3. ASSUME NEW s \in Sessions, ApplyBatch(s) PROVE Log!Add(s)
  <2>1. batch[s] \in Texts
    BY DEF TypeOK
  <2> QED BY <1>1, <1>3, <2>1 DEF ApplyBatch
<1>4. ASSUME HandleNote PROVE \E s \in Sessions : Log!Add(s)
  <2>1. Head(chain).session \in Sessions /\ <<Head(chain).id>> \in Texts
    BY <1>4, HeadFacts, TextFacts DEF HandleNote, Events, Kinds
  <2> QED BY <1>1, <1>4, <2>1 DEF HandleNote
<1>5. ASSUME HandleEnd PROVE \E s \in Sessions : Log!Add(s)
  <2>1. PICK s \in Sessions, more \in Texts : s = Head(chain).session /\ more = <<Head(chain).id>>
    BY <1>5, HeadFacts, TextFacts DEF HandleEnd, Events, Kinds
  <2>2. /\ Adds(s, more) /\ timers' = timers \ {s} /\ UNCHANGED <<file, failed, gone>>
        /\ quiet' = [quiet EXCEPT ![s] = {}]
        /\ writes' = [writes EXCEPT ![s] = Append(@, cache'[s])]
    BY <1>5, <2>1 DEF HandleEnd
  <2>3. cache'[s] \in Rows /\ writes[s] \in Seq(Rows)
    BY <2>2, AddsFacts DEF TypeOK
  <2>4. writes'[s] # <<>> /\ \A q \in Sessions \ {s} : writes'[q] = writes[q]
    <3>1. writes'[s] = Append(writes[s], cache'[s])
      BY <2>2 DEF TypeOK
    <3>2. \A q \in Sessions \ {s} : writes'[q] = writes[q]
      BY <2>2 DEF TypeOK
    <3> QED BY <2>3, <3>1, <3>2, AppendProperties
  <2>5. Log!Add(s)
    BY <1>0, <2>2, <2>4, AddsToLog
  <2> QED BY <2>5
<1>6. ASSUME NEW s \in Sessions, TimerFires(s) PROVE Same
  <2>1. writes'[s] # <<>>
    <3>1. Kept(s) \in Rows /\ writes'[s] = Append(writes[s], Kept(s)) /\ writes[s] \in Seq(Rows)
      BY <1>6, KeptFacts DEF TimerFires, TypeOK
    <3> QED BY <3>1, AppendProperties
  <2>2. \A q \in Sessions \ {s} : writes'[q] = writes[q]
    BY <1>6 DEF TimerFires, TypeOK
  <2>3. Unwritten' = Unwritten
    BY <1>6, <2>1, <2>2 DEF TimerFires, Unwritten
  <2> QED BY <1>6, <2>3 DEF TimerFires
<1>7. ASSUME NEW s \in Sessions, WriteLands(s) PROVE Log!Store(s)
  BY <1>0, <1>7, LandsInLog DEF Stored
<1>8. ASSUME NEW s \in Sessions, WriteFails(s) PROVE Same
  <2>1. /\ writes[s] # <<>> /\ failed' = failed \cup {s}
        /\ UNCHANGED <<applied, gone, quiet, file, timers, torn>>
        /\ \A q \in Sessions \ {s} : writes'[q] = writes[q]
    BY <1>8 DEF WriteFails, WriteEnds, TypeOK
  <2>2. Unwritten' = Unwritten
    BY <2>1 DEF Unwritten
  <2> QED BY <2>1, <2>2
<1>9. ASSUME NEW s \in Sessions, LoadReads(s) PROVE Log!Spoil(s) \/ Same
  <2>1. UNCHANGED <<applied, gone, quiet, file, timers, failed, writes>>
    BY <1>9 DEF LoadReads
  <2>2. Unwritten' = Unwritten
    BY <2>1 DEF Unwritten
  <2>3. writes[s] # <<>> \/ s \in failed => s \in Unwritten
    BY DEF Unwritten
  <2> QED BY <1>9, <2>1, <2>2, <2>3 DEF LoadReads, Log!Spoil
<1>10. ASSUME NEW s \in Sessions, Rejected(s) PROVE Log!TakeBack(s)
  <2>1. PICK row \in SUBSET Kept(s) : gone' = [gone EXCEPT ![s] = @ \cup row]
    BY <1>10 DEF Rejected
  <2>2. gone'[s] = gone[s] \cup row /\ gone' = [gone EXCEPT ![s] = gone'[s]]
    BY <2>1 DEF TypeOK
  <2>3. /\ timers' = timers \cup {s} /\ quiet' = [quiet EXCEPT ![s] = {}]
        /\ UNCHANGED <<applied, file, writes, failed>> /\ torn' \in {torn, torn \cup {s}}
    BY <1>10 DEF Rejected, Schedules
  <2>4. Unwritten' = Unwritten \cup {s}
    BY <2>3 DEF Unwritten
  <2> QED BY <2>2, <2>3, <2>4 DEF Log!TakeBack
<1>11. ASSUME NEW s \in Sessions, Evict(s) PROVE Log!Lose(s)
  <2>1. Unwritten' = Unwritten
    BY <1>11 DEF Evict, Unwritten
  <2> QED BY <1>11, <2>1 DEF Evict, Log!Lose
<1>12. CASE QuitCollects
  <2>1. ASSUME NEW s \in timers PROVE writes'[s] # <<>>
    <3>1. /\ s \in Sessions /\ Kept(s) \in Rows /\ writes'[s] = Append(writes[s], Kept(s))
          /\ writes[s] \in Seq(Rows)
      BY <1>12, <2>1, KeptFacts DEF QuitCollects, TypeOK
    <3> QED BY <3>1, AppendProperties
  <2>2. /\ UNCHANGED <<applied, gone, quiet, file, failed, torn>>
        /\ timers' = {} /\ timers \subseteq Sessions
        /\ \A s \in Sessions \ timers : writes'[s] = writes[s]
    BY <1>12 DEF QuitCollects, TypeOK
  <2>3. Unwritten' = Unwritten
    BY <2>1, <2>2 DEF Unwritten
  <2> QED BY <2>2, <2>3
<1>13. CASE \/ HandleDelta \/ FlushEnds \/ Tick \/ QuitStarts \/ QuitEnds \/ QuitTimesOut
            \/ UNCHANGED vars
            \/ \E s \in Sessions : LoadEnds(s) \/ \E kind \in Kinds : Emit(s, kind)
  BY <1>13 DEF HandleDelta, FlushEnds, Tick, QuitStarts, QuitEnds, QuitTimesOut, vars, LoadEnds,
              Emit, Unwritten
<1>14. CASE HandleNotice
  BY <1>14, NoticeToLog
<1> HIDE DEF Same
<1> QED BY <1>2, <1>3, <1>4, <1>5, <1>6, <1>7, <1>8, <1>9, <1>10, <1>11, <1>12, <1>13, <1>14
        DEF Next, ChainStep

(* Whatever is evicted, read back, taken back, fails to be written or      *)
(* quits, the transcripts and their files are a PersistedLog: no file ever *)
(* loses what its transcript has left, and one with nothing left to write  *)
(* holds all of that but the quiet notices.                                *)
THEOREM Refinement == Spec => ImplementsPersistedLog
<1>1. Init => Log!Init
  <2> SUFFICES ASSUME Init PROVE Log!Init
    OBVIOUS
  <2>1. \A s \in Sessions : writes[s] = <<>>
    BY DEF Init
  <2>2. Unwritten = {}
    BY <2>1 DEF Init, Unwritten
  <2>3. \A s \in Sessions : Log!Said(s) = {0}
    <3> SUFFICES ASSUME NEW s \in Sessions PROVE {applied[s][i] : i \in 1 .. Len(applied[s])} = {0}
      BY DEF Log!Said
    <3>1. applied[s] = <<0>> /\ Len(<<0>>) = 1 /\ <<0>>[1] = 0
      BY DEF Init
    <3> QED BY <3>1
  <2> QED BY <2>2, <2>3 DEF Init, Log!Init
<1> QED BY <1>1, TypeCorrect, AllIsStored, AlwaysInOrder, AlwaysNumbered, LogStep, PTL
        DEF Spec, ImplementsPersistedLog, Log!Spec

------------------------------------------------------------------------------
(* What is ahead of a place of the chain. *)
Ahead(s, j) ==
  {chain[i].id : i \in {k \in 1 .. j - 1 : IsEvent(chain[k]) /\ chain[k].session = s}}

(* The event whose write is awaited has been added. *)
AwaitsAdded ==
  awaiting # None => chain[1].session = awaiting /\ chain[1].id \in Elements(applied[awaiting])

(* The quit is on the chain once, behind what it is to keep, *)
QuitIsBehind ==
  \A j \in 1 .. Len(chain) : chain[j].kind = "quit" =>
    /\ quit \in {"flushing", "cut"}
    /\ \A i \in 1 .. Len(chain) : chain[i].kind = "quit" => i = j
    /\ \A s \in Sessions : before[s] \subseteq Has(s) \cup Ahead(s, j)

(* and when it has come to its turn, all of that is added. *)
Collected ==
  quit \in {"waiting", "exited"} => \A s \in Sessions : before[s] \subseteq Elements(applied[s])

(* The chain grows by another work, or not. *)
LEMMA BehindGrows ==
  ASSUME TypeOK, QuitIsBehind, NEW e \in Works, e.kind # "quit",
         chain' = chain \/ chain' = Append(chain, e),
         quit' \in {quit, "cut"}, before' = before,
         \A s \in Sessions : Has(s) \subseteq Has(s)'
  PROVE  QuitIsBehind'
<1>1. /\ Len(chain) \in Nat /\ Len(chain') \in {Len(chain), Len(chain) + 1}
      /\ \A i \in 1 .. Len(chain) : chain'[i] = chain[i]
      /\ \A i \in 1 .. Len(chain') : chain'[i].kind = "quit" => i \in 1 .. Len(chain)
  BY AppendFacts, LenProperties DEF TypeOK
<1> SUFFICES ASSUME NEW j \in 1 .. Len(chain'), chain'[j].kind = "quit"
             PROVE  /\ quit' \in {"flushing", "cut"}
                    /\ \A i \in 1 .. Len(chain') : chain'[i].kind = "quit" => i = j
                    /\ \A s \in Sessions : before'[s] \subseteq Has(s)' \cup Ahead(s, j)'
  BY DEF QuitIsBehind
<1>2. j \in 1 .. Len(chain) /\ chain[j].kind = "quit"
  BY <1>1
<1>3. quit' \in {"flushing", "cut"} /\ \A i \in 1 .. Len(chain') : chain'[i].kind = "quit" => i = j
  BY <1>1, <1>2 DEF QuitIsBehind
<1>4. ASSUME NEW s \in Sessions PROVE before'[s] \subseteq Has(s)' \cup Ahead(s, j)'
  <2>1. Ahead(s, j) \subseteq Ahead(s, j)'
    <3>1. \A k \in 1 .. j - 1 : chain'[k] = chain[k]
      BY <1>1, <1>2
    <3> QED BY <3>1 DEF Ahead
  <2> QED BY <1>2, <2>1 DEF QuitIsBehind
<1> QED BY <1>3, <1>4

(* The work at the head of the chain is done: if it was an event, it is    *)
(* held.                                                                   *)
LEMMA BehindMoves ==
  ASSUME TypeOK, QuitIsBehind, chain # <<>>, chain' = Tail(chain), chain[1].kind # "quit",
         quit' \in {quit, "cut"}, before' = before,
         \A s \in Sessions : Has(s) \subseteq Has(s)',
         IsEvent(chain[1]) =>
           \A s \in Sessions : s = chain[1].session => chain[1].id \in Has(s)'
  PROVE  QuitIsBehind'
<1>1. /\ Len(chain) \in Nat \ {0} /\ Len(chain') = Len(chain) - 1
      /\ \A i \in 1 .. Len(chain') : chain'[i] = chain[i + 1]
  BY TailFacts
<1> SUFFICES ASSUME NEW j \in 1 .. Len(chain'), chain'[j].kind = "quit"
             PROVE  /\ quit' \in {"flushing", "cut"}
                    /\ \A i \in 1 .. Len(chain') : chain'[i].kind = "quit" => i = j
                    /\ \A s \in Sessions : before'[s] \subseteq Has(s)' \cup Ahead(s, j)'
  BY DEF QuitIsBehind
<1>2. j + 1 \in 1 .. Len(chain) /\ chain[j + 1].kind = "quit"
  BY <1>1
<1>3. quit' \in {"flushing", "cut"}
  BY <1>2 DEF QuitIsBehind
<1>4. ASSUME NEW i \in 1 .. Len(chain'), chain'[i].kind = "quit" PROVE i = j
  <2>1. i + 1 \in 1 .. Len(chain) /\ chain[i + 1].kind = "quit"
    BY <1>1, <1>4
  <2>2. i + 1 = j + 1
    BY <1>2, <2>1 DEF QuitIsBehind
  <2> QED BY <2>2
<1>5. ASSUME NEW s \in Sessions, NEW x \in before[s], x \notin Has(s)'
      PROVE  x \in Ahead(s, j)'
  <2>1. x \in Ahead(s, j + 1)
    BY <1>2, <1>5 DEF QuitIsBehind
  <2>2. PICK k \in 1 .. j : x = chain[k].id /\ IsEvent(chain[k]) /\ chain[k].session = s
    BY <2>1 DEF Ahead
  <2>3. k # 1
    BY <1>5, <2>2
  <2>4. k - 1 \in 1 .. j - 1 /\ chain'[k - 1] = chain[k]
    BY <1>1, <2>3
  <2> QED BY <2>2, <2>4 DEF Ahead
<1> QED BY <1>3, <1>4, <1>5

LEMMA StepBehind ==
  TypeOK /\ AwaitsEnd /\ AwaitsAdded /\ QuitIsBehind /\ [Next]_vars => QuitIsBehind'
<1> SUFFICES ASSUME TypeOK, AwaitsEnd, AwaitsAdded, QuitIsBehind, [Next]_vars PROVE QuitIsBehind'
  OBVIOUS
<1> USE DEF runtime, batcher, memory, disk, quitting, histories
<1>1. ASSUME chain' = chain, quit' \in {quit, "cut"}, before' = before,
             \A s \in Sessions : Has(s) \subseteq Has(s)'
      PROVE  QuitIsBehind'
  <2>1. [kind |-> "flush"] \in Works /\ [kind |-> "flush"].kind # "quit"
    BY WorkFacts
  <2> QED BY <1>1, <2>1, BehindGrows
<1>2. ASSUME UNCHANGED <<applied, batch>> PROVE \A s \in Sessions : Has(s) \subseteq Has(s)'
  BY <1>2 DEF Has
<1>3. ASSUME NEW s \in Sessions, NEW kind \in Kinds, Emit(s, kind)
      PROVE  QuitIsBehind'
  <2> DEFINE e == [kind |-> kind, session |-> s, id |-> items + 1]
  <2>1. e \in Works /\ e.kind # "quit"
    BY <1>3, BoundsAreNaturals DEF Emit, Works, Events, TypeOK, Kinds
  <2>2. chain' = Append(chain, e) /\ UNCHANGED <<quit, before, applied, batch>>
    BY <1>3 DEF Emit
  <2> HIDE DEF e
  <2> QED BY <1>2, <2>1, <2>2, BehindGrows
<1>4. CASE Tick
  <2>1. [kind |-> "flush"] \in Works /\ [kind |-> "flush"].kind # "quit"
    BY WorkFacts
  <2> QED BY <1>2, <1>4, <2>1, BehindGrows DEF Tick
<1>5. ASSUME NEW s \in Sessions, NEW more \in Texts, Adds(s, more),
             \A q \in Sessions : q # s => batch'[q] = batch[q],
             Elements(batch[s]) \subseteq Elements(batch'[s]) \cup Elements(more)
      PROVE  \A q \in Sessions : Has(q) \subseteq Has(q)'
  BY <1>5, AddsElements DEF Has
<1>6. ASSUME NEW s \in Sessions, Send(s) PROVE QuitIsBehind'
  <2>1. <<items + 1>> \in Texts
    BY <1>6, TextFacts, BoundsAreNaturals DEF Send, TypeOK
  <2>2. \A q \in Sessions : Has(q) \subseteq Has(q)'
    BY <1>5, <1>6, <2>1 DEF Send
  <2> QED BY <1>1, <1>6, <2>2 DEF Send
<1>7. ASSUME NEW s \in Sessions, ApplyBatch(s) PROVE QuitIsBehind'
  <2>1. batch[s] \in Texts /\ Adds(s, batch[s]) /\ \A q \in Sessions : q # s => batch'[q] = batch[q]
    BY <1>7 DEF ApplyBatch, TypeOK
  <2>2. \A q \in Sessions : Has(q) \subseteq Has(q)'
    BY <1>5, <2>1
  <2> QED BY <1>1, <1>7, <2>2 DEF ApplyBatch
<1>8. CASE HandleDelta
  <2>1. chain # <<>> /\ Head(chain) = chain[1] /\ chain[1].kind = "delta" /\ Head(chain) \in Events
    BY <1>8, HeadFacts DEF HandleDelta, Kinds
  <2>2. chain[1].session \in Sessions /\ chain[1].id \in 0 .. MaxItems
    BY <2>1, BoundsAreNaturals DEF Events
  <2>3. /\ batch' = [batch EXCEPT ![chain[1].session] = Append(@, chain[1].id)]
        /\ chain' = Tail(chain) /\ quit' = quit /\ before' = before /\ applied' = applied
    BY <1>8, <2>1 DEF HandleDelta
  <2>4. Elements(Append(batch[chain[1].session], chain[1].id))
          = Elements(batch[chain[1].session]) \cup {chain[1].id}
    <3>1. batch[chain[1].session] \in Texts
      BY <2>2 DEF TypeOK
    <3> QED BY <2>2, <3>1, AppendElements
  <2>5. ASSUME NEW s \in Sessions
        PROVE  Has(s) \subseteq Has(s)' /\ (chain[1].session = s => chain[1].id \in Has(s)')
    <3>1. CASE s = chain[1].session
      <4>1. batch'[s] = Append(batch[s], chain[1].id)
        BY <2>3, <3>1 DEF TypeOK
      <4> QED BY <2>3, <2>4, <3>1, <4>1 DEF Has
    <3>2. CASE s # chain[1].session
      BY <2>3, <3>2 DEF Has, TypeOK
    <3> QED BY <3>1, <3>2
  <2> QED BY <2>1, <2>3, <2>5, BehindMoves
<1>9. CASE HandleNote
  <2>1. chain # <<>> /\ Head(chain) = chain[1] /\ chain[1].kind = "note" /\ Head(chain) \in Events
    BY <1>9, HeadFacts DEF HandleNote, Kinds
  <2>2. PICK s \in Sessions, more \in Texts :
          s = chain[1].session /\ more = <<chain[1].id>> /\ chain[1].id \in 0 .. MaxItems
    <3>1. chain[1].session \in Sessions /\ chain[1].id \in 1 .. MaxItems
      BY <2>1 DEF Events
    <3>2. <<chain[1].id>> \in Texts /\ chain[1].id \in 0 .. MaxItems
      BY <3>1, TextFacts, BoundsAreNaturals
    <3> QED BY <3>1, <3>2
  <2>3. /\ Adds(s, more) /\ batch' = batch /\ chain' = Tail(chain)
        /\ quit' = quit /\ before' = before
    BY <1>9, <2>1, <2>2 DEF HandleNote
  <2>4. \A q \in Sessions : Has(q) \subseteq Has(q)'
    BY <1>5, <2>3
  <2>5. Elements(more) = {chain[1].id}
    BY <2>2, AppendElements
  <2>6. chain[1].id \in Has(s)'
    <3>1. Elements(applied'[s]) = Elements(applied[s]) \cup Elements(more)
      BY <2>3, AddsElements
    <3> QED BY <2>5, <3>1 DEF Has
  <2> QED BY <2>1, <2>2, <2>3, <2>4, <2>6, BehindMoves
<1>18. CASE HandleNotice
  <2>1. chain # <<>> /\ Head(chain) = chain[1] /\ chain[1].kind = "notice" /\ Head(chain) \in Events
    BY <1>18, HeadFacts DEF HandleNotice, Kinds
  <2>2. PICK s \in Sessions, more \in Texts :
          s = chain[1].session /\ more = <<chain[1].id>> /\ chain[1].id \in 0 .. MaxItems
    <3>1. chain[1].session \in Sessions /\ chain[1].id \in 1 .. MaxItems
      BY <2>1 DEF Events
    <3>2. <<chain[1].id>> \in Texts /\ chain[1].id \in 0 .. MaxItems
      BY <3>1, TextFacts, BoundsAreNaturals
    <3> QED BY <3>1, <3>2
  <2>3. /\ Adds(s, more) /\ batch' = batch /\ chain' = Tail(chain)
        /\ quit' = quit /\ before' = before
    BY <1>18, <2>1, <2>2 DEF HandleNotice
  <2>4. \A q \in Sessions : Has(q) \subseteq Has(q)'
    BY <1>5, <2>3
  <2>5. Elements(more) = {chain[1].id}
    BY <2>2, AppendElements
  <2>6. chain[1].id \in Has(s)'
    <3>1. Elements(applied'[s]) = Elements(applied[s]) \cup Elements(more)
      BY <2>3, AddsElements
    <3> QED BY <2>5, <3>1 DEF Has
  <2> QED BY <2>1, <2>2, <2>3, <2>4, <2>6, BehindMoves
<1>10. CASE HandleEnd
  <2>1. PICK s \in Sessions, more \in Texts : s = Head(chain).session /\ more = <<Head(chain).id>>
    BY <1>10, HeadFacts, TextFacts DEF HandleEnd, Events, Kinds
  <2>2. Adds(s, more) /\ UNCHANGED <<chain, quit, before, batch>>
    BY <1>10, <2>1 DEF HandleEnd
  <2>3. \A q \in Sessions : Has(q) \subseteq Has(q)'
    BY <1>5, <2>2
  <2> QED BY <1>1, <2>2, <2>3
<1>11. CASE FlushEnds
  <2>1. chain # <<>> /\ chain[1].kind = "flush"
    BY <1>11, HeadFacts DEF FlushEnds
  <2> QED BY <1>2, <1>11, <2>1, BehindMoves DEF FlushEnds, IsEvent, Kinds
<1>12. CASE QuitCollects
  <2>1. /\ chain # <<>> /\ chain[1].kind = "quit" /\ chain' = Tail(chain)
    BY <1>12, HeadFacts DEF QuitCollects
  <2>2. /\ Len(chain) \in Nat \ {0} /\ Len(chain') = Len(chain) - 1
        /\ \A i \in 1 .. Len(chain') : chain'[i] = chain[i + 1]
    BY <2>1, TailFacts
  <2>3. ASSUME NEW j \in 1 .. Len(chain') PROVE chain'[j].kind # "quit"
    <3>1. /\ j + 1 \in 1 .. Len(chain) /\ 1 \in 1 .. Len(chain) /\ j + 1 # 1
          /\ chain'[j] = chain[j + 1]
      BY <2>2
    <3> QED BY <2>1, <3>1 DEF QuitIsBehind
  <2> QED BY <2>3 DEF QuitIsBehind
<1>13. ASSUME NEW s \in Sessions, WriteLands(s) \/ WriteFails(s) PROVE QuitIsBehind'
  <2>1. WriteEnds(s) /\ quit' \in {quit, "cut"} /\ before' = before /\ UNCHANGED <<applied, batch>>
    BY <1>13 DEF WriteLands, WriteFails, WriteEnds
  <2>2. \A q \in Sessions : Has(q) \subseteq Has(q)'
    BY <1>2, <2>1
  <2>3. CASE chain' = chain
    BY <1>1, <2>1, <2>2, <2>3
  <2>4. CASE awaiting = s /\ chain # <<>> /\ chain' = Tail(chain)
    <3>1. chain[1].kind = "end" /\ chain[1].session = s /\ chain[1].id \in Elements(applied'[s])
      BY <2>1, <2>4, NoneIsNothing DEF AwaitsEnd, AwaitsAdded
    <3> QED BY <2>1, <2>2, <2>4, <3>1, BehindMoves DEF Has
  <2> QED BY <2>1, <2>3, <2>4, WriteEndsTyped
<1>14. ASSUME NEW s \in Sessions, Rejected(s) \/ TimerFires(s) \/ LoadReads(s) \/ LoadEnds(s)
                                \/ Evict(s)
       PROVE  QuitIsBehind'
  BY <1>1, <1>2, <1>14 DEF Rejected, TimerFires, LoadReads, LoadEnds, Evict
<1>15. CASE QuitStarts
  <2>1. quit = "no" /\ chain' = Append(chain, [kind |-> "quit"]) /\ quit' = "flushing"
        /\ UNCHANGED <<applied, batch>>
    BY <1>15 DEF QuitStarts
  <2>2. /\ Len(chain) \in Nat /\ Len(chain') = Len(chain) + 1
        /\ \A i \in 1 .. Len(chain) : chain'[i] = chain[i]
    BY <2>1, WorkFacts, AppendFacts
  <2>3. \A i \in 1 .. Len(chain) : chain'[i].kind # "quit"
    BY <2>1, <2>2 DEF QuitIsBehind
  <2>4. ASSUME NEW s \in Sessions, NEW j \in Nat, j = Len(chain) + 1
        PROVE  before'[s] \subseteq Has(s)' \cup Ahead(s, j)'
    <3>1. before'[s] = Elements(applied[s]) \cup Elements(batch[s])
            \cup {chain[i].id : i \in {k \in 1 .. Len(chain) :
                    chain[k].kind \in Kinds /\ chain[k].session = s}}
      BY <1>15 DEF QuitStarts
    <3>2. ASSUME NEW k \in 1 .. Len(chain), IsEvent(chain[k]), chain[k].session = s
          PROVE  chain[k].id \in Ahead(s, j)'
      <4>1. k \in 1 .. j - 1 /\ chain'[k] = chain[k]
        BY <2>2, <2>4
      <4> QED BY <3>2, <4>1 DEF Ahead
    <3> QED BY <2>1, <3>1, <3>2 DEF Has, IsEvent
  <2>5. ASSUME NEW j \in 1 .. Len(chain'), chain'[j].kind = "quit" PROVE j = Len(chain) + 1
    BY <2>2, <2>3, <2>5
  <2>6. ASSUME NEW j \in 1 .. Len(chain'), chain'[j].kind = "quit", NEW s \in Sessions
        PROVE  before'[s] \subseteq Has(s)' \cup Ahead(s, j)'
    BY <2>4, <2>5, <2>6
  <2> QED BY <2>1, <2>5, <2>6 DEF QuitIsBehind
<1>16. CASE QuitEnds
  <2>1. \A j \in 1 .. Len(chain) : chain[j].kind # "quit"
    BY <1>16 DEF QuitEnds, QuitIsBehind
  <2> QED BY <1>16, <2>1 DEF QuitEnds, QuitIsBehind
<1>17. CASE QuitTimesOut \/ UNCHANGED vars
  BY <1>1, <1>2, <1>17 DEF QuitTimesOut, vars
<1> QED BY <1>3, <1>4, <1>6, <1>7, <1>8, <1>9, <1>10, <1>11, <1>12, <1>13, <1>14, <1>15, <1>16,
           <1>17, <1>18 DEF Next, ChainStep

LEMMA StepAdded ==
  TypeOK /\ AwaitsEnd /\ AwaitsAdded /\ [Next]_vars => AwaitsAdded'
<1> SUFFICES ASSUME TypeOK, AwaitsEnd, AwaitsAdded, [Next]_vars, awaiting' # None
             PROVE  chain'[1].session = awaiting' /\ chain'[1].id \in Elements(applied'[awaiting'])
  BY DEF AwaitsAdded
<1> DEFINE Goal == chain'[1].session = awaiting' /\ chain'[1].id \in Elements(applied'[awaiting'])
<1> USE DEF runtime, batcher, memory, disk, quitting, histories
<1>1. ASSUME awaiting' = awaiting, chain' = chain \/ \E e \in Works : chain' = Append(chain, e),
             \A s \in Sessions : Elements(applied[s]) \subseteq Elements(applied'[s])
      PROVE  Goal
  <2>1. chain # <<>> /\ awaiting \in Sessions /\ 1 \in 1 .. Len(chain)
    BY <1>1, EmptySeq DEF AwaitsEnd, TypeOK
  <2>2. chain'[1] = chain[1]
    BY <1>1, <2>1, AppendFacts
  <2> QED BY <1>1, <2>1, <2>2 DEF AwaitsAdded
<1>2. ASSUME NEW s \in Sessions, NEW kind \in Kinds, Emit(s, kind) PROVE Goal
  <2>1. [kind |-> kind, session |-> s, id |-> items + 1] \in Works
    BY <1>2, BoundsAreNaturals DEF Emit, Works, Events, TypeOK
  <2> QED BY <1>1, <1>2, <2>1 DEF Emit
<1>3. CASE Tick \/ QuitStarts
  BY <1>1, <1>3, WorkFacts DEF Tick, QuitStarts
<1>4. ASSUME NEW s \in Sessions, Send(s) PROVE Goal
  <2>1. <<items + 1>> \in Texts
    BY <1>4, TextFacts, BoundsAreNaturals DEF Send, TypeOK
  <2>2. \A q \in Sessions : Elements(applied[q]) \subseteq Elements(applied'[q])
    BY <1>4, <2>1, AddsElements DEF Send
  <2> QED BY <1>1, <1>4, <2>2 DEF Send
<1>5. ASSUME NEW s \in Sessions, ApplyBatch(s) PROVE Goal
  <2>1. batch[s] \in Texts /\ Adds(s, batch[s])
    BY <1>5 DEF ApplyBatch, TypeOK
  <2>2. \A q \in Sessions : Elements(applied[q]) \subseteq Elements(applied'[q])
    BY <2>1, AddsElements
  <2> QED BY <1>1, <1>5, <2>2 DEF ApplyBatch
<1>6. ~(HandleDelta \/ HandleNote \/ HandleNotice \/ FlushEnds \/ QuitCollects)
  BY DEF HandleDelta, HandleNote, HandleNotice, FlushEnds, QuitCollects, Under
<1>7. CASE HandleEnd
  <2>1. PICK s \in Sessions, more \in Texts :
          s = chain[1].session /\ more = <<chain[1].id>> /\ chain[1].id \in 0 .. MaxItems
            /\ Head(chain) = chain[1]
    <3>1. chain[1].session \in Sessions /\ chain[1].id \in 1 .. MaxItems /\ Head(chain) = chain[1]
      BY <1>7, HeadFacts DEF HandleEnd, Events, Kinds
    <3>2. <<chain[1].id>> \in Texts /\ chain[1].id \in 0 .. MaxItems
      BY <3>1, TextFacts, BoundsAreNaturals
    <3> QED BY <3>1, <3>2
  <2>2. Adds(s, more) /\ chain' = chain /\ awaiting' = s
    BY <1>7, <2>1 DEF HandleEnd
  <2>3. Elements(applied'[s]) = Elements(applied[s]) \cup Elements(more)
    BY <2>2, AddsElements
  <2>4. Elements(more) = {chain[1].id}
    BY <2>1, AppendElements
  <2> QED BY <2>1, <2>2, <2>3, <2>4
<1>8. ASSUME NEW s \in Sessions, WriteEnds(s) PROVE Goal
  <2>1. awaiting' = awaiting /\ chain' = chain /\ applied' = applied
    BY <1>8, WriteEndsTyped DEF WriteEnds
  <2> QED BY <1>1, <2>1
<1>9. ASSUME NEW s \in Sessions, Rejected(s) \/ TimerFires(s) \/ LoadReads(s) \/ LoadEnds(s)
                               \/ Evict(s)
      PROVE  Goal
  BY <1>1, <1>9 DEF Rejected, TimerFires, LoadReads, LoadEnds, Evict
<1>10. CASE QuitEnds \/ QuitTimesOut \/ UNCHANGED vars
  BY <1>1, <1>10 DEF QuitEnds, QuitTimesOut, vars
<1> QED BY <1>2, <1>3, <1>4, <1>5, <1>6, <1>7, <1>8, <1>9, <1>10
        DEF Next, ChainStep, WriteLands, WriteFails

LEMMA StepCollected ==
  TypeOK /\ QuitIsBehind /\ Collected /\ [Next]_vars => Collected'
<1> SUFFICES ASSUME TypeOK, QuitIsBehind, Collected, [Next]_vars, quit' \in {"waiting", "exited"},
                    NEW q \in Sessions
             PROVE  before'[q] \subseteq Elements(applied'[q])
  BY DEF Collected
<1> USE DEF runtime, batcher, memory, disk, quitting, histories
<1>1. ASSUME quit \in {"waiting", "exited"}, before' = before,
             \A s \in Sessions : Elements(applied[s]) \subseteq Elements(applied'[s])
      PROVE  before'[q] \subseteq Elements(applied'[q])
  BY <1>1 DEF Collected
<1>2. ASSUME NEW s \in Sessions, NEW kind, Emit(s, kind)
      PROVE  before'[q] \subseteq Elements(applied'[q])
  BY <1>1, <1>2 DEF Emit
<1>3. ASSUME NEW s \in Sessions, NEW more \in Texts, Adds(s, more), quit' = quit, before' = before
      PROVE  before'[q] \subseteq Elements(applied'[q])
  BY <1>1, <1>3, AddsElements
<1>4. ASSUME NEW s \in Sessions, Send(s)
      PROVE  before'[q] \subseteq Elements(applied'[q])
  <2>1. <<items + 1>> \in Texts
    BY <1>4, TextFacts, BoundsAreNaturals DEF Send, TypeOK
  <2> QED BY <1>3, <1>4, <2>1 DEF Send
<1>5. ASSUME NEW s \in Sessions, ApplyBatch(s)
      PROVE  before'[q] \subseteq Elements(applied'[q])
  <2>1. batch[s] \in Texts
    BY DEF TypeOK
  <2> QED BY <1>3, <1>5, <2>1 DEF ApplyBatch
<1>6. CASE HandleNote \/ HandleNotice
  <2>1. Head(chain).session \in Sessions /\ <<Head(chain).id>> \in Texts
    BY <1>6, HeadFacts, TextFacts DEF HandleNote, HandleNotice, Events, Kinds
  <2> QED BY <1>3, <1>6, <2>1 DEF HandleNote, HandleNotice
<1>7. CASE HandleEnd
  <2>1. Head(chain).session \in Sessions /\ <<Head(chain).id>> \in Texts
    BY <1>7, HeadFacts, TextFacts DEF HandleEnd, Events, Kinds
  <2> QED BY <1>3, <1>7, <2>1 DEF HandleEnd
<1>8. CASE QuitCollects
  <2>1. 1 \in 1 .. Len(chain) /\ chain[1].kind = "quit"
    BY <1>8, HeadFacts DEF QuitCollects
  <2>2. before[q] \subseteq Has(q) \cup Ahead(q, 1)
    BY <2>1 DEF QuitIsBehind
  <2>3. Ahead(q, 1) = {}
    BY DEF Ahead
  <2>4. Elements(batch[q]) = {}
    BY <1>8, EmptySeq DEF QuitCollects, Pending, Elements
  <2>5. before'[q] \subseteq before[q] /\ applied' = applied
    BY <1>8 DEF QuitCollects
  <2> QED BY <2>2, <2>3, <2>4, <2>5 DEF Has
<1>9. ASSUME NEW s \in Sessions, WriteLands(s) \/ WriteFails(s)
      PROVE  before'[q] \subseteq Elements(applied'[q])
  BY <1>1, <1>9 DEF WriteLands, WriteFails, WriteEnds
<1>10. ASSUME NEW s \in Sessions, Rejected(s) \/ TimerFires(s) \/ LoadReads(s) \/ LoadEnds(s)
                                \/ Evict(s)
       PROVE  before'[q] \subseteq Elements(applied'[q])
  BY <1>1, <1>10 DEF Rejected, TimerFires, LoadReads, LoadEnds, Evict
<1>11. CASE Tick \/ HandleDelta \/ FlushEnds
  BY <1>1, <1>11 DEF Tick, HandleDelta, FlushEnds
<1>12. ~QuitStarts /\ ~QuitTimesOut
  BY DEF QuitStarts, QuitTimesOut
<1>13. CASE QuitEnds \/ UNCHANGED vars
  BY <1>1, <1>13 DEF QuitEnds, vars
<1> QED BY <1>2, <1>4, <1>5, <1>6, <1>7, <1>8, <1>9, <1>10, <1>11, <1>12, <1>13
        DEF Next, ChainStep

(* Once the quit has collected: of a session whose write it asks for, that *)
(* write and those behind it hold what is to be kept and is not gone, and  *)
(* the file does when the write is done; of another session, the last      *)
(* write does, or the file if none is left and the last did not fail.      *)
Secured(s) ==
  /\ s \in asked =>
       /\ owed[s] <= Len(writes[s])
       /\ \A i \in 1 .. Len(writes[s]) : i >= owed[s] => before[s] \subseteq writes[s][i] \cup gone[s]
       /\ owed[s] = 0 => before[s] \subseteq file[s] \cup gone[s]
  /\ s \notin asked =>
       /\ writes[s] # <<>> => before[s] \subseteq writes[s][Len(writes[s])] \cup gone[s]
       /\ writes[s] = <<>> /\ s \notin failed => before[s] \subseteq file[s] \cup gone[s]

AllSecured ==
  quit \in {"waiting", "exited"} => \A s \in Sessions \ torn : Secured(s)

(* A write that is queued behind the others holds what is to be kept. *)
LEMMA AppendedIsSecured ==
  ASSUME TypeOK, NEW s \in Sessions, NEW t \in Rows, Secured(s), before[s] \subseteq t \cup gone[s],
         writes'[s] = Append(writes[s], t),
         owed'[s] = owed[s], before' = before, asked' = asked, file' = file, gone' = gone
  PROVE  Secured(s)'
<1>1. writes[s] \in Seq(Rows) /\ owed[s] \in Nat
  BY DEF TypeOK
<1>2. /\ Len(writes[s]) \in Nat /\ Len(writes'[s]) = Len(writes[s]) + 1
      /\ \A i \in 1 .. Len(writes[s]) : writes'[s][i] = writes[s][i]
      /\ writes'[s][Len(writes[s]) + 1] = t /\ writes'[s] # <<>>
  BY <1>1, AppendProperties, LenProperties
<1>3. ASSUME s \in asked, NEW i \in 1 .. Len(writes'[s]), i >= owed[s]
      PROVE  before[s] \subseteq writes'[s][i] \cup gone[s]
  <2>1. CASE i = Len(writes[s]) + 1
    BY <1>2, <2>1
  <2>2. CASE i \in 1 .. Len(writes[s])
    <3>1. before[s] \subseteq writes[s][i] \cup gone[s]
      BY <1>3, <2>2 DEF Secured
    <3> QED BY <1>2, <2>2, <3>1
  <2> QED BY <1>2, <2>1, <2>2
<1>4. ASSUME s \in asked PROVE owed[s] <= Len(writes'[s])
  BY <1>1, <1>2, <1>4 DEF Secured
<1>5. before[s] \subseteq writes'[s][Len(writes'[s])] \cup gone[s]
  BY <1>2
<1>6. s \in asked /\ owed[s] = 0 => before[s] \subseteq file[s] \cup gone[s]
  BY DEF Secured
<1> QED BY <1>2, <1>3, <1>4, <1>5, <1>6 DEF Secured

(* A write that ends leaves the file or the writes behind it with that.   *)
LEMMA EndedIsSecured ==
  ASSUME TypeOK, NEW s \in Sessions, Secured(s), WriteLands(s) \/ WriteFails(s), quit' # "cut"
  PROVE  Secured(s)'
<1>1. /\ writes[s] \in Seq(Rows) /\ writes[s] # <<>> /\ writes'[s] = Tail(writes[s])
      /\ owed[s] \in Nat /\ owed'[s] = IF owed[s] = 0 THEN 0 ELSE owed[s] - 1
      /\ UNCHANGED <<asked, before, gone>>
  BY DEF WriteLands, WriteFails, WriteEnds, TypeOK
<1>2. /\ Len(writes[s]) \in Nat \ {0} /\ Len(writes'[s]) = Len(writes[s]) - 1
      /\ \A i \in 1 .. Len(writes'[s]) : writes'[s][i] = writes[s][i + 1]
      /\ Head(writes[s]) = writes[s][1] /\ writes'[s] \in Seq(Rows)
  BY <1>1, EmptySeq, HeadTailProperties, LenProperties
<1>3. \/ file'[s] = writes[s][1] /\ s \notin failed'
      \/ file'[s] = file[s] /\ s \in failed' /\ owed[s] # 1
  BY <1>2 DEF WriteLands, WriteFails, TypeOK
<1>4. ASSUME s \in asked
      PROVE  /\ owed'[s] <= Len(writes'[s])
             /\ \A i \in 1 .. Len(writes'[s]) :
                  i >= owed'[s] => before[s] \subseteq writes'[s][i] \cup gone[s]
             /\ owed'[s] = 0 => before[s] \subseteq file'[s] \cup gone[s]
  <2>1. /\ owed[s] <= Len(writes[s])
        /\ \A i \in 1 .. Len(writes[s]) : i >= owed[s] => before[s] \subseteq writes[s][i] \cup gone[s]
        /\ owed[s] = 0 => before[s] \subseteq file[s] \cup gone[s]
    BY <1>4 DEF Secured
  <2>2. owed'[s] <= Len(writes'[s])
    BY <1>1, <1>2, <2>1
  <2>3. ASSUME NEW i \in 1 .. Len(writes'[s]), i >= owed'[s]
        PROVE  before[s] \subseteq writes'[s][i] \cup gone[s]
    <3>1. i + 1 \in 1 .. Len(writes[s]) /\ i + 1 >= owed[s] /\ writes'[s][i] = writes[s][i + 1]
      BY <1>1, <1>2, <2>3
    <3>2. before[s] \subseteq writes[s][i + 1] \cup gone[s]
      BY <2>1, <3>1
    <3> QED BY <3>1, <3>2
  <2>4. ASSUME owed'[s] = 0 PROVE before[s] \subseteq file'[s] \cup gone[s]
    <3>1. owed[s] \in {0, 1} /\ 1 \in 1 .. Len(writes[s]) /\ 1 >= owed[s]
      BY <1>1, <1>2, <2>4
    <3>2. before[s] \subseteq writes[s][1] \cup gone[s]
      BY <2>1, <3>1
    <3> QED BY <1>3, <2>1, <3>1, <3>2
  <2> QED BY <2>2, <2>3, <2>4
<1>5. ASSUME s \notin asked
      PROVE  /\ writes'[s] # <<>> => before[s] \subseteq writes'[s][Len(writes'[s])] \cup gone[s]
             /\ writes'[s] = <<>> /\ s \notin failed' => before[s] \subseteq file'[s] \cup gone[s]
  <2>1. before[s] \subseteq writes[s][Len(writes[s])] \cup gone[s]
    BY <1>1, <1>5 DEF Secured
  <2>2. ASSUME writes'[s] # <<>>
        PROVE  before[s] \subseteq writes'[s][Len(writes'[s])] \cup gone[s]
    <3>1. Len(writes'[s]) \in Nat \ {0}
      BY <1>2, <2>2, EmptySeq
    <3>2. writes'[s][Len(writes'[s])] = writes[s][Len(writes[s])]
      <4>1. Len(writes'[s]) = Len(writes[s]) - 1 /\ Len(writes[s]) \in Nat
        BY <1>2
      <4>2. Len(writes'[s]) + 1 = Len(writes[s])
        BY <4>1
      <4>3. writes'[s][Len(writes'[s])] = writes[s][Len(writes'[s]) + 1]
        <5>1. Len(writes'[s]) \in 1 .. Len(writes'[s])
          BY <3>1
        <5>2. \A i \in 1 .. Len(writes'[s]) : writes'[s][i] = writes[s][i + 1]
          BY <1>2
        <5> QED BY <5>1, <5>2
      <4> QED BY <4>2, <4>3
    <3> QED BY <2>1, <3>2
  <2>3. ASSUME writes'[s] = <<>>, s \notin failed' PROVE before[s] \subseteq file'[s] \cup gone[s]
    <3>1. Len(writes'[s]) = 0
      BY <2>3, EmptySeq
    <3>2. Len(writes[s]) - 1 = 0
      BY <1>2, <3>1
    <3>3. Len(writes[s]) = 1
      BY <1>2, <3>2
    <3> QED BY <1>3, <2>1, <2>3, <3>3
  <2> QED BY <2>2, <2>3
<1> QED BY <1>1, <1>4, <1>5 DEF Secured

LEMMA StepSecured ==
  TypeOK /\ Stored /\ QuitIsBehind /\ Collected /\ AllSecured /\ [Next]_vars
    /\ TypeOK' /\ Stored' /\ Collected' => AllSecured'
<1> SUFFICES ASSUME TypeOK, Stored, QuitIsBehind, Collected, AllSecured, [Next]_vars,
                    TypeOK', Stored', Collected',
                    quit' \in {"waiting", "exited"}, NEW q \in Sessions \ torn'
             PROVE  Secured(q)'
  BY DEF AllSecured
<1> USE DEF runtime, batcher, memory, disk, quitting, histories
<1>0. q \in Sessions /\ Remembered(q) /\ Written(q)
  BY DEF Stored
<1>1. ASSUME quit' = quit, torn \subseteq torn'
      PROVE  Secured(q) /\ before[q] \subseteq Elements(applied[q])
  BY <1>1 DEF AllSecured, Collected
<1>2. ASSUME quit \in {"waiting", "exited"}, q \notin torn,
             UNCHANGED <<writes, file, owed, asked, before, failed>>, gone[q] \subseteq gone'[q]
      PROVE  Secured(q)'
  <2>1. Secured(q)
    BY <1>2 DEF AllSecured
  <2> QED BY <1>2, <2>1 DEF Secured
<1>3. ASSUME NEW s \in Sessions,
             (\E kind : Emit(s, kind)) \/ Send(s) \/ ApplyBatch(s) \/ LoadReads(s) \/ LoadEnds(s)
      PROVE  Secured(q)'
  BY <1>2, <1>3 DEF Emit, Send, ApplyBatch, LoadReads, LoadEnds, Adds
<1>10. ASSUME NEW s \in Sessions, Evict(s) PROVE Secured(q)'
  <2>1. gone[q] \subseteq gone'[q]
    BY <1>10 DEF Evict, TypeOK
  <2> QED BY <1>2, <1>10, <2>1 DEF Evict
<1>11. ASSUME NEW s \in Sessions, Rejected(s) PROVE Secured(q)'
  <2>1. PICK row \in SUBSET Kept(s) : gone' = [gone EXCEPT ![s] = @ \cup row]
    BY <1>11 DEF Rejected
  <2>2. gone[q] \subseteq gone'[q]
    BY <2>1 DEF TypeOK
  <2> QED BY <1>2, <1>11, <2>2 DEF Rejected
<1>4. CASE HandleDelta \/ HandleNote \/ HandleNotice \/ FlushEnds \/ Tick \/ QuitEnds
           \/ UNCHANGED vars
  BY <1>2, <1>4 DEF HandleDelta, HandleNote, HandleNotice, FlushEnds, Tick, QuitEnds, vars, Adds
<1>5. CASE HandleEnd
  <2>1. PICK s \in Sessions : s = Head(chain).session
    BY <1>5, HeadFacts DEF HandleEnd, Events, Kinds
  <2>2. /\ Adds(s, <<Head(chain).id>>)
        /\ writes' = [writes EXCEPT ![s] = Append(@, cache'[s])]
        /\ UNCHANGED <<quit, file, owed, asked, before, failed, gone, loaded>>
    BY <1>5, <2>1 DEF HandleEnd
  <2>3. q \notin torn /\ Secured(q)
    BY <1>1, <2>2 DEF Adds
  <2>4. CASE s = q
    <3>1. q \in loaded' => cache'[q] = Left(q)'
      BY DEF Stored, Remembered
    <3>2. q \in loaded' /\ cache'[q] # None
      BY <2>2, <2>4 DEF Adds, Stored, Remembered
    <3>3. cache'[q] \in Rows /\ before[q] \subseteq cache'[q] \cup gone[q]
      BY <2>2, <3>1, <3>2 DEF TypeOK, Collected, Left
    <3>4. writes'[q] = Append(writes[q], cache'[q])
      BY <2>2, <2>4 DEF TypeOK
    <3> QED BY <2>2, <2>3, <3>3, <3>4, AppendedIsSecured
  <2>5. CASE s # q
    <3>1. writes'[q] = writes[q]
      BY <2>2, <2>5 DEF TypeOK
    <3> QED BY <2>2, <2>3, <3>1 DEF Secured
  <2> QED BY <2>4, <2>5
<1>6. ASSUME NEW s \in Sessions, TimerFires(s) PROVE Secured(q)'
  <2>1. /\ writes' = [writes EXCEPT ![s] = Append(@, Kept(s))] /\ s \in timers
        /\ UNCHANGED <<quit, file, owed, asked, before, failed, torn, applied, gone>>
    BY <1>6 DEF TimerFires
  <2>2. Secured(q) /\ before[q] \subseteq Elements(applied[q])
    BY <1>1, <2>1
  <2>3. CASE s = q
    <3>1. Kept(q) = Left(q) /\ Kept(q) \in Rows
      BY <1>0, <2>1, <2>3, KeptIsLeft, KeptFacts
    <3>2. writes'[q] = Append(writes[q], Kept(q)) /\ before[q] \subseteq Kept(q) \cup gone[q]
      BY <2>1, <2>2, <2>3, <3>1 DEF TypeOK, Left
    <3> QED BY <2>1, <2>2, <3>1, <3>2, AppendedIsSecured
  <2>4. CASE s # q
    <3>1. writes'[q] = writes[q]
      BY <2>1, <2>4 DEF TypeOK
    <3> QED BY <2>1, <2>2, <3>1 DEF Secured
  <2> QED BY <2>3, <2>4
<1>7. ASSUME NEW s \in Sessions, WriteLands(s) \/ WriteFails(s) PROVE Secured(q)'
  <2>1. quit' = quit /\ torn' = torn
    BY <1>7 DEF WriteLands, WriteFails, WriteEnds
  <2>2. Secured(q)
    BY <1>1, <2>1
  <2>3. CASE s = q
    BY <1>7, <2>2, <2>3, EndedIsSecured
  <2>4. CASE s # q
    <3>1. /\ writes'[q] = writes[q] /\ owed'[q] = owed[q] /\ file'[q] = file[q]
          /\ (q \in failed' <=> q \in failed) /\ before' = before /\ asked' = asked
          /\ gone' = gone
      BY <1>7, <2>4 DEF WriteLands, WriteFails, WriteEnds, TypeOK
    <3> QED BY <2>2, <3>1 DEF Secured
  <2> QED BY <2>3, <2>4
<1>8. CASE QuitCollects
  <2>1. /\ writes' = [s \in Sessions |->
             IF s \in timers THEN Append(writes[s], Kept(s)) ELSE writes[s]]
        /\ owed' = [s \in Sessions |-> IF s \in timers THEN Len(writes'[s]) ELSE 0]
        /\ before' = [s \in Sessions |-> before[s] \ quiet[s]]
        /\ asked' = timers /\ UNCHANGED <<file, failed, torn, applied, gone, quiet>>
    BY <1>8 DEF QuitCollects
  <2>2. before'[q] \subseteq (Left(q) \ quiet[q]) \cup gone[q]
    BY <2>1 DEF Collected, Left
  <2>3. CASE q \in timers
    <3>1. /\ writes'[q] = Append(writes[q], Kept(q)) /\ Kept(q) = Left(q) /\ quiet[q] = {}
          /\ writes[q] \in Seq(Rows) /\ Kept(q) \in Rows
      BY <1>0, <2>1, <2>3, KeptIsLeft, KeptFacts DEF TypeOK
    <3>2. /\ Len(writes'[q]) = Len(writes[q]) + 1 /\ Len(writes[q]) \in Nat
          /\ writes'[q][Len(writes[q]) + 1] = Kept(q)
      BY <3>1, AppendProperties, LenProperties
    <3>3. owed'[q] = Len(writes'[q]) /\ q \in asked'
      BY <2>1, <2>3
    <3>4. \A i \in 1 .. Len(writes'[q]) : i >= owed'[q] => i = Len(writes[q]) + 1
      BY <3>2, <3>3
    <3>5. owed'[q] # 0 /\ owed'[q] <= Len(writes'[q])
      BY <3>2, <3>3
    <3>6. before'[q] \subseteq Kept(q) \cup gone'[q]
      BY <2>1, <2>2, <3>1
    <3> QED BY <3>2, <3>3, <3>4, <3>5, <3>6 DEF Secured
  <2>4. CASE q \notin timers
    <3>1. writes'[q] = writes[q] /\ q \notin asked' /\ q \notin torn
      BY <2>1, <2>4
    <3> QED BY <1>0, <2>1, <2>2, <2>4, <3>1 DEF Written, Secured
  <2> QED BY <2>3, <2>4
<1>9. ~QuitStarts /\ ~QuitTimesOut
  BY DEF QuitStarts, QuitTimesOut
<1> QED BY <1>3, <1>4, <1>5, <1>6, <1>7, <1>8, <1>9, <1>10, <1>11 DEF Next, ChainStep

(* The app has exited: no write is owed. *)
Settled == quit = "exited" => \A s \in Sessions : owed[s] = 0

LEMMA StepSettled == TypeOK /\ Settled /\ [Next]_vars => Settled'
<1> SUFFICES ASSUME TypeOK, Settled, [Next]_vars, quit' = "exited", NEW q \in Sessions
             PROVE  owed'[q] = 0
  BY DEF Settled
<1> USE DEF runtime, batcher, memory, disk, quitting, histories
<1>1. CASE QuitEnds
  BY <1>1 DEF QuitEnds
<1>2. ASSUME Runs, quit' = quit PROVE FALSE
  BY <1>2 DEF Runs
<1>3. ASSUME NEW s \in Sessions,
             (\E kind : Emit(s, kind)) \/ Send(s) \/ Rejected(s) \/ ApplyBatch(s) \/ TimerFires(s)
               \/ LoadReads(s) \/ LoadEnds(s) \/ Evict(s)
      PROVE  FALSE
  BY <1>2, <1>3 DEF Emit, Send, Rejected, ApplyBatch, TimerFires, LoadReads, LoadEnds, Evict, Under
<1>4. ASSUME NEW s \in Sessions, WriteLands(s) \/ WriteFails(s) PROVE FALSE
  BY <1>2, <1>4 DEF WriteLands, WriteFails, WriteEnds
<1>5. ASSUME HandleDelta \/ HandleNote \/ HandleNotice \/ HandleEnd \/ FlushEnds \/ Tick
      PROVE  FALSE
  BY <1>2, <1>5 DEF HandleDelta, HandleNote, HandleNotice, HandleEnd, FlushEnds, Tick, Under
<1>6. ~QuitCollects /\ ~QuitStarts /\ ~QuitTimesOut
  BY DEF QuitCollects, QuitStarts, QuitTimesOut
<1>7. CASE UNCHANGED vars
  BY <1>7 DEF vars, Settled
<1> QED BY <1>1, <1>3, <1>4, <1>5, <1>6, <1>7 DEF Next, ChainStep

Ready == AwaitsAdded /\ QuitIsBehind /\ Collected /\ Settled

LEMMA QuitIsReady == Spec => []Ready
<1>1. Init => Ready
  BY DEF Init, Ready, AwaitsAdded, QuitIsBehind, Collected, Settled
<1>2. TypeOK /\ AwaitsEnd /\ Ready /\ [Next]_vars => Ready'
  BY StepBehind, StepAdded, StepCollected, StepSettled DEF Ready
<1> QED BY <1>1, <1>2, TypeCorrect, PTL DEF Spec

(* A quit that comes to its end has left on disk what the app held when it *)
(* began, less what is taken back and the notices nothing took to the      *)
(* file, but for the sessions of which it awaited no write.                *)
THEOREM QuitsKeep == Spec => []QuitKeeps
<1>1. Init => AllSecured
  BY DEF Init, AllSecured
<1>2. TypeOK /\ Stored /\ Ready /\ AllSecured /\ [Next]_vars /\ TypeOK' /\ Stored' /\ Ready'
        => AllSecured'
  BY StepSecured DEF Ready
<1>3. AllSecured /\ Ready => QuitKeeps
  BY DEF AllSecured, Secured, Ready, Settled, QuitKeeps
<1> QED BY <1>1, <1>2, <1>3, TypeCorrect, AllIsStored, QuitIsReady, PTL DEF Spec
==============================================================================
