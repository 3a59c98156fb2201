------------------------- MODULE SessionRuntimeProofs -------------------------
(***************************************************************************)
(* Theorems about SessionRuntime, for any callers and bounds.              *)
(***************************************************************************)
EXTENDS SessionRuntime, TLAPS

LEMMA NoCallTyped == NoCall \in Call /\ NoCall.at = "returned" /\ NoCall.op = "open"
BY DEF NoCall, Call, Operations, Points, Entry, Status

LEMMA ReconciledTyped ==
  ASSUME NEW rec \in Record
  PROVE  /\ Reconciled(rec) \in Record
         /\ Snapshot(rec) \in Entry
         /\ Snapshot(Reconciled(rec)) \in Entry
         /\ Reconciled(rec).runtime = rec.runtime
         /\ Reconciled(rec).agent = rec.agent
         /\ Reconciled(rec).present = rec.present
         /\ Reconciled(rec).closed = rec.closed
<1>1. Reconciled(rec) \in {[rec EXCEPT !.status = "running", !.run = TRUE],
                           [rec EXCEPT !.status = "idle", !.run = FALSE], rec}
  BY DEF Reconciled
<1>2. Reconciled(rec) \in Record
  BY <1>1 DEF Record, Status
<1>3. \A any \in Record : Snapshot(any) \in Entry
  BY DEF Record, Snapshot, Entry
<1>4. QED
  BY <1>1, <1>2, <1>3 DEF Record

(* What a call that goes on, returns or begins leaves of the calls. *)
LEMMA MovesTyped ==
  ASSUME call \in [Callers -> Call], NEW c \in Callers, NEW point \in Points, Moves(c, point)
  PROVE  /\ call' \in [Callers -> Call]
         /\ \A d \in Callers : call'[d].op = call[d].op
         /\ call'[c].at = point
         /\ \A d \in Callers \ {c} : call'[d] = call[d]
BY DEF Moves, Call

LEMMA ReturnsTyped ==
  ASSUME call \in [Callers -> Call], NEW c \in Callers, Returns(c)
  PROVE  /\ call' \in [Callers -> Call]
         /\ call'[c] = NoCall
         /\ \A d \in Callers \ {c} : call'[d] = call[d]
BY NoCallTyped DEF Returns

(* closeSession awaits the abort of the session's run. *)
Closing(c) == call[c].op = "close" /\ At(c, "aborting")

(* No closeSession begins, and none goes on from there. *)
KeepsCloses ==
  \A c \in Callers : /\ call'[c].op = "close" => call[c].op = "close"
                     /\ Closing(c) => Closing(c)'

LEMMA ReleasesTyped ==
  ASSUME call \in [Callers -> Call], pendingOpen \in Callers \cup {Nobody},
         NEW c \in Callers, NEW point \in {"ensured", "returned"}, Releases(c, point)
  PROVE  /\ call' \in [Callers -> Call]
         /\ pendingOpen' \in Callers \cup {Nobody}
         /\ \A d \in Callers : call'[d].op \in {call[d].op, "open"}
         /\ \A d \in Callers : call'[d] = call[d] \/ call'[d].at = point
         /\ call'[c].at = point
         /\ pendingOpen' = pendingOpen \/ (pendingOpen = c /\ pendingOpen' = Nobody)
         /\ ~At(c, "aborting") => KeepsCloses
<1>1. ASSUME NEW d \in Callers
      PROVE  /\ call'[d] \in Call
             /\ call'[d].op \in {call[d].op, "open"}
             /\ call'[d] = call[d] \/ call'[d].at = point
             /\ d = c => call'[d].at = point
             /\ call'[d] = call[d] \/ d = c \/ At(d, "waiting")
  <2>1. call[d] \in Call
    OBVIOUS
  <2>2. [call[d] EXCEPT !.at = point] \in Call
    BY <2>1 DEF Call, Points
  <2>3. CASE d = c \/ (pendingOpen = c /\ At(d, "waiting"))
    <3>1. call'[d] = IF point = "returned" THEN NoCall ELSE [call[d] EXCEPT !.at = point]
      BY <2>3 DEF Releases
    <3>2. CASE point = "returned"
      BY <2>3, <3>1, <3>2, NoCallTyped
    <3>3. CASE point # "returned"
      BY <2>1, <2>2, <2>3, <3>1, <3>3 DEF Call
    <3>4. QED
      BY <3>2, <3>3
  <2>4. CASE ~(d = c \/ (pendingOpen = c /\ At(d, "waiting")))
    BY <2>1, <2>4 DEF Releases
  <2>5. QED
    BY <2>3, <2>4
<1>2. ~At(c, "aborting") => KeepsCloses
  BY <1>1 DEF KeepsCloses, Closing, At
<1>3. QED
  BY <1>1, <1>2 DEF Releases

------------------------------------------------------------------------------
(* closeSession marks the record closed, awaits the abort of its run, and  *)
(* disposes of whatever runtime the record holds by then: a call that opens*)
(* the session meanwhile finds nothing resident, and puts a second runtime *)
(* over the first.  So whoever closes the session must be the only one to  *)
(* open it.                                                                *)
Opens == {"open", "send", "queue", "command"}

ClosersOpenAlone ==
  \A c \in Callers : "close" \in Offered[c] =>
    \A d \in Callers \ {c} : Offered[d] \cap Opens = {}

(* A call is opening the session only while it is the one whose promise is *)
(* pending and nothing is resident; a closed record holds a runtime only   *)
(* until the call that closes it has aborted its run.                      *)
Opening ==
  /\ record.runtime # None => record.present
  /\ record.closed => \E c \in Callers : "close" \in Offered[c]
  /\ record.closed /\ record.runtime # None => \E c \in Callers : Closing(c)
  /\ \A c \in Callers : call[c].op = "close" => "close" \in Offered[c]
  /\ \A c \in Callers : call[c].at \in {"reading", "creating"} =>
       pendingOpen = c /\ record.runtime = None

IInv ==
  /\ TypeOK
  /\ ClosersOpenAlone => Opening /\ NoRuntimeLeaks

LEMMA InitInv == Init => IInv
<1> SUFFICES ASSUME Init PROVE IInv
  OBVIOUS
<1>1. record \in Record
  BY DEF Init, Record, Status
<1>2. runtimes \in [Runtimes -> Runtime]
  BY DEF Init, Runtime
<1>3. call \in [Callers -> Call]
  BY NoCallTyped DEF Init
<1>4. TypeOK
  BY <1>1, <1>2, <1>3 DEF Init, TypeOK
<1>5. Opening
  BY NoCallTyped DEF Init, Opening
<1>6. NoRuntimeLeaks
  BY DEF Init, NoRuntimeLeaks
<1>7. QED
  BY <1>4, <1>5, <1>6 DEF IInv

(* Most steps leave the runtimes' phases, and what the record holds, as    *)
(* they are, and let no call begin to open the session.                    *)
LEMMA KeepsInv ==
  ASSUME IInv, TypeOK',
         record'.runtime = record.runtime, record'.agent = record.agent,
         record'.present = record.present, record'.closed = record.closed,
         \A r \in Runtimes : runtimes'[r].phase = "live" => runtimes[r].phase = "live",
         KeepsCloses,
         \A c \in Callers : call'[c].at \in {"reading", "creating"} =>
           call[c].at \in {"reading", "creating"} /\ pendingOpen' = pendingOpen
  PROVE  IInv'
<1> SUFFICES ASSUME ClosersOpenAlone
             PROVE  Opening' /\ NoRuntimeLeaks'
  BY DEF IInv, ClosersOpenAlone
<1>1. Opening /\ NoRuntimeLeaks
  BY DEF IInv
<1>2. Opening'
  BY <1>1 DEF Opening, KeepsCloses
<1>3. NoRuntimeLeaks'
  BY <1>1 DEF NoRuntimeLeaks
<1>4. QED
  BY <1>2, <1>3

------------------------------------------------------------------------------
(* One lemma for each part of the record's life.                           *)

LEMMA EnsureInv ==
  ASSUME IInv, NEW c \in Callers, NEW op, Ensure(c, op)
  PROVE  IInv'
<1>a. record \in Record /\ entry \in Entry /\ call \in [Callers -> Call] /\ calls' \in Nat
      /\ op \in Operations /\ op # "close" /\ op \in Offered[c] \cap Opens /\ ~Closing(c)
  BY DEF IInv, TypeOK, Ensure, Starts, Operations, Opens, Closing, At
<1>b. ASSUME NEW point \in Points
      PROVE  [NoCall EXCEPT !.op = op, !.at = point] \in Call
  BY <1>a, NoCallTyped DEF Call
<1>1. CASE Resident
  <2>1. PICK point \in {"ensured", "reconciling"} :
          call' = [call EXCEPT ![c] = [NoCall EXCEPT !.op = op, !.at = point]]
    BY <1>1 DEF Ensure
  <2>2. Reconcile(record) /\ UNCHANGED <<pendingOpen, runtimes, dirty, failures>>
    BY <1>1 DEF Ensure
  <2>3. [NoCall EXCEPT !.op = op, !.at = point] \in Call
    BY <1>b DEF Points
  <2>4. call' \in [Callers -> Call] /\ call'[c].op = op /\ call'[c].at = point
        /\ \A d \in Callers \ {c} : call'[d] = call[d]
    BY <1>a, <2>1, <2>3, NoCallTyped DEF Call
  <2>5. record' \in Record /\ entry' \in Entry
        /\ record'.runtime = record.runtime /\ record'.agent = record.agent
        /\ record'.present = record.present /\ record'.closed = record.closed
    BY <1>a, <2>2, ReconciledTyped DEF Reconcile
  <2>6. TypeOK'
    BY <1>a, <2>2, <2>4, <2>5 DEF IInv, TypeOK
  <2>7. QED
    BY <1>a, <2>2, <2>4, <2>5, <2>6, KeepsInv DEF KeepsCloses, Closing, At
<1>2. CASE ~Resident /\ pendingOpen # Nobody
  <2>1. call' = [call EXCEPT ![c] = [NoCall EXCEPT !.op = op, !.at = "waiting"]]
        /\ UNCHANGED <<record, entry, pendingOpen, runtimes, dirty, failures>>
    BY <1>2 DEF Ensure
  <2>2. [NoCall EXCEPT !.op = op, !.at = "waiting"] \in Call
    BY <1>b DEF Points
  <2>3. call' \in [Callers -> Call] /\ call'[c].op = op /\ call'[c].at = "waiting"
        /\ \A d \in Callers \ {c} : call'[d] = call[d]
    BY <1>a, <2>1, <2>2, NoCallTyped DEF Call
  <2>4. TypeOK'
    BY <1>a, <2>1, <2>3 DEF IInv, TypeOK
  <2>5. QED
    BY <1>a, <2>1, <2>3, <2>4, KeepsInv DEF KeepsCloses, Closing, At
<1>3. CASE ~Resident /\ pendingOpen = Nobody
  <2>1. call' = [call EXCEPT ![c] = [NoCall EXCEPT !.op = op, !.at = "reading"]]
        /\ pendingOpen' = c
        /\ UNCHANGED <<record, entry, runtimes, dirty, failures>>
    BY <1>3 DEF Ensure
  <2>2. [NoCall EXCEPT !.op = op, !.at = "reading"] \in Call
    BY <1>b DEF Points
  <2>3. call' \in [Callers -> Call] /\ call'[c].op = op /\ call'[c].at = "reading"
        /\ \A d \in Callers \ {c} : call'[d] = call[d]
    BY <1>a, <2>1, <2>2, NoCallTyped DEF Call
  <2>4. TypeOK'
    BY <1>a, <2>1, <2>3 DEF IInv, TypeOK
  <2> SUFFICES ASSUME ClosersOpenAlone
               PROVE  Opening' /\ NoRuntimeLeaks'
    BY <2>4 DEF IInv, ClosersOpenAlone
  <2>5. Opening /\ NoRuntimeLeaks
    BY DEF IInv
  <2>6. record.runtime = None
    <3>1. ~(record.closed /\ record.runtime # None)
      BY <1>a, <2>5 DEF Opening, ClosersOpenAlone, Closing
    <3>2. QED
      BY <1>3, <2>5, <3>1 DEF Resident, Opening
  <2>7. \A d \in Callers : call[d].at \notin {"reading", "creating"}
    BY <1>3, <2>5, NobodyIsNoCaller DEF Opening
  <2>8. Opening'
    BY <1>a, <2>1, <2>3, <2>5, <2>6, <2>7 DEF Opening
  <2>9. NoRuntimeLeaks'
    BY <2>1, <2>5 DEF NoRuntimeLeaks
  <2>10. QED
    BY <2>8, <2>9
<1>4. QED
  BY <1>1, <1>2, <1>3

LEMMA OpenReadsInv ==
  ASSUME IInv, NEW c \in Callers, OpenReads(c)
  PROVE  IInv'
<1>1. call[c] \in Call /\ call \in [Callers -> Call] /\ entry \in Entry
  BY DEF IInv, TypeOK
<1>2. call' = [call EXCEPT ![c] = [call[c] EXCEPT !.at = "creating", !.seen = entry]]
  BY DEF OpenReads
<1>3. [call[c] EXCEPT !.at = "creating", !.seen = entry] \in Call
  BY <1>1 DEF Call, Points
<1>4. call' \in [Callers -> Call] /\ call'[c].op = call[c].op /\ At(c, "reading")
      /\ \A d \in Callers \ {c} : call'[d] = call[d]
  BY <1>1, <1>2, <1>3 DEF Call, OpenReads
<1>5. TypeOK'
  BY <1>4 DEF IInv, TypeOK, OpenReads
<1>6. KeepsCloses
  BY <1>4 DEF KeepsCloses, Closing, At
<1>7. \A d \in Callers : call'[d].at \in {"reading", "creating"} =>
        call[d].at \in {"reading", "creating"}
  BY <1>4 DEF At
<1>8. QED
  BY <1>5, <1>6, <1>7, KeepsInv DEF OpenReads

LEMMA OpenCreatesInv ==
  ASSUME IInv, NEW c \in Callers, OpenCreates(c)
  PROVE  IInv'
<1>a. /\ call \in [Callers -> Call] /\ record \in Record /\ call[c] \in Call
      /\ runtimes \in [Runtimes -> Runtime]
  BY DEF IInv, TypeOK
<1>1. PICK r \in Runtimes :
        /\ runtimes' = [runtimes EXCEPT ![r] = [runtimes[r] EXCEPT !.phase = "live"]]
        /\ record' = [record EXCEPT !.present = TRUE, !.runtime = r, !.agent = r,
                                    !.status = call[c].seen.status,
                                    !.archived = call[c].seen.archived,
                                    !.closed = FALSE, !.binding = TRUE]
  BY DEF OpenCreates
<1>2. call[c].seen.status \in Status /\ call[c].seen.archived \in BOOLEAN
  BY <1>a DEF Call, Entry
<1>3. record' \in Record /\ record'.runtime = r /\ record'.agent = r
      /\ record'.present /\ ~record'.closed
  BY <1>a, <1>1, <1>2 DEF Record
<1>4. [runtimes[r] EXCEPT !.phase = "live"] \in Runtime
  BY <1>a DEF Runtime
<1>5. runtimes' \in [Runtimes -> Runtime]
      /\ \A q \in Runtimes \ {r} : runtimes'[q] = runtimes[q]
  BY <1>a, <1>1, <1>4
<1>6. /\ call' \in [Callers -> Call]
      /\ \A d \in Callers : call'[d].op = call[d].op
      /\ call'[c].at = "binding"
      /\ \A d \in Callers \ {c} : call'[d] = call[d]
  BY <1>a, MovesTyped DEF OpenCreates, Points
<1>7. TypeOK'
  BY <1>3, <1>5, <1>6 DEF IInv, TypeOK, OpenCreates
<1> SUFFICES ASSUME ClosersOpenAlone
             PROVE  Opening' /\ NoRuntimeLeaks'
  BY <1>7 DEF IInv, ClosersOpenAlone
<1>8. Opening /\ NoRuntimeLeaks
  BY DEF IInv
<1>9. pendingOpen = c /\ record.runtime = None
  BY <1>8 DEF OpenCreates, At, Opening
<1>10. \A d \in Callers : call'[d].at \notin {"reading", "creating"}
  BY <1>6, <1>8, <1>9 DEF Opening
<1>11. Opening'
  BY <1>3, <1>6, <1>8, <1>10 DEF Opening
<1>12. \A q \in Runtimes : runtimes[q].phase # "live"
  BY <1>8, <1>9 DEF NoRuntimeLeaks, Runtimes, None
<1>13. NoRuntimeLeaks'
  BY <1>3, <1>5, <1>12 DEF NoRuntimeLeaks
<1>14. QED
  BY <1>11, <1>13

LEMMA OpenBindsInv ==
  ASSUME IInv, NEW c \in Callers, OpenBinds(c)
  PROVE  IInv'
<1> DEFINE bound == [record EXCEPT !.binding = FALSE]
<1>a. call \in [Callers -> Call] /\ record \in Record /\ entry \in Entry
      /\ pendingOpen \in Callers \cup {Nobody}
  BY DEF IInv, TypeOK
<1>1. bound \in Record /\ bound.runtime = record.runtime /\ bound.agent = record.agent
      /\ bound.present = record.present /\ bound.closed = record.closed
  BY <1>a DEF Record
<1>2. Reconcile(bound)
  BY DEF OpenBinds
<1> HIDE DEF bound
<1>3. record' \in Record /\ entry' \in Entry
      /\ record'.runtime = record.runtime /\ record'.agent = record.agent
      /\ record'.present = record.present /\ record'.closed = record.closed
  BY <1>a, <1>1, <1>2, ReconciledTyped DEF Reconcile
<1>4. CASE Releases(c, "ensured")
  <2>1. /\ call' \in [Callers -> Call]
        /\ pendingOpen' \in Callers \cup {Nobody}
        /\ \A d \in Callers : call'[d].op \in {call[d].op, "open"}
        /\ \A d \in Callers : call'[d] = call[d] \/ call'[d].at = "ensured"
        /\ call'[c].at = "ensured"
        /\ pendingOpen' = pendingOpen \/ (pendingOpen = c /\ pendingOpen' = Nobody)
        /\ KeepsCloses
    BY <1>a, <1>4, ReleasesTyped DEF OpenBinds, At
  <2>2. TypeOK'
    BY <1>3, <2>1 DEF IInv, TypeOK, OpenBinds
  <2>3. CASE ClosersOpenAlone
    <3>1. \A d \in Callers : call'[d].at \in {"reading", "creating"} =>
            call[d].at \in {"reading", "creating"} /\ pendingOpen' = pendingOpen
      BY <2>1, <2>3 DEF IInv, Opening, OpenBinds, At
    <3>2. QED
      BY <1>3, <2>1, <2>2, <3>1, KeepsInv DEF OpenBinds
  <2>4. QED
    BY <2>2, <2>3 DEF IInv, ClosersOpenAlone
<1>5. CASE Moves(c, "reconciling") /\ UNCHANGED pendingOpen
  <2>1. /\ call' \in [Callers -> Call]
        /\ \A d \in Callers : call'[d].op = call[d].op
        /\ call'[c].at = "reconciling"
        /\ \A d \in Callers \ {c} : call'[d] = call[d]
    BY <1>a, <1>5, MovesTyped DEF Points
  <2>2. TypeOK'
    BY <1>3, <1>5, <2>1 DEF IInv, TypeOK, OpenBinds
  <2>3. QED
    BY <1>3, <1>5, <2>1, <2>2, KeepsInv DEF OpenBinds, KeepsCloses, Closing, At
<1>6. QED
  BY <1>4, <1>5 DEF OpenBinds

LEMMA EnsuredInv ==
  ASSUME IInv, NEW c \in Callers, Ensured(c) \/ EnsureFails(c)
  PROVE  IInv'
<1>a. call \in [Callers -> Call] /\ record \in Record /\ failures \in Nat
      /\ pendingOpen \in Callers \cup {Nobody}
  BY DEF IInv, TypeOK
<1>1. PICK point \in {"ensured", "returned"} : Releases(c, point)
  BY DEF Ensured, EnsureFails
<1>2. /\ call' \in [Callers -> Call]
      /\ pendingOpen' \in Callers \cup {Nobody}
      /\ \A d \in Callers : call'[d].op \in {call[d].op, "open"}
      /\ \A d \in Callers : call'[d] = call[d] \/ call'[d].at = point
      /\ call'[c].at = point
      /\ pendingOpen' = pendingOpen \/ (pendingOpen = c /\ pendingOpen' = Nobody)
      /\ KeepsCloses
  BY <1>a, <1>1, ReleasesTyped DEF Ensured, EnsureFails, At
<1>3. record' \in {record, [record EXCEPT !.binding = FALSE]}
  BY DEF Ensured, EnsureFails
<1>4. record' \in Record
      /\ record'.runtime = record.runtime /\ record'.agent = record.agent
      /\ record'.present = record.present /\ record'.closed = record.closed
  BY <1>a, <1>3 DEF Record
<1>5. failures' \in Nat /\ UNCHANGED <<entry, runtimes, dirty, calls>>
  BY <1>a DEF Ensured, EnsureFails, Rejects
<1>6. TypeOK'
  BY <1>2, <1>4, <1>5 DEF IInv, TypeOK
<1>7. CASE ClosersOpenAlone
  <2>1. \A d \in Callers : call'[d].at \in {"reading", "creating"} =>
          call[d].at \in {"reading", "creating"} /\ pendingOpen' = pendingOpen
    BY <1>2, <1>7 DEF IInv, Opening
  <2>2. QED
    BY <1>2, <1>4, <1>5, <1>6, <2>1, KeepsInv
<1>8. QED
  BY <1>6, <1>7 DEF IInv, ClosersOpenAlone

(* A call returns, and nothing else changes but the entry. *)
LEMMA ReturnInv ==
  ASSUME IInv, NEW c \in Callers, Returns(c), ~Closing(c), record' \in Record, entry' \in Entry,
         failures' \in Nat,
         record'.runtime = record.runtime, record'.agent = record.agent,
         record'.present = record.present, record'.closed = record.closed,
         UNCHANGED <<runtimes, pendingOpen, dirty, calls>>
  PROVE  IInv'
<1>1. /\ call' \in [Callers -> Call]
      /\ call'[c] = NoCall
      /\ \A d \in Callers \ {c} : call'[d] = call[d]
  BY ReturnsTyped DEF IInv, TypeOK
<1>2. TypeOK'
  BY <1>1 DEF IInv, TypeOK
<1>3. KeepsCloses
  BY <1>1, NoCallTyped DEF KeepsCloses, Closing, At
<1>4. QED
  BY <1>1, <1>2, <1>3, NoCallTyped, KeepsInv

(* A call moves on within its own operation. *)
LEMMA MoveInv ==
  ASSUME IInv, NEW c \in Callers, call' \in [Callers -> Call],
         call'[c].op = "close" => call[c].op = "close", ~Closing(c),
         call'[c].at \notin {"reading", "creating"},
         \A d \in Callers \ {c} : call'[d] = call[d],
         record' \in Record, entry' \in Entry, failures' \in Nat, calls' \in Nat,
         runtimes' \in [Runtimes -> Runtime], dirty' \in BOOLEAN,
         record'.runtime = record.runtime, record'.agent = record.agent,
         record'.present = record.present, record'.closed = record.closed,
         \A r \in Runtimes : runtimes'[r].phase = runtimes[r].phase,
         UNCHANGED pendingOpen
  PROVE  IInv'
<1>1. TypeOK'
  BY DEF IInv, TypeOK
<1>2. KeepsCloses
  BY DEF KeepsCloses, Closing, At
<1>3. \A d \in Callers : call'[d].at \in {"reading", "creating"} =>
        call[d].at \in {"reading", "creating"} /\ pendingOpen' = pendingOpen
  OBVIOUS
<1>4. QED
  BY <1>1, <1>2, <1>3, KeepsInv

(* A record that keeps its runtime is persisted, and the call moves on. *)
LEMMA PersistMoveInv ==
  ASSUME IInv, NEW c \in Callers, NEW point \in Points \ {"reading", "creating"},
         Moves(c, point), ~Closing(c), NEW rec \in Record, Persist(rec),
         rec.runtime = record.runtime, rec.agent = record.agent,
         rec.present = record.present, rec.closed = record.closed,
         failures' \in Nat, UNCHANGED <<runtimes, pendingOpen, dirty, calls>>
  PROVE  IInv'
<1>1. /\ call' \in [Callers -> Call]
      /\ \A d \in Callers : call'[d].op = call[d].op
      /\ call'[c].at = point
      /\ \A d \in Callers \ {c} : call'[d] = call[d]
  BY MovesTyped DEF IInv, TypeOK
<1>2. record' = rec /\ entry' \in Entry
  BY ReconciledTyped DEF Persist
<1>3. call'[c].op = "close" => call[c].op = "close"
  BY <1>1
<1>4. runtimes' \in [Runtimes -> Runtime] /\ dirty' \in BOOLEAN /\ calls' \in Nat
      /\ \A r \in Runtimes : runtimes'[r].phase = runtimes[r].phase
  BY DEF IInv, TypeOK
<1>5. QED
  BY <1>1, <1>2, <1>3, <1>4, MoveInv

LEMMA SendStartsInv ==
  ASSUME IInv, NEW c \in Callers, SendStarts(c)
  PROVE  IInv'
<1>a. call \in [Callers -> Call] /\ call[c] \in Call /\ record \in Record /\ entry \in Entry
      /\ failures \in Nat /\ record.runtime \in Runtimes \cup {None}
      /\ UNCHANGED <<runtimes, pendingOpen, dirty, calls, failures>>
      /\ runtimes' \in [Runtimes -> Runtime] /\ dirty' \in BOOLEAN /\ calls' \in Nat
      /\ ~Closing(c)
  BY DEF IInv, TypeOK, SendStarts, Record, Closing, At
<1>1. CASE Returns(c) /\ UNCHANGED <<record, entry>>
  BY <1>a, <1>1, ReturnInv
<1>2. CASE /\ Persist([record EXCEPT !.status = "running", !.run = TRUE])
           /\ call' = [call EXCEPT ![c].op = "send", ![c].at = "persisting",
                                   ![c].on = record.runtime]
  <2> DEFINE rec == [record EXCEPT !.status = "running", !.run = TRUE]
             next == [call[c] EXCEPT !.op = "send", !.at = "persisting",
                                     !.on = record.runtime]
  <2>1. rec \in Record /\ rec.runtime = record.runtime /\ rec.agent = record.agent
        /\ rec.present = record.present /\ rec.closed = record.closed
    BY <1>a DEF Record, Status
  <2>2. next \in Call /\ next.op = "send" /\ next.at = "persisting"
    BY <1>a DEF Call, Operations, Points
  <2>3. call' = [call EXCEPT ![c] = next]
    BY <1>2
  <2> HIDE DEF next, rec
  <2>4. call' \in [Callers -> Call] /\ call'[c] = next
        /\ \A d \in Callers \ {c} : call'[d] = call[d]
    BY <1>a, <2>2, <2>3
  <2>5. record' = rec /\ entry' \in Entry
    BY <1>2, <2>1, ReconciledTyped DEF Persist, rec
  <2>6. QED
    BY <1>a, <2>1, <2>2, <2>4, <2>5, MoveInv
<1>3. CASE /\ Persist(record)
           /\ call[c].op \in {"send", "queue", "command"}
           /\ call' = [call EXCEPT ![c].at = "persisting", ![c].on = record.runtime]
  <2> DEFINE next == [call[c] EXCEPT !.at = "persisting", !.on = record.runtime]
  <2>2. next \in Call /\ next.op # "close" /\ next.at = "persisting"
    BY <1>a, <1>3 DEF Call, Operations, Points
  <2>3. call' = [call EXCEPT ![c] = next]
    BY <1>3
  <2> HIDE DEF next
  <2>4. call' \in [Callers -> Call] /\ call'[c] = next
        /\ \A d \in Callers \ {c} : call'[d] = call[d]
    BY <1>a, <2>2, <2>3
  <2>5. record' = record /\ entry' \in Entry
    BY <1>a, <1>3, ReconciledTyped DEF Persist
  <2>6. QED
    BY <1>a, <2>2, <2>4, <2>5, MoveInv
<1>4. QED
  BY <1>1, <1>2, <1>3 DEF SendStarts

LEMMA PromptInv ==
  ASSUME IInv, NEW c \in Callers, Prompt(c)
  PROVE  IInv'
<1> DEFINE r == call[c].on
<1>a. call \in [Callers -> Call] /\ record \in Record /\ runtimes \in [Runtimes -> Runtime]
      /\ dirty \in BOOLEAN
  BY DEF IInv, TypeOK
<1>1. /\ call' \in [Callers -> Call]
      /\ \A d \in Callers : call'[d].op = call[d].op
      /\ call'[c].at = "prompting"
      /\ \A d \in Callers \ {c} : call'[d] = call[d]
  BY <1>a, MovesTyped DEF Prompt, Points
<1>2. record' \in {record, [record EXCEPT !.status = "running"]}
  BY DEF Prompt
<1>3. record' \in Record
      /\ record'.runtime = record.runtime /\ record'.agent = record.agent
      /\ record'.present = record.present /\ record'.closed = record.closed
  BY <1>a, <1>2 DEF Record, Status
<1>4. runtimes' = [runtimes EXCEPT ![r] = [runtimes[r] EXCEPT !.streaming = TRUE]]
  BY DEF Prompt
<1>5. r \in Runtimes => [runtimes[r] EXCEPT !.streaming = TRUE] \in Runtime
  BY <1>a DEF Runtime
<1>6. runtimes' \in [Runtimes -> Runtime]
      /\ \A q \in Runtimes : runtimes'[q].phase = runtimes[q].phase
  BY <1>a, <1>4, <1>5 DEF Runtime
<1>7. call'[c].op # "close" /\ entry' \in Entry /\ failures' \in Nat /\ calls' \in Nat
      /\ dirty' \in BOOLEAN /\ UNCHANGED pendingOpen /\ ~Closing(c)
  BY <1>1 DEF IInv, TypeOK, Prompt, Closing
<1>8. QED
  BY <1>1, <1>3, <1>6, <1>7, MoveInv

LEMMA PersistingInv ==
  ASSUME IInv, NEW c \in Callers, CommandRuns(c) \/ SendFails(c) \/ CancelSettles(c)
  PROVE  IInv'
<1>a. record \in Record /\ entry \in Entry /\ failures \in Nat /\ ~Closing(c)
  BY DEF IInv, TypeOK, CommandRuns, SendFails, CancelSettles, Closing, At
<1>b. "saving" \in Points \ {"reading", "creating"}
  BY DEF Points
<1>1. ASSUME NEW status \in Status, NEW run \in BOOLEAN
      PROVE  LET rec == [record EXCEPT !.status = status, !.run = run]
             IN  /\ rec \in Record
                 /\ rec.runtime = record.runtime /\ rec.agent = record.agent
                 /\ rec.present = record.present /\ rec.closed = record.closed
  BY <1>a DEF Record
<1>2. CASE CommandRuns(c)
  <2>1. Streaming(record) \in BOOLEAN
        /\ (IF Streaming(record) THEN "running" ELSE "idle") \in Status
    <3>1. record.runtime \in Runtimes => runtimes[record.runtime].streaming \in BOOLEAN
      BY DEF IInv, TypeOK, Runtime
    <3>2. QED
      BY <1>a, <3>1 DEF Streaming, Status, Record
  <2>2. /\ Persist([record EXCEPT
              !.status = IF Streaming(record) THEN "running" ELSE "idle",
              !.run = Streaming(record)])
        /\ Moves(c, "saving")
        /\ failures' = failures
        /\ UNCHANGED <<runtimes, pendingOpen, dirty, calls>>
    BY <1>2 DEF CommandRuns
  <2>3. QED
    BY <1>a, <1>b, <1>1, <2>1, <2>2, PersistMoveInv
<1>3. CASE SendFails(c)
  <2>1. PICK status \in Status, run \in BOOLEAN :
          Persist([record EXCEPT !.status = status, !.run = run])
    <3> DEFINE op == call[c].op
               was == record.run
               status == CASE op = "queue" -> "running"
                           [] op = "command" -> "idle"
                           [] OTHER -> "failed"
    <3>1. status \in Status /\ (was /\ op = "queue") \in BOOLEAN
      BY DEF Status
    <3>2. Persist([record EXCEPT !.status = status, !.run = was /\ op = "queue"])
      BY <1>3 DEF SendFails
    <3> HIDE DEF status, op, was
    <3>3. QED
      BY <3>1, <3>2
  <2>2. /\ Moves(c, "saving")
        /\ failures' \in Nat
        /\ UNCHANGED <<runtimes, pendingOpen, dirty, calls>>
    BY <1>a, <1>3 DEF SendFails, Rejects
  <2>3. QED
    BY <1>a, <1>b, <1>1, <2>1, <2>2, PersistMoveInv
<1>4. CASE CancelSettles(c)
  <2>1. CASE Returns(c) /\ UNCHANGED <<record, entry>>
    BY <1>a, <1>4, <2>1, ReturnInv DEF CancelSettles
  <2>2. CASE Persist([record EXCEPT !.status = "idle", !.run = FALSE]) /\ Moves(c, "saving")
    <3>1. "idle" \in Status /\ FALSE \in BOOLEAN
      BY DEF Status
    <3>2. QED
      BY <1>a, <1>b, <1>1, <1>4, <2>2, <3>1, PersistMoveInv DEF CancelSettles
  <2>3. QED
    BY <1>4, <2>1, <2>2 DEF CancelSettles
<1>5. QED
  BY <1>2, <1>3, <1>4

(* A run or a job begins or ends, or a disposal ends: the calls that await *)
(* it return, and the record stays with its runtime.                       *)
LEMMA RuntimeInv ==
  ASSUME IInv, NEW r \in Runtimes, NEW next \in Runtime,
         next.phase = "live" => runtimes[r].phase = "live",
         runtimes' = [runtimes EXCEPT ![r] = next],
         call' \in [Callers -> {NoCall} \cup Call],
         \A c \in Callers : call'[c] = call[c] \/ (At(c, "prompting") /\ call'[c] = NoCall),
         record' \in Record, dirty' \in BOOLEAN,
         record'.runtime = record.runtime, record'.agent = record.agent,
         record'.present = record.present, record'.closed = record.closed,
         UNCHANGED <<entry, pendingOpen, calls, failures>>
  PROVE  IInv'
<1>1. runtimes' \in [Runtimes -> Runtime]
      /\ \A q \in Runtimes : runtimes'[q].phase = "live" => runtimes[q].phase = "live"
  BY DEF IInv, TypeOK
<1>2. call' \in [Callers -> Call]
  BY NoCallTyped
<1>3. TypeOK'
  BY <1>1, <1>2 DEF IInv, TypeOK
<1>4. KeepsCloses
  BY NoCallTyped DEF KeepsCloses, Closing, At
<1>5. \A c \in Callers : call'[c].at \in {"reading", "creating"} =>
        call[c].at \in {"reading", "creating"}
  BY NoCallTyped
<1>6. QED
  BY <1>1, <1>3, <1>4, <1>5, KeepsInv

LEMMA SettlesInv ==
  ASSUME IInv, NEW r \in Runtimes, JobStarts(r) \/ Settles(r)
  PROVE  IInv'
<1>a. runtimes[r] \in Runtime /\ record \in Record /\ call \in [Callers -> Call]
      /\ dirty \in BOOLEAN
  BY DEF IInv, TypeOK
<1>1. PICK next \in Runtime : /\ runtimes' = [runtimes EXCEPT ![r] = next]
                              /\ next.phase = "live" => runtimes[r].phase = "live"
  <2>1. /\ [runtimes[r] EXCEPT !.streaming = FALSE] \in Runtime
        /\ [runtimes[r] EXCEPT !.job = TRUE] \in Runtime
        /\ [runtimes[r] EXCEPT !.job = FALSE] \in Runtime
        /\ [phase |-> "disposed", streaming |-> FALSE, job |-> FALSE] \in Runtime
    BY <1>a DEF Runtime
  <2>2. /\ [runtimes[r] EXCEPT !.streaming = FALSE].phase = runtimes[r].phase
        /\ [runtimes[r] EXCEPT !.job = TRUE].phase = runtimes[r].phase
        /\ [runtimes[r] EXCEPT !.job = FALSE].phase = runtimes[r].phase
    BY <1>a DEF Runtime
  <2>3. \/ runtimes' = [runtimes EXCEPT ![r] = [runtimes[r] EXCEPT !.streaming = FALSE]]
        \/ runtimes' = [runtimes EXCEPT ![r] = [runtimes[r] EXCEPT !.job = TRUE]]
        \/ runtimes' = [runtimes EXCEPT ![r] = [runtimes[r] EXCEPT !.job = FALSE]]
        \/ runtimes' = [runtimes EXCEPT ![r] =
             [phase |-> "disposed", streaming |-> FALSE, job |-> FALSE]]
    BY DEF JobStarts, Settles, AgentEnds, JobEnds, DisposeEnds
  <2>4. QED
    BY <2>1, <2>2, <2>3
<1>2. \/ record' = record
      \/ record' = [record EXCEPT !.job = TRUE]
      \/ record' = [record EXCEPT !.job = FALSE]
      \/ \E status \in {"idle", "failed"} :
           record' = [record EXCEPT !.status = status, !.run = FALSE]
  BY DEF JobStarts, Settles, AgentEnds, JobEnds, DisposeEnds
<1>3. record' \in Record
      /\ record'.runtime = record.runtime /\ record'.agent = record.agent
      /\ record'.present = record.present /\ record'.closed = record.closed
  BY <1>a, <1>2 DEF Record, Status
<1>4. \/ call' = call
      \/ call' = [c \in Callers |->
           IF At(c, "prompting") /\ call[c].on = r THEN NoCall ELSE call[c]]
  BY DEF JobStarts, Settles, AgentEnds, JobEnds, DisposeEnds
<1>5. call' \in [Callers -> {NoCall} \cup Call]
      /\ \A c \in Callers : call'[c] = call[c] \/ (At(c, "prompting") /\ call'[c] = NoCall)
  BY <1>a, <1>4
<1>6. dirty' \in BOOLEAN /\ UNCHANGED <<entry, pendingOpen, calls, failures>>
  BY <1>a DEF JobStarts, Settles, AgentEnds, JobEnds, DisposeEnds, IInv, TypeOK
<1>7. QED
  BY <1>1, <1>3, <1>5, <1>6, RuntimeInv

LEMMA DrainInv ==
  ASSUME IInv, DrainPersists
  PROVE  IInv'
<1>1. record' = record /\ entry' \in Entry
  BY ReconciledTyped DEF DrainPersists, Persist, IInv, TypeOK
<1>2. TypeOK'
  BY <1>1 DEF IInv, TypeOK, DrainPersists
<1>3. QED
  BY <1>1, <1>2, KeepsInv DEF DrainPersists, KeepsCloses, Closing, At

(* A call of an operation that does not open the session begins. *)
LEMMA StartInv ==
  ASSUME IInv, NEW c \in Callers, At(c, "returned"), NEW next \in Call,
         call' = [call EXCEPT ![c] = next],
         next.op # "close", next.at \notin {"reading", "creating"},
         calls' = calls + 1, record' \in Record, entry' \in Entry,
         record'.runtime = record.runtime, record'.agent = record.agent,
         record'.present = record.present, record'.closed = record.closed,
         UNCHANGED <<runtimes, pendingOpen, dirty, failures>>
  PROVE  IInv'
<1>1. call' \in [Callers -> Call] /\ call'[c] = next
      /\ \A d \in Callers \ {c} : call'[d] = call[d]
  BY DEF IInv, TypeOK
<1>2. calls' \in Nat /\ failures' \in Nat /\ runtimes' \in [Runtimes -> Runtime]
      /\ dirty' \in BOOLEAN /\ \A r \in Runtimes : runtimes'[r].phase = runtimes[r].phase
  BY DEF IInv, TypeOK
<1>3. QED
  BY <1>1, <1>2, MoveInv DEF Closing, At

LEMMA CloseInv ==
  ASSUME IInv, NEW c \in Callers, Close(c)
  PROVE  IInv'
<1> DEFINE closed == [record EXCEPT !.closed = TRUE, !.run = FALSE, !.status = "idle"]
           aborting == [NoCall EXCEPT !.op = "close", !.at = "aborting",
                                      !.on = record.runtime]
           saving == [NoCall EXCEPT !.op = "close", !.at = "saving"]
<1>a. record \in Record /\ record.runtime \in Runtimes \cup {None}
      /\ call \in [Callers -> Call]
  BY DEF IInv, TypeOK, Record
<1>1. /\ closed \in Record /\ closed.runtime = record.runtime
      /\ closed.agent = record.agent /\ closed.present = record.present
  BY <1>a DEF Record, Status
<1>2. /\ aborting \in Call /\ aborting.op = "close" /\ aborting.at = "aborting"
      /\ saving \in Call /\ saving.op = "close" /\ saving.at = "saving"
  BY <1>a, NoCallTyped DEF Call, Points, Operations
<1>3. \/ /\ record.runtime # None /\ record' = closed /\ UNCHANGED entry
         /\ call' = [call EXCEPT ![c] = aborting]
      \/ /\ record.runtime = None /\ record' = closed /\ entry' = Snapshot(closed)
         /\ call' = [call EXCEPT ![c] = saving]
  BY DEF Close, Persist
<1>4. "close" \in Offered[c] /\ At(c, "returned") /\ calls' = calls + 1
      /\ UNCHANGED <<runtimes, pendingOpen, dirty, failures>>
  BY DEF Close, Starts
<1> HIDE DEF closed, aborting, saving
<1>5. PICK next \in {aborting, saving} : call' = [call EXCEPT ![c] = next]
  BY <1>3
<1>6. /\ call' \in [Callers -> Call] /\ call'[c] = next
      /\ \A d \in Callers \ {c} : call'[d] = call[d]
  BY <1>a, <1>2, <1>5
<1>7. record' = closed /\ entry' \in Entry
  BY <1>1, <1>3, ReconciledTyped DEF IInv, TypeOK
<1>8. TypeOK'
  BY <1>1, <1>4, <1>6, <1>7 DEF IInv, TypeOK
<1> SUFFICES ASSUME ClosersOpenAlone
             PROVE  Opening' /\ NoRuntimeLeaks'
  BY <1>8 DEF IInv, ClosersOpenAlone
<1>9. Opening /\ NoRuntimeLeaks
  BY DEF IInv
<1>10. record'.closed /\ record'.runtime # None => Closing(c)'
  BY <1>1, <1>2, <1>3, <1>6, <1>7 DEF Closing, At
<1>11. \A d \in Callers : /\ call'[d].op = "close" => "close" \in Offered[d]
                          /\ call'[d].at \in {"reading", "creating"} =>
                               call[d].at \in {"reading", "creating"}
  BY <1>2, <1>4, <1>6, <1>9 DEF Opening
<1>12. Opening'
  BY <1>1, <1>4, <1>7, <1>9, <1>10, <1>11 DEF Opening
<1>13. NoRuntimeLeaks'
  BY <1>1, <1>4, <1>7, <1>9 DEF NoRuntimeLeaks
<1>14. QED
  BY <1>12, <1>13

LEMMA CallsInv ==
  ASSUME IInv, NEW c \in Callers, Calls(c)
  PROVE  IInv'
<1>a. record \in Record /\ entry \in Entry /\ record.runtime \in Runtimes \cup {None}
  BY DEF IInv, TypeOK, Record
<1>1. ASSUME NEW op \in Operations, Archive(c, op)
      PROVE  IInv'
  <2> DEFINE archived == op = "archive"
             rec == [record EXCEPT !.archived = archived]
             saving == [NoCall EXCEPT !.op = op, !.at = "saving"]
             archiving == [NoCall EXCEPT !.op = op, !.at = "archiving", !.seen = entry]
  <2>1. op \in {"archive", "unarchive"} /\ calls' = calls + 1 /\ At(c, "returned")
        /\ UNCHANGED <<runtimes, pendingOpen, dirty, failures>>
    BY <1>1 DEF Archive, Starts
  <2>2. rec \in Record /\ rec.runtime = record.runtime /\ rec.agent = record.agent
        /\ rec.present = record.present /\ rec.closed = record.closed
    BY <1>a DEF Record
  <2>3. /\ saving \in Call /\ saving.op = op /\ saving.at = "saving"
        /\ archiving \in Call /\ archiving.op = op /\ archiving.at = "archiving"
    BY <1>a, <2>1, NoCallTyped DEF Call, Points, Operations
  <2>4. \/ Persist(rec) /\ call' = [call EXCEPT ![c] = saving]
        \/ UNCHANGED <<record, entry>> /\ call' = [call EXCEPT ![c] = archiving]
    BY <1>1 DEF Archive
  <2>5. Snapshot(rec) \in Entry
    BY <2>2, ReconciledTyped
  <2> HIDE DEF rec, saving, archiving
  <2>6. CASE Persist(rec) /\ call' = [call EXCEPT ![c] = saving]
    <3>1. record' = rec /\ entry' \in Entry
      BY <2>5, <2>6 DEF Persist
    <3>2. QED
      BY <2>1, <2>2, <2>3, <2>6, <3>1, StartInv
  <2>7. CASE UNCHANGED <<record, entry>> /\ call' = [call EXCEPT ![c] = archiving]
    BY <1>a, <2>1, <2>3, <2>7, StartInv
  <2>8. QED
    BY <2>4, <2>6, <2>7
<1>2. CASE Cancel(c)
  <2> DEFINE next == [NoCall EXCEPT !.op = "cancel", !.at = "aborting",
                                    !.on = record.runtime]
  <2>1. next \in Call /\ next.op = "cancel" /\ next.at = "aborting"
    BY <1>a, NoCallTyped DEF Call, Points, Operations
  <2>2. call' = [call EXCEPT ![c] = next] /\ calls' = calls + 1 /\ At(c, "returned")
        /\ UNCHANGED <<record, entry, runtimes, pendingOpen, dirty, failures>>
    BY <1>2 DEF Cancel, Starts
  <2> HIDE DEF next
  <2>3. QED
    BY <1>a, <2>1, <2>2, StartInv
<1>3. CASE Suspend(c)
  <2> DEFINE next == [NoCall EXCEPT !.op = "suspend", !.at = "draining"]
  <2>1. next \in Call /\ next.op = "suspend" /\ next.at = "draining"
    BY <1>a, NoCallTyped DEF Call, Points, Operations
  <2>2. call' = [call EXCEPT ![c] = next] /\ calls' = calls + 1 /\ At(c, "returned")
        /\ UNCHANGED <<record, entry, runtimes, pendingOpen, dirty, failures>>
    BY <1>3 DEF Suspend, Starts
  <2> HIDE DEF next
  <2>3. QED
    BY <1>a, <2>1, <2>2, StartInv
<1>4. QED
  BY <1>1, <1>2, <1>3, CloseInv, EnsureInv DEF Calls

LEMMA DisposeInv ==
  ASSUME IInv, NEW c \in Callers, SuspendDisposes(c) \/ CloseDisposes(c)
  PROVE  IInv'
<1>a. /\ record \in Record /\ call \in [Callers -> Call] /\ call[c] \in Call
      /\ runtimes \in [Runtimes -> Runtime] /\ record.runtime \in Runtimes \cup {None}
  BY DEF IInv, TypeOK, Record
<1> DEFINE next == [call[c] EXCEPT !.at = "disposing", !.on = record.runtime]
<1>1. /\ record' = [record EXCEPT !.runtime = None, !.agent = None]
      /\ runtimes' = [r \in Runtimes |->
           IF r = record.runtime THEN [runtimes[r] EXCEPT !.phase = "disposing"]
           ELSE runtimes[r]]
      /\ call' = [call EXCEPT ![c] = next]
      /\ UNCHANGED <<entry, pendingOpen, dirty, calls>>
  BY DEF SuspendDisposes, CloseDisposes, Dispose
<1>2. record' \in Record /\ record'.runtime = None /\ record'.agent = None
      /\ record'.closed = record.closed /\ record'.present = record.present
  BY <1>a, <1>1 DEF Record
<1>3. next \in Call /\ next.op = call[c].op /\ next.at = "disposing"
  BY <1>a DEF Call, Points
<1> HIDE DEF next
<1>4. call' \in [Callers -> Call] /\ call'[c] = next
      /\ \A d \in Callers \ {c} : call'[d] = call[d]
  BY <1>a, <1>1, <1>3
<1>5. ASSUME NEW r \in Runtimes
      PROVE  /\ runtimes'[r] \in Runtime
             /\ runtimes'[r].phase = "live" =>
                  runtimes[r].phase = "live" /\ r # record.runtime
  <2>1. [runtimes[r] EXCEPT !.phase = "disposing"] \in Runtime
        /\ [runtimes[r] EXCEPT !.phase = "disposing"].phase = "disposing"
    BY <1>a DEF Runtime
  <2>2. QED
    BY <1>a, <1>1, <2>1
<1>6. runtimes' \in [Runtimes -> Runtime]
  BY <1>1, <1>5
<1>f. failures' \in Nat
  BY DEF SuspendDisposes, CloseDisposes, Rejects, IInv, TypeOK
<1>7. TypeOK'
  BY <1>1, <1>2, <1>4, <1>6, <1>f DEF IInv, TypeOK
<1> SUFFICES ASSUME ClosersOpenAlone
             PROVE  Opening' /\ NoRuntimeLeaks'
  BY <1>7 DEF IInv, ClosersOpenAlone
<1>8. Opening /\ NoRuntimeLeaks
  BY DEF IInv
<1>9. Opening'
  <2>1. \A d \in Callers :
          /\ call'[d].op = call[d].op
          /\ call'[d].at \in {"reading", "creating"} =>
               call[d].at \in {"reading", "creating"}
    BY <1>3, <1>4
  <2>2. QED
    BY <1>1, <1>2, <1>8, <2>1 DEF Opening
<1>10. NoRuntimeLeaks'
  BY <1>2, <1>5, <1>8 DEF NoRuntimeLeaks
<1>11. QED
  BY <1>9, <1>10

LEMMA ContinueInv ==
  ASSUME IInv, NEW c \in Callers, Continue(c)
  PROVE  IInv'
<1>a. record \in Record /\ entry \in Entry /\ failures \in Nat /\ call[c] \in Call
  BY DEF IInv, TypeOK
<1>1. CASE Opened(c) \/ PromptReturns(c) \/ Saved(c)
  BY <1>a, <1>1, ReturnInv DEF Opened, PromptReturns, Saved, Closing, At
<1>2. CASE CallFails(c)
  <2>1. failures' \in Nat
    BY <1>a, <1>2 DEF CallFails, Rejects
  <2>2. QED
    BY <1>a, <1>2, <2>1, ReturnInv DEF CallFails, Closing, At
<1>3. CASE SuspendDecides(c)
  <2>1. "suspending" \in Points \ {"reading", "creating"}
    BY DEF Points
  <2>2. CASE Suspendable
    BY <1>a, <1>3, <2>1, <2>2, PersistMoveInv DEF SuspendDecides, Closing, At
  <2>3. CASE ~Suspendable
    BY <1>a, <1>3, <2>3, ReturnInv DEF SuspendDecides, Closing, At
  <2>4. QED
    BY <2>2, <2>3
<1>4. CASE SuspendForgets(c)
  <2>1. record' \in Record
        /\ record'.runtime = record.runtime /\ record'.agent = record.agent
        /\ record'.present = record.present /\ record'.closed = record.closed
    BY <1>a, <1>4 DEF SuspendForgets, Record
  <2>2. QED
    BY <1>a, <1>4, <2>1, ReturnInv DEF SuspendForgets, Disposed, Closing, At
<1>5. CASE CancelAborts(c)
  <2>1. /\ call' \in [Callers -> Call]
        /\ \A d \in Callers : call'[d].op = call[d].op
        /\ call'[c].at = "draining"
        /\ \A d \in Callers \ {c} : call'[d] = call[d]
    BY <1>5, MovesTyped DEF CancelAborts, IInv, TypeOK, Points
  <2>2. ~Closing(c)
    BY <1>5 DEF CancelAborts, Closing
  <2>3. QED
    BY <1>a, <1>5, <2>1, <2>2, MoveInv DEF CancelAborts, IInv, TypeOK
<1>6. CASE ArchiveWrites(c)
  <2>1. /\ call' \in [Callers -> Call]
        /\ \A d \in Callers : call'[d].op = call[d].op
        /\ call'[c].at = "saving"
        /\ \A d \in Callers \ {c} : call'[d] = call[d]
    BY <1>6, MovesTyped DEF ArchiveWrites, IInv, TypeOK, Points
  <2>2. ~Closing(c)
    BY <1>6 DEF ArchiveWrites, Closing, At
  <2>3. entry' \in Entry
    BY <1>a, <1>6 DEF ArchiveWrites, Call, Entry
  <2>4. QED
    BY <1>a, <1>6, <2>1, <2>2, <2>3, MoveInv DEF ArchiveWrites, IInv, TypeOK
<1>7. CASE CloseSaves(c)
  <2>1. "saving" \in Points \ {"reading", "creating"}
    BY DEF Points
  <2>2. QED
    BY <1>a, <1>7, <2>1, PersistMoveInv DEF CloseSaves, Disposed, Closing, At
<1>8. QED
  BY <1>1, <1>2, <1>3, <1>4, <1>5, <1>6, <1>7, OpenReadsInv, OpenCreatesInv, OpenBindsInv,
     EnsuredInv, SendStartsInv, PromptInv, PersistingInv, DisposeInv
  DEF Continue

LEMMA StepInv ==
  ASSUME IInv, [Next]_vars
  PROVE  IInv'
<1>1. CASE Next
  BY <1>1, CallsInv, ContinueInv, SettlesInv, DrainInv DEF Next
<1>2. CASE UNCHANGED vars
  BY <1>2 DEF vars, IInv, TypeOK, ClosersOpenAlone, Opening, Closing, At, NoRuntimeLeaks
<1>3. QED
  BY <1>1, <1>2

LEMMA Invariance == Spec => []IInv
<1>1. IInv /\ [Next]_vars => IInv'
  BY StepInv
<1>2. QED
  BY <1>1, InitInv, PTL DEF Spec

(* The record's fields, the entry, the runtimes and the calls keep their   *)
(* types (SessionSupervisor), whoever calls what.                          *)
THEOREM TypeCorrect == Spec => []TypeOK
<1>1. IInv => TypeOK
  BY DEF IInv
<1>2. QED
  BY <1>1, Invariance, PTL

(* ensureRecord, openRecord, suspendSessionRuntime and closeSession:       *)
(* however many calls overlap, and whichever reject, no runtime is left    *)
(* open behind the record, as long as nobody opens the session who does not*)
(* first await the closeSession of it.                                     *)
THEOREM NothingLeaks ==
  ASSUME ClosersOpenAlone
  PROVE  Spec => []NoRuntimeLeaks
<1>1. IInv => NoRuntimeLeaks
  BY DEF IInv
<1>2. QED
  BY <1>1, Invariance, PTL

------------------------------------------------------------------------------
(* Where nobody offers closeSession, no record is closed.                  *)
NoClose == \A c \in Callers : "close" \notin Offered[c]

Unclosed ==
  /\ ~record.closed
  /\ record.runtime # None => record.present
  /\ \A c \in Callers : call[c].op # "close"
  /\ \A c \in Callers : call[c].at \in {"reading", "creating"} =>
       pendingOpen = c /\ record.runtime = None

OpenInv == TypeOK /\ Unclosed /\ NoRuntimeLeaks

LEMMA NeverClosed ==
  ASSUME NoClose, IInv
  PROVE  OpenInv
<1>1. Opening /\ NoRuntimeLeaks
  BY DEF NoClose, ClosersOpenAlone, IInv
<1>2. QED
  BY <1>1 DEF NoClose, OpenInv, Unclosed, Opening, IInv

(* One user of the session, who may send, queue, run commands, cancel and  *)
(* suspend, in one call after another, while any others only open it.      *)
OneUser(u) ==
  /\ Offered[u] \subseteq {"open", "send", "queue", "command", "cancel", "suspend"}
  /\ \A c \in Callers \ {u} : Offered[c] \subseteq {"open"}

OpenPoints ==
  {"returned", "waiting", "reading", "creating", "binding", "reconciling", "ensured"}

Apart(u) ==
  /\ \A c \in Callers \ {u} : call[c].op = "open" /\ call[c].at \in OpenPoints
  /\ call[u].at # "archiving"

(* Nobody else takes the runtime away from under the user's call. *)
Held(u) ==
  /\ call[u].at \in {"persisting", "prompting", "aborting", "draining", "suspending"} =>
       record.runtime # None
  /\ call[u].at \in {"persisting", "prompting"} => call[u].on = record.runtime

Alive ==
  /\ record.runtime # None => runtimes[record.runtime].phase = "live"
  /\ \A r \in Runtimes : runtimes[r].phase = "unopened" => ~runtimes[r].streaming

(* A run streams only while its prompt is awaited. *)
Awaited(u) == Streaming(record) => At(u, "prompting") /\ record.status = "running"

(* What else than a run a session may be shown as running for. *)
Excused(u) ==
  failures = 0 /\ record.present /\ record.status = "running" =>
    \/ Streaming(record)
    \/ At(u, "persisting") /\ call[u].op = "send"
    \/ \E c \in Callers : At(c, "binding")

(* What a suspension is about to leave, and what it has left. *)
Parked(u) ==
  At(u, "suspending") \/ (record.present /\ record.runtime = None) =>
    record.status # "running" /\ entry = Snapshot(record)

(* The entry an opening call has read stays the entry until it is used. *)
ReadRight == \A c \in Callers : At(c, "creating") => call[c].seen = entry

Stored ==
  /\ dirty => record.present
  /\ record.present /\ ~dirty => entry = Snapshot(record)

UserInv(u) ==
  /\ Apart(u) /\ Held(u) /\ Alive /\ Awaited(u) /\ Excused(u) /\ Parked(u)
  /\ ReadRight /\ Stored

LEMMA InitUser ==
  ASSUME NEW u \in Callers, Init
  PROVE  UserInv(u)
<1>1. \A c \in Callers : call[c] = NoCall /\ call[c].at = "returned" /\ call[c].op = "open"
  BY NoCallTyped DEF Init
<1>2. record.runtime = None /\ ~record.present /\ ~dirty
      /\ \A r \in Runtimes : ~runtimes[r].streaming
  BY DEF Init
<1>3. Apart(u)
  BY <1>1 DEF Apart, OpenPoints
<1>4. Held(u) /\ Alive /\ Awaited(u) /\ Excused(u) /\ Parked(u) /\ ReadRight /\ Stored
  BY <1>1, <1>2 DEF Held, Alive, Awaited, Streaming, Excused, Parked, ReadRight, Stored, At
<1>5. QED
  BY <1>3, <1>4 DEF UserInv

(* Steps that change none of what the invariant looks at but a call. *)
LEMMA KeepsUser ==
  ASSUME NEW u \in Callers, OpenInv, UserInv(u), Apart(u)',
         record'.runtime = record.runtime, record'.present = record.present,
         record'.status = record.status, record'.archived = record.archived,
         entry' = entry, dirty' = dirty,
         record.runtime # None =>
           /\ runtimes'[record.runtime].phase = runtimes[record.runtime].phase
           /\ runtimes'[record.runtime].streaming = runtimes[record.runtime].streaming,
         \A r \in Runtimes : runtimes'[r].phase = "unopened" => ~runtimes'[r].streaming,
         \A c \in Callers : call'[c].at = "creating" => call'[c] = call[c],
         \/ call'[u] = call[u]
         \/ /\ call'[u].at \notin {"persisting", "prompting", "suspending"}
            /\ call'[u].at \in {"aborting", "draining"} => record.runtime # None
            /\ call[u].at # "prompting",
         \/ failures' # 0
         \/ record.present /\ record.status = "running" => Streaming(record)
         \/ /\ failures' = failures
            /\ \A c \in Callers : call[c].at = "binding" => call'[c].at = "binding"
            /\ call[u].at = "persisting" /\ call[u].op = "send" => call'[u] = call[u]
  PROVE  UserInv(u)'
<1>a. record.runtime \in Runtimes \cup {None}
  BY DEF OpenInv, TypeOK, Record
<1>b. Streaming(record)' <=> Streaming(record)
  BY <1>a DEF Streaming
<1>c. Snapshot(record)' = Snapshot(record)
  BY DEF Snapshot
<1>1. Held(u)'
  BY DEF UserInv, Held
<1>2. Alive'
  BY <1>a DEF UserInv, Alive
<1>3. Awaited(u)'
  BY <1>b DEF UserInv, Awaited, At
<1>4. Excused(u)'
  <2>1. CASE failures' # 0
    BY <2>1 DEF Excused
  <2>2. CASE /\ failures' = failures
             /\ \A c \in Callers : call[c].at = "binding" => call'[c].at = "binding"
             /\ call[u].at = "persisting" /\ call[u].op = "send" => call'[u] = call[u]
    BY <2>2, <1>b DEF UserInv, Excused, At
  <2>3. CASE record.present /\ record.status = "running" => Streaming(record)
    BY <2>3, <1>b DEF Excused
  <2>4. QED
    BY <2>1, <2>2, <2>3
<1>5. Parked(u)'
  BY <1>c DEF UserInv, Parked, At
<1>6. ReadRight'
  BY DEF UserInv, ReadRight, At
<1>7. Stored'
  BY <1>c DEF UserInv, Stored
<1>8. QED
  BY <1>1, <1>2, <1>3, <1>4, <1>5, <1>6, <1>7 DEF UserInv

(* Steps that persist a record which has a runtime. *)
LEMMA PersistsUser ==
  ASSUME NEW u \in Callers, OpenInv', UserInv(u), Apart(u)', Held(u)', Awaited(u)', Excused(u)',
         record.runtime # None, record'.runtime = record.runtime,
         record'.present = record.present,
         entry' = Snapshot(record'), dirty' = dirty, UNCHANGED runtimes,
         call'[u].at = "suspending" => record'.status # "running"
  PROVE  UserInv(u)'
<1>1. Alive'
  BY DEF UserInv, Alive
<1>2. Parked(u)'
  BY DEF Parked, At
<1>3. ReadRight'
  BY DEF ReadRight, At, OpenInv, Unclosed
<1>4. Stored'
  BY DEF UserInv, Stored
<1>5. QED
  BY <1>1, <1>2, <1>3, <1>4 DEF UserInv

(* The facts about states that the steps below start from. *)
LEMMA UserFacts ==
  ASSUME NEW u \in Callers, OpenInv, UserInv(u)
  PROVE  /\ record \in Record /\ entry \in Entry /\ call \in [Callers -> Call]
         /\ runtimes \in [Runtimes -> Runtime] /\ failures \in Nat
         /\ record.runtime \in Runtimes \cup {None} /\ record.agent = record.runtime
         /\ record.runtime # None =>
              record.present /\ \A c \in Callers : call[c].at # "creating"
         /\ \A r \in Runtimes : runtimes[r].phase = "unopened" => ~runtimes[r].streaming
         /\ call[u].at # "prompting" => ~Streaming(record)
BY DEF OpenInv, TypeOK, Record, NoRuntimeLeaks, Unclosed, UserInv, Alive, Awaited, At

(* reconcileRecordStreamingState, of the record as it is or without its    *)
(* binding mark.                                                           *)
LEMMA ReconcilesUser ==
  ASSUME NEW u \in Callers, OpenInv, OpenInv', UserInv(u), Apart(u)', NEW rec \in Record,
         rec.runtime = record.runtime, rec.present = record.present,
         rec.status = record.status, rec.archived = record.archived,
         Reconcile(rec), dirty' = dirty, UNCHANGED runtimes,
         \A c \in Callers : call'[c].at = "creating" => call'[c] = call[c],
         \/ call'[u] = call[u]
         \/ /\ call'[u].at \notin {"persisting", "prompting", "aborting", "draining",
                                   "suspending"}
            /\ call[u].at # "prompting"
  PROVE  UserInv(u)'
<1>a. /\ record.runtime \in Runtimes \cup {None}
      /\ \A r \in Runtimes : runtimes[r].phase = "unopened" => ~runtimes[r].streaming
      /\ call[u].at # "prompting" => ~Streaming(record)
      /\ record.runtime # None => record.present
  BY UserFacts
<1>b. Streaming(rec) <=> Streaming(record)
  BY DEF Streaming
<1>c. record' = Reconciled(rec)
  BY DEF Reconcile
<1>1. CASE InStep(rec)
  <2>1. record' = rec /\ entry' = entry
    BY <1>1, <1>c DEF InStep, Reconcile
  <2>2. record.present /\ record.status = "running" => Streaming(record)
    <3> SUFFICES ASSUME record.present, record.status = "running", ~Streaming(record)
                 PROVE  FALSE
      OBVIOUS
    <3>1. record.runtime # None
      BY DEF UserInv, Parked
    <3>2. Reconciled(rec) = [rec EXCEPT !.status = "idle", !.run = FALSE]
      BY <1>b, <3>1 DEF Reconciled
    <3>3. Reconciled(rec).status = "idle"
      BY <3>2 DEF Record
    <3>4. QED
      BY <1>1, <3>3 DEF InStep
  <2>3. QED
    BY <1>a, <2>1, <2>2, KeepsUser
<1>2. CASE ~InStep(rec)
  <2>1. entry' = Snapshot(record')
    BY <1>2, <1>c DEF Reconcile
  <2>2. /\ record.runtime # None
        /\ record' \in Record /\ record'.runtime = record.runtime
        /\ record'.present = record.present
    BY <1>2, <1>c, ReconciledTyped DEF InStep, Reconciled, Streaming
  <2>3. record'.status = IF Streaming(record) THEN "running" ELSE "idle"
    BY <1>2, <1>b, <1>c DEF InStep, Reconciled, Record
  <2>4. Streaming(record)' <=> Streaming(record)
    BY <2>2 DEF Streaming
  <2>5. Streaming(record) => call'[u] = call[u] /\ call[u].at = "prompting"
    BY <1>a
  <2>6. Held(u)'
    BY <2>2 DEF UserInv, Held
  <2>7. Awaited(u)'
    BY <2>3, <2>4, <2>5 DEF Awaited, At
  <2>8. Excused(u)'
    BY <2>3, <2>4 DEF Excused
  <2>9. call'[u].at = "suspending" => record'.status # "running"
    BY <2>3, <2>5
  <2>10. QED
    BY <2>1, <2>2, <2>6, <2>7, <2>8, <2>9, PersistsUser
<1>3. QED
  BY <1>1, <1>2

LEMMA EnsureUser ==
  ASSUME NEW u \in Callers, OneUser(u), OpenInv, OpenInv', UserInv(u), NEW c \in Callers,
         NEW op \in Operations, Ensure(c, op)
  PROVE  UserInv(u)'
<1>a. /\ record \in Record /\ call \in [Callers -> Call]
      /\ record.runtime \in Runtimes \cup {None}
      /\ \A r \in Runtimes : runtimes[r].phase = "unopened" => ~runtimes[r].streaming
  BY UserFacts
<1>b. call[c].at = "returned" /\ (c # u => op = "open") /\ call[c] \in Call
  BY <1>a DEF Ensure, Starts, At, OneUser
<1>1. PICK point \in {"ensured", "reconciling", "waiting", "reading"} :
        /\ call' = [call EXCEPT ![c] = [NoCall EXCEPT !.op = op, !.at = point]]
        /\ point \in {"waiting", "reading"} => ~Resident
  BY DEF Ensure
<1>2. /\ call'[c].op = op /\ call'[c].at = point
      /\ \A d \in Callers : d # c => call'[d] = call[d]
  BY <1>a, <1>1, NoCallTyped DEF Call
<1>3. Apart(u)'
  BY <1>b, <1>2 DEF UserInv, Apart, OpenPoints
<1>4. \A d \in Callers : call'[d].at = "creating" => call'[d] = call[d]
  BY <1>2
<1>5. UNCHANGED <<runtimes, dirty, failures>>
  BY DEF Ensure
<1>6. CASE Resident
  <2>1. Reconcile(record)
    BY <1>6 DEF Ensure
  <2>2. QED
    BY <1>a, <1>b, <1>2, <1>3, <1>4, <1>5, <2>1, ReconcilesUser
<1>7. CASE ~Resident
  <2>1. UNCHANGED <<record, entry>>
    BY <1>7 DEF Ensure
  <2>2. QED
    BY <1>a, <1>b, <1>2, <1>3, <1>4, <1>5, <2>1, KeepsUser
<1>8. QED
  BY <1>6, <1>7

LEMMA OpenReadsUser ==
  ASSUME NEW u \in Callers, OpenInv, OpenInv', UserInv(u), NEW c \in Callers, OpenReads(c)
  PROVE  UserInv(u)'
<1>a. call \in [Callers -> Call] /\ call[c] \in Call
  BY UserFacts
<1>1. call[c].at = "reading" /\ UNCHANGED <<record, entry, runtimes, dirty, failures>>
  BY DEF OpenReads, At
<1>2. call' = [call EXCEPT ![c] = [call[c] EXCEPT !.at = "creating", !.seen = entry]]
  BY DEF OpenReads
<1>3. /\ call'[c].op = call[c].op /\ call'[c].at = "creating" /\ call'[c].seen = entry
      /\ \A d \in Callers : d # c => call'[d] = call[d]
  BY <1>a, <1>2 DEF Call
<1>4. Apart(u)' /\ Held(u)'
  BY <1>1, <1>3 DEF UserInv, Apart, Held, OpenPoints
<1>5. Streaming(record)' = Streaming(record) /\ Snapshot(record)' = Snapshot(record)
  BY <1>1 DEF Streaming, Snapshot
<1>6. Alive' /\ Awaited(u)' /\ Parked(u)' /\ Stored'
  BY <1>1, <1>3, <1>5 DEF UserInv, Alive, Awaited, Parked, Stored, At
<1>7. Excused(u)'
  BY <1>1, <1>3, <1>5 DEF UserInv, Excused, At
<1>8. ReadRight'
  BY <1>1, <1>3 DEF UserInv, ReadRight, At
<1>9. QED
  BY <1>4, <1>6, <1>7, <1>8 DEF UserInv

LEMMA OpenCreatesUser ==
  ASSUME NEW u \in Callers, OpenInv, OpenInv', UserInv(u), NEW c \in Callers, OpenCreates(c)
  PROVE  UserInv(u)'
<1>a. /\ call \in [Callers -> Call] /\ call[c] \in Call /\ record \in Record
      /\ runtimes \in [Runtimes -> Runtime] /\ entry \in Entry
      /\ \A r \in Runtimes : runtimes[r].phase = "unopened" => ~runtimes[r].streaming
  BY UserFacts
<1>1. PICK r \in Runtimes :
        /\ runtimes[r].phase = "unopened"
        /\ runtimes' = [runtimes EXCEPT ![r] = [runtimes[r] EXCEPT !.phase = "live"]]
        /\ record' = [record EXCEPT !.present = TRUE, !.runtime = r, !.agent = r,
                                    !.status = call[c].seen.status,
                                    !.archived = call[c].seen.archived,
                                    !.closed = FALSE, !.binding = TRUE]
  BY DEF OpenCreates
<1>2. r # None
  BY DEF Runtimes, None
<1>3. /\ record'.present /\ record'.runtime = r
      /\ record'.status = call[c].seen.status /\ record'.archived = call[c].seen.archived
  BY <1>a, <1>1 DEF Record
<1>4. /\ runtimes'[r].phase = "live" /\ ~runtimes'[r].streaming
      /\ \A q \in Runtimes : q # r => runtimes'[q] = runtimes[q]
  BY <1>a, <1>1 DEF Runtime
<1>5. /\ call[c].at = "creating" /\ call'[c].at = "binding"
      /\ call'[c].op = call[c].op
      /\ \A d \in Callers : d # c => call'[d] = call[d]
      /\ UNCHANGED <<entry, dirty, failures>>
  BY <1>a, MovesTyped DEF OpenCreates, Points, At
<1>6. record.runtime = None /\ \A d \in Callers : d # c => call[d].at # "creating"
  BY <1>5 DEF OpenInv, Unclosed
<1>7. call'[u].at \notin {"persisting", "prompting", "aborting", "draining", "suspending"}
  BY <1>5, <1>6 DEF UserInv, Held
<1>8. Apart(u)' /\ Held(u)'
  BY <1>5, <1>7 DEF UserInv, Apart, Held, OpenPoints
<1>9. Alive'
  BY <1>a, <1>3, <1>4 DEF Alive
<1>10. Awaited(u)'
  BY <1>3, <1>4 DEF Awaited, Streaming
<1>11. Excused(u)'
  BY <1>5 DEF Excused, At
<1>12. Parked(u)'
  BY <1>2, <1>3, <1>7 DEF Parked, At
<1>13. ReadRight'
  BY <1>5, <1>6 DEF ReadRight, At
<1>14. Stored'
  <2>1. call[c].seen = entry
    BY <1>5 DEF UserInv, ReadRight, At
  <2>2. entry = [status |-> entry.status, archived |-> entry.archived]
    BY <1>a DEF Entry
  <2>3. entry' = Snapshot(record)'
    BY <1>3, <1>5, <2>1, <2>2 DEF Snapshot
  <2>4. QED
    BY <1>3, <2>3 DEF Stored
<1>15. QED
  BY <1>8, <1>9, <1>10, <1>11, <1>12, <1>13, <1>14 DEF UserInv

(* A call that leaves the waiting ones behind touches no other. *)
LEMMA ReleasesOthers ==
  ASSUME call \in [Callers -> Call], NEW c \in Callers, NEW point \in {"ensured", "returned"},
         Releases(c, point)
  PROVE  \A d \in Callers : d # c /\ call[d].at # "waiting" => call'[d] = call[d]
BY DEF Releases, At

LEMMA ReleasesUser ==
  ASSUME NEW u \in Callers, OpenInv, UserInv(u), NEW c \in Callers,
         NEW point \in {"ensured", "returned"}, Releases(c, point),
         call[c].at \in {"reading", "creating", "binding", "reconciling"}
  PROVE  /\ Apart(u)'
         /\ \A d \in Callers : call'[d].at = "creating" => call'[d] = call[d]
         /\ \/ call'[u] = call[u]
            \/ call'[u].at = point /\ call[u].at \notin {"prompting", "persisting"}
         /\ \A d \in Callers : d # c /\ call[d].at = "binding" => call'[d] = call[d]
<1>a. call \in [Callers -> Call] /\ pendingOpen \in Callers \cup {Nobody}
  BY DEF OpenInv, TypeOK
<1>1. /\ \A d \in Callers : call'[d].op \in {call[d].op, "open"}
      /\ \A d \in Callers : call'[d] = call[d] \/ call'[d].at = point
  BY <1>a, ReleasesTyped
<1>2. \A d \in Callers : d # c /\ call[d].at # "waiting" => call'[d] = call[d]
  BY <1>a, ReleasesOthers
<1>3. Apart(u)'
  BY <1>1 DEF UserInv, Apart, OpenPoints
<1>4. QED
  BY <1>1, <1>2, <1>3

LEMMA OpenBindsUser ==
  ASSUME NEW u \in Callers, OpenInv, OpenInv', UserInv(u), NEW c \in Callers, OpenBinds(c)
  PROVE  UserInv(u)'
<1> DEFINE bound == [record EXCEPT !.binding = FALSE]
<1>a. call \in [Callers -> Call] /\ record \in Record
  BY UserFacts
<1>1. /\ bound \in Record /\ bound.runtime = record.runtime
      /\ bound.present = record.present /\ bound.status = record.status
      /\ bound.archived = record.archived
  BY <1>a DEF Record
<1>2. /\ Reconcile(bound) /\ call[c].at = "binding"
      /\ UNCHANGED <<runtimes, dirty>>
      /\ Releases(c, "ensured") \/ Moves(c, "reconciling")
  BY DEF OpenBinds, At
<1> HIDE DEF bound
<1>3. /\ Apart(u)'
      /\ \A d \in Callers : call'[d].at = "creating" => call'[d] = call[d]
      /\ \/ call'[u] = call[u]
         \/ /\ call'[u].at \in {"ensured", "reconciling"}
            /\ call[u].at # "prompting"
  <2>1. CASE Releases(c, "ensured")
    BY <1>2, <2>1, ReleasesUser
  <2>2. CASE Moves(c, "reconciling")
    <3>1. /\ call'[c].op = call[c].op /\ call'[c].at = "reconciling"
          /\ \A d \in Callers : d # c => call'[d] = call[d]
      BY <1>a, <2>2, MovesTyped DEF Points
    <3>2. Apart(u)'
      BY <1>2, <3>1 DEF UserInv, Apart, OpenPoints
    <3>3. QED
      BY <1>2, <3>1, <3>2
  <2>3. QED
    BY <1>2, <2>1, <2>2
<1>4. QED
  BY <1>1, <1>2, <1>3, ReconcilesUser

LEMMA EnsuredUser ==
  ASSUME NEW u \in Callers, OpenInv, OpenInv', UserInv(u), NEW c \in Callers,
         Ensured(c) \/ EnsureFails(c)
  PROVE  UserInv(u)'
<1>a. /\ record \in Record /\ failures \in Nat
      /\ \A r \in Runtimes : runtimes[r].phase = "unopened" => ~runtimes[r].streaming
  BY UserFacts
<1>1. PICK point \in {"ensured", "returned"} :
        /\ Releases(c, point)
        /\ call[c].at \in {"reading", "creating", "binding", "reconciling"}
        /\ failures' # 0 \/ (failures' = failures /\ call[c].at = "reconciling")
  BY <1>a DEF Ensured, EnsureFails, Rejects, At
<1>2. /\ Apart(u)'
      /\ \A d \in Callers : call'[d].at = "creating" => call'[d] = call[d]
      /\ \/ call'[u] = call[u]
         \/ call'[u].at = point /\ call[u].at \notin {"prompting", "persisting"}
      /\ \A d \in Callers : d # c /\ call[d].at = "binding" => call'[d] = call[d]
  BY <1>1, ReleasesUser
<1>3. UNCHANGED <<entry, runtimes, dirty>>
      /\ record' \in {record, [record EXCEPT !.binding = FALSE]}
  BY DEF Ensured, EnsureFails
<1>4. /\ record'.runtime = record.runtime /\ record'.present = record.present
      /\ record'.status = record.status /\ record'.archived = record.archived
  BY <1>a, <1>3 DEF Record
<1>5. \/ failures' # 0
      \/ /\ failures' = failures
         /\ \A d \in Callers : call[d].at = "binding" => call'[d].at = "binding"
         /\ call[u].at = "persisting" /\ call[u].op = "send" => call'[u] = call[u]
  BY <1>1, <1>2
<1>6. QED
  BY <1>a, <1>2, <1>3, <1>4, <1>5, KeepsUser

(* A call returns, and nothing else changes. *)
LEMMA ReturnsUser ==
  ASSUME NEW u \in Callers, OpenInv, UserInv(u), NEW c \in Callers, Returns(c),
         record'.runtime = record.runtime, record'.present = record.present,
         record'.status = record.status, record'.archived = record.archived,
         UNCHANGED <<entry, runtimes, dirty>>,
         call[c].at # "prompting",
         \/ failures' # 0
         \/ /\ failures' = failures
            /\ call[c].at # "binding"
            /\ call[c].at = "persisting" => call[c].op # "send"
  PROVE  UserInv(u)'
<1>a. /\ call \in [Callers -> Call]
      /\ \A r \in Runtimes : runtimes[r].phase = "unopened" => ~runtimes[r].streaming
  BY UserFacts
<1>1. /\ call'[c] = NoCall /\ call'[c].at = "returned" /\ call'[c].op = "open"
      /\ \A d \in Callers : d # c => call'[d] = call[d]
  BY <1>a, ReturnsTyped, NoCallTyped
<1>2. Apart(u)'
  BY <1>1 DEF UserInv, Apart, OpenPoints
<1>3. \A d \in Callers : call'[d].at = "creating" => call'[d] = call[d]
  BY <1>1
<1>4. \/ call'[u] = call[u]
      \/ call'[u].at = "returned" /\ call[u].at # "prompting"
  BY <1>1
<1>5. \/ failures' # 0
      \/ /\ failures' = failures
         /\ \A d \in Callers : call[d].at = "binding" => call'[d].at = "binding"
         /\ call[u].at = "persisting" /\ call[u].op = "send" => call'[u] = call[u]
  BY <1>1
<1>6. QED
  BY <1>a, <1>2, <1>3, <1>4, <1>5, KeepsUser

(* The user's call begins or goes on, and nothing else changes. *)
LEMMA MovesUser ==
  ASSUME NEW u \in Callers, OpenInv, UserInv(u),
         \A d \in Callers : d # u => call'[d] = call[d],
         call'[u].at \notin {"creating", "archiving", "persisting", "prompting", "suspending"},
         call'[u].at \in {"aborting", "draining"} => record.runtime # None,
         call[u].at \notin {"prompting", "persisting", "binding"},
         UNCHANGED <<record, entry, runtimes, dirty, failures>>
  PROVE  UserInv(u)'
<1>1. Apart(u)'
  BY DEF UserInv, Apart
<1>2. \A r \in Runtimes : runtimes[r].phase = "unopened" => ~runtimes[r].streaming
  BY UserFacts
<1>3. \A d \in Callers : call[d].at = "binding" => call'[d].at = "binding"
  OBVIOUS
<1>4. QED
  BY <1>1, <1>2, <1>3, KeepsUser

(* The user's call persists the record with a status, and goes on. *)
LEMMA SavesUser ==
  ASSUME NEW u \in Callers, OpenInv, OpenInv', UserInv(u), NEW point, NEW rec,
         \A d \in Callers : d # u => call'[d] = call[d],
         call'[u].at = point, point \notin {"archiving", "prompting"},
         call[u].at # "prompting", record.runtime # None,
         point = "persisting" => call'[u].on = record.runtime,
         Persist(rec), rec.runtime = record.runtime, rec.present = record.present,
         UNCHANGED <<runtimes, dirty>>,
         \/ rec.status # "running"
         \/ failures' # 0
         \/ point = "persisting" /\ call'[u].op = "send"
         \/ /\ rec.status = record.status /\ failures' = failures
            /\ call[u].at \notin {"persisting", "binding"},
         point = "suspending" => rec.status # "running"
  PROVE  UserInv(u)'
<1>a. ~Streaming(record)
  BY UserFacts
<1>1. record' = rec /\ entry' = Snapshot(record')
  BY DEF Persist
<1>2. ~Streaming(record)'
  BY <1>a, <1>1 DEF Streaming
<1>3. Apart(u)'
  BY DEF UserInv, Apart
<1>4. Held(u)'
  BY <1>1 DEF Held
<1>5. Awaited(u)'
  BY <1>2 DEF Awaited
<1>6. Excused(u)'
  <2>1. CASE rec.status = record.status /\ failures' = failures
             /\ call[u].at \notin {"persisting", "binding"}
    <3>1. \A c \in Callers : call[c].at = "binding" => call'[c].at = "binding"
      BY <2>1
    <3>2. QED
      BY <1>a, <1>1, <2>1, <3>1 DEF UserInv, Excused, At
  <2>2. CASE rec.status # "running" \/ failures' # 0
             \/ (point = "persisting" /\ call'[u].op = "send")
    BY <1>1, <2>2 DEF Excused, At
  <2>3. QED
    BY <2>1, <2>2
<1>7. QED
  BY <1>1, <1>3, <1>4, <1>5, <1>6, PersistsUser

(* Only the user's call is ever past ensureRecord's end. *)
LEMMA UserAt ==
  ASSUME NEW u \in Callers, UserInv(u), NEW c \in Callers,
         call[c].at \notin OpenPoints \/ call[c].op # "open"
  PROVE  c = u
BY DEF UserInv, Apart

LEMMA SendStartsUser ==
  ASSUME NEW u \in Callers, OpenInv, OpenInv', UserInv(u), NEW c \in Callers, SendStarts(c)
  PROVE  UserInv(u)'
<1>a. /\ record \in Record /\ call \in [Callers -> Call] /\ call[c] \in Call
  BY UserFacts
<1>b. /\ c = u /\ call[c].at = "ensured"
      /\ UNCHANGED <<runtimes, dirty, failures>>
  BY UserAt DEF SendStarts, At
<1>c. ~Streaming(record)
  BY <1>b, UserFacts
<1>1. CASE Returns(c) /\ UNCHANGED <<record, entry>>
  BY <1>b, <1>1, ReturnsUser
<1>2. CASE /\ record.runtime # None
           /\ Persist([record EXCEPT !.status = "running", !.run = TRUE])
           /\ call' = [call EXCEPT ![c].op = "send", ![c].at = "persisting",
                                   ![c].on = record.runtime]
  <2> DEFINE rec == [record EXCEPT !.status = "running", !.run = TRUE]
             next == [call[c] EXCEPT !.op = "send", !.at = "persisting",
                                     !.on = record.runtime]
  <2>1. rec.runtime = record.runtime /\ rec.present = record.present /\ Persist(rec)
    BY <1>a, <1>2 DEF Record
  <2>2. next.op = "send" /\ next.at = "persisting" /\ next.on = record.runtime
    BY <1>a DEF Call
  <2>3. call' = [call EXCEPT ![c] = next]
    BY <1>2
  <2> HIDE DEF rec, next
  <2>4. call'[c] = next /\ \A d \in Callers : d # c => call'[d] = call[d]
    BY <1>a, <2>3
  <2>5. QED
    BY <1>b, <1>2, <2>1, <2>2, <2>4, SavesUser
<1>3. CASE /\ record.runtime # None
           /\ Persist(record)
           /\ call' = [call EXCEPT ![c].at = "persisting", ![c].on = record.runtime]
  <2> DEFINE next == [call[c] EXCEPT !.at = "persisting", !.on = record.runtime]
  <2>1. next.at = "persisting" /\ next.on = record.runtime
    BY <1>a DEF Call
  <2>2. call' = [call EXCEPT ![c] = next]
    BY <1>3
  <2> HIDE DEF next
  <2>3. call'[c] = next /\ \A d \in Callers : d # c => call'[d] = call[d]
    BY <1>a, <2>2
  <2>4. QED
    BY <1>b, <1>3, <2>1, <2>3, SavesUser
<1>4. QED
  BY <1>1, <1>2, <1>3 DEF SendStarts

LEMMA PromptUser ==
  ASSUME NEW u \in Callers, OpenInv, OpenInv', UserInv(u), NEW c \in Callers, Prompt(c)
  PROVE  UserInv(u)'
<1> DEFINE r == call[c].on
<1>a. /\ record \in Record /\ call \in [Callers -> Call]
      /\ runtimes \in [Runtimes -> Runtime]
      /\ record.runtime \in Runtimes \cup {None} /\ record.agent = record.runtime
      /\ \A q \in Runtimes : runtimes[q].phase = "unopened" => ~runtimes[q].streaming
      /\ record.runtime # None =>
           record.present /\ \A d \in Callers : call[d].at # "creating"
  BY UserFacts
<1>b. c = u /\ call[c].at = "persisting"
  BY UserAt DEF Prompt, At, OpenPoints
<1>1. record.runtime # None /\ r = record.runtime /\ r \in Runtimes
      /\ runtimes[r].phase = "live"
  BY <1>a, <1>b DEF UserInv, Held, Alive
<1>2. /\ record' = [record EXCEPT !.status = "running"] /\ dirty'
      /\ runtimes' = [runtimes EXCEPT ![r] = [runtimes[r] EXCEPT !.streaming = TRUE]]
  BY <1>a, <1>1 DEF Prompt
<1>3. /\ record'.runtime = r /\ record'.present /\ record'.status = "running"
  BY <1>a, <1>1, <1>2 DEF Record
<1>4. /\ runtimes'[r].streaming /\ runtimes'[r].phase = "live"
      /\ \A q \in Runtimes : q # r => runtimes'[q] = runtimes[q]
  BY <1>a, <1>1, <1>2 DEF Runtime
<1>5. /\ call'[c].op = call[c].op /\ call'[c].at = "prompting" /\ call'[c].on = r
      /\ \A d \in Callers : d # c => call'[d] = call[d]
  BY <1>a DEF Prompt, Moves, Call
<1> HIDE DEF r
<1>6. Apart(u)' /\ Held(u)'
  BY <1>1, <1>3, <1>5, <1>b DEF UserInv, Apart, Held
<1>7. Alive' /\ Awaited(u)' /\ Excused(u)'
  BY <1>a, <1>b, <1>1, <1>3, <1>4, <1>5 DEF Alive, Awaited, Excused, Streaming, At
<1>8. Parked(u)' /\ ReadRight' /\ Stored'
  BY <1>a, <1>b, <1>1, <1>2, <1>3, <1>5 DEF Parked, ReadRight, Stored, At
<1>9. QED
  BY <1>6, <1>7, <1>8 DEF UserInv

LEMMA PersistingUser ==
  ASSUME NEW u \in Callers, OpenInv, OpenInv', UserInv(u), NEW c \in Callers,
         CommandRuns(c) \/ SendFails(c) \/ CancelSettles(c) \/ SuspendDecides(c)
  PROVE  UserInv(u)'
<1>a. record \in Record /\ call \in [Callers -> Call] /\ failures \in Nat
  BY UserFacts
<1>b. c = u /\ call[c].at \in {"persisting", "draining"}
      /\ UNCHANGED <<runtimes, dirty>>
  BY UserAt DEF CommandRuns, SendFails, CancelSettles, SuspendDecides, At, OpenPoints
<1>c. ~Streaming(record) /\ record.runtime # None
  BY <1>b, UserFacts DEF UserInv, Held
<1>1. ASSUME NEW status, NEW run
      PROVE  LET rec == [record EXCEPT !.status = status, !.run = run]
             IN  /\ rec.runtime = record.runtime /\ rec.present = record.present
                 /\ rec.status = status
  BY <1>a DEF Record
<1>2. ASSUME NEW point \in {"saving", "suspending"}, Moves(c, point)
      PROVE  /\ call'[u].at = point
             /\ \A d \in Callers : d # u => call'[d] = call[d]
  BY <1>a, <1>b, <1>2, MovesTyped DEF Points
<1>3. ASSUME NEW point \in {"saving", "suspending"}, Moves(c, point),
             NEW status, NEW run, Persist([record EXCEPT !.status = status, !.run = run]),
             status # "running" \/ (failures' # 0 /\ point = "saving")
      PROVE  UserInv(u)'
  <2> DEFINE rec == [record EXCEPT !.status = status, !.run = run]
  <2>1. rec.runtime = record.runtime /\ rec.present = record.present /\ rec.status = status
    BY <1>1
  <2>2. Persist(rec)
    BY <1>3
  <2> HIDE DEF rec
  <2>3. QED
    BY <1>b, <1>c, <1>2, <1>3, <2>1, <2>2, SavesUser
<1>4. CASE CommandRuns(c)
  <2>1. Streaming(record) = FALSE
    BY <1>c DEF Streaming
  <2>2. /\ Persist([record EXCEPT !.status = IF Streaming(record) THEN "running" ELSE "idle",
                                  !.run = Streaming(record)])
        /\ Moves(c, "saving")
    BY <1>4 DEF CommandRuns
  <2>3. Persist([record EXCEPT !.status = "idle", !.run = FALSE])
    BY <2>1, <2>2
  <2>4. QED
    BY <1>3, <2>2, <2>3
<1>5. CASE SendFails(c)
  <2> DEFINE op == call[c].op
             was == record.run
  <2>1. op = "queue" => failures' # 0
    BY <1>a, <1>5 DEF SendFails, Rejects
  <2>2. Moves(c, "saving")
    BY <1>5 DEF SendFails
  <2>3. PICK status : /\ status # "running" \/ op = "queue"
                      /\ Persist([record EXCEPT !.status = status,
                                                !.run = was /\ op = "queue"])
    <3> DEFINE status == CASE op = "queue" -> "running"
                           [] op = "command" -> "idle"
                           [] OTHER -> "failed"
    <3>1. status # "running" \/ op = "queue"
      OBVIOUS
    <3>2. Persist([record EXCEPT !.status = status, !.run = was /\ op = "queue"])
      BY <1>5 DEF SendFails
    <3> HIDE DEF status, op, was
    <3>3. QED
      BY <3>1, <3>2
  <2> HIDE DEF op, was
  <2>4. QED
    BY <1>3, <2>1, <2>2, <2>3
<1>6. CASE CancelSettles(c)
  <2>1. Persist([record EXCEPT !.status = "idle", !.run = FALSE]) /\ Moves(c, "saving")
    BY <1>c, <1>6 DEF CancelSettles
  <2>2. QED
    BY <1>3, <2>1
<1>7. CASE SuspendDecides(c)
  <2>1. CASE Suspendable
    <3>1. Persist(record) /\ Moves(c, "suspending") /\ record.status = "idle"
      BY <1>7, <2>1 DEF SuspendDecides, Suspendable
    <3>2. /\ call'[u].at = "suspending"
          /\ \A d \in Callers : d # u => call'[d] = call[d]
      BY <1>2, <3>1
    <3>3. QED
      BY <1>b, <1>c, <3>1, <3>2, SavesUser
  <2>2. CASE ~Suspendable
    <3>1. Returns(c) /\ UNCHANGED <<record, entry, failures>> /\ call[c].at = "draining"
      BY <1>7, <2>2 DEF SuspendDecides, At
    <3>2. QED
      BY <1>b, <3>1, ReturnsUser
  <2>3. QED
    BY <2>1, <2>2
<1>8. QED
  BY <1>4, <1>5, <1>6, <1>7

LEMMA SuspendDisposesUser ==
  ASSUME NEW u \in Callers, OpenInv, OpenInv', UserInv(u), NEW c \in Callers, SuspendDisposes(c)
  PROVE  UserInv(u)'
<1>a. /\ record \in Record /\ call \in [Callers -> Call]
      /\ runtimes \in [Runtimes -> Runtime]
      /\ \A q \in Runtimes : runtimes[q].phase = "unopened" => ~runtimes[q].streaming
      /\ record.runtime # None =>
           record.present /\ \A d \in Callers : call[d].at # "creating"
  BY UserFacts
<1>b. c = u /\ call[c].at = "suspending" /\ UNCHANGED <<entry, dirty, failures>>
  BY UserAt DEF SuspendDisposes, At, OpenPoints
<1>1. record.runtime # None /\ record.status # "running" /\ entry = Snapshot(record)
  BY <1>b DEF UserInv, Held, Parked, At
<1>2. /\ record' = [record EXCEPT !.runtime = None, !.agent = None]
      /\ runtimes' = [q \in Runtimes |->
           IF q = record.runtime THEN [runtimes[q] EXCEPT !.phase = "disposing"]
           ELSE runtimes[q]]
      /\ call' = [call EXCEPT ![c] = [call[c] EXCEPT !.at = "disposing",
                                                     !.on = record.runtime]]
  BY DEF SuspendDisposes, Dispose
<1>3. /\ record'.runtime = None /\ record'.present = record.present
      /\ record'.status = record.status /\ record'.archived = record.archived
  BY <1>a, <1>2 DEF Record
<1>4. /\ call'[c].at = "disposing"
      /\ \A d \in Callers : d # c => call'[d] = call[d]
  BY <1>a, <1>2 DEF Call
<1>5. ASSUME NEW q \in Runtimes, runtimes'[q].phase = "unopened"
      PROVE  ~runtimes'[q].streaming
  <2>1. CASE q = record.runtime
    BY <1>a, <1>2, <1>5, <2>1 DEF Runtime
  <2>2. CASE q # record.runtime
    BY <1>a, <1>2, <1>5, <2>2
  <2>3. QED
    BY <2>1, <2>2
<1>6. Snapshot(record)' = Snapshot(record)
  BY <1>3 DEF Snapshot
<1>7. Apart(u)' /\ Held(u)' /\ Alive' /\ Awaited(u)'
  BY <1>b, <1>3, <1>4, <1>5 DEF UserInv, Apart, Held, Alive, Awaited, Streaming
<1>8. Excused(u)' /\ Parked(u)' /\ ReadRight' /\ Stored'
  BY <1>a, <1>b, <1>1, <1>3, <1>4, <1>6
  DEF UserInv, Excused, Parked, ReadRight, Stored, At
<1>9. QED
  BY <1>7, <1>8 DEF UserInv

LEMMA SettlesUser ==
  ASSUME NEW u \in Callers, OpenInv, OpenInv', UserInv(u), NEW r \in Runtimes,
         JobStarts(r) \/ Settles(r)
  PROVE  UserInv(u)'
<1>a. /\ record \in Record /\ call \in [Callers -> Call] /\ dirty \in BOOLEAN
      /\ runtimes \in [Runtimes -> Runtime] /\ runtimes[r] \in Runtime
      /\ record.runtime \in Runtimes \cup {None} /\ record.agent = record.runtime
      /\ \A q \in Runtimes : runtimes[q].phase = "unopened" => ~runtimes[q].streaming
      /\ record.runtime # None =>
           record.present /\ \A d \in Callers : call[d].at # "creating"
      /\ call[u].at # "prompting" => ~Streaming(record)
  <2>1. dirty \in BOOLEAN
    BY DEF OpenInv, TypeOK
  <2>2. QED
    BY <2>1, UserFacts DEF Runtime
<1>b. \A d \in Callers : call[d].at = "prompting" => d = u /\ call[d].on = record.runtime
  BY UserAt DEF OpenPoints, UserInv, Held
<1>c. r # None
  BY DEF Runtimes, None
<1>1. CASE JobStarts(r) \/ JobEnds(r)
  <2>1. /\ UNCHANGED <<entry, call, dirty, failures>>
        /\ record' \in {record, [record EXCEPT !.job = TRUE], [record EXCEPT !.job = FALSE]}
        /\ \E job \in BOOLEAN :
             runtimes' = [runtimes EXCEPT ![r] = [runtimes[r] EXCEPT !.job = job]]
    BY <1>1 DEF JobStarts, JobEnds
  <2>2. /\ record'.runtime = record.runtime /\ record'.present = record.present
        /\ record'.status = record.status /\ record'.archived = record.archived
    BY <1>a, <2>1 DEF Record
  <2>3. \A q \in Runtimes : /\ runtimes'[q].phase = runtimes[q].phase
                            /\ runtimes'[q].streaming = runtimes[q].streaming
    BY <1>a, <2>1 DEF Runtime
  <2>4. Apart(u)'
    BY <2>1 DEF UserInv, Apart
  <2>5. QED
    BY <1>a, <2>1, <2>2, <2>3, <2>4, KeepsUser
<1>2. CASE DisposeEnds(r)
  <2>1. /\ runtimes[r].phase = "disposing" /\ UNCHANGED <<record, entry, dirty, failures>>
        /\ runtimes' = [runtimes EXCEPT ![r] =
             [phase |-> "disposed", streaming |-> FALSE, job |-> FALSE]]
        /\ call' = [c \in Callers |->
             IF At(c, "prompting") /\ call[c].on = r THEN NoCall ELSE call[c]]
    BY <1>2 DEF DisposeEnds
  <2>2. r # record.runtime
    BY <2>1, <1>c DEF UserInv, Alive
  <2>3. \A d \in Callers : call'[d] = call[d]
    BY <1>b, <2>1, <2>2 DEF At
  <2>4. /\ \A q \in Runtimes : q # r => runtimes'[q] = runtimes[q]
        /\ runtimes'[r].phase = "disposed"
    BY <1>a, <2>1
  <2>5. Apart(u)'
    BY <2>3 DEF UserInv, Apart
  <2>6. QED
    BY <1>a, <2>1, <2>2, <2>3, <2>4, <2>5, KeepsUser
<1>3. ASSUME NEW status \in Status, AgentEnds(r, status)
      PROVE  UserInv(u)'
  <2>1. /\ runtimes[r].streaming /\ UNCHANGED <<entry, failures>>
        /\ status \in {"idle", "failed"}
        /\ runtimes' = [runtimes EXCEPT ![r] = [runtimes[r] EXCEPT !.streaming = FALSE]]
        /\ record' = IF record.agent = r
                     THEN [record EXCEPT !.status = status, !.run = FALSE] ELSE record
        /\ dirty' = (dirty \/ record.agent = r)
        /\ call' = [c \in Callers |->
             IF At(c, "prompting") /\ call[c].on = r THEN NoCall ELSE call[c]]
    BY <1>3 DEF AgentEnds
  <2>2. /\ \A q \in Runtimes : q # r => runtimes'[q] = runtimes[q]
        /\ ~runtimes'[r].streaming /\ runtimes'[r].phase = runtimes[r].phase
    BY <1>a, <2>1 DEF Runtime
  <2>3. CASE r # record.runtime
    <3>1. record' = record /\ dirty' = dirty
      BY <1>a, <2>1, <2>3
    <3>2. \A d \in Callers : call'[d] = call[d]
      BY <1>b, <2>1, <2>3 DEF At
    <3>3. Apart(u)'
      BY <3>2 DEF UserInv, Apart
    <3>4. QED
      BY <1>a, <2>1, <2>2, <2>3, <3>1, <3>2, <3>3, KeepsUser
  <2>4. CASE r = record.runtime
    <3>1. /\ record' = [record EXCEPT !.status = status, !.run = FALSE] /\ dirty'
      BY <1>a, <2>1, <2>4
    <3>2. /\ record'.runtime = r /\ record'.present /\ record'.status # "running"
      BY <1>a, <1>c, <2>1, <2>4, <3>1 DEF Record
    <3>3. call[u].at = "prompting" /\ call[u].on = r
      BY <1>a, <1>b, <1>c, <2>1, <2>4 DEF Streaming
    <3>4. /\ call'[u] = NoCall
          /\ \A d \in Callers : d # u => call'[d] = call[d]
      BY <1>b, <2>1, <3>3 DEF At
    <3>5. Apart(u)' /\ Held(u)'
      BY <3>4, NoCallTyped DEF UserInv, Apart, Held, OpenPoints
    <3>6. Alive'
      BY <1>a, <2>2, <2>4, <3>2 DEF UserInv, Alive
    <3>7. Awaited(u)' /\ Excused(u)'
      BY <2>2, <3>2 DEF Awaited, Excused, Streaming
    <3>8. Parked(u)' /\ ReadRight' /\ Stored'
      BY <1>a, <1>c, <2>4, <3>1, <3>2, <3>4, NoCallTyped DEF Parked, ReadRight, Stored, At
    <3>9. QED
      BY <3>5, <3>6, <3>7, <3>8 DEF UserInv
  <2>5. QED
    BY <2>3, <2>4
<1>4. QED
  BY <1>1, <1>2, <1>3 DEF Settles

LEMMA DrainUser ==
  ASSUME NEW u \in Callers, OpenInv, UserInv(u), DrainPersists
  PROVE  UserInv(u)'
<1>1. /\ record' = record /\ entry' = Snapshot(record) /\ dirty /\ ~dirty'
      /\ UNCHANGED <<runtimes, call, failures>>
  BY DEF DrainPersists, Persist
<1>2. Streaming(record)' = Streaming(record) /\ Snapshot(record)' = Snapshot(record)
  BY <1>1 DEF Streaming, Snapshot
<1>3. record.present /\ (record.runtime = None => entry' = entry)
  BY <1>1 DEF UserInv, Stored, Parked
<1>4. ReadRight'
  <2>1. record.runtime # None => \A d \in Callers : call[d].at # "creating"
    BY UserFacts
  <2>2. QED
    BY <1>1, <1>3, <2>1 DEF UserInv, ReadRight, At
<1>5. QED
  BY <1>1, <1>2, <1>4
  DEF UserInv, Apart, Held, Alive, Awaited, Excused, Parked, Stored, At

LEMMA CallsUser ==
  ASSUME NEW u \in Callers, OneUser(u), OpenInv, OpenInv', UserInv(u), NEW c \in Callers, Calls(c)
  PROVE  UserInv(u)'
<1>a. record \in Record /\ call \in [Callers -> Call]
  BY UserFacts
<1>1. ASSUME NEW op \in Operations, Archive(c, op)
      PROVE  FALSE
  BY <1>1 DEF Archive, Starts, OneUser
<1>2. CASE Close(c)
  BY <1>2 DEF Close, Starts, OneUser
<1>3. CASE Cancel(c) \/ Suspend(c)
  <2>1. PICK next : /\ call' = [call EXCEPT ![c] = next]
                    /\ next.at \in {"aborting", "draining"}
    <3>1. /\ [NoCall EXCEPT !.op = "cancel", !.at = "aborting", !.on = record.runtime].at
               = "aborting"
          /\ [NoCall EXCEPT !.op = "suspend", !.at = "draining"].at = "draining"
      BY NoCallTyped DEF Call
    <3>2. QED
      BY <1>3, <3>1 DEF Cancel, Suspend
  <2>2. /\ c = u /\ call[c].at = "returned" /\ record.runtime # None
        /\ UNCHANGED <<record, entry, runtimes, dirty, failures>>
    BY <1>3 DEF Cancel, Suspend, Starts, At, OneUser
  <2>3. call'[u] = next /\ \A d \in Callers : d # u => call'[d] = call[d]
    BY <1>a, <2>1, <2>2
  <2>4. QED
    BY <2>1, <2>2, <2>3, MovesUser
<1>4. QED
  BY <1>1, <1>2, <1>3, EnsureUser DEF Calls

LEMMA ContinueUser ==
  ASSUME NEW u \in Callers, OpenInv, OpenInv', UserInv(u), NEW c \in Callers, Continue(c)
  PROVE  UserInv(u)'
<1>a. record \in Record /\ call \in [Callers -> Call] /\ failures \in Nat
  BY UserFacts
<1>1. CASE Opened(c)
  BY <1>1, ReturnsUser DEF Opened, At
<1>2. CASE PromptReturns(c)
  <2>1. c = u /\ call[c].at = "persisting"
    BY <1>2, UserAt DEF PromptReturns, At, OpenPoints
  <2>2. call[c].op # "send"
    <3>1. call[c].on = record.runtime /\ runtimes[record.runtime].phase = "live"
      BY <2>1 DEF UserInv, Held, Alive
    <3>2. QED
      BY <1>2, <3>1 DEF PromptReturns
  <2>3. QED
    BY <1>2, <2>1, <2>2, ReturnsUser DEF PromptReturns
<1>3. CASE Saved(c)
  BY <1>3, ReturnsUser DEF Saved, At
<1>4. CASE CallFails(c)
  <2>1. failures' # 0 /\ call[c].at # "prompting"
    BY <1>a, <1>4 DEF CallFails, Rejects, At
  <2>2. QED
    BY <1>4, <2>1, ReturnsUser DEF CallFails
<1>5. CASE SuspendForgets(c)
  <2>1. c = u /\ call[c].at = "disposing"
    BY <1>5, UserAt DEF SuspendForgets, Disposed, At, OpenPoints
  <2>2. /\ record'.runtime = record.runtime /\ record'.present = record.present
        /\ record'.status = record.status /\ record'.archived = record.archived
    BY <1>a, <1>5 DEF SuspendForgets, Record
  <2>3. QED
    BY <1>5, <2>1, <2>2, ReturnsUser DEF SuspendForgets
<1>6. CASE CancelAborts(c)
  <2>1. c = u /\ call[c].at = "aborting" /\ record.runtime # None
        /\ UNCHANGED <<record, entry, runtimes, dirty, failures>>
    BY <1>6, UserAt DEF CancelAborts, Aborted, At, OpenPoints, UserInv, Held
  <2>2. /\ call'[c].at = "draining"
        /\ \A d \in Callers \ {c} : call'[d] = call[d]
    BY <1>a, <1>6, MovesTyped DEF CancelAborts, Points
  <2>3. QED
    BY <2>1, <2>2, MovesUser
<1>7. CASE ArchiveWrites(c)
  BY <1>7, UserAt DEF ArchiveWrites, At, OpenPoints, UserInv, Apart
<1>8. CASE CloseDisposes(c) \/ CloseSaves(c)
  BY <1>8 DEF CloseDisposes, CloseSaves, OpenInv, Unclosed
<1>9. QED
  BY <1>1, <1>2, <1>3, <1>4, <1>5, <1>6, <1>7, <1>8, OpenReadsUser, OpenCreatesUser,
     OpenBindsUser, EnsuredUser, SendStartsUser, PromptUser, PersistingUser,
     SuspendDisposesUser
  DEF Continue

LEMMA UserStep ==
  ASSUME NEW u \in Callers, OneUser(u), OpenInv, OpenInv', UserInv(u), [Next]_vars
  PROVE  UserInv(u)'
<1>1. CASE Next
  BY <1>1, CallsUser, ContinueUser, SettlesUser, DrainUser DEF Next
<1>2. CASE UNCHANGED vars
  BY <1>2 DEF vars, UserInv, Apart, Held, Alive, Awaited, Excused, Parked, ReadRight, Stored,
              Streaming, Snapshot, At
<1>3. QED
  BY <1>1, <1>2

LEMMA UserInvariance ==
  ASSUME NEW u \in Callers, OneUser(u)
  PROVE  Spec => []UserInv(u)
<1>1. NoClose
  <2> SUFFICES ASSUME NEW c \in Callers
               PROVE  "close" \notin Offered[c]
    BY DEF NoClose
  <2>1. Offered[c] \subseteq {"open", "send", "queue", "command", "cancel", "suspend"}
    <3>1. CASE c = u
      BY <3>1 DEF OneUser
    <3>2. CASE c # u
      BY <3>2 DEF OneUser
    <3>3. QED
      BY <3>1, <3>2
  <2>2. QED
    BY <2>1
<1>2. IInv => OpenInv
  BY <1>1, NeverClosed
<1>3. Spec => []OpenInv
  BY <1>2, Invariance, PTL
<1>4. OpenInv /\ OpenInv' /\ UserInv(u) /\ [Next]_vars => UserInv(u)'
  BY UserStep
<1>5. Init => UserInv(u)
  BY InitUser
<1>6. QED
  BY <1>3, <1>4, <1>5, PTL DEF Spec

(* sendUserMessage, cancelCurrentRun, suspendSessionRuntime and            *)
(* reconcileRecordStreamingState: for one user of the session and any      *)
(* number of callers that open it meanwhile, a streaming session is shown  *)
(* as running, and once the calls have returned and none failed, no other. *)
THEOREM StatusTold ==
  ASSUME NEW u \in Callers, OneUser(u)
  PROVE  Spec => []StatusIsTrue
<1>1. UserInv(u) => StatusIsTrue
  BY DEF UserInv, Awaited, Excused, StatusIsTrue, Quiescent, At
<1>2. QED
  BY <1>1, UserInvariance, PTL

(* persistSnapshot and openRecord: for one user of the session and any     *)
(* number of callers that open it meanwhile, whichever of the calls fail,  *)
(* once they have returned the catalog says what the record says.          *)
THEOREM EntryFollows ==
  ASSUME NEW u \in Callers, OneUser(u)
  PROVE  Spec => []EntryIsCurrent
<1>1. UserInv(u) => EntryIsCurrent
  BY DEF UserInv, Stored, EntryIsCurrent, Quiescent
<1>2. QED
  BY <1>1, UserInvariance, PTL
==============================================================================
