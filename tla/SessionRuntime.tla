---------------------------- MODULE SessionRuntime ----------------------------
(***************************************************************************)
(* SessionSupervisor's life of one session: the record in memory, the SDK  *)
(* runtimes opened and disposed for it, its entry in the catalog, and the  *)
(* API calls whose awaits interleave: sendUserMessage, cancelCurrentRun,   *)
(* suspendSessionRuntime, closeSession, updateArchivedState, and openSession*)
(* which stands for every call that does no more than ensureRecord.        *)
(*                                                                         *)
(* A step is what runs between two awaits.  The catalog's own writes are   *)
(* CatalogStore's, the event mailbox DriverMailbox's: here the mailbox is  *)
(* only a snapshot still to be persisted.                                  *)
(***************************************************************************)
EXTENDS Naturals

CONSTANTS
  Callers,      \* calls that may be under way at the same time
  Offered,      \* the operations each of them calls
  Nobody,       \* no caller
  MaxRuntimes,  \* bound: runtimes opened
  MaxCalls,     \* bound: calls
  MaxFailures   \* bound: rejections of the SDK, the catalog or a listener

Operations == {"open", "send", "queue", "command", "cancel", "suspend", "close",
               "archive", "unarchive"}

ASSUME NobodyIsNoCaller == Nobody \notin Callers
ASSUME OfferedOperations == Offered \in [Callers -> SUBSET Operations]
ASSUME BoundsAreNaturals == MaxRuntimes \in Nat /\ MaxCalls \in Nat /\ MaxFailures \in Nat

VARIABLES
  record,       \* the ManagedSessionRecord
  entry,        \* the session's entry in the catalog
  runtimes,     \* the SDK runtimes, by the order they were opened in
  pendingOpen,  \* the caller whose openRecord is in recordOpenPromises
  call,         \* the call each caller is in, and where it awaits
  dirty,        \* a snapshot waits in the mailbox to be persisted
  calls,        \* calls so far
  failures      \* rejections so far

vars == <<record, entry, runtimes, pendingOpen, call, dirty, calls, failures>>

Runtimes == 1 .. MaxRuntimes
None == 0

Status == {"idle", "running", "failed"}
Entry == [status: Status, archived: BOOLEAN]

(* runtime stands for the fields runtime and session; agent is the runtime *)
(* unsubscribeAgent belongs to; job tells whether the registry has an      *)
(* active job.                                                             *)
Record == [present: BOOLEAN, runtime: Runtimes \cup {None}, agent: Runtimes \cup {None},
           status: Status, run: BOOLEAN, archived: BOOLEAN, closed: BOOLEAN,
           binding: BOOLEAN, job: BOOLEAN]

Runtime == [phase: {"unopened", "live", "disposing", "disposed"},
            streaming: BOOLEAN, job: BOOLEAN]

(* Where a call awaits: "reading", "creating" and "binding" in openRecord, *)
(* "waiting" for another call's, "reconciling" at the end of ensureRecord. *)
Points == {"returned", "waiting", "reading", "creating", "binding", "reconciling",
           "ensured", "persisting", "prompting", "aborting", "draining",
           "suspending", "disposing", "archiving", "saving"}

Call == [op: Operations, at: Points, on: Runtimes \cup {None}, seen: Entry]

NoCall == [op |-> "open", at |-> "returned", on |-> None,
           seen |-> [status |-> "idle", archived |-> FALSE]]

Snapshot(rec) == [status |-> rec.status, archived |-> rec.archived]

At(c, point) == call[c].at = point

(* Of the runtimes opened so far: bashLifecycleGeneration is its number. *)
Newest(r) == \A q \in Runtimes : q > r => runtimes[q].phase = "unopened"

Streaming(rec) == rec.runtime # None /\ runtimes[rec.runtime].streaming

------------------------------------------------------------------------------
(* reconcileRecordStreamingState: what it makes of a record, and whether   *)
(* it persists it.                                                         *)
Reconciled(rec) ==
  IF Streaming(rec) THEN [rec EXCEPT !.status = "running", !.run = TRUE]
  ELSE IF rec.runtime # None /\ rec.status = "running"
    THEN [rec EXCEPT !.status = "idle", !.run = FALSE]
  ELSE rec

InStep(rec) == Reconciled(rec) = rec

Reconcile(rec) ==
  /\ record' = Reconciled(rec)
  /\ entry' = IF InStep(rec) THEN entry ELSE Snapshot(Reconciled(rec))

(* persistSnapshot of a record that has changed to rec. *)
Persist(rec) ==
  /\ record' = rec
  /\ entry' = Snapshot(rec)

Moves(c, point) == call' = [call EXCEPT ![c].at = point]

Returns(c) == call' = [call EXCEPT ![c] = NoCall]

Starts(c, op) ==
  /\ At(c, "returned")
  /\ op \in Offered[c]
  /\ calls < MaxCalls
  /\ calls' = calls + 1

(* One more rejection, within the bound. *)
Rejects == failures < MaxFailures /\ failures' = failures + 1

------------------------------------------------------------------------------
Init ==
  /\ entry \in Entry
  /\ record = [present |-> FALSE, runtime |-> None, agent |-> None, status |-> "idle",
               run |-> FALSE, archived |-> FALSE, closed |-> FALSE, binding |-> FALSE,
               job |-> FALSE]
  /\ runtimes = [r \in Runtimes |->
                   [phase |-> "unopened", streaming |-> FALSE, job |-> FALSE]]
  /\ pendingOpen = Nobody
  /\ call = [c \in Callers |-> NoCall]
  /\ dirty = FALSE
  /\ calls = 0
  /\ failures = 0

Resident == record.present /\ record.runtime # None /\ ~record.closed

(* ensureRecord: a resident session is reconciled, an opening one awaited, *)
(* any other one opened.                                                   *)
Ensure(c, op) ==
  /\ op \in {"open", "send", "queue", "command"}
  /\ Starts(c, op)
  /\ \/ /\ Resident
        /\ Reconcile(record)
        /\ call' = [call EXCEPT ![c] = [NoCall EXCEPT
             !.op = op, !.at = IF InStep(record) THEN "ensured" ELSE "reconciling"]]
        /\ UNCHANGED pendingOpen
     \/ /\ ~Resident
        /\ pendingOpen # Nobody
        /\ call' = [call EXCEPT ![c] = [NoCall EXCEPT !.op = op, !.at = "waiting"]]
        /\ UNCHANGED <<record, entry, pendingOpen>>
     \/ /\ ~Resident
        /\ pendingOpen = Nobody
        /\ pendingOpen' = c
        /\ call' = [call EXCEPT ![c] = [NoCall EXCEPT !.op = op, !.at = "reading"]]
        /\ UNCHANGED <<record, entry>>
  /\ UNCHANGED <<runtimes, dirty, failures>>

(* openRecord reads the entry, touches the workspace and awaits a runtime. *)
OpenReads(c) ==
  /\ At(c, "reading")
  /\ call' = [call EXCEPT ![c].at = "creating", ![c].seen = entry]
  /\ UNCHANGED <<record, entry, runtimes, pendingOpen, dirty, calls, failures>>

(* The runtime is there: the record takes it, and what the entry said when *)
(* it was read, and subscribes to its agent.                               *)
OpenCreates(c) ==
  /\ At(c, "creating")
  /\ \E r \in Runtimes :
       /\ runtimes[r].phase = "unopened"
       /\ \A q \in 1 .. (r - 1) : runtimes[q].phase # "unopened"
       /\ runtimes' = [runtimes EXCEPT ![r].phase = "live"]
       /\ record' = [record EXCEPT !.present = TRUE, !.runtime = r, !.agent = r,
                                   !.status = call[c].seen.status,
                                   !.archived = call[c].seen.archived,
                                   !.closed = FALSE, !.binding = TRUE]
  /\ Moves(c, "binding")
  /\ UNCHANGED <<entry, pendingOpen, dirty, calls, failures>>

(* The calls that wait for c's openRecord, c among them, go to point. *)
Releases(c, point) ==
  /\ call' = [d \in Callers |->
       IF d = c \/ (pendingOpen = c /\ At(d, "waiting"))
       THEN IF point = "returned" THEN NoCall ELSE [call[d] EXCEPT !.at = point]
       ELSE call[d]]
  /\ pendingOpen' = IF pendingOpen = c THEN Nobody ELSE pendingOpen

(* Mutant: an opened record keeps the status the catalog had for it. *)
OpenBindsAsIs(c) ==
  /\ At(c, "binding")
  /\ record' = [record EXCEPT !.binding = FALSE]
  /\ Releases(c, "ensured")
  /\ UNCHANGED <<entry, runtimes, dirty, calls, failures>>

(* The extensions are bound, and the status reconciled. *)
OpenBinds(c) ==
  LET bound == [record EXCEPT !.binding = FALSE]
  IN  /\ At(c, "binding")
      /\ Reconcile(bound)
      /\ IF InStep(bound) THEN Releases(c, "ensured")
         ELSE Moves(c, "reconciling") /\ UNCHANGED pendingOpen
      /\ UNCHANGED <<runtimes, dirty, calls, failures>>


Ensured(c) ==
  /\ At(c, "reconciling")
  /\ Releases(c, "ensured")
  /\ UNCHANGED <<record, entry, runtimes, dirty, calls, failures>>

(* Mutant: the open promise is not forgotten when it rejects. *)
EnsureFailsForOne(c) ==
  /\ call[c].at \in {"reading", "creating", "binding", "reconciling"}
  /\ Rejects
  /\ record' = IF At(c, "binding") THEN [record EXCEPT !.binding = FALSE] ELSE record
  /\ Returns(c)
  /\ UNCHANGED <<entry, runtimes, pendingOpen, dirty, calls>>

(* The entry, the runtime, the extensions or a write fail: ensureRecord    *)
(* rejects for everyone who waits for it.                                  *)
EnsureFails(c) ==
  /\ call[c].at \in {"reading", "creating", "binding", "reconciling"}
  /\ Rejects
  /\ record' = IF At(c, "binding") THEN [record EXCEPT !.binding = FALSE] ELSE record
  /\ Releases(c, "returned")
  /\ UNCHANGED <<entry, runtimes, dirty, calls>>

(* openSession has its record. *)
Opened(c) ==
  /\ At(c, "ensured")
  /\ call[c].op = "open"
  /\ Returns(c)
  /\ UNCHANGED <<record, entry, runtimes, pendingOpen, dirty, calls, failures>>

------------------------------------------------------------------------------
(* sendUserMessage has its record.  "queue" is a message with deliverAs,   *)
(* which is queued only if a run streams by now, "command" an extension's. *)
SendStarts(c) ==
  LET streaming == Streaming(record)
      queued == call[c].op = "queue" /\ streaming
      plain == call[c].op # "command" /\ ~streaming
  IN  /\ At(c, "ensured")
      /\ call[c].op \in {"send", "queue", "command"}
      /\ \/ /\ record.runtime = None \/ (streaming /\ call[c].op = "send")
            /\ Returns(c)
            /\ UNCHANGED <<record, entry>>
         \/ /\ record.runtime # None
            /\ plain
            /\ Persist([record EXCEPT !.status = "running", !.run = TRUE])
            /\ call' = [call EXCEPT ![c].op = "send", ![c].at = "persisting",
                                    ![c].on = record.runtime]
         \/ /\ record.runtime # None
            /\ queued \/ call[c].op = "command"
            /\ Persist(record)
            /\ call' = [call EXCEPT ![c].at = "persisting", ![c].on = record.runtime]
      /\ UNCHANGED <<runtimes, pendingOpen, dirty, calls, failures>>

(* session.prompt: the run begins, and its agent_start is handled at once  *)
(* if the record still listens to that agent.                              *)
Prompt(c) ==
  LET r == call[c].on
  IN  /\ At(c, "persisting")
      /\ call[c].op = "send"
      /\ runtimes[r].phase # "disposed"
      /\ ~runtimes[r].streaming
      /\ runtimes' = [runtimes EXCEPT ![r].streaming = TRUE]
      /\ record' = IF record.agent = r THEN [record EXCEPT !.status = "running"] ELSE record
      /\ dirty' = (dirty \/ record.agent = r)
      /\ Moves(c, "prompting")
      /\ UNCHANGED <<entry, pendingOpen, calls, failures>>

(* A message given to a queue, or a prompt on a disposed session, returns. *)
PromptReturns(c) ==
  /\ At(c, "persisting")
  /\ call[c].op = "queue" \/ (call[c].op = "send" /\ runtimes[call[c].on].phase = "disposed")
  /\ Returns(c)
  /\ UNCHANGED <<record, entry, runtimes, pendingOpen, dirty, calls, failures>>

(* An extension's command has run: syncRecordAfterSessionMutation. *)
CommandRuns(c) ==
  /\ At(c, "persisting")
  /\ call[c].op = "command"
  /\ record.runtime # None
  /\ Persist([record EXCEPT !.status = IF Streaming(record) THEN "running" ELSE "idle",
                            !.run = Streaming(record)])
  /\ Moves(c, "saving")
  /\ UNCHANGED <<runtimes, pendingOpen, dirty, calls, failures>>

(* The prompt rejects: a run already streams, the session is no longer     *)
(* active, or the SDK refuses.                                             *)
SendFails(c) ==
  LET r == call[c].on
      op == call[c].op
  IN  /\ At(c, "persisting")
      /\ \/ /\ \/ op = "send" /\ runtimes[r].streaming
               \/ op = "command" /\ record.runtime = None
            /\ UNCHANGED failures
         \/ Rejects
      /\ Persist([record EXCEPT
           !.run = @ /\ op = "queue",
           !.status = CASE op = "queue" -> "running"
                        [] op = "command" -> "idle"
                        [] OTHER -> "failed"])
      /\ Moves(c, "saving")
      /\ UNCHANGED <<runtimes, pendingOpen, dirty, calls>>

(* Mutant: the outcome of an aborted run becomes the status. *)
AgentEndsAborted(r, status) ==
  /\ runtimes[r].streaming
  /\ status \in {"idle", "failed"}
  /\ runtimes' = [runtimes EXCEPT ![r].streaming = FALSE]
  /\ record' = IF record.agent # r THEN record
               ELSE IF \E c \in Callers : At(c, "aborting") /\ call[c].on = r
                 THEN [record EXCEPT !.status = "aborted", !.run = FALSE]
               ELSE [record EXCEPT !.status = status, !.run = FALSE]
  /\ dirty' = (dirty \/ record.agent = r)
  /\ call' = [c \in Callers |->
                IF At(c, "prompting") /\ call[c].on = r THEN NoCall ELSE call[c]]
  /\ UNCHANGED <<entry, pendingOpen, calls, failures>>

(* Mutant: the end of a run is not persisted. *)
AgentEndsUnsaved(r, status) ==
  /\ runtimes[r].streaming
  /\ status \in {"idle", "failed"}
  /\ (\E c \in Callers : At(c, "aborting") /\ call[c].on = r) => status = "idle"
  /\ runtimes' = [runtimes EXCEPT ![r].streaming = FALSE]
  /\ record' = IF record.agent = r THEN [record EXCEPT !.status = status, !.run = FALSE]
               ELSE record
  /\ call' = [c \in Callers |->
                IF At(c, "prompting") /\ call[c].on = r THEN NoCall ELSE call[c]]
  /\ UNCHANGED <<entry, pendingOpen, dirty, calls, failures>>

(* agent_end, success or not; of an aborted run, "idle". *)
AgentEnds(r, status) ==
  /\ runtimes[r].streaming
  /\ status \in {"idle", "failed"}
  /\ (\E c \in Callers : At(c, "aborting") /\ call[c].on = r) => status = "idle"
  /\ runtimes' = [runtimes EXCEPT ![r].streaming = FALSE]
  /\ record' = IF record.agent = r THEN [record EXCEPT !.status = status, !.run = FALSE]
               ELSE record
  /\ dirty' = (dirty \/ record.agent = r)
  /\ call' = [c \in Callers |->
                IF At(c, "prompting") /\ call[c].on = r THEN NoCall ELSE call[c]]
  /\ UNCHANGED <<entry, pendingOpen, calls, failures>>

(* The mailbox persists the record as it is by then. *)
DrainPersists ==
  /\ dirty
  /\ Persist(record)
  /\ dirty' = FALSE
  /\ UNCHANGED <<runtimes, pendingOpen, call, calls, failures>>

(* A bash command of the run is left in the background, and ends; a closed *)
(* record, or one that has had a later runtime, takes no notice of its end.*)
JobStarts(r) ==
  /\ runtimes[r].streaming
  /\ record.agent = r
  /\ ~runtimes[r].job
  /\ runtimes' = [runtimes EXCEPT ![r].job = TRUE]
  /\ record' = [record EXCEPT !.job = TRUE]
  /\ UNCHANGED <<entry, pendingOpen, call, dirty, calls, failures>>

JobEnds(r) ==
  /\ runtimes[r].job
  /\ runtimes' = [runtimes EXCEPT ![r].job = FALSE]
  /\ record' = IF ~record.closed /\ Newest(r) THEN [record EXCEPT !.job = FALSE] ELSE record
  /\ UNCHANGED <<entry, pendingOpen, call, dirty, calls, failures>>

------------------------------------------------------------------------------
(* Mutant: the runtime is disposed of while the record still holds it. *)
DisposeFirst(c, rec) ==
  /\ record' = [rec EXCEPT !.agent = None]
  /\ runtimes' = [r \in Runtimes |->
       IF r = rec.runtime THEN [runtimes[r] EXCEPT !.phase = "disposing"] ELSE runtimes[r]]
  /\ call' = [call EXCEPT ![c].at = "disposing", ![c].on = rec.runtime]

(* disposeRecordRuntime, up to its await, with the unsubscription before   *)
(* it, for a record that has become rec.                                   *)
Dispose(c, rec) ==
  /\ record' = [rec EXCEPT !.runtime = None, !.agent = None]
  /\ runtimes' = [r \in Runtimes |->
       IF r = rec.runtime THEN [runtimes[r] EXCEPT !.phase = "disposing"] ELSE runtimes[r]]
  /\ call' = [call EXCEPT ![c].at = "disposing", ![c].on = rec.runtime]

(* runtime.dispose has ended the run and the jobs. *)
DisposeEnds(r) ==
  /\ runtimes[r].phase = "disposing"
  /\ runtimes' = [runtimes EXCEPT ![r] =
                    [phase |-> "disposed", streaming |-> FALSE, job |-> FALSE]]
  /\ call' = [c \in Callers |->
                IF At(c, "prompting") /\ call[c].on = r THEN NoCall ELSE call[c]]
  /\ UNCHANGED <<record, entry, pendingOpen, dirty, calls, failures>>

Disposed(c) ==
  /\ At(c, "disposing")
  /\ call[c].on \in {None} \cup {r \in Runtimes : runtimes[r].phase = "disposed"}

(* session.abort has returned: the run it aborts is over. *)
Aborted(c) == At(c, "aborting") /\ ~runtimes[call[c].on].streaming

(* cancelCurrentRun: abort the run, await the mailbox, and set the record  *)
(* right.  The session may be gone by then: clearQueue throws.             *)
Cancel(c) ==
  /\ Starts(c, "cancel")
  /\ record.present /\ record.runtime # None
  /\ call' = [call EXCEPT ![c] = [NoCall EXCEPT !.op = "cancel", !.at = "aborting",
                                                !.on = record.runtime]]
  /\ UNCHANGED <<record, entry, runtimes, pendingOpen, dirty, failures>>

CancelAborts(c) ==
  /\ Aborted(c)
  /\ call[c].op = "cancel"
  /\ Moves(c, "draining")
  /\ UNCHANGED <<record, entry, runtimes, pendingOpen, dirty, calls, failures>>

CancelSettles(c) ==
  /\ At(c, "draining")
  /\ call[c].op = "cancel"
  /\ \/ /\ record.runtime = None
        /\ Returns(c)
        /\ UNCHANGED <<record, entry>>
     \/ /\ record.runtime # None
        /\ Persist([record EXCEPT !.status = "idle", !.run = FALSE])
        /\ Moves(c, "saving")
  /\ UNCHANGED <<runtimes, pendingOpen, dirty, calls, failures>>

(* suspendSessionRuntime: await the mailbox, decide, persist, dispose, and *)
(* forget the jobs.                                                        *)
Suspend(c) ==
  /\ Starts(c, "suspend")
  /\ record.present /\ record.runtime # None
  /\ call' = [call EXCEPT ![c] = [NoCall EXCEPT !.op = "suspend", !.at = "draining"]]
  /\ UNCHANGED <<record, entry, runtimes, pendingOpen, dirty, failures>>

Suspendable ==
  ~record.closed /\ record.status = "idle" /\ ~record.run /\ ~record.binding /\ ~record.job

SuspendDecides(c) ==
  /\ At(c, "draining")
  /\ call[c].op = "suspend"
  /\ IF Suspendable
     THEN Persist(record) /\ Moves(c, "suspending")
     ELSE Returns(c) /\ UNCHANGED <<record, entry>>
  /\ UNCHANGED <<runtimes, pendingOpen, dirty, calls, failures>>

SuspendDisposes(c) ==
  /\ At(c, "suspending")
  /\ Dispose(c, record)
  /\ UNCHANGED <<entry, pendingOpen, dirty, calls, failures>>

SuspendForgets(c) ==
  /\ Disposed(c)
  /\ call[c].op = "suspend"
  /\ record' = [record EXCEPT !.job = FALSE]
  /\ Returns(c)
  /\ UNCHANGED <<entry, runtimes, pendingOpen, dirty, calls, failures>>

(* closeSession. *)
Close(c) ==
  LET closed == [record EXCEPT !.closed = TRUE, !.run = FALSE, !.status = "idle"]
  IN  /\ Starts(c, "close")
      /\ record.present
      /\ \/ /\ record.runtime # None
            /\ record' = closed
            /\ UNCHANGED entry
            /\ call' = [call EXCEPT ![c] = [NoCall EXCEPT !.op = "close", !.at = "aborting",
                                                          !.on = record.runtime]]
         \/ /\ record.runtime = None
            /\ Persist(closed)
            /\ call' = [call EXCEPT ![c] = [NoCall EXCEPT !.op = "close", !.at = "saving"]]
      /\ UNCHANGED <<runtimes, pendingOpen, dirty, failures>>

CloseDisposes(c) ==
  /\ \/ Aborted(c) /\ UNCHANGED failures
     \/ At(c, "aborting") /\ Rejects
  /\ call[c].op = "close"
  /\ Dispose(c, record)
  /\ UNCHANGED <<entry, pendingOpen, dirty, calls>>

CloseSaves(c) ==
  /\ Disposed(c)
  /\ call[c].op = "close"
  /\ Persist(record)
  /\ Moves(c, "saving")
  /\ UNCHANGED <<runtimes, pendingOpen, dirty, calls, failures>>

(* updateArchivedState: of the record if there is one, else of the entry,  *)
(* which is read and written with an await between.  Each archiving has a  *)
(* time of its own, so only a repeated unarchiving returns at once.        *)
Archive(c, op) ==
  LET archived == op = "archive"
  IN  /\ op \in {"archive", "unarchive"}
      /\ Starts(c, op)
      /\ \/ /\ record.present
            /\ archived \/ record.archived
            /\ Persist([record EXCEPT !.archived = archived])
            /\ call' = [call EXCEPT ![c] = [NoCall EXCEPT !.op = op, !.at = "saving"]]
         \/ /\ ~record.present
            /\ archived \/ entry.archived
            /\ call' = [call EXCEPT ![c] =
                          [NoCall EXCEPT !.op = op, !.at = "archiving", !.seen = entry]]
            /\ UNCHANGED <<record, entry>>
      /\ UNCHANGED <<runtimes, pendingOpen, dirty, failures>>

ArchiveWrites(c) ==
  /\ At(c, "archiving")
  /\ entry' = [call[c].seen EXCEPT !.archived = call[c].op = "archive"]
  /\ Moves(c, "saving")
  /\ UNCHANGED <<record, runtimes, pendingOpen, dirty, calls, failures>>

(* The last write, and the listeners, have been awaited. *)
Saved(c) ==
  /\ At(c, "saving")
  /\ Returns(c)
  /\ UNCHANGED <<record, entry, runtimes, pendingOpen, dirty, calls, failures>>

(* A write, a listener, a disposal or an abort rejects, and the call with  *)
(* it; closeSession goes on after a failed abort.                          *)
CallFails(c) ==
  /\ \/ call[c].at \in {"persisting", "suspending", "disposing", "archiving", "saving"}
     \/ At(c, "aborting") /\ call[c].op = "cancel"
  /\ Rejects
  /\ Returns(c)
  /\ UNCHANGED <<record, entry, runtimes, pendingOpen, dirty, calls>>

------------------------------------------------------------------------------
(* What a call does once what it awaits has settled. *)
Continue(c) ==
  \/ OpenReads(c) \/ OpenCreates(c) \/ OpenBinds(c) \/ Ensured(c) \/ EnsureFails(c)
  \/ Opened(c)
  \/ SendStarts(c) \/ Prompt(c) \/ PromptReturns(c) \/ CommandRuns(c) \/ SendFails(c)
  \/ CancelAborts(c) \/ CancelSettles(c)
  \/ SuspendDecides(c) \/ SuspendDisposes(c) \/ SuspendForgets(c)
  \/ CloseDisposes(c) \/ CloseSaves(c)
  \/ ArchiveWrites(c) \/ Saved(c) \/ CallFails(c)

Calls(c) ==
  \/ \E op \in Operations : Ensure(c, op) \/ Archive(c, op)
  \/ Cancel(c) \/ Suspend(c) \/ Close(c)

(* What the SDK and the mailbox do of their own. *)
Settles(r) == (\E status \in Status : AgentEnds(r, status)) \/ JobEnds(r) \/ DisposeEnds(r)

Next ==
  \/ \E c \in Callers : Calls(c) \/ Continue(c)
  \/ \E r \in Runtimes : JobStarts(r) \/ Settles(r)
  \/ DrainPersists

Spec == Init /\ [][Next]_vars

(* Runs end, disposals and awaited promises settle. *)
FairSpec ==
  /\ Spec
  /\ \A c \in Callers : WF_vars(Continue(c))
  /\ \A r \in Runtimes :
       /\ WF_vars(\E status \in Status : AgentEnds(r, status))
       /\ WF_vars(DisposeEnds(r))
  /\ WF_vars(DrainPersists)

------------------------------------------------------------------------------
TypeOK ==
  /\ record \in Record
  /\ entry \in Entry
  /\ runtimes \in [Runtimes -> Runtime]
  /\ pendingOpen \in Callers \cup {Nobody}
  /\ call \in [Callers -> Call]
  /\ dirty \in BOOLEAN
  /\ calls \in Nat
  /\ failures \in Nat

(* Every runtime that is open and not being disposed is the record's, and  *)
(* the record listens to no agent but its runtime's: none is left running  *)
(* behind a record that has taken another.                                 *)
NoRuntimeLeaks ==
  /\ record.agent = record.runtime
  /\ \A r \in Runtimes : runtimes[r].phase = "live" => record.runtime = r

(* Nothing under way but runs and jobs. *)
Quiescent ==
  /\ \A c \in Callers : call[c].at \in {"returned", "prompting"}
  /\ \A r \in Runtimes : runtimes[r].phase # "disposing"
  /\ ~dirty

(* A streaming session is shown as running, and once the calls have        *)
(* returned only a streaming one is.                                       *)
StatusIsTrue ==
  record.present =>
    /\ Streaming(record) => record.status = "running"
    /\ (Quiescent /\ failures = 0) => (record.status = "running" => Streaming(record))

(* Once the calls have returned the catalog says what the record says. *)
EntryIsCurrent ==
  record.present /\ Quiescent => entry = Snapshot(record)

(* plans/runtime-resource-safety-and-regression-closeout.md: "A selected   *)
(* or running session is never evicted or suspended."                      *)
NeverSuspendedRunning ==
  [][\A c \in Callers : SuspendDisposes(c) =>
        record.status # "running" /\ ~Streaming(record)]_vars

(* Every call returns. *)
CallsReturn == \A c \in Callers : ~At(c, "returned") ~> At(c, "returned")
==============================================================================
