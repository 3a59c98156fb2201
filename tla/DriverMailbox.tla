---------------------------- MODULE DriverMailbox ----------------------------
(***************************************************************************)
(* The event mailbox of one managed session: queueDriverEvents,            *)
(* mergeReplaceableDriverEvent, startDriverEventDrain, emit, subscribe     *)
(* and the `await record.eventQueue` of suspend and cancel.                *)
(*                                                                         *)
(* An event is known by its stream: what mergeReplaceableDriverEvent       *)
(* compares before it merges (type, run id, call id).  Its content is the  *)
(* interval first..last of the queueing numbers whose content it carries:  *)
(* joining two text deltas joins their intervals, replacing a snapshot     *)
(* keeps only the newer one.                                               *)
(*                                                                         *)
(* JavaScript runs to completion between awaits, so one action is the code *)
(* from one await to the next: an idle drain takes its first batch, and    *)
(* calls the first listener, in the very step that queues the events.      *)
(***************************************************************************)
EXTENDS Integers, Sequences

CONSTANTS
  Accumulating,   \* streams whose merge joins texts: the two delta types
  ToolProgress,   \* toolUpdated streams: a newer update replaces an older one
  SessionUpdated, \* the stream of session snapshots: the newer one replaces
  Lifecycle,      \* streams that never merge: run, tool, dialog, job events
  Listeners,      \* one per call of subscribe, as each passes a new closure
  Nobody,         \* no listener call is being awaited
  MaxEvents,      \* bound: events queued
  MaxFailures     \* bound: failed catalog writes and failed listener calls

Replaceable == ToolProgress \cup {SessionUpdated}
Streams == Accumulating \cup Replaceable \cup Lifecycle

ASSUME StreamsAreDistinct ==
  /\ Accumulating \cap Replaceable = {}
  /\ Lifecycle \cap (Accumulating \cup Replaceable) = {}
ASSUME NobodyIsNoListener == Nobody \notin Listeners
ASSUME BoundsAreNaturals == MaxEvents \in Nat /\ MaxFailures \in Nat

VARIABLES
  sent,         \* history: the stream of every queued event, in order
  pending,      \* record.pendingEventBatches
  drainActive,  \* record.eventDrainActive
  phase,        \* where the drain's async function stands
  cur,          \* events of the shifted batch not yet fully emitted
  calling,      \* the listener whose promise emit awaits
  todo,         \* listeners of emit's snapshot still to be called
  listeners,    \* record.listeners
  since,        \* history: Len(sent) when a listener subscribed, -1 before
  log,          \* history: events each listener was called with
  lost,         \* history: numbers dropped by a failure
  failures,     \* failures so far
  awaitedUpTo   \* Len(sent) when a caller began to await eventQueue, or 0

mailbox == <<sent, pending, drainActive, phase, cur, calling, todo>>
vars == <<mailbox, listeners, since, log, lost, failures, awaitedUpTo>>

Event == [stream: Streams, first: Nat \ {0}, last: Nat \ {0}]
Batch == [events: Seq(Event), persist: BOOLEAN]
Phases == {"idle", "persist", "emit", "settling"}

EventOf(stream, n) == [stream |-> stream, first |-> n, last |-> n]

(* The arguments queueDriverEvents is called with: an agent event maps to  *)
(* one driver event or to two, and only message updates and tool events    *)
(* ask for no snapshot to be persisted.                                    *)
Calls ==
  [streams: {<<s>> : s \in Streams}, persist: {FALSE}]
    \cup [streams: {<<s>> : s \in Lifecycle \cup {SessionUpdated}}, persist: {TRUE}]
    \cup [streams: Lifecycle \X {SessionUpdated}, persist: {TRUE}]
    \cup [streams: (ToolProgress \cup Lifecycle) \X Lifecycle, persist: {FALSE}]

Mergeable(previous, next) ==
  previous.stream = next.stream /\ next.stream \notin Lifecycle

(* Mutant: the newer delta's text replaces the older one's. *)
MergedEventDropsText(previous, next) == next

MergedEvent(previous, next) ==
  [next EXCEPT !.first = IF next.stream \in Accumulating THEN previous.first ELSE @]

(* Mutant: a batch is rebuilt without its persist flag. *)
EnqueueLosesFlag(batches, event, persist) ==
  LET n == Len(batches)
  IN  IF n = 0
      THEN <<[events |-> <<event>>, persist |-> persist]>>
      ELSE [batches EXCEPT ![n] = [events |-> Append(@.events, event)]]

(* One turn of queueDriverEvents' loop. *)
Enqueue(batches, event, persist) ==
  LET n == Len(batches)
      lastBatch == batches[n]
      m == Len(lastBatch.events)
  IN  IF n > 0 /\ Mergeable(lastBatch.events[m], event)
      THEN [batches EXCEPT ![n] =
             [events  |-> [lastBatch.events EXCEPT ![m] = MergedEvent(@, event)],
              persist |-> lastBatch.persist \/ persist]]
      ELSE IF n > 0 /\ lastBatch.persist = persist
      THEN [batches EXCEPT ![n] =
             [events |-> Append(lastBatch.events, event), persist |-> persist]]
      ELSE Append(batches, [events |-> <<event>>, persist |-> persist])

(* The whole loop. *)
EnqueueCall(batches, call, n) ==
  LET one == Enqueue(batches, EventOf(call.streams[1], n + 1), call.persist)
  IN  IF Len(call.streams) = 1
      THEN one
      ELSE Enqueue(one, EventOf(call.streams[2], n + 2), call.persist)

------------------------------------------------------------------------------
(* emit, called by the drain for the first of events: it takes a snapshot  *)
(* of the listeners and calls the first of them synchronously.             *)
StartEmit(events, audience) ==
  /\ phase' = "emit"
  /\ cur' = events
  /\ \/ /\ audience = {}
        /\ calling' = Nobody
        /\ todo' = {}
        /\ UNCHANGED log
     \/ \E l \in audience :
          /\ calling' = l
          /\ todo' = audience \ {l}
          /\ log' = [log EXCEPT ![l] = Append(@, Head(events))]

(* The drain shifts a batch off batches and starts on it. *)
TakeBatch(batches, audience) ==
  LET batch == Head(batches)
  IN  /\ pending' = Tail(batches)
      /\ IF batch.persist
         THEN /\ phase' = "persist"
              /\ cur' = batch.events
              /\ calling' = Nobody
              /\ todo' = {}
              /\ UNCHANGED log
         ELSE StartEmit(batch.events, audience)

(* The drain's loop is over, normally or by an exception: its promise will *)
(* settle, and then the finally handler runs.                              *)
LeaveLoop ==
  /\ phase' = "settling"
  /\ cur' = <<>>
  /\ calling' = Nobody
  /\ todo' = {}

(* The event at the head of cur has been emitted to everyone. *)
NextEvent ==
  \/ /\ Len(cur) > 1
     /\ StartEmit(Tail(cur), listeners)
     /\ UNCHANGED pending
  \/ /\ Len(cur) = 1
     /\ pending # <<>>
     /\ TakeBatch(pending, listeners)
  \/ /\ Len(cur) = 1
     /\ pending = <<>>
     /\ LeaveLoop
     /\ UNCHANGED <<pending, log>>

------------------------------------------------------------------------------
Init ==
  /\ sent = <<>>
  /\ pending = <<>>
  /\ drainActive = FALSE
  /\ phase = "idle"
  /\ cur = <<>>
  /\ calling = Nobody
  /\ todo = {}
  /\ listeners = {}
  /\ since = [l \in Listeners |-> -1]
  /\ log = [l \in Listeners |-> <<>>]
  /\ lost = {}
  /\ failures = 0
  /\ awaitedUpTo = 0

(* queueDriverEvents for an audience: queue, and start the drain if none   *)
(* is active.                                                              *)
Queue(call, audience) ==
  LET batches == EnqueueCall(pending, call, Len(sent))
  IN  /\ Len(sent) + Len(call.streams) <= MaxEvents
      /\ sent' = sent \o call.streams
      /\ \/ /\ drainActive
            /\ pending' = batches
            /\ UNCHANGED <<drainActive, phase, cur, calling, todo, log>>
         \/ /\ ~drainActive
            /\ drainActive' = TRUE
            /\ TakeBatch(batches, audience)

QueueDriverEvents(call) ==
  /\ Queue(call, listeners)
  /\ UNCHANGED <<listeners, since, lost, failures, awaitedUpTo>>

(* subscribe: the listener is added, and the current snapshot replayed     *)
(* through the mailbox.                                                    *)
Subscribe(l) ==
  /\ since[l] = -1
  /\ since' = [since EXCEPT ![l] = Len(sent)]
  /\ listeners' = listeners \cup {l}
  /\ Queue([streams |-> <<SessionUpdated>>, persist |-> FALSE], listeners')
  /\ UNCHANGED <<lost, failures, awaitedUpTo>>

(* The function subscribe returns.  A call already in emit's snapshot of   *)
(* the listeners is still made.                                            *)
Unsubscribe(l) ==
  /\ l \in listeners
  /\ listeners' = listeners \ {l}
  /\ UNCHANGED <<mailbox, since, log, lost, failures, awaitedUpTo>>

(* persistSnapshot returned. *)
PersistDone ==
  /\ phase = "persist"
  /\ StartEmit(cur, listeners)
  /\ UNCHANGED <<sent, pending, drainActive, listeners, since, lost, failures, awaitedUpTo>>

(* A listener's promise resolved: emit calls the next one, or is done. *)
ListenerReturns ==
  /\ phase = "emit"
  /\ calling # Nobody
  /\ \/ /\ todo # {}
        /\ \E l \in todo :
             /\ calling' = l
             /\ todo' = todo \ {l}
             /\ log' = [log EXCEPT ![l] = Append(@, Head(cur))]
        /\ UNCHANGED <<pending, phase, cur>>
     \/ /\ todo = {}
        /\ NextEvent
  /\ UNCHANGED <<sent, drainActive, listeners, since, lost, failures, awaitedUpTo>>

(* emit had no listener to call. *)
EmittedToNobody ==
  /\ phase = "emit"
  /\ calling = Nobody
  /\ NextEvent
  /\ UNCHANGED <<sent, drainActive, listeners, since, lost, failures, awaitedUpTo>>

Numbers(event) == event.first .. event.last
NumbersOf(events) == UNION {Numbers(events[i]) : i \in DOMAIN events}

(* Mutant: a drain that throws settles without its finally handler. *)
DrainThrowsUnhandled ==
  /\ \/ phase = "persist"
     \/ phase = "emit" /\ calling # Nobody
  /\ failures < MaxFailures
  /\ failures' = failures + 1
  /\ lost' = lost \cup NumbersOf(cur)
  /\ phase' = "idle"
  /\ cur' = <<>>
  /\ calling' = Nobody
  /\ todo' = {}
  /\ UNCHANGED <<sent, pending, drainActive, listeners, since, log, awaitedUpTo>>

(* Mutant: a batch that failed is put back in front and tried again. *)
DrainThrowsRetries ==
  /\ phase = "emit" /\ calling # Nobody
  /\ failures < MaxFailures
  /\ failures' = failures + 1
  /\ pending' = <<[events |-> cur, persist |-> TRUE]>> \o pending
  /\ LeaveLoop
  /\ UNCHANGED <<sent, drainActive, listeners, since, log, lost, awaitedUpTo>>

(* A catalog write or a listener rejects: the exception leaves the loop,   *)
(* and with it the events of the shifted batch.                            *)
DrainThrows ==
  /\ \/ phase = "persist"
     \/ phase = "emit" /\ calling # Nobody
  /\ failures < MaxFailures
  /\ failures' = failures + 1
  /\ lost' = lost \cup NumbersOf(cur)
  /\ LeaveLoop
  /\ UNCHANGED <<sent, pending, drainActive, listeners, since, log, awaitedUpTo>>

(* Mutant: the finally handler does not look for events queued meanwhile. *)
FinallyForgetsQueue ==
  /\ phase = "settling"
  /\ awaitedUpTo' = 0
  /\ drainActive' = FALSE
  /\ phase' = "idle"
  /\ UNCHANGED <<sent, pending, cur, calling, todo, listeners, since, log, lost, failures>>

(* The drain's finally handler: start over if something was queued since;  *)
(* whoever awaited this drain's promise goes on.                           *)
Finally ==
  /\ phase = "settling"
  /\ awaitedUpTo' = 0
  /\ \/ /\ pending # <<>>
        /\ drainActive' = TRUE
        /\ TakeBatch(pending, listeners)
     \/ /\ pending = <<>>
        /\ drainActive' = FALSE
        /\ phase' = "idle"
        /\ UNCHANGED <<pending, cur, calling, todo, log>>
  /\ UNCHANGED <<sent, listeners, since, lost, failures>>

(* suspendSessionRuntime or cancelCurrentRun begins to await eventQueue.   *)
AwaitQueue ==
  /\ drainActive
  /\ awaitedUpTo = 0
  /\ awaitedUpTo' = Len(sent)
  /\ UNCHANGED <<mailbox, listeners, since, log, lost, failures>>

Next ==
  \/ \E call \in Calls : QueueDriverEvents(call)
  \/ \E l \in Listeners : Subscribe(l) \/ Unsubscribe(l)
  \/ PersistDone
  \/ ListenerReturns
  \/ EmittedToNobody
  \/ DrainThrows
  \/ Finally
  \/ AwaitQueue

(* A catalog write and a listener settle one way or the other, and the     *)
(* event loop runs a handler that is due.                                  *)
DrainStep == PersistDone \/ ListenerReturns \/ EmittedToNobody \/ DrainThrows \/ Finally

Spec == Init /\ [][Next]_vars
FairSpec == Spec /\ WF_vars(DrainStep)

------------------------------------------------------------------------------
TypeOK ==
  /\ sent \in Seq(Streams)
  /\ pending \in Seq(Batch)
  /\ drainActive \in BOOLEAN
  /\ phase \in Phases
  /\ cur \in Seq(Event)
  /\ calling \in Listeners \cup {Nobody}
  /\ todo \subseteq Listeners
  /\ listeners \subseteq Listeners
  /\ since \in [Listeners -> Int]
  /\ log \in [Listeners -> Seq(Event)]
  /\ lost \subseteq Nat
  /\ failures \in Nat
  /\ awaitedUpTo \in Nat

PendingNumbers == UNION {NumbersOf(pending[b].events) : b \in DOMAIN pending}
InFlight == NumbersOf(cur) \cup PendingNumbers

(* No lost wake-up: whatever is queued has a drain that will come for it,  *)
(* also when it is queued after the loop ended and before finally runs.    *)
NoStrandedEvents ==
  pending # <<>> => drainActive

(* Every listener is called with events in the order they were queued, and *)
(* with none of them twice, whatever was merged and whatever failed.       *)
DeliveredInOrder ==
  \A l \in Listeners : \A i, j \in DOMAIN log[l] :
    i < j => log[l][i].last < log[l][j].first

(* Coalescing loses nothing that matters: the text of every delta and      *)
(* every lifecycle event is still in flight, was handed to the listener,   *)
(* or went down with a batch whose drain threw; and a replaced snapshot or *)
(* tool update was replaced by a later one of its stream.                  *)
Conserved ==
  \A l \in listeners : \A n \in since[l] + 1 .. Len(sent) :
    LET kept == NumbersOf(log[l]) \cup InFlight \cup lost
    IN  \/ n \in kept
        \/ /\ sent[n] \in Replaceable
           /\ \E later \in kept : later > n /\ sent[later] = sent[n]

(* The inductive invariant behind the two above.  Numbers split at a        *)
(* frontier f: what was taken from the mailbox lies at or below it, what   *)
(* still waits in it lies above.                                           *)
EventsBetween(events, f, hi) ==
  /\ \A k \in DOMAIN events :
       f < events[k].first /\ events[k].first <= events[k].last /\ events[k].last <= hi
  /\ \A j, k \in DOMAIN events : j < k => events[j].last < events[k].first

BatchesBetween(batches, f, hi) ==
  /\ \A b \in DOMAIN batches :
       batches[b].events # <<>> /\ EventsBetween(batches[b].events, f, hi)
  /\ \A b, c \in DOMAIN batches : b < c =>
       \A j \in DOMAIN batches[b].events, k \in DOMAIN batches[c].events :
         batches[b].events[j].last < batches[c].events[k].first

DrainInv ==
  /\ drainActive <=> phase # "idle"
  /\ pending # <<>> => drainActive
  /\ cur # <<>> <=> phase \in {"persist", "emit"}
  /\ phase = "persist" => todo = {} /\ calling = Nobody
  /\ calling = Nobody => todo = {}

(* Who has been called with the event being emitted. *)
Called(l) == phase = "emit" /\ l \notin todo

LogBehindCur(l) ==
  \A i \in DOMAIN log[l], k \in DOMAIN cur :
    k > 1 \/ ~Called(l) => log[l][i].last < cur[k].first

OrderInv ==
  \E f \in 0 .. Len(sent) :
    /\ BatchesBetween(pending, f, Len(sent))
    /\ EventsBetween(cur, 0, f)
    /\ \A l \in Listeners : EventsBetween(log[l], 0, f) /\ LogBehindCur(l)

(* Whatever is queued is delivered, replaced or lost, however often the    *)
(* drain is restarted or more is queued behind it, and whoever awaits the  *)
(* queue is released: nothing and no one waits for ever.                   *)
EventuallyDrained ==
  /\ \A n \in 1 .. MaxEvents : n \in InFlight ~> n \notin InFlight
  /\ awaitedUpTo # 0 ~> awaitedUpTo = 0

Runs == [l \in Listeners |->
          [i \in DOMAIN log[l] |-> [first |-> log[l][i].first, last |-> log[l][i].last]]]
Abstract == INSTANCE OrderedDelivery WITH offered <- Len(sent), received <- Runs

(* The mailbox implements ordered delivery. *)
ImplementsOrderedDelivery == Abstract!Spec
==============================================================================
