----------------------------- MODULE HostUiDialogs -----------------------------
(***************************************************************************)
(* The questions an extension of one session asks its user.  The           *)
(* supervisor keeps the promise the extension awaits in                    *)
(* pendingHostUiRequests and queues an event; the desktop shows the        *)
(* request when its listener applies that event, and calls back with the   *)
(* user's response.  Timeouts, aborts, reloads of the extensions by        *)
(* themselves and by the desktop, failures on either way and the app       *)
(* store's eviction of the idle session come in between.                   *)
(*                                                                         *)
(* The event queue is DriverMailbox's, here a sequence that is delivered   *)
(* in order or lost; suspendSessionRuntime is SessionRuntime's, with only  *)
(* the guards that look at dialogs.                                        *)
(***************************************************************************)
EXTENDS Naturals, Sequences

CONSTANTS
  Dialogs,       \* the requests that are asked, each once
  Timed,         \* those that carry a timeout
  Reset,         \* the request that clears the extension UI
  Nothing,       \* no event
  MaxResets,     \* bound: reloads of the extensions, whoever asks for them
  MaxEvictions,  \* bound: evictions begun by the app store
  MaxFailures    \* bound: events lost, calls rejected

ASSUME TimedAreDialogs == Timed \subseteq Dialogs
ASSUME EventsDiffer == Reset \notin Dialogs /\ Nothing \notin Dialogs /\ Reset # Nothing
ASSUME BoundsAreNaturals ==
  MaxResets \in Nat /\ MaxEvictions \in Nat /\ MaxFailures \in Nat

VARIABLES
  dialog,      \* what became of the promise of each request
  pending,     \* the keys of record.pendingHostUiRequests
  runtime,     \* whether record.session is set, and bindingExtensions
  mailbox,     \* the hostUiRequest events that are queued
  arriving,    \* the event the drain has handed to the desktop's listener
  subscribed,  \* the desktop's listener is among record.listeners
  shown,       \* pendingDialogs of the desktop's extension UI state
  answered,    \* history: the requests the user has answered or dismissed
  responses,   \* the calls of respondToHostUiRequest under way
  cleared,     \* what the desktop took off the screen for the reloads it has called
  reloading,   \* the calls of driver.reloadSession that await ensureRecord
  lost,        \* history: the requests an event, a response or a view was lost for
  eviction,    \* where pruneDormantSessionRuntimes is with this session
  resets, evictions, failures

desktop == <<shown, answered, responses, cleared, reloading>>
bounds == <<resets, evictions, failures>>
vars == <<dialog, pending, runtime, mailbox, arriving, subscribed, desktop, lost,
          eviction, bounds>>

Event == Dialogs \cup {Reset}

Eviction == {"none", "chosen", "draining", "refused", "persisting", "disposing"}

Waiting == {d \in Dialogs : dialog[d] = "waiting"}

Fails == failures < MaxFailures /\ failures' = failures + 1

Queue(e) == mailbox' = Append(mailbox, e)

(* The promises of the requests in D are resolved, by cleanup or by a      *)
(* response, and leave the map.                                            *)
Settle(D) ==
  /\ dialog' = [d \in Dialogs |-> IF d \in D THEN "settled" ELSE dialog[d]]
  /\ pending' = pending \ D

Init ==
  /\ dialog = [d \in Dialogs |-> "unasked"]
  /\ pending = {}
  /\ runtime = "none"
  /\ mailbox = <<>>
  /\ arriving = Nothing
  /\ subscribed = FALSE
  /\ shown = {} /\ answered = {} /\ responses = {} /\ lost = {}
  /\ cleared = {} /\ reloading = 0
  /\ eviction = "none"
  /\ resets = 0 /\ evictions = 0 /\ failures = 0

------------------------------------------------------------------------------
(* The extension's side.                                                   *)

(* An extension of a runtime that is being disposed still has its context. *)
CanAsk == runtime # "none" \/ eviction = "disposing"

(* createDialogPromise resolves at once if the signal was aborted before,  *)
(* or if no one may answer while the extensions are being bound.           *)
AskInVain(d) ==
  /\ CanAsk
  /\ dialog[d] = "unasked"
  /\ dialog' = [dialog EXCEPT ![d] = "settled"]
  /\ UNCHANGED <<pending, runtime, mailbox, arriving, subscribed, desktop, lost, eviction, bounds>>

Ask(d) ==
  /\ CanAsk
  /\ dialog[d] = "unasked"
  /\ runtime = "binding" => d \in Timed
  /\ dialog' = [dialog EXCEPT ![d] = "waiting"]
  /\ pending' = pending \cup {d}
  /\ Queue(d)
  /\ UNCHANGED <<runtime, arriving, subscribed, desktop, lost, eviction, bounds>>

Expires(d) ==
  /\ d \in Timed
  /\ dialog[d] = "waiting"
  /\ Settle({d})
  /\ UNCHANGED <<runtime, mailbox, arriving, subscribed, desktop, lost, eviction, bounds>>

(* Mutant: onAbort resolves without cleanup. *)
AbortsOnly(d) ==
  /\ dialog[d] = "waiting"
  /\ dialog' = [dialog EXCEPT ![d] = "settled"]
  /\ UNCHANGED <<pending, runtime, mailbox, arriving, subscribed, desktop, lost, eviction, bounds>>

Aborts(d) ==
  /\ dialog[d] = "waiting"
  /\ Settle({d})
  /\ UNCHANGED <<runtime, mailbox, arriving, subscribed, desktop, lost, eviction, bounds>>

(* An extension reloads its own context: the reset is queued, then         *)
(* everything pending is cancelled.                                        *)
Reload ==
  /\ runtime # "none"
  /\ resets < MaxResets
  /\ resets' = resets + 1
  /\ Queue(Reset)
  /\ Settle(pending)
  /\ UNCHANGED <<runtime, arriving, subscribed, desktop, lost, eviction, evictions, failures>>

(* The desktop's /reload and its refreshes of a workspace's runtime throw  *)
(* the session's extension UI away before they call the driver.            *)
ReloadCalled ==
  /\ resets < MaxResets
  /\ resets' = resets + 1
  /\ cleared' = cleared \cup shown
  /\ shown' = {}
  /\ reloading' = reloading + 1
  /\ UNCHANGED <<dialog, pending, runtime, mailbox, arriving, subscribed, answered, responses, lost,
                 eviction, evictions, failures>>

(* Mutant: the reset is announced, and nothing is cancelled. *)
ReloadCancelsNothing ==
  /\ reloading > 0
  /\ runtime # "none"
  /\ reloading' = reloading - 1
  /\ cleared' = {}
  /\ Queue(Reset)
  /\ UNCHANGED <<dialog, pending, runtime, arriving, subscribed, shown, answered, responses, lost,
                 eviction, bounds>>

(* reloadSession of the driver, once ensureRecord has the session open. *)
ReloadArrives ==
  /\ reloading > 0
  /\ runtime # "none"
  /\ reloading' = reloading - 1
  /\ cleared' = {}
  /\ Queue(Reset)
  /\ Settle(pending)
  /\ UNCHANGED <<runtime, arriving, subscribed, shown, answered, responses, lost, eviction, bounds>>

(* ensureRecord rejects: nobody brings back what the desktop has taken off *)
(* the screen, unless another reload is still to cancel it.                *)
ReloadFails ==
  /\ reloading > 0
  /\ Fails
  /\ reloading' = reloading - 1
  /\ \/ reloading > 1 /\ UNCHANGED <<cleared, lost>>
     \/ reloading = 1 /\ cleared' = {} /\ lost' = lost \cup cleared
  /\ UNCHANGED <<dialog, pending, runtime, mailbox, arriving, subscribed, shown, answered, responses,
                 eviction, resets, evictions>>

------------------------------------------------------------------------------
(* The way to the desktop.                                                 *)

(* Mutant: an event waits until someone listens. *)
EmitToSomeone ==
  /\ mailbox # <<>>
  /\ arriving = Nothing
  /\ subscribed
  /\ mailbox' = Tail(mailbox)
  /\ arriving' = Head(mailbox)
  /\ UNCHANGED <<dialog, pending, runtime, subscribed, desktop, lost, eviction, bounds>>

(* The drain hands the next event to the listeners of the moment and       *)
(* awaits them; without one the event is gone.                             *)
Emit ==
  /\ mailbox # <<>>
  /\ arriving = Nothing
  /\ mailbox' = Tail(mailbox)
  /\ \/ subscribed /\ arriving' = Head(mailbox) /\ UNCHANGED lost
     \/ ~subscribed /\ lost' = lost \cup ({Head(mailbox)} \cap Dialogs) /\ UNCHANGED arriving
  /\ UNCHANGED <<dialog, pending, runtime, subscribed, desktop, eviction, bounds>>

(* A batch that throws takes its other events with it. *)
EventLost ==
  /\ mailbox # <<>>
  /\ Fails
  /\ mailbox' = Tail(mailbox)
  /\ lost' = lost \cup ({Head(mailbox)} \cap Dialogs)
  /\ UNCHANGED <<dialog, pending, runtime, arriving, subscribed, desktop, eviction, resets, evictions>>

(* Mutant: a reset goes on to where dialogs are shown. *)
ApplyFallsThrough ==
  /\ arriving # Nothing
  /\ shown' = shown \cup {arriving}
  /\ arriving' = Nothing
  /\ UNCHANGED <<dialog, pending, runtime, mailbox, subscribed, answered, responses, cleared, reloading,
                 lost, eviction, bounds>>

(* applyHostUiRequest, whatever has become of the request meanwhile. *)
Apply ==
  /\ arriving # Nothing
  /\ shown' = IF arriving = Reset THEN {} ELSE shown \cup {arriving}
  /\ arriving' = Nothing
  /\ UNCHANGED <<dialog, pending, runtime, mailbox, subscribed, answered, responses, cleared, reloading,
                 lost, eviction, bounds>>

------------------------------------------------------------------------------
(* The way back.                                                           *)

(* respondToHostUiRequest of the app store; a window that has not been     *)
(* redrawn may send it again, or for what a reload has taken away.         *)
Respond(d) ==
  /\ d \in shown \cup answered \cup cleared
  /\ shown' = shown \ {d}
  /\ cleared' = cleared \ {d}
  /\ answered' = answered \cup {d}
  /\ responses' = responses \cup {d}
  /\ UNCHANGED <<dialog, pending, runtime, mailbox, arriving, subscribed, reloading, lost, eviction, bounds>>

(* cancelPendingDialogsForSession, when the user goes elsewhere. *)
Dismiss ==
  /\ shown # {}
  /\ shown' = {}
  /\ answered' = answered \cup shown
  /\ responses' = responses \cup shown
  /\ UNCHANGED <<dialog, pending, runtime, mailbox, arriving, subscribed, cleared, reloading, lost,
                 eviction, bounds>>

(* Mutant: the response leaves the map and never resolves the promise. *)
ResponseForgets(d) ==
  /\ d \in responses
  /\ runtime # "none"
  /\ responses' = responses \ {d}
  /\ pending' = pending \ {d}
  /\ UNCHANGED <<dialog, runtime, mailbox, arriving, subscribed, shown, answered, cleared, reloading, lost,
                 eviction, bounds>>

(* The supervisor's, once ensureRecord has the session open. *)
ResponseArrives(d) ==
  /\ d \in responses
  /\ runtime # "none"
  /\ responses' = responses \ {d}
  /\ Settle({d} \cap pending)
  /\ UNCHANGED <<runtime, mailbox, arriving, subscribed, shown, answered, cleared, reloading, lost,
                 eviction, bounds>>

ResponseFails(d) ==
  /\ d \in responses
  /\ Fails
  /\ responses' = responses \ {d}
  /\ lost' = lost \cup {d}
  /\ UNCHANGED <<dialog, pending, runtime, mailbox, arriving, subscribed, shown, answered, cleared,
                 reloading, eviction, resets, evictions>>

------------------------------------------------------------------------------
(* The session's residence.                                                *)

(* openRecord creates the runtime, then binds its extensions. *)
Open ==
  /\ runtime = "none"
  /\ runtime' = "binding"
  /\ UNCHANGED <<dialog, pending, mailbox, arriving, subscribed, desktop, lost, eviction, bounds>>

Bound ==
  /\ runtime = "binding"
  /\ runtime' = "bound"
  /\ UNCHANGED <<dialog, pending, mailbox, arriving, subscribed, desktop, lost, eviction, bounds>>

(* Mutant: subscribing replays the dialogs that are pending. *)
SubscribeReplays ==
  /\ ~subscribed
  /\ subscribed' = TRUE
  /\ \/ pending = {} /\ UNCHANGED mailbox
     \/ \E d \in pending : Queue(d)
  /\ UNCHANGED <<dialog, pending, runtime, arriving, desktop, lost, eviction, bounds>>

(* ensureSessionSubscribed, by whoever shows the session. *)
Subscribe ==
  /\ ~subscribed
  /\ subscribed' = TRUE
  /\ UNCHANGED <<dialog, pending, runtime, mailbox, arriving, desktop, lost, eviction, bounds>>

(* pruneDormantSessionRuntimes: the protected sessions are collected once. *)
EvictionChooses ==
  /\ eviction = "none"
  /\ evictions < MaxEvictions
  /\ evictions' = evictions + 1
  /\ subscribed
  /\ shown = {}
  /\ eviction' = "chosen"
  /\ UNCHANGED <<dialog, pending, runtime, mailbox, arriving, subscribed, desktop, lost, resets, failures>>

EvictionUnsubscribes ==
  /\ eviction = "chosen"
  /\ subscribed' = FALSE
  /\ eviction' = "draining"
  /\ UNCHANGED <<dialog, pending, runtime, mailbox, arriving, desktop, lost, bounds>>

(* suspendSessionRuntime decides when the drain it awaits has ended, which *)
(* may be before what is queued has left.  A run or a job may refuse too.  *)
SuspendDecides ==
  /\ eviction = "draining"
  /\ arriving = Nothing
  /\ \/ runtime = "bound" /\ pending = {} /\ eviction' = "persisting"
     \/ runtime # "none" /\ eviction' = "refused"
  /\ UNCHANGED <<dialog, pending, runtime, mailbox, arriving, subscribed, desktop, lost, bounds>>

EvictionRestores ==
  /\ eviction = "refused"
  /\ subscribed' = TRUE
  /\ eviction' = "none"
  /\ UNCHANGED <<dialog, pending, runtime, mailbox, arriving, desktop, lost, bounds>>

(* The snapshot is persisted; nothing is looked at again. *)
SuspendDisposes ==
  /\ eviction = "persisting"
  /\ runtime' = "none"
  /\ eviction' = "disposing"
  /\ UNCHANGED <<dialog, pending, mailbox, arriving, subscribed, desktop, lost, bounds>>

(* The rejection leaves the app store's loop. *)
SuspendFails ==
  /\ eviction \in {"persisting", "disposing"}
  /\ Fails
  /\ eviction' = "none"
  /\ UNCHANGED <<dialog, pending, runtime, mailbox, arriving, subscribed, desktop, lost, resets, evictions>>

(* When the session is suspended, or had no runtime to begin with, the app *)
(* store forgets its extension UI, with what a new listener may have shown *)
(* in it.                                                                  *)
EvictionForgets ==
  /\ \/ eviction = "disposing"
     \/ eviction = "draining" /\ runtime = "none"
  /\ lost' = lost \cup shown
  /\ shown' = {}
  /\ eviction' = "none"
  /\ UNCHANGED <<dialog, pending, runtime, mailbox, arriving, subscribed, answered, responses, cleared,
                 reloading, bounds>>

------------------------------------------------------------------------------
Extension == \/ \E d \in Dialogs : AskInVain(d) \/ Ask(d) \/ Expires(d) \/ Aborts(d)
             \/ Reload

Delivery == Emit \/ EventLost \/ Apply

User == \/ Dismiss \/ ReloadCalled \/ ReloadArrives \/ ReloadFails
        \/ \E d \in Dialogs : Respond(d) \/ ResponseArrives(d) \/ ResponseFails(d)

Residence == \/ Open \/ Bound \/ Subscribe
             \/ EvictionChooses \/ EvictionUnsubscribes \/ SuspendDecides
             \/ EvictionRestores \/ SuspendDisposes \/ SuspendFails \/ EvictionForgets

Next == Extension \/ Delivery \/ User \/ Residence

Spec == Init /\ [][Next]_vars

(* The drain and the app store's event chain run until they are done, and  *)
(* a response or a reload that is under way opens the session and is       *)
(* handled.                                                                *)
FairSpec ==
  /\ Spec
  /\ WF_vars(Emit) /\ WF_vars(Apply)
  /\ WF_vars((responses # {} \/ reloading > 0) /\ Open)
  /\ WF_vars(ReloadArrives)
  /\ \A d \in Dialogs : WF_vars(ResponseArrives(d))

------------------------------------------------------------------------------
(* Every variable stays in its type. *)
TypeOK ==
  /\ dialog \in [Dialogs -> {"unasked", "waiting", "settled"}]
  /\ pending \subseteq Dialogs
  /\ runtime \in {"none", "binding", "bound"}
  /\ mailbox \in Seq(Event)
  /\ arriving \in Event \cup {Nothing}
  /\ subscribed \in BOOLEAN
  /\ shown \subseteq Dialogs /\ answered \subseteq Dialogs
  /\ responses \subseteq answered /\ lost \subseteq Dialogs
  /\ cleared \subseteq Dialogs /\ reloading \in 0 .. resets
  /\ eviction \in Eviction
  /\ resets \in 0 .. MaxResets /\ evictions \in 0 .. MaxEvictions
  /\ failures \in 0 .. MaxFailures

(* What pendingHostUiRequests holds is exactly what extensions still await,*)
(* whichever of response, timeout, abort and reset came first: an entry    *)
(* left behind would keep the session from ever being suspended, a missing *)
(* one could no longer be answered.                                        *)
PendingIsWaiting == pending = Waiting

OnItsWay(d) == d = arriving \/ \E i \in 1 .. Len(mailbox) : mailbox[i] = d

(* A request an extension awaits is before the user, on its way there, or  *)
(* its response is on its way back, or a reload that has taken it off the  *)
(* screen is on its way to cancel it, unless an event, a response, a view  *)
(* or that reload was lost for it: no reset that overtakes or is overtaken *)
(* by requests takes one away that is still awaited.                       *)
WaitingIsReachable ==
  /\ \A d \in Waiting : d \in shown \cup responses \cup cleared \cup lost \/ OnItsWay(d)
  /\ reloading = 0 => cleared = {}

(* What the user has answered or dismissed is never shown again, whatever  *)
(* subscribes, unsubscribes and is applied late.                           *)
AnsweredStaysGone == shown \cap answered = {}

(* The requests are Questions: whatever queues, applies late, reloads,     *)
(* suspends, subscribes and fails, each is shown and answered at most      *)
(* once, settles once, by the first of its answer and its cancellation,    *)
(* and is not taken from the screen while it is awaited but to be          *)
(* cancelled, unless it is lost.                                           *)
Asked == INSTANCE Questions WITH
  promise <- dialog, coming <- {d \in Dialogs : OnItsWay(d)}, leaving <- cleared, returning <- responses

ImplementsQuestions == Asked!Spec

(* A request reaches the user, or is settled or lost without. *)
RequestsArrive ==
  \A d \in Dialogs : dialog[d] = "waiting" ~> (d \in shown \cup answered \cup lost
                                                \/ dialog[d] = "settled")

(* A response settles the request although the session may be suspended    *)
(* and opened again under it, and so does the reload that took it off the  *)
(* screen, unless the call is rejected.                                    *)
AnswersSettle ==
  \A d \in Dialogs : d \in responses \cup cleared ~> (dialog[d] = "settled" \/ d \in lost)
==============================================================================
