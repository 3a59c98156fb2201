--------------------------- MODULE OrderedDelivery ---------------------------
(***************************************************************************)
(* What the driver's mailbox promises the listeners of a session, with     *)
(* the mailbox itself hidden: events are numbered in the order in which    *)
(* they are queued, an event handed to a listener stands for a run of      *)
(* consecutive numbers (a coalesced event stands for several), and every   *)
(* listener is handed runs that only move forward: none is repeated, none  *)
(* overtakes another, none is handed over before it was queued.            *)
(***************************************************************************)
EXTENDS Naturals, Sequences

CONSTANT Listeners

VARIABLES
  offered,   \* how many events have been queued
  received   \* what each listener has been handed, in order

Run == [first: Nat \ {0}, last: Nat \ {0}]

Init ==
  /\ offered = 0
  /\ received = [l \in Listeners |-> <<>>]

(* Something is queued. *)
Offer ==
  /\ offered' \in {offered + 1, offered + 2}
  /\ UNCHANGED received

(* A listener is handed a run that lies after everything it has had. *)
Hand(l, run) ==
  /\ run.first <= run.last
  /\ run.last <= offered'
  /\ \A i \in DOMAIN received[l] : received[l][i].last < run.first
  /\ received' = [received EXCEPT ![l] = Append(@, run)]

(* Queueing wakes an idle drain, so one step may queue and hand over. *)
OfferAndHand(l, run) ==
  /\ offered' \in {offered + 1, offered + 2}
  /\ Hand(l, run)

Receive(l, run) ==
  /\ offered' = offered
  /\ Hand(l, run)

Next ==
  \/ Offer
  \/ \E l \in Listeners, run \in [first: 1 .. offered + 2, last: 1 .. offered + 2] :
       OfferAndHand(l, run) \/ Receive(l, run)

vars == <<offered, received>>

Spec == Init /\ [][Next]_vars
==============================================================================
