------------------------------- MODULE Questions -------------------------------
(***************************************************************************)
(* What an extension that asks its user may rely on: each request comes to *)
(* the user at most once, never after it was answered, and settles once,   *)
(* by what comes first, its answer or its cancellation; one that is still  *)
(* awaited is taken off the screen only to be cancelled, and until then    *)
(* may yet be answered.  The record's map, the event queue, the reloads,   *)
(* the session's runtime and its eviction are hidden, but for what they    *)
(* lose.                                                                   *)
(***************************************************************************)
CONSTANT Dialogs

VARIABLES
  promise,   \* what became of the promise of each request
  coming,    \* the requests on their way to the user
  shown,     \* those on the screen
  leaving,   \* those taken off the screen, to be cancelled
  answered,  \* those the user has answered or dismissed
  returning, \* those whose answer is on its way back
  lost       \* those of which something was lost

vars == <<promise, coming, shown, leaving, answered, returning, lost>>

Waiting == {d \in Dialogs : promise[d] = "waiting"}
Settled(D) == [d \in Dialogs |-> IF d \in D THEN "settled" ELSE promise[d]]

Init ==
  /\ promise = [d \in Dialogs |-> "unasked"]
  /\ coming = {} /\ shown = {} /\ leaving = {} /\ answered = {} /\ returning = {} /\ lost = {}

Ask(d) ==
  /\ promise[d] = "unasked"
  /\ \/ promise' = [promise EXCEPT ![d] = "waiting"] /\ coming' = coming \cup {d}
     \/ promise' = [promise EXCEPT ![d] = "settled"] /\ UNCHANGED coming
  /\ UNCHANGED <<shown, leaving, answered, returning, lost>>

(* A timeout, an abort, or a reload, which cancels all, and with it all    *)
(* that was taken off the screen for it.                                   *)
Cancel(D) ==
  /\ D \subseteq Waiting
  /\ promise' = Settled(D)
  /\ \/ UNCHANGED leaving
     \/ leaving \cap Waiting \subseteq D /\ leaving' = {}
  /\ UNCHANGED <<coming, shown, answered, returning, lost>>

Show(d) ==
  /\ d \in coming
  /\ coming' = coming \ {d}
  /\ shown' = shown \cup {d}
  /\ UNCHANGED <<promise, leaving, answered, returning, lost>>

(* The screen is cleared of what no one awaits. *)
Clear ==
  /\ shown \cap Waiting = {}
  /\ shown' = {}
  /\ UNCHANGED <<promise, coming, leaving, answered, returning, lost>>

(* It is cleared for a reload, which is to cancel the rest. *)
Take ==
  /\ leaving' = leaving \cup shown
  /\ shown' = {}
  /\ UNCHANGED <<promise, coming, answered, returning, lost>>

(* The user may answer again, and late, what is still to be redrawn. *)
Answer(D) ==
  /\ D \subseteq shown \cup answered \cup leaving
  /\ shown' = shown \ D /\ leaving' = leaving \ D
  /\ answered' = answered \cup D
  /\ returning' = returning \cup D
  /\ UNCHANGED <<promise, coming, lost>>

Return(d) ==
  /\ d \in returning
  /\ returning' = returning \ {d}
  /\ promise' = Settled({d} \cap Waiting)
  /\ UNCHANGED <<coming, shown, leaving, answered, lost>>

(* An event, a view, an answer or a reload is lost. *)
Lose(D) ==
  /\ D \subseteq coming \cup shown \cup leaving \cup returning
  /\ coming' = coming \ D /\ shown' = shown \ D
  /\ leaving' = leaving \ D /\ returning' = returning \ D
  /\ lost' = lost \cup D
  /\ UNCHANGED <<promise, answered>>

Next ==
  \/ \E d \in Dialogs : Ask(d) \/ Show(d) \/ Return(d)
  \/ \E D \in SUBSET Dialogs : Cancel(D) \/ Answer(D) \/ Lose(D)
  \/ Clear \/ Take

Spec == Init /\ [][Next]_vars
==============================================================================
