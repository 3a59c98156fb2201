------------------------------ MODULE DurableMap ------------------------------
(***************************************************************************)
(* What JsonCatalogStore promises a process that has the catalog file to   *)
(* itself, with the file, its temporary copies and the write queue hidden: *)
(* a change is seen at once, its write settles in its turn, what is stored *)
(* is replaced in one step by the whole contents as they were after some   *)
(* change not settled yet, and a crash takes back all that is not stored.  *)
(***************************************************************************)
EXTENDS Naturals, Sequences

CONSTANT Keys

VARIABLES
  current,  \* the contents as they are read
  pending,  \* the contents after each change whose write has not settled
  stored,   \* the contents that outlive the process
  acked     \* the newest version of each entry that a settled write vouches for

vars == <<current, pending, stored, acked>>

Newest(a, b) == [k \in Keys |-> IF a[k] < b[k] THEN b[k] ELSE a[k]]

Init ==
  /\ stored = [k \in Keys |-> 0]
  /\ current = stored
  /\ pending = <<>>
  /\ acked = stored

(* An entry gets a newer version. *)
Change(k) ==
  /\ current[k] < current'[k]
  /\ current' = [current EXCEPT ![k] = current'[k]]
  /\ pending' = Append(pending, current')
  /\ UNCHANGED <<stored, acked>>

(* The oldest write settles, and its change is stored, together with every *)
(* change before it and perhaps some of those behind it; none is undone.   *)
Save ==
  /\ \E i \in DOMAIN pending : stored' = pending[i]
  /\ \A k \in Keys : stored[k] <= stored'[k] /\ Head(pending)[k] <= stored'[k]
  /\ acked' = Newest(acked, Head(pending))
  /\ pending' = Tail(pending)
  /\ UNCHANGED current

(* The oldest write rejects.  Its change is not undone: a later write may  *)
(* store it.                                                               *)
Reject ==
  /\ pending # <<>>
  /\ pending' = Tail(pending)
  /\ UNCHANGED <<current, stored, acked>>

Crash ==
  /\ current' = stored
  /\ pending' = <<>>
  /\ UNCHANGED <<stored, acked>>

Next == (\E k \in Keys : Change(k)) \/ Save \/ Reject \/ Crash

Spec == Init /\ [][Next]_vars
==============================================================================
