------------------------------ MODULE PersistedLog ------------------------------
(***************************************************************************)
(* What the app store promises of the transcripts: what was said stays in  *)
(* the order it was said, a file never loses what its transcript has left, *)
(* lacks at most the newest of it, and has all of it unless something is   *)
(* known to wait.  What is loose, the notices that came alone, is not      *)
(* promised to be stored, and may be gone.  The chain of events, the       *)
(* batcher, the cache, the timers, the queues of writes and the quit are   *)
(* hidden.  Of a transcript that is spoilt nothing is promised.            *)
(***************************************************************************)
EXTENDS Naturals, Sequences

CONSTANT Sessions

VARIABLES
  said,     \* all that was added to each transcript
  gone,     \* what of it was taken back or lost
  loose,    \* what of it nothing takes to the file
  stored,   \* what its file holds
  waiting,  \* the transcripts whose file may be behind
  spoilt    \* those that were changed, or read, when they were not at hand

vars == <<said, gone, loose, stored, waiting, spoilt>>

Said(s) == {said[s][i] : i \in 1 .. Len(said[s])}
Left(s) == Said(s) \ gone[s]

(* Nothing is there without what was said before, unless that is gone. *)
Begins(s, rows) ==
  \A i, j \in 1 .. Len(said[s]) :
    i < j /\ said[s][j] \in rows => said[s][i] \in rows \cup gone[s]

Init ==
  /\ stored = [s \in Sessions |-> Said(s)]
  /\ gone = [s \in Sessions |-> {}] /\ loose = gone
  /\ waiting = {} /\ spoilt = {}

Prefix(a, b) == Len(a) <= Len(b) /\ \A i \in 1 .. Len(a) : a[i] = b[i]

(* More is said and will be stored, with all that was loose; or it is a    *)
(* notice, which is stored with what waits already or is loose.            *)
Add(s) ==
  /\ said' = [said EXCEPT ![s] = said'[s]]
  /\ Prefix(said[s], said'[s])
  /\ \/ waiting' = waiting \cup {s} /\ loose' = [loose EXCEPT ![s] = {}]
     \/ s \in waiting /\ UNCHANGED <<waiting, loose>>
     \/ loose' = [loose EXCEPT ![s] = @ \cup (Said(s)' \ Said(s))] /\ UNCHANGED waiting
  /\ spoilt' \in {spoilt, spoilt \cup {s}}
  /\ UNCHANGED <<gone, stored>>

(* Some of what was said is taken back, which is to be stored. *)
TakeBack(s) ==
  /\ gone' = [gone EXCEPT ![s] = gone'[s]] /\ gone[s] \subseteq gone'[s]
  /\ waiting' = waiting \cup {s} /\ loose' = [loose EXCEPT ![s] = {}]
  /\ spoilt' \in {spoilt, spoilt \cup {s}}
  /\ UNCHANGED <<said, stored>>

(* What is loose is lost. *)
Lose(s) ==
  /\ gone' = [gone EXCEPT ![s] = @ \cup loose[s]]
  /\ loose' = [loose EXCEPT ![s] = {}]
  /\ UNCHANGED <<said, stored, waiting, spoilt>>

(* The file comes nearer to its transcript, or all the way. *)
Store(s) ==
  /\ s \in waiting
  /\ stored' = [stored EXCEPT ![s] = stored'[s]]
  /\ waiting' \in {waiting, waiting \ {s}}
  /\ s \notin spoilt =>
       /\ stored[s] \subseteq stored'[s] \cup gone[s]
       /\ stored'[s] \subseteq Said(s) /\ Begins(s, stored'[s])
       /\ s \notin waiting' => stored'[s] = Left(s) \ loose[s]
  /\ UNCHANGED <<said, gone, loose, spoilt>>

(* A file that is behind is read. *)
Spoil(s) ==
  /\ s \in waiting
  /\ spoilt' = spoilt \cup {s}
  /\ UNCHANGED <<said, gone, loose, stored, waiting>>

Next == \E s \in Sessions : Add(s) \/ TakeBack(s) \/ Lose(s) \/ Store(s) \/ Spoil(s)

Spec == Init /\ [][Next]_vars
==============================================================================
