----------------------------- MODULE MCTranscripts -----------------------------
(* Instances of Transcripts for TLC. *)
EXTENDS Transcripts, TLC

Symmetry == Permutations(Sessions)
==============================================================================
