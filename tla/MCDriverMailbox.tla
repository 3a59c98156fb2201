--------------------------- MODULE MCDriverMailbox ---------------------------
(* Instances of DriverMailbox for TLC. *)
EXTENDS DriverMailbox
==============================================================================
