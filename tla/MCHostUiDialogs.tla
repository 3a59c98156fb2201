---------------------------- MODULE MCHostUiDialogs ----------------------------
(* Instances of HostUiDialogs for TLC. *)
EXTENDS HostUiDialogs
CONSTANTS d1, d2
==============================================================================
