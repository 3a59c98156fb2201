---------------------------- MODULE MCVsCodeServers ----------------------------
(* Instances of VsCodeServers for TLC. *)
EXTENDS VsCodeServers
==============================================================================
