---------------------------- MODULE MCCollection ----------------------------
(* Instance of Collection for TLC. *)
EXTENDS Collection

CONSTANTS t1, t2
=============================================================================
