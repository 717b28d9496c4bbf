---------------------------- MODULE MCDropServer ----------------------------
(* Instance of DropServer for TLC: one agent and up to three tasks of unequal *)
(* urgency.                                                                   *)
EXTENDS DropServer, TLC

CONSTANTS a1, t1, t2, t3

MCTarget == [t \in Tids |-> a1]
MCPriority == [t \in Tids |-> IF t = t1 THEN 0 ELSE 5]
MCDeadline == [t \in Tids |-> IF t = t3 THEN 1 ELSE 0]
=============================================================================
