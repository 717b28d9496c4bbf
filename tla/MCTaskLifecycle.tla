-------------------------- MODULE MCTaskLifecycle --------------------------
(* TaskLifecycle for TLC: the handlers are model values. *)
EXTENDS TaskLifecycle

CONSTANTS n1, c1
=============================================================================
