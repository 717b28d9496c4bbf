----------------------------- MODULE TaskStatus -----------------------------
(***************************************************************************)
(* What the apiserver promises about the status of a task                  *)
(* (hotmethod_tasks.status, constants of audit.go) to everyone who reads   *)
(* it: it starts as CREATED and moves only along these edges.  FAILED and  *)
(* CANCELED are never left.                                                *)
(***************************************************************************)

VARIABLE status

Statuses == {"CREATED", "RUNNING", "UPLOADING", "DONE", "FAILED", "CANCELED"}

\* isTerminalTaskStatus
Terminal == {"DONE", "FAILED", "CANCELED"}

\* A transaction may take a task from RUNNING over UPLOADING to DONE; a late
\* error report of an attempt takes a task from DONE to FAILED.
Edges ==
    {"CREATED"} \X {"RUNNING", "FAILED", "CANCELED"}
        \cup {"RUNNING"} \X {"UPLOADING", "DONE", "FAILED", "CANCELED"}
        \cup {"UPLOADING"} \X {"DONE", "FAILED", "CANCELED"}
        \cup {"DONE"} \X {"FAILED"}

Init == status = "CREATED"

Next ==
    /\ status' \in Statuses
    /\ <<status, status'>> \in Edges

Spec == Init /\ [][Next]_status
=============================================================================
