--------------------------- MODULE CompositeTasks ---------------------------
(***************************************************************************)
(* A composite task: a parent whose status is aggregated from its children *)
(* by a policy (composite.go).  The children live the life of any task; a  *)
(* result callback of one of them, and anyone who looks at the parent,     *)
(* refreshes the parent.  A refresh is a sequence of statements, not a     *)
(* transaction, and refreshes run side by side.                            *)
(***************************************************************************)
EXTENDS Naturals, FiniteSets

CONSTANTS Children, Policies, Refreshers

ASSUME CompositeAssumption == IsFiniteSet(Children) /\ \A p \in Policies : p.quorum \in Nat

VARIABLES
  policy,    \* multi_tasks.aggregation_policy and quorum (0: not given)
  child,     \* status of the children, "none" before CreateCompositeTask
  succeeded, \* children that have been DONE, for the property
  parent,    \* status of the parent
  multi,     \* multi_tasks.status
  refresh    \* what each refresh has done so far

compositevars == <<policy, child, succeeded, parent, multi, refresh>>

NoRefresh == [step |-> "idle", status |-> "none", seen |-> "none"]
Terminal == {"DONE", "FAILED", "CANCELED"}

\* The quorum CreateCompositeTask stores: half of the children unless given.
Quorum(n) == IF policy.quorum = 0 THEN (n + 1) \div 2 ELSE policy.quorum

\* Mutant: the children that ended are counted instead of those that are DONE.
AggregateEnded(status) ==
  LET total == Cardinality(DOMAIN status)
      ended == Cardinality({c \in DOMAIN status : status[c] \in Terminal})
  IN  IF total = 0 THEN "FAILED"
      ELSE IF ended >= (IF policy.kind = "QUORUM" THEN Quorum(total) ELSE total) THEN "DONE"
      ELSE "RUNNING"

\* aggregateCompositeStatus of children with these statuses.
Aggregate(status) ==
  LET total == Cardinality(DOMAIN status)
      done == Cardinality({c \in DOMAIN status : status[c] = "DONE"})
      ended == Cardinality({c \in DOMAIN status : status[c] \in Terminal})
  IN  IF total = 0 THEN "FAILED"
      ELSE CASE policy.kind = "BEST_EFFORT" -> IF ended < total THEN "RUNNING"
                                               ELSE IF done > 0 THEN "DONE" ELSE "FAILED"
             [] policy.kind = "QUORUM" ->
                  IF done >= Quorum(total) THEN "DONE"
                  ELSE IF ended = total \/ done + total - ended < Quorum(total) THEN "FAILED"
                  ELSE "RUNNING"
             [] OTHER -> IF ended > done THEN "FAILED"
                         ELSE IF done = total THEN "DONE" ELSE "RUNNING"

Expanded == {c \in Children : child[c] # "none"}
Statuses == [c \in Expanded |-> child[c]]

CompositeInit ==
  /\ policy \in Policies
  /\ child = [c \in Children |-> "none"]
  /\ succeeded = {}
  /\ parent = "none" /\ multi = "none"
  /\ refresh = [r \in Refreshers |-> NoRefresh]

\* CreateCompositeTask: parent, children and outbox rows in one transaction.
\* Children the agent cannot run are left out under BEST_EFFORT and refuse the
\* request otherwise; so does a quorum above the number of children.
CreateCompositeTask(runnable) ==
  /\ parent = "none"
  /\ runnable # {} /\ (policy.kind # "BEST_EFFORT" => runnable = Children)
  /\ policy.kind = "QUORUM" => Quorum(Cardinality(runnable)) <= Cardinality(runnable)
  /\ child' = [c \in Children |-> IF c \in runnable THEN "CREATED" ELSE "none"]
  /\ parent' = "RUNNING" /\ multi' = "RUNNING"
  /\ UNCHANGED <<policy, succeeded, refresh>>

\* A child moves as TaskStatus says: in the end DONE, FAILED or CANCELED; a late
\* error report takes it from DONE to FAILED.
ChildMoves(c, to) ==
  /\ child[c] \in {"CREATED", "RUNNING"} \/ (child[c] = "DONE" /\ to = "FAILED")
  /\ child[c] = "CREATED" => to # "DONE"
  /\ child[c] # to
  /\ child' = [child EXCEPT ![c] = to]
  /\ succeeded' = IF to = "DONE" THEN succeeded \cup {c} ELSE succeeded
  /\ UNCHANGED <<policy, parent, multi, refresh>>

\* compositeChildrenPayload: the children are read and aggregated, ...
RefreshRead(r) ==
  /\ parent # "none" /\ refresh[r].step = "idle"
  /\ refresh' = [refresh EXCEPT ![r] = [step |-> "read", status |-> Aggregate(Statuses),
                                        seen |-> "none"]]
  /\ UNCHANGED <<policy, child, succeeded, parent, multi>>

\* ... multi_tasks is updated, ...
RefreshMulti(r) ==
  /\ refresh[r].step = "read"
  /\ multi' = refresh[r].status
  /\ refresh' = [refresh EXCEPT ![r].step = "stored"]
  /\ UNCHANGED <<policy, child, succeeded, parent>>

\* ... the parent is read, ...
RefreshParent(r) ==
  /\ refresh[r].step = "stored"
  /\ refresh' = [refresh EXCEPT ![r] = IF parent = refresh[r].status THEN NoRefresh
                                       ELSE [@ EXCEPT !.step = "move", !.seen = parent]]
  /\ UNCHANGED <<policy, child, succeeded, parent, multi>>

\* ... and transitionTaskStatus moves it if it still has the status read.
RefreshMove(r) ==
  /\ refresh[r].step = "move"
  /\ parent' = IF parent = refresh[r].seen THEN refresh[r].status ELSE parent
  /\ refresh' = [refresh EXCEPT ![r] = NoRefresh]
  /\ UNCHANGED <<policy, child, succeeded, multi>>

\* CancelTask on the parent.
CancelParent ==
  /\ parent = "RUNNING"
  /\ parent' = "CANCELED"
  /\ UNCHANGED <<policy, child, succeeded, multi, refresh>>

CompositeNext ==
  \/ \E runnable \in SUBSET Children : CreateCompositeTask(runnable)
  \/ \E c \in Children, to \in {"RUNNING", "DONE", "FAILED", "CANCELED"} : ChildMoves(c, to)
  \/ \E r \in Refreshers : RefreshRead(r) \/ RefreshMulti(r) \/ RefreshParent(r) \/ RefreshMove(r)
  \/ CancelParent

CompositeSpec == CompositeInit /\ [][CompositeNext]_compositevars

---------------------------------------------------------------------------
Earned ==
  CASE policy.kind = "BEST_EFFORT" -> succeeded # {}
    [] policy.kind = "QUORUM" -> Cardinality(succeeded) >= Quorum(Cardinality(Expanded))
    [] OTHER -> succeeded = Expanded

(* A composite task is reported as DONE only when its children earned it:   *)
(* all of them were DONE, or a quorum, or one of those that could run,      *)
(* whatever refreshes with older readings overlap.                          *)
DoneIsEarned == parent = "DONE" => Earned
=============================================================================
