------------------------- MODULE ContinuousSessions -------------------------
(***************************************************************************)
(* The continuous-profiling sessions of one host: the requests that        *)
(* create, stop and delete them, the periodic reconciliation in which the  *)
(* agent reports what it observes and is told what is wanted, and the      *)
(* session manager of drop_agent with its shared engine and its spool.     *)
(*                                                                         *)
(* Rows are changed in transactions.  What a transaction holds locked is   *)
(* modelled where another one can meet it: StopContinuousSession locks the *)
(* session and then the agent state, ReconcileContinuousSessions the agent *)
(* state and then each session it writes; a session it reads is not        *)
(* locked.                                                                 *)
(***************************************************************************)
EXTENDS Naturals, FiniteSets

CONSTANTS Sessions,     \* session ids
          Requests,     \* what users may ask for: functions on subsets of Sessions
          Limit,        \* process sessions a host may have (16 in the code)
          MaxFaults,    \* bound: restarts of the agent and requests it gives up on
          MaxSpool      \* bound: sessions with batches in the spool

ASSUME SessionsAssumption == IsFiniteSet(Sessions) /\ "none" \notin Sessions
ASSUME RequestsAssumption ==
  \A r \in Requests : /\ Limit[r] \in Nat
                      /\ \A s \in DOMAIN r : r[s].scope \in {"host", "process"}

VARIABLES
  req,        \* scope and selector identity of each session
  desired,    \* continuous_sessions.desired_state; "none" no row, "gone" deleted
  observed,   \* observed_state
  stamped,    \* sessions with status stopped and stopped_at
  rev,        \* continuous_sessions.revision
  revision,   \* continuous_agent_states.revision
  api,        \* what a user request on the session has done so far
  txn,        \* the reconcile transaction, which holds the agent state
  inbox,      \* reconcile requests sent and not begun
  ingested,   \* sessions with batches in the database
  agent,      \* the session manager: memory of drop_agent
  cache,      \* assignments.json
  spool,      \* sessions with batches that wait on the agent's disk
  faults

server == <<desired, observed, stamped, rev, revision, api, txn, ingested>>
vars == <<req, server, inbox, agent, cache, spool, faults>>

Observed == {"pending", "active", "error", "stopping", "stopped"}
Nothing == [s \in Sessions |-> "none"]
NoTxn == [on |-> FALSE, live |-> FALSE, report |-> Nothing,
          todo |-> {}, seen |-> "none", new |-> Nothing]
Idle == [up |-> TRUE, phase |-> "loop", runtime |-> [s \in Sessions |-> "none"],
         stopping |-> {}, stopped |-> {}, engine |-> {}, answer |-> Nothing]

Init ==
  /\ req \in Requests
  /\ desired = [s \in Sessions |-> "none"]
  /\ observed = [s \in Sessions |-> "pending"]
  /\ stamped = {} /\ ingested = {} /\ spool = {} /\ inbox = {}
  /\ rev = [s \in Sessions |-> 0] /\ revision = 0
  /\ api = [s \in Sessions |-> "idle"]
  /\ txn = NoTxn
  /\ agent = Idle
  /\ cache = [s \in Sessions |-> "none"]
  /\ faults = 0

---------------------------------------------------------------------------
(* User requests. *)

Active == {s \in Sessions : desired[s] = "running"}

\* Mutant: selectors are not compared.
AdmissibleByCount(s, active) ==
  IF req[s].scope = "host"
  THEN active = {}
  ELSE (\A t \in active : req[t].scope # "host") /\ Cardinality(active) < Limit[req]

\* validateContinuousActiveSet: a host session is alone; process sessions have
\* different selectors and are at most Limit.
Admissible(s, active) ==
  IF req[s].scope = "host"
  THEN active = {}
  ELSE /\ \A t \in active : req[t].scope # "host" /\ req[t].selector # req[s].selector
       /\ Cardinality(active) < Limit[req]

\* createContinuousSession up to its transaction, for an agent that reported in
\* the last 30 s.
CreateRequest(s) ==
  /\ s \in DOMAIN req /\ desired[s] = "none" /\ api[s] = "idle"
  /\ api' = [api EXCEPT ![s] = "create"]
  /\ UNCHANGED <<req, desired, observed, stamped, rev, revision, txn, ingested,
                 inbox, agent, cache, spool, faults>>

\* Its transaction, with the agent and its state locked; the last report may be
\* too old by now.
CreateCommit(s, fresh) ==
  /\ api[s] = "create" /\ ~txn.on
  /\ api' = [api EXCEPT ![s] = "idle"]
  /\ IF fresh /\ Admissible(s, Active)
     THEN /\ revision' = revision + 1
          /\ rev' = [rev EXCEPT ![s] = revision + 1]
          /\ desired' = [desired EXCEPT ![s] = "running"]
          /\ observed' = [observed EXCEPT ![s] = "pending"]
     ELSE UNCHANGED <<revision, rev, desired, observed>>
  /\ UNCHANGED <<req, stamped, txn, ingested, inbox, agent, cache, spool,
                 faults>>

\* StopContinuousSession locks the session, which a reconcile transaction may
\* have written; a session that is stopped already is answered at once.
StopLock(s) ==
  /\ desired[s] = "running" /\ api[s] = "idle"
  /\ txn.new[s] = "none"
  /\ api' = [api EXCEPT ![s] = "stop"]
  /\ UNCHANGED <<req, desired, observed, stamped, rev, revision, txn, ingested,
                 inbox, agent, cache, spool, faults>>

\* With the agent state locked as well it writes both and commits.
StopCommit(s) ==
  /\ api[s] = "stop" /\ ~txn.on
  /\ api' = [api EXCEPT ![s] = "idle"]
  /\ revision' = revision + 1
  /\ rev' = [rev EXCEPT ![s] = revision + 1]
  /\ desired' = [desired EXCEPT ![s] = "stopped"]
  /\ observed' = [observed EXCEPT ![s] = "stopping"]
  /\ UNCHANGED <<req, stamped, txn, ingested, inbox, agent, cache, spool,
                 faults>>

\* DeleteContinuousSession: the checks, each a query of its own ...
DeleteRequest(s) ==
  /\ desired[s] = "stopped" /\ api[s] = "idle"
  /\ observed[s] \in {"stopped", "error"}
  /\ s \notin ingested
  /\ api' = [api EXCEPT ![s] = "delete"]
  /\ UNCHANGED <<req, desired, observed, stamped, rev, revision, txn, ingested,
                 inbox, agent, cache, spool, faults>>

\* ... and the deletion, which waits for a transaction that wrote the row.
DeleteRow(s) ==
  /\ api[s] = "delete" /\ txn.new[s] = "none"
  /\ api' = [api EXCEPT ![s] = "idle"]
  /\ desired' = [desired EXCEPT ![s] = "gone"]
  /\ UNCHANGED <<req, observed, stamped, rev, revision, txn, ingested, inbox, agent,
                 cache, spool, faults>>

---------------------------------------------------------------------------
(* ReconcileContinuousSessions. *)

\* The upsert of the agent state, which locks it until the end.
ReconcileBegin ==
  /\ ~txn.on
  /\ \E m \in inbox :
       /\ inbox' = inbox \ {m}
       /\ txn' = [NoTxn EXCEPT !.on = TRUE, !.live = m.live, !.report = m.report,
                               !.todo = {s \in Sessions : m.report[s] # "none"}]
  /\ UNCHANGED <<req, desired, observed, stamped, rev, revision, api, ingested, agent,
                 cache, spool, faults>>

\* Mutant: the report is taken as it is.
ReconcileReadAsReported(s) ==
  /\ txn.on /\ txn.seen = "none" /\ s \in txn.todo
  /\ txn' = IF desired[s] \in {"running", "stopped"} THEN [txn EXCEPT !.seen = s]
            ELSE [txn EXCEPT !.todo = @ \ {s}]
  /\ UNCHANGED <<req, desired, observed, stamped, rev, revision, api, ingested, inbox,
                 agent, cache, spool, faults>>

\* A session of the report is read, without a lock.  desired_state decides what
\* is written for it; a session without a row is passed over.
ReconcileRead(s) ==
  /\ txn.on /\ txn.seen = "none" /\ s \in txn.todo
  /\ txn' = IF desired[s] \in {"running", "stopped"}
            THEN [txn EXCEPT !.seen = s,
                    !.report[s] = IF desired[s] = "stopped"
                                  THEN IF @ = "stopped" THEN "stopped" ELSE "stopping"
                                  ELSE IF @ = "stopped" THEN "error" ELSE @]
            ELSE [txn EXCEPT !.todo = @ \ {s}]
  /\ UNCHANGED <<req, desired, observed, stamped, rev, revision, api, ingested, inbox,
                 agent, cache, spool, faults>>

\* The update, once no other transaction holds the row.
ReconcileWrite(s) ==
  /\ txn.on /\ txn.seen = s
  /\ api[s] # "stop"
  /\ txn' = [txn EXCEPT !.seen = "none", !.todo = @ \ {s}, !.new[s] = txn.report[s]]
  /\ UNCHANGED <<req, desired, observed, stamped, rev, revision, api, ingested, inbox,
                 agent, cache, spool, faults>>

\* A stop holds the session and waits for the agent state, the reconciliation
\* holds the agent state and waits for the session: the database ends one and
\* hands what it held to the other.
DeadlockEndsStop(s) ==
  /\ txn.on /\ txn.seen = s /\ api[s] = "stop"
  /\ api' = [api EXCEPT ![s] = "idle"]
  /\ txn' = [txn EXCEPT !.seen = "none", !.todo = @ \ {s}, !.new[s] = txn.report[s]]
  /\ UNCHANGED <<req, desired, observed, stamped, rev, revision, ingested, inbox, agent,
                 cache, spool, faults>>

\* The agent cannot read the answer to a failed reconciliation and goes on.
DeadlockEndsReconcile(s) ==
  /\ txn.on /\ txn.seen = s /\ api[s] = "stop"
  /\ txn' = NoTxn
  /\ agent' = IF txn.live THEN [agent EXCEPT !.phase = "loop"] ELSE agent
  /\ UNCHANGED <<req, desired, observed, stamped, rev, revision, api, ingested, inbox,
                 cache, spool, faults>>

\* Mutant: a stopped session is no assignment any more.
AssignmentsRunning(confirmed) ==
  [s \in Sessions |-> IF desired[s] = "running" THEN "running" ELSE "none"]

\* assignmentDTOs: the sessions that are wanted, or stopped and not yet confirmed.
Assignments(confirmed) ==
  [s \in Sessions |-> IF desired[s] = "running" \/ (desired[s] = "stopped" /\ s \notin confirmed)
                      THEN desired[s] ELSE "none"]

\* The commit, and the answer to a request the agent still waits for, which
\* other requests may have overtaken when it arrives.
ReconcileCommit ==
  /\ txn.on /\ txn.todo = {}
  /\ observed' = [s \in Sessions |-> IF txn.new[s] = "none" \/ desired[s] = "gone"
                                     THEN observed[s] ELSE txn.new[s]]
  /\ stamped' = stamped \cup {s \in Sessions : desired[s] = "stopped" /\ txn.new[s] = "stopped"}
  /\ txn' = NoTxn
  /\ agent' = IF txn.live THEN [agent EXCEPT !.phase = "answer", !.answer = Assignments(stamped')]
              ELSE agent
  /\ UNCHANGED <<req, desired, rev, revision, api, ingested, inbox, cache, spool,
                 faults>>

---------------------------------------------------------------------------
(* The session manager of the agent, one thread. *)

\* RefreshTargets and RebuildSharedEngine on manager a: the process sessions of
\* absent have no process to sample, and the shared engine is handed over to the
\* rest, or (ok is FALSE) the replacement does not come up and the old one runs on.
Refresh(a, absent, ok) ==
  LET wanted == {s \in Sessions : a.runtime[s] # "none"} \ absent
      keep == ~ok /\ wanted # {}
      state(s) == CASE a.runtime[s] = "none" -> "none"
                    [] s \in absent -> "active"
                    [] OTHER -> IF keep THEN "error" ELSE "active"
  IN  [a EXCEPT !.runtime = [s \in Sessions |-> state(s)],
                !.engine = IF keep THEN @ ELSE wanted]

Absent(a) == SUBSET {s \in Sessions : a.runtime[s] # "none" /\ req[s].scope = "process"}

\* ApplyAssignments.
Apply(a, wanted) ==
  LET asked == {s \in Sessions : wanted[s] # "none"}
      stops == {s \in Sessions : wanted[s] = "stopped" /\ s \notin a.stopped}
      state(s) == CASE wanted[s] = "running" -> IF a.runtime[s] = "none" THEN "pending"
                                                ELSE a.runtime[s]
                    [] OTHER -> "none"
  IN  [a EXCEPT !.runtime = [s \in Sessions |-> state(s)],
                !.stopping = (@ \cap asked) \cup stops]

\* AdvanceStoppingSessions after an attempt to upload that left the files of left.
Advance(a, left) ==
  [a EXCEPT !.stopping = @ \cap left, !.stopped = @ \cup (a.stopping \ left)]

Report(a) ==
  [s \in Sessions |-> IF s \in a.stopping THEN "stopping"
                      ELSE IF s \in a.stopped THEN "stopped"
                      ELSE IF a.runtime[s] = "pending" THEN "active"
                      ELSE a.runtime[s]]

\* A turn of Loop: one batch of one stopping session is uploaded if the server
\* takes it, or set aside if it refuses it for good (drained).
AgentLoop(absent, ok, drained, send) ==
  /\ agent.up /\ agent.phase = "loop"
  /\ absent \in Absent(agent)
  /\ drained \subseteq agent.stopping \cap spool /\ Cardinality(drained) <= 1
  /\ LET a == Advance(Refresh(agent, absent, ok), spool \ drained)
     IN  /\ agent' = [a EXCEPT !.phase = IF send THEN "wait" ELSE "loop"]
         /\ inbox' = IF send THEN inbox \cup {[live |-> TRUE, report |-> Report(a)]} ELSE inbox
  /\ spool' = spool \ drained
  /\ ingested' = ingested \cup {s \in drained : desired[s] \in {"running", "stopped"}}
  /\ UNCHANGED <<req, desired, observed, stamped, rev, revision, api, txn, cache, faults>>

\* The answer: the assignments are cached (a failed write is not noticed) and
\* applied, and the confirmed stops need not be reported again.
AgentApply(absent, ok, cached) ==
  /\ agent.up /\ agent.phase = "answer"
  /\ cache' = IF cached THEN agent.answer ELSE cache
  /\ LET a == Apply(agent, agent.answer)
     IN  /\ absent \in Absent(a)
         /\ agent' = [Refresh(a, absent, ok) EXCEPT !.phase = "loop", !.stopped = {}, !.answer = Nothing]
  /\ UNCHANGED <<req, server, inbox, spool, faults>>

\* A request nobody waits for any more may still reach the server.
Forget ==
  /\ inbox' = {[m EXCEPT !.live = FALSE] : m \in inbox}
  /\ txn' = [txn EXCEPT !.live = FALSE]

\* The answer does not come within 10 s.
AgentTimeout ==
  /\ agent.up /\ agent.phase \in {"wait", "answer"} /\ faults < MaxFaults[req]
  /\ faults' = faults + 1
  /\ agent' = [agent EXCEPT !.phase = "loop", !.answer = Nothing]
  /\ Forget
  /\ UNCHANGED <<req, desired, observed, stamped, rev, revision, api, ingested, cache, spool>>

AgentExit ==
  /\ agent.up /\ faults < MaxFaults[req]
  /\ faults' = faults + 1
  /\ agent' = [Idle EXCEPT !.up = FALSE]
  /\ Forget
  /\ UNCHANGED <<req, desired, observed, stamped, rev, revision, api, ingested, cache, spool>>

\* Start, with the cached assignments.
AgentStart(absent, ok) ==
  /\ ~agent.up
  /\ LET a == Apply(Idle, cache)
     IN  /\ absent \in Absent(a)
         /\ agent' = Refresh(a, absent, ok)
  /\ UNCHANGED <<req, server, inbox, cache, spool, faults>>

\* The engine samples into the spool and uploads from it.
Sample(s) ==
  /\ s \in agent.engine \ spool /\ Cardinality(spool) < MaxSpool[req]
  /\ spool' = spool \cup {s}
  /\ UNCHANGED <<req, server, inbox, agent, cache, faults>>

Upload(s) ==
  /\ s \in agent.engine \cap spool
  /\ spool' = spool \ {s}
  /\ ingested' = IF desired[s] \in {"running", "stopped"} THEN ingested \cup {s} ELSE ingested
  /\ UNCHANGED <<req, desired, observed, stamped, rev, revision, api, txn, inbox, agent, cache,
                 faults>>

---------------------------------------------------------------------------
UserStep(s) ==
  \/ CreateRequest(s) \/ (\E fresh \in BOOLEAN : CreateCommit(s, fresh))
  \/ StopLock(s) \/ StopCommit(s) \/ DeleteRequest(s) \/ DeleteRow(s)

ReconcileStep ==
  \/ ReconcileBegin \/ ReconcileCommit
  \/ \E s \in Sessions : ReconcileRead(s) \/ ReconcileWrite(s)
                         \/ DeadlockEndsStop(s) \/ DeadlockEndsReconcile(s)

AgentStep ==
  \/ \E absent, drained \in SUBSET Sessions, ok, send \in BOOLEAN :
       AgentLoop(absent, ok, drained, send)
  \/ \E absent \in SUBSET Sessions, ok, cached \in BOOLEAN : AgentApply(absent, ok, cached)
  \/ \E absent \in SUBSET Sessions, ok \in BOOLEAN : AgentStart(absent, ok)
  \/ AgentTimeout \/ AgentExit
  \/ \E s \in Sessions : Sample(s) \/ Upload(s)

Next == ReconcileStep \/ AgentStep \/ \E s \in Sessions : UserStep(s)

\* The loop of the agent keeps turning and sending, its uploads and the handover
\* of its engine are not refused for ever, and the server finishes what it began.
Fairness ==
  /\ WF_vars(ReconcileStep)
  /\ \A s \in Sessions : SF_vars(StopCommit(s))
  /\ WF_vars(\E absent \in SUBSET Sessions, ok, cached \in BOOLEAN :
               AgentApply(absent, ok, cached) \/ AgentStart(absent, ok))
  /\ SF_vars(\E absent, drained \in SUBSET Sessions :
               (drained # {} \/ agent.stopping \cap spool = {})
               /\ AgentLoop(absent, TRUE, drained, TRUE))

Spec == Init /\ [][Next]_vars /\ Fairness

---------------------------------------------------------------------------
(* A stop that was answered is not undone: no delayed report of the agent   *)
(* makes the session look running or failed again, although the             *)
(* reconciliation reads it without a lock (continuous_control.go).          *)
StopIsNotUndone ==
  \A s \in Sessions : desired[s] = "stopped" => observed[s] \in {"stopping", "stopped"}

(* The wanted sessions of a host fit together at any time, also when        *)
(* several are created at once: a host session is the only one, process     *)
(* sessions differ in their selector and keep the limit.                    *)
ActiveSetIsLegal ==
  /\ \A s, t \in Active : s # t => /\ req[s].scope = "process" /\ req[t].scope = "process"
                                   /\ req[s].selector # req[t].selector
  /\ Cardinality(Active) <= Limit[req] \/ \E s \in Active : req[s].scope = "host"

(* A stop is carried through: after crashes of the agent and lost answers   *)
(* the session is in the end marked as stopped.                             *)
StopCompletes == \A s \in Sessions : desired[s] = "stopped" ~> s \in stamped
=============================================================================
