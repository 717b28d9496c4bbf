---------------------- MODULE ContinuousSessionsProofs ----------------------
(***************************************************************************)
(* For any number of sessions, requests and faults: a stop is not undone   *)
(* by a report that was under way, and the wanted sessions fit together.   *)
(***************************************************************************)
EXTENDS ContinuousSessions, FiniteSetTheorems, TLAPS

OnSessions(f) == f = [s \in Sessions |-> f[s]]
Stop == {"stopping", "stopped"}

\* What the steps need to know of the shape of the state.
Shape ==
  /\ OnSessions(desired) /\ OnSessions(observed) /\ OnSessions(api)
  /\ txn = [on |-> txn.on, live |-> txn.live, report |-> txn.report, todo |-> txn.todo,
            seen |-> txn.seen, new |-> txn.new]
  /\ OnSessions(txn.report) /\ OnSessions(txn.new)
  /\ \A m \in inbox : m = [live |-> m.live, report |-> m.report] /\ OnSessions(m.report)

\* The reconciliation has read and written nothing when it does not run.
Rests == ~txn.on => txn.new = Nothing /\ txn.seen = "none"

\* What it has read of a stopped session, and what it has written, agrees with the stop.
ReadAgrees == \A s \in Sessions : txn.seen = s /\ desired[s] = "stopped" => txn.report[s] \in Stop
WriteAgrees ==
  \A s \in Sessions : txn.new[s] # "none" /\ desired[s] = "stopped" => txn.new[s] \in Stop

StopInv == Shape /\ Rests /\ ReadAgrees /\ WriteAgrees /\ StopIsNotUndone

LEMMA StopInit == Init => StopInv
BY SessionsAssumption
   DEF Init, StopInv, Shape, OnSessions, Rests, ReadAgrees, WriteAgrees, StopIsNotUndone, NoTxn,
       Nothing

\* Steps that leave the rows and the reconciliation alone.
LEMMA StopFrame ==
  ASSUME StopInv, UNCHANGED <<desired, observed, txn>>, OnSessions(api)',
         \A m \in inbox' : m = [live |-> m.live, report |-> m.report] /\ OnSessions(m.report)
  PROVE  StopInv'
BY DEF StopInv, Shape, OnSessions, Rests, ReadAgrees, WriteAgrees, StopIsNotUndone

LEMMA StopUser ==
  ASSUME StopInv, NEW s \in Sessions, UserStep(s)
  PROVE  StopInv'
<1> USE DEF StopInv, Shape, OnSessions
<1>1. CASE CreateRequest(s) \/ StopLock(s) \/ DeleteRequest(s)
  BY <1>1, StopFrame DEF CreateRequest, StopLock, DeleteRequest
<1>2. CASE \E fresh \in BOOLEAN : CreateCommit(s, fresh)
  BY <1>2 DEF CreateCommit, Rests, ReadAgrees, WriteAgrees, StopIsNotUndone
<1>3. CASE StopCommit(s)
  <2>1. /\ txn.new = Nothing /\ txn.seen = "none" /\ txn' = txn /\ inbox' = inbox
        /\ desired' = [desired EXCEPT ![s] = "stopped"]
        /\ observed' = [observed EXCEPT ![s] = "stopping"]
        /\ api' = [api EXCEPT ![s] = "idle"]
    BY <1>3 DEF StopCommit, Rests
  <2>2. Shape' /\ Rests'
    BY <2>1 DEF Rests
  <2>3. ReadAgrees' /\ WriteAgrees'
    BY <2>1, SessionsAssumption DEF ReadAgrees, WriteAgrees, Nothing
  <2>4. StopIsNotUndone'
    BY <2>1 DEF StopIsNotUndone
  <2> QED
    BY <2>2, <2>3, <2>4
<1>4. CASE DeleteRow(s)
  BY <1>4 DEF DeleteRow, Rests, ReadAgrees, WriteAgrees, StopIsNotUndone
<1> QED
  BY <1>1, <1>2, <1>3, <1>4 DEF UserStep

LEMMA StopReconcile ==
  ASSUME StopInv, ReconcileStep
  PROVE  StopInv'
<1> USE DEF StopInv, Shape, OnSessions
<1>1. CASE ReconcileBegin
  <2>1. PICK m \in inbox :
          /\ inbox' = inbox \ {m} /\ UNCHANGED <<desired, observed, api>>
          /\ txn' = [NoTxn EXCEPT !.on = TRUE, !.live = m.live, !.report = m.report,
                                  !.todo = {s \in Sessions : m.report[s] # "none"}]
    BY <1>1 DEF ReconcileBegin
  <2>2. /\ txn'.new = Nothing /\ txn'.seen = "none" /\ txn'.report = m.report /\ txn'.on
        /\ txn' = [on |-> txn'.on, live |-> txn'.live, report |-> txn'.report,
                   todo |-> txn'.todo, seen |-> txn'.seen, new |-> txn'.new]
    BY <2>1 DEF NoTxn
  <2>3. Shape'
    BY <2>1, <2>2 DEF Nothing
  <2>4. Rests' /\ ReadAgrees' /\ WriteAgrees' /\ StopIsNotUndone'
    BY <2>1, <2>2, SessionsAssumption DEF Rests, ReadAgrees, WriteAgrees, StopIsNotUndone, Nothing
  <2> QED
    BY <2>3, <2>4
<1>2. CASE ReconcileCommit
  BY <1>2, SessionsAssumption
     DEF ReconcileCommit, Rests, ReadAgrees, WriteAgrees, StopIsNotUndone, NoTxn, Nothing, Stop
<1>3. ASSUME NEW s \in Sessions, ReconcileRead(s)
      PROVE  StopInv'
  BY <1>3, SessionsAssumption
     DEF ReconcileRead, Rests, ReadAgrees, WriteAgrees, StopIsNotUndone, Stop
<1>4. ASSUME NEW s \in Sessions, ReconcileWrite(s) \/ DeadlockEndsStop(s)
      PROVE  StopInv'
  <2>1. /\ txn.on /\ txn.seen = s /\ UNCHANGED <<desired, observed, inbox>> /\ OnSessions(api)'
        /\ txn' = [txn EXCEPT !.seen = "none", !.todo = txn.todo \ {s}, !.new[s] = txn.report[s]]
    BY <1>4 DEF ReconcileWrite, DeadlockEndsStop
  <2>2. /\ txn'.on /\ txn'.seen = "none" /\ txn'.report = txn.report
        /\ txn'.new = [txn.new EXCEPT ![s] = txn.report[s]]
        /\ txn' = [on |-> txn'.on, live |-> txn'.live, report |-> txn'.report,
                   todo |-> txn'.todo, seen |-> txn'.seen, new |-> txn'.new]
    BY <2>1
  <2>3. Shape'
    BY <2>1, <2>2
  <2>4. Rests' /\ ReadAgrees' /\ StopIsNotUndone'
    BY <2>1, <2>2, SessionsAssumption DEF Rests, ReadAgrees, StopIsNotUndone
  <2>5. WriteAgrees'
    BY <2>1, <2>2 DEF ReadAgrees, WriteAgrees
  <2> QED
    BY <2>3, <2>4, <2>5
<1>5. ASSUME NEW s \in Sessions, DeadlockEndsReconcile(s)
      PROVE  StopInv'
  BY <1>5, SessionsAssumption
     DEF DeadlockEndsReconcile, Rests, ReadAgrees, WriteAgrees, StopIsNotUndone, NoTxn, Nothing
<1> QED
  BY <1>1, <1>2, <1>3, <1>4, <1>5 DEF ReconcileStep

LEMMA StopAgent ==
  ASSUME StopInv, AgentStep
  PROVE  StopInv'
<1> USE DEF StopInv, Shape, OnSessions
<1>1. ASSUME NEW absent, NEW drained, NEW ok, NEW send, AgentLoop(absent, ok, drained, send)
      PROVE  StopInv'
  <2> DEFINE a == Advance(Refresh(agent, absent, ok), spool \ drained)
  <2>1. /\ UNCHANGED <<desired, observed, txn, api>>
        /\ inbox' \subseteq inbox \cup {[live |-> TRUE, report |-> Report(a)]}
    BY <1>1 DEF AgentLoop
  <2> HIDE DEF a
  <2>2. OnSessions(Report(a))
    BY DEF Report
  <2>3. \A m \in inbox' : m = [live |-> m.live, report |-> m.report] /\ OnSessions(m.report)
    BY <2>1, <2>2
  <2> QED
    BY <2>1, <2>3, StopFrame
<1>2. ASSUME NEW absent, NEW ok, NEW cached, AgentApply(absent, ok, cached) \/ AgentStart(absent, ok)
      PROVE  StopInv'
  BY <1>2, StopFrame DEF AgentApply, AgentStart, server
<1>3. CASE AgentTimeout \/ AgentExit
  <2>1. Forget /\ UNCHANGED <<desired, observed, api>>
    BY <1>3 DEF AgentTimeout, AgentExit
  <2>2. /\ txn'.on = txn.on /\ txn'.seen = txn.seen /\ txn'.report = txn.report
        /\ txn'.new = txn.new
        /\ txn' = [on |-> txn'.on, live |-> txn'.live, report |-> txn'.report,
                   todo |-> txn'.todo, seen |-> txn'.seen, new |-> txn'.new]
    BY <2>1 DEF Forget
  <2>3. \A m \in inbox' : m = [live |-> m.live, report |-> m.report] /\ OnSessions(m.report)
    <3> SUFFICES ASSUME NEW m \in inbox'
                 PROVE  m = [live |-> m.live, report |-> m.report] /\ OnSessions(m.report)
      OBVIOUS
    <3>1. PICK sent \in inbox : m = [sent EXCEPT !.live = FALSE]
      BY <2>1 DEF Forget
    <3>2. sent = [live |-> sent.live, report |-> sent.report] /\ OnSessions(sent.report)
      OBVIOUS
    <3>3. m = [live |-> FALSE, report |-> sent.report]
      BY <3>1, <3>2
    <3> QED
      BY <3>2, <3>3
  <2>4. Shape'
    BY <2>1, <2>2, <2>3
  <2> QED
    BY <2>1, <2>2, <2>4 DEF Rests, ReadAgrees, WriteAgrees, StopIsNotUndone
<1>4. ASSUME NEW s \in Sessions, Sample(s) \/ Upload(s)
      PROVE  StopInv'
  BY <1>4, StopFrame DEF Sample, Upload, server
<1> QED
  BY <1>1, <1>2, <1>3, <1>4 DEF AgentStep

\* A stop that was answered is not undone by a report, however late
\* (StopContinuousSession and ReconcileContinuousSessions).
THEOREM StopStays == Spec => []StopIsNotUndone
<1>1. StopInv /\ [Next]_vars => StopInv'
  <2> SUFFICES ASSUME StopInv, [Next]_vars PROVE StopInv'
    OBVIOUS
  <2>1. CASE UNCHANGED vars
    BY <2>1, StopFrame DEF vars, server, StopInv, Shape, OnSessions
  <2> QED
    BY <2>1, StopUser, StopReconcile, StopAgent DEF Next
<1>2. StopInv => StopIsNotUndone
  BY DEF StopInv
<1> QED
  BY <1>1, <1>2, StopInit, PTL DEF Spec

---------------------------------------------------------------------------
(* The set of wanted sessions. *)

\* Only sessions a user asked for are created.
Asked == \A s \in Sessions : api[s] = "create" \/ desired[s] = "running" => s \in DOMAIN req

LegalInv == req \in Requests /\ OnSessions(desired) /\ OnSessions(api) /\ Asked /\ ActiveSetIsLegal

LEMMA ActiveFinite == IsFiniteSet(Active) /\ Cardinality(Active) \in Nat
<1>1. Active \subseteq Sessions
  BY DEF Active
<1>2. IsFiniteSet(Active)
  BY <1>1, SessionsAssumption, FS_Subset
<1> QED
  BY <1>2, FS_CardinalityType

LEMMA LegalInit == Init => LegalInv
<1> SUFFICES ASSUME Init PROVE LegalInv
  OBVIOUS
<1>1. Active = {}
  BY DEF Init, Active
<1>2. Cardinality(Active) = 0
  BY <1>1, FS_EmptySet
<1> QED
  BY <1>1, <1>2, RequestsAssumption DEF Init, LegalInv, OnSessions, Asked, ActiveSetIsLegal

\* Fewer wanted sessions fit together as well.
LEMMA LegalShrinks ==
  ASSUME LegalInv, req' = req, Active' \subseteq Active
  PROVE  ActiveSetIsLegal'
<1>1. Limit[req] \in Nat /\ req' = req
  BY RequestsAssumption DEF LegalInv
<1>2. \A s, t \in Active' : s # t => /\ req'[s].scope = "process" /\ req'[t].scope = "process"
                                      /\ req'[s].selector # req'[t].selector
  BY <1>1 DEF LegalInv, ActiveSetIsLegal
<1>3. Cardinality(Active') <= Cardinality(Active) /\ Cardinality(Active') \in Nat
  BY ActiveFinite, FS_Subset, FS_CardinalityType
<1>4. CASE Cardinality(Active) <= Limit[req]
  BY <1>1, <1>2, <1>3, <1>4, ActiveFinite DEF ActiveSetIsLegal
<1>5. CASE \E s \in Active : req[s].scope = "host"
  <2>1. PICK s \in Active : req[s].scope = "host"
    BY <1>5
  <2>2. Active = {s}
    BY <2>1 DEF LegalInv, ActiveSetIsLegal
  <2>3. CASE s \in Active'
    BY <1>1, <1>2, <2>1, <2>3 DEF ActiveSetIsLegal
  <2>4. CASE s \notin Active'
    <3>1. Active' = {}
      BY <2>2, <2>4
    <3>2. Cardinality(Active') = 0
      BY <3>1, FS_EmptySet
    <3> QED
      BY <1>1, <1>2, <3>2 DEF ActiveSetIsLegal
  <2> QED
    BY <2>3, <2>4
<1> QED
  BY <1>4, <1>5 DEF LegalInv, ActiveSetIsLegal

\* validateContinuousActiveSet admits one more.
LEMMA LegalGrows ==
  ASSUME LegalInv, req' = req, NEW s \in Sessions, s \in DOMAIN req, Admissible(s, Active),
         Active' = Active \cup {s}
  PROVE  ActiveSetIsLegal'
<1>1. Limit[req] \in Nat /\ req' = req /\ req[s].scope \in {"host", "process"}
  BY RequestsAssumption DEF LegalInv
<1>2. CASE req[s].scope = "host"
  <2>1. Active' = {s}
    BY <1>2 DEF Admissible
  <2> QED
    BY <1>1, <1>2, <2>1 DEF ActiveSetIsLegal
<1>3. CASE req[s].scope = "process"
  <2>1. /\ \A t \in Active : req[t].scope # "host" /\ req[t].selector # req[s].selector
        /\ Cardinality(Active) < Limit[req]
    BY <1>3 DEF Admissible
  <2>2. \A t \in Active : req[t].scope = "process"
    BY <2>1, RequestsAssumption DEF LegalInv, Asked, Active
  <2>3. Cardinality(Active') <= Cardinality(Active) + 1
    BY ActiveFinite, FS_AddElement
  <2>4. Cardinality(Active') \in Nat
    <3>1. IsFiniteSet(Active')
      BY ActiveFinite, FS_AddElement
    <3> QED
      BY <3>1, FS_CardinalityType
  <2>5. Cardinality(Active') <= Limit[req]
    BY <1>1, <2>1, <2>3, <2>4, ActiveFinite
  <2>6. \A t, u \in Active' : t # u => /\ req[t].scope = "process" /\ req[u].scope = "process"
                                        /\ req[t].selector # req[u].selector
    BY <1>3, <2>1, <2>2 DEF LegalInv, ActiveSetIsLegal
  <2> QED
    BY <1>1, <2>5, <2>6 DEF ActiveSetIsLegal
<1> QED
  BY <1>1, <1>2, <1>3

LEMMA LegalFrame ==
  ASSUME LegalInv, UNCHANGED <<req, desired>>, OnSessions(api)',
         \A s \in Sessions : api'[s] = "create" => api[s] = "create" \/ s \in DOMAIN req
  PROVE  LegalInv'
<1>1. Active' = Active
  BY DEF Active
<1> QED
  BY <1>1, LegalShrinks DEF LegalInv, OnSessions, Asked

LEMMA LegalUser ==
  ASSUME LegalInv, NEW s \in Sessions, UserStep(s)
  PROVE  LegalInv'
<1> USE DEF OnSessions
<1>1. CASE CreateRequest(s) \/ StopLock(s) \/ DeleteRequest(s)
  BY <1>1, LegalFrame DEF CreateRequest, StopLock, DeleteRequest, LegalInv
<1>2. ASSUME NEW fresh \in BOOLEAN, CreateCommit(s, fresh)
      PROVE  LegalInv'
  <2>1. CASE fresh /\ Admissible(s, Active)
    <3>1. /\ desired' = [desired EXCEPT ![s] = "running"] /\ req' = req
          /\ api' = [api EXCEPT ![s] = "idle"] /\ s \in DOMAIN req
      BY <1>2, <2>1 DEF CreateCommit, LegalInv, Asked
    <3>2. Active' = Active \cup {s}
      BY <3>1 DEF Active, LegalInv
    <3>3. ActiveSetIsLegal'
      BY <2>1, <3>1, <3>2, LegalGrows
    <3> QED
      BY <3>1, <3>3 DEF LegalInv, Asked
  <2>2. CASE ~(fresh /\ Admissible(s, Active))
    BY <1>2, <2>2, LegalFrame DEF CreateCommit, LegalInv
  <2> QED
    BY <2>1, <2>2
<1>3. CASE StopCommit(s) \/ DeleteRow(s)
  <2>1. /\ req' = req /\ api' = [api EXCEPT ![s] = "idle"]
        /\ \E d \in {"stopped", "gone"} : desired' = [desired EXCEPT ![s] = d]
    BY <1>3 DEF StopCommit, DeleteRow
  <2>2. Active' \subseteq Active
    BY <2>1 DEF Active, LegalInv
  <2>3. ActiveSetIsLegal'
    BY <2>1, <2>2, LegalShrinks
  <2> QED
    BY <2>1, <2>3 DEF LegalInv, Asked
<1> QED
  BY <1>1, <1>2, <1>3 DEF UserStep

\* The reconciliation and the agent create nothing; a deadlock ends a stop.
LEMMA LegalOthers ==
  ASSUME LegalInv, ReconcileStep \/ AgentStep
  PROVE  LegalInv'
<1> USE DEF OnSessions
<1>1. CASE ReconcileStep
  <2>1. /\ UNCHANGED <<req, desired>>
        /\ api' = api \/ \E s \in Sessions : api' = [api EXCEPT ![s] = "idle"]
    BY <1>1 DEF ReconcileStep, ReconcileBegin, ReconcileCommit, ReconcileRead, ReconcileWrite,
                DeadlockEndsStop, DeadlockEndsReconcile
  <2> QED
    BY <2>1, LegalFrame DEF LegalInv
<1>2. CASE AgentStep
  <2>1. UNCHANGED <<req, desired, api>>
    BY <1>2 DEF AgentStep, AgentLoop, AgentApply, AgentStart, AgentTimeout, AgentExit, Sample,
                Upload, server
  <2> QED
    BY <2>1, LegalFrame DEF LegalInv
<1> QED
  BY <1>1, <1>2

\* The wanted sessions of a host fit together however creations, stops and deletions
\* interleave (validateContinuousActiveSet in createContinuousSession's transaction).
THEOREM ActiveSetStaysLegal == Spec => []ActiveSetIsLegal
<1>1. LegalInv /\ [Next]_vars => LegalInv'
  <2> SUFFICES ASSUME LegalInv, [Next]_vars PROVE LegalInv'
    OBVIOUS
  <2>1. CASE UNCHANGED vars
    BY <2>1, LegalFrame DEF vars, server, LegalInv, OnSessions
  <2> QED
    BY <2>1, LegalUser, LegalOthers DEF Next
<1>2. LegalInv => ActiveSetIsLegal
  BY DEF LegalInv
<1> QED
  BY <1>1, <1>2, LegalInit, PTL DEF Spec
=============================================================================
