----------------------- MODULE TaskLifecycleProofs -----------------------
(***************************************************************************)
(* Proofs about TaskLifecycle, for any number of dispatchers, callback     *)
(* handlers and cancellations and any bounds: Inv is inductive, its parts  *)
(* are the invariants the runs check, and with it every step of the status *)
(* is a step of TaskStatus.                                                *)
(***************************************************************************)
EXTENDS TaskLifecycle, SequenceTheorems, TLAPS

-----------------------------------------------------------------------------
(* The transactions. *)

\* transitionTaskStatus moves a task from the status of the caller's copy to
\* the new one, with an event that says so, or changes nothing.
LEMMA TransitionStep ==
  ASSUME TaskType, TrailEndsInStatus,
         NEW seen \in Abstract!Statuses, NEW to \in Abstract!Statuses,
         Transition(seen, to)
  PROVE  /\ status' = status \/ (status = seen /\ status' = to)
         /\ window' \in Windows /\ analysisFailed' \in BOOLEAN => TaskType'
         /\ TrailEndsInStatus'
  <1>1. /\ status' \in Abstract!Statuses
        /\ status' = status \/ (status = seen /\ status' = to)
    BY DEF TaskType, Transition
  <1>2. events' \in Seq(Event)
    <2>1. <<seen, to>> \in Event
      BY DEF Event
    <2> QED
      BY <2>1, AppendProperties DEF TaskType, Transition
  <1>3. TrailEndsInStatus'
    <2>1. CASE status = seen
      BY <2>1 DEF TaskType, Transition, TrailEndsInStatus
    <2>2. CASE status # seen
      BY <2>2 DEF Transition, TrailEndsInStatus
    <2> QED
      BY <2>1, <2>2
  <1> QED
    BY <1>1, <1>2, <1>3 DEF TaskType

\* finishLatestTaskAttempt adds and removes no attempt.
LEMMA LatestClosedType ==
  ASSUME RowsType
  PROVE  /\ LatestClosed \in Seq({"open", "closed"})
         /\ Len(LatestClosed) = Len(attempts)
  <1>1. /\ DOMAIN attempts = 1..Len(attempts) /\ Len(attempts) \in Nat
        /\ \A a \in DOMAIN attempts : attempts[a] \in {"open", "closed"}
    BY DEF RowsType
  <1>2. LatestClosed \in [1..Len(attempts) -> {"open", "closed"}]
    BY <1>1 DEF LatestClosed
  <1> QED
    BY <1>1, <1>2

\* Neither does closing one of them.
LEMMA ClosedType ==
  ASSUME RowsType, NEW a \in 1..Len(attempts)
  PROVE  /\ [attempts EXCEPT ![a] = "closed"] \in Seq({"open", "closed"})
         /\ Len([attempts EXCEPT ![a] = "closed"]) = Len(attempts)
  BY DEF RowsType

\* The analysis queue only refers to attempts that exist, 0 meaning a task
\* without one.
LEMMA AnalysisQueuedType ==
  ASSUME RowsType, NEW att \in 0..Len(attempts)
  PROVE  AnalysisQueued(att) \subseteq 0..Len(attempts)
  <1> DEFINE resolved == IF att = 0 THEN Len(attempts) ELSE att
  <1>1. Len(attempts) \in 0..Len(attempts) /\ jobs \subseteq 0..Len(attempts)
    BY DEF RowsType
  <1>2. resolved \in 0..Len(attempts)
    BY <1>1
  <1>3. AnalysisQueued(att) \in {jobs, jobs \cup {resolved}}
    BY DEF AnalysisQueued
  <1> HIDE DEF resolved
  <1> QED
    BY <1>1, <1>2, <1>3

\* A callback advances the task only from RUNNING or UPLOADING, and its last
\* event says DONE.
LEMMA AdvanceEventsType ==
  ASSUME NEW seen \in Abstract!Statuses, NEW s \in Abstract!Statuses
  PROVE  /\ AdvanceEvents(seen, s) \in Seq(Event)
         /\ AdvanceEvents(seen, s) # <<>> =>
               /\ s \in {"RUNNING", "UPLOADING"}
               /\ Len(AdvanceEvents(seen, s)) > 0
               /\ AdvanceEvents(seen, s)[Len(AdvanceEvents(seen, s))][2] = "DONE"
  <1> USE DEF Abstract!Statuses, Event
  <1>1. CASE seen = "DONE"
    BY <1>1 DEF AdvanceEvents
  <1>2. CASE seen = "RUNNING" /\ s = "RUNNING"
    BY <1>2 DEF AdvanceEvents
  <1>3. CASE seen = "RUNNING" /\ s = "UPLOADING"
    BY <1>3 DEF AdvanceEvents
  <1>4. CASE seen \notin {"DONE", "RUNNING"} /\ s \in {"RUNNING", "UPLOADING"}
    <2>1. AdvanceEvents(seen, s) = <<<<seen, "DONE">>>>
      BY <1>4 DEF AdvanceEvents
    <2> QED
      BY <1>4, <2>1
  <1>5. CASE seen # "DONE" /\ s \notin {"RUNNING", "UPLOADING"}
    BY <1>5 DEF AdvanceEvents
  <1> QED
    BY <1>1, <1>2, <1>3, <1>4, <1>5

\* Events are appended: the trail ends with the last event of a transaction
\* that records one, and stays as it was otherwise.
LEMMA AppendedEvents ==
  ASSUME NEW s \in Seq(Event), NEW t \in Seq(Event)
  PROVE  /\ s \o t \in Seq(Event)
         /\ t = <<>> => s \o t = s
         /\ Len(t) > 0 => s \o t # <<>> /\ (s \o t)[Len(s \o t)] = t[Len(t)]
  <1>1. /\ s \o t \in Seq(Event)
        /\ Len(s \o t) = Len(s) + Len(t)
        /\ \A i \in 1..(Len(s) + Len(t)) :
              (s \o t)[i] = IF i <= Len(s) THEN s[i] ELSE t[i - Len(s)]
    BY ConcatProperties, Zenon
  <1>2. t = <<>> => s \o t = s
    BY ConcatEmptySeq
  <1>3. Len(s) \in Nat /\ Len(t) \in Nat
    BY LenProperties
  <1>4. ASSUME Len(t) > 0
        PROVE  s \o t # <<>> /\ (s \o t)[Len(s \o t)] = t[Len(t)]
    <2>1. s \o t # <<>>
      BY <1>1, <1>3, <1>4, EmptySeq
    <2>2. /\ Len(s) + Len(t) \in 1..(Len(s) + Len(t))
          /\ ~(Len(s) + Len(t) <= Len(s))
          /\ (Len(s) + Len(t)) - Len(s) = Len(t)
      BY <1>3, <1>4
    <2> QED
      BY <1>1, <2>1, <2>2
  <1> QED
    BY <1>1, <1>2, <1>4

\* A step of one dispatcher leaves the records of the others alone.
LEMMA GoStep ==
  ASSUME DispatcherType, NEW p \in Dispatchers, NEW pc \in DispatcherPc, Go(p, pc)
  PROVE  /\ DispatcherType'
         /\ disp'[p].pc = pc /\ disp'[p].tries = disp[p].tries /\ disp'[p].att = disp[p].att
         /\ \A q \in Dispatchers \ {p} : disp'[q] = disp[q]
  BY DEF DispatcherType, Go

\* Neither does the end of its round.
LEMMA FinishStep ==
  ASSUME DispatcherType, NEW p \in Dispatchers, Finish(p)
  PROVE  /\ DispatcherType'
         /\ disp'[p].pc = "idle" /\ disp'[p].tries = 0
         /\ \A q \in Dispatchers \ {p} : disp'[q] = disp[q]
  BY LifecycleAssumption DEF DispatcherType, Finish, DispatcherPc

-----------------------------------------------------------------------------
(* The inductive invariant. *)

\* A task and its outbox entry, just written by createTaskWithOutbox, satisfy
\* the invariant.
LEMMA InitInv == Init => Inv
  <1> SUFFICES ASSUME Init PROVE Inv
    OBVIOUS
  <1>1. TypeOK
    <2>1. TaskType
      <3>1. status \in Abstract!Statuses
        BY DEF Init, Abstract!Statuses
      <3>2. <<>> \in Seq(Event)
        BY EmptySeq
      <3> QED
        BY <3>1, <3>2 DEF Init, TaskType, Windows
    <2>2. RowsType
      BY LifecycleAssumption DEF Init, RowsType
    <2>3. DispatcherType
      BY LifecycleAssumption DEF Init, DispatcherType, DispatcherPc, IdleDispatchers
    <2>4. HandlerType
      BY DEF Init, HandlerType, IdleNotifiers, IdleCancelers, IdlePoller, Abstract!Statuses
    <2>5. RemoteType
      BY LifecycleAssumption DEF Init, RemoteType
    <2> QED
      BY <2>1, <2>2, <2>3, <2>4, <2>5 DEF TypeOK
  <1>2. RetriesLeft /\ DispatchersKnow
    BY LifecycleAssumption DEF Init, RetriesLeft, DispatchersKnow, IdleDispatchers
  <1>3. NotifiersKnow /\ CancelersKnow /\ PollerKnows
    BY DEF Init, NotifiersKnow, CancelersKnow, PollerKnows, IdleNotifiers, IdleCancelers,
           IdlePoller
  <1>4. TrailEndsInStatus /\ IntentKept /\ DoneMeansUploaded
    BY DEF Init, TrailEndsInStatus, IntentKept, DoneMeansUploaded, Claimable
  <1> QED
    BY <1>1, <1>2, <1>3, <1>4 DEF Inv

\* dispatchOutboxLoop and reconcileOrphanedTasks preserve the invariant.
LEMMA DispatchInv ==
  ASSUME Inv, NEW p \in Dispatchers, Dispatch(p)
  PROVE  Inv'
  <1> USE LifecycleAssumption DEF At
  <1>1. CASE ClaimOutbox(p)
    <2>1. DispatcherType'
      BY <1>1 DEF Inv, TypeOK, ClaimOutbox, DispatcherType, RowsType, DispatcherPc, db,
             remote
    <2>2. RetriesLeft'
      BY <1>1 DEF Inv, TypeOK, ClaimOutbox, RetriesLeft, Claimable, DispatcherType, db,
             remote
    <2>3. DispatchersKnow'
      BY <1>1 DEF Inv, TypeOK, ClaimOutbox, DispatchersKnow, DispatcherType, db, remote
    <2>4. TaskType' /\ RowsType' /\ HandlerType' /\ RemoteType'
      BY <1>1 DEF Inv, TypeOK, ClaimOutbox, TaskType, RowsType, HandlerType, RemoteType,
             db, remote
    <2>5. NotifiersKnow' /\ CancelersKnow' /\ PollerKnows' /\ TrailEndsInStatus' /\
           IntentKept' /\ DoneMeansUploaded'
      BY <1>1 DEF Inv, ClaimOutbox, NotifiersKnow, CancelersKnow, PollerKnows,
             TrailEndsInStatus, IntentKept, DoneMeansUploaded, Uploaded, Claimable, db,
             remote
    <2> QED
      BY <2>1, <2>2, <2>3, <2>4, <2>5 DEF Inv, TypeOK
  <1>2. CASE ReadTask(p)
    <2>1. /\ DispatcherType'
          /\ disp'[p].pc \in {"start", "publish", "idle"} /\ disp'[p].tries < MaxTries
          /\ disp'[p].pc = "publish" => status # "CREATED"
          /\ \A q \in Dispatchers \ {p} : disp'[q] = disp[q]
      BY <1>2, GoStep, FinishStep DEF Inv, TypeOK, ReadTask, RetriesLeft, DispatcherPc
    <2>2. RetriesLeft'
      BY <1>2, <2>1 DEF Inv, TypeOK, ReadTask, RetriesLeft, Claimable, db, remote
    <2>3. DispatchersKnow'
      BY <1>2, <2>1 DEF Inv, TypeOK, ReadTask, DispatchersKnow, db, remote
    <2>4. TaskType' /\ RowsType' /\ HandlerType' /\ RemoteType'
      BY <1>2 DEF Inv, TypeOK, ReadTask, TaskType, RowsType, HandlerType, RemoteType,
             db, remote
    <2>5. NotifiersKnow' /\ CancelersKnow' /\ PollerKnows' /\ TrailEndsInStatus' /\
           IntentKept' /\ DoneMeansUploaded'
      BY <1>2 DEF Inv, ReadTask, NotifiersKnow, CancelersKnow, PollerKnows,
             TrailEndsInStatus, IntentKept, DoneMeansUploaded, Uploaded, Claimable, db,
             remote
    <2> QED
      BY <2>1, <2>2, <2>3, <2>4, <2>5 DEF Inv, TypeOK
  <1>3. CASE NotConnected(p)
    <2>1. /\ DispatcherType'
          /\ disp'[p].pc \in {"failed", "idle"} /\ disp'[p].tries < MaxTries
          /\ \A q \in Dispatchers \ {p} : disp'[q] = disp[q]
      BY <1>3, GoStep, FinishStep DEF Inv, TypeOK, NotConnected, RetriesLeft,
             DispatcherPc
    <2>2. /\ TaskType' /\ TrailEndsInStatus'
          /\ status' = status \/ (status = "CREATED" /\ status' = "FAILED")
      BY <1>3, TransitionStep DEF Inv, TypeOK, NotConnected, Abstract!Statuses,
             TaskType, TrailEndsInStatus, remote
    <2>3. RowsType'
      BY <1>3 DEF Inv, TypeOK, NotConnected, RowsType, remote
    <2>4. RemoteType'
      BY <1>3 DEF Inv, TypeOK, NotConnected, RemoteType, RowsType, remote
    <2>5. RetriesLeft'
      BY <1>3, <2>1 DEF Inv, TypeOK, NotConnected, RetriesLeft, Claimable, remote
    <2>6. DispatchersKnow'
      BY <1>3, <2>1, <2>2 DEF Inv, TypeOK, NotConnected, DispatchersKnow, RowsType,
             remote
    <2>7. CancelersKnow'
      BY <1>3, <2>2 DEF Inv, TypeOK, NotConnected, CancelersKnow, remote
    <2>8. IntentKept' /\ DoneMeansUploaded'
      BY <1>3, <2>2 DEF Inv, TypeOK, NotConnected, IntentKept, Claimable,
             DoneMeansUploaded, Uploaded, remote
    <2>9. HandlerType'
      BY <1>3 DEF Inv, TypeOK, NotConnected, HandlerType, remote
    <2>10. NotifiersKnow' /\ PollerKnows'
      BY <1>3 DEF Inv, NotConnected, NotifiersKnow, PollerKnows, Uploaded, remote
    <2> QED
      BY <2>1, <2>2, <2>3, <2>4, <2>5, <2>6, <2>7, <2>8, <2>9, <2>10 DEF Inv, TypeOK
  <1>4. CASE StartTaskAttempt(p)
    <2>1. Len(attempts) + 1 \in Nat
      BY <1>4 DEF Inv, TypeOK, RowsType
    <2>2. RowsType'
      BY <1>4 DEF Inv, TypeOK, StartTaskAttempt, RowsType, remote
    <2>3. RemoteType'
      BY <1>4 DEF Inv, TypeOK, StartTaskAttempt, RemoteType, RowsType, remote
    <2>4. DispatcherType'
      BY <1>4, <2>1 DEF Inv, TypeOK, StartTaskAttempt, DispatcherType, DispatcherPc,
             remote
    <2>5. RetriesLeft'
      BY <1>4 DEF Inv, TypeOK, StartTaskAttempt, RetriesLeft, Claimable, DispatcherType,
             remote
    <2>6. DispatchersKnow'
      BY <1>4 DEF Inv, TypeOK, StartTaskAttempt, DispatchersKnow, RowsType,
             DispatcherType, remote
    <2>7. TaskType' /\ HandlerType'
      BY <1>4 DEF Inv, TypeOK, StartTaskAttempt, TaskType, HandlerType, remote
    <2>8. NotifiersKnow' /\ CancelersKnow' /\ PollerKnows' /\ TrailEndsInStatus' /\
           IntentKept' /\ DoneMeansUploaded'
      BY <1>4 DEF Inv, StartTaskAttempt, NotifiersKnow, CancelersKnow, PollerKnows,
             TrailEndsInStatus, IntentKept, DoneMeansUploaded, Uploaded, Claimable,
             remote
    <2> QED
      BY <2>1, <2>2, <2>3, <2>4, <2>5, <2>6, <2>7, <2>8 DEF Inv, TypeOK
  <1>5. CASE SendAccepted(p)
    <2>1. /\ DispatcherType'
          /\ disp'[p].pc = "sent" /\ disp'[p].tries < MaxTries
          /\ disp'[p].att = disp[p].att
          /\ \A q \in Dispatchers \ {p} : disp'[q] = disp[q]
      BY <1>5, GoStep, FinishStep DEF Inv, TypeOK, SendAccepted, RetriesLeft,
             DispatcherPc
    <2>2. RemoteType'
      BY <1>5 DEF Inv, TypeOK, SendAccepted, RemoteType, DispatchersKnow, db
    <2>3. RetriesLeft'
      BY <1>5, <2>1 DEF Inv, TypeOK, SendAccepted, RetriesLeft, Claimable, db
    <2>4. DispatchersKnow'
      BY <1>5, <2>1 DEF Inv, TypeOK, SendAccepted, DispatchersKnow, db
    <2>5. DoneMeansUploaded'
      BY <1>5 DEF Inv, TypeOK, SendAccepted, DoneMeansUploaded, Uploaded, db
    <2>6. TaskType' /\ RowsType' /\ HandlerType'
      BY <1>5 DEF Inv, TypeOK, SendAccepted, TaskType, RowsType, HandlerType, db
    <2>7. NotifiersKnow' /\ CancelersKnow' /\ PollerKnows' /\ TrailEndsInStatus' /\
           IntentKept'
      BY <1>5 DEF Inv, SendAccepted, NotifiersKnow, CancelersKnow, PollerKnows,
             TrailEndsInStatus, IntentKept, Uploaded, Claimable, db
    <2> QED
      BY <2>1, <2>2, <2>3, <2>4, <2>5, <2>6, <2>7 DEF Inv, TypeOK
  <1>6. CASE SendFailed(p)
    <2>1. /\ DispatcherType'
          /\ disp'[p].pc \in {"failed", "idle"} /\ disp'[p].tries < MaxTries
          /\ \A q \in Dispatchers \ {p} : disp'[q] = disp[q]
      BY <1>6, GoStep, FinishStep DEF Inv, TypeOK, SendFailed, RetriesLeft, DispatcherPc
    <2>2. /\ RowsType' /\ Len(attempts') = Len(attempts)
      BY <1>6, ClosedType DEF Inv, TypeOK, SendFailed, RowsType, DispatchersKnow
    <2>3. RemoteType'
      BY <1>6, <2>2 DEF Inv, TypeOK, SendFailed, RemoteType, DispatchersKnow, remote
    <2>4. RetriesLeft'
      BY <1>6, <2>1 DEF Inv, TypeOK, SendFailed, RetriesLeft, Claimable, remote
    <2>5. DispatchersKnow'
      BY <1>6, <2>1, <2>2 DEF Inv, TypeOK, SendFailed, DispatchersKnow, remote
    <2>6. DoneMeansUploaded'
      BY <1>6 DEF Inv, TypeOK, SendFailed, DoneMeansUploaded, Uploaded, remote
    <2>7. TaskType' /\ HandlerType'
      BY <1>6 DEF Inv, TypeOK, SendFailed, TaskType, HandlerType, remote
    <2>8. NotifiersKnow' /\ CancelersKnow' /\ PollerKnows' /\ TrailEndsInStatus' /\
           IntentKept'
      BY <1>6 DEF Inv, SendFailed, NotifiersKnow, CancelersKnow, PollerKnows,
             TrailEndsInStatus, IntentKept, Uploaded, Claimable, remote
    <2> QED
      BY <2>1, <2>2, <2>3, <2>4, <2>5, <2>6, <2>7, <2>8 DEF Inv, TypeOK
  <1>7. CASE MarkRunning(p)
    <2>1. /\ DispatcherType'
          /\ disp'[p].pc \in {"publish", "idle"} /\ disp'[p].tries < MaxTries
          /\ \A q \in Dispatchers \ {p} : disp'[q] = disp[q]
      BY <1>7, GoStep, FinishStep DEF Inv, TypeOK, MarkRunning, RetriesLeft,
             DispatcherPc
    <2>2. /\ TaskType' /\ TrailEndsInStatus'
          /\ status' = status \/ (status = "CREATED" /\ status' = "RUNNING")
      BY <1>7, TransitionStep DEF Inv, TypeOK, MarkRunning, Abstract!Statuses, TaskType,
             TrailEndsInStatus, remote, Windows
    <2>3. status' # "CREATED"
      BY <1>7, <2>2 DEF MarkRunning, Transition
    <2>4. RetriesLeft'
      BY <1>7, <2>1 DEF Inv, TypeOK, MarkRunning, RetriesLeft, Claimable, remote
    <2>5. DispatchersKnow'
      BY <1>7, <2>1, <2>3 DEF Inv, TypeOK, MarkRunning, DispatchersKnow, remote
    <2>6. CancelersKnow'
      BY <1>7, <2>3 DEF Inv, TypeOK, MarkRunning, CancelersKnow, remote
    <2>7. IntentKept'
      BY <1>7, <2>3 DEF Inv, TypeOK, MarkRunning, IntentKept, Claimable, remote
    <2>8. DoneMeansUploaded'
      BY <1>7, <2>2 DEF Inv, TypeOK, MarkRunning, DoneMeansUploaded, Uploaded,
             DispatchersKnow, remote
    <2>9. RowsType' /\ HandlerType' /\ RemoteType'
      BY <1>7 DEF Inv, TypeOK, MarkRunning, RowsType, HandlerType, RemoteType, remote
    <2>10. NotifiersKnow' /\ PollerKnows'
      BY <1>7 DEF Inv, MarkRunning, NotifiersKnow, PollerKnows, Uploaded, remote
    <2> QED
      BY <2>1, <2>2, <2>3, <2>4, <2>5, <2>6, <2>7, <2>8, <2>9, <2>10 DEF Inv, TypeOK
  <1>8. CASE MarkOutboxPublished(p)
    <2>1. /\ DispatcherType'
          /\ disp'[p].pc = "idle" /\ disp'[p].tries < MaxTries
          /\ \A q \in Dispatchers \ {p} : disp'[q] = disp[q]
      BY <1>8, GoStep, FinishStep DEF Inv, TypeOK, MarkOutboxPublished, RetriesLeft,
             DispatcherPc
    <2>2. RowsType'
      BY <1>8 DEF Inv, TypeOK, MarkOutboxPublished, RowsType, remote
    <2>3. RetriesLeft'
      BY <1>8, <2>1 DEF Inv, TypeOK, MarkOutboxPublished, RetriesLeft, Claimable,
             RowsType, remote
    <2>4. DispatchersKnow'
      BY <1>8, <2>1 DEF Inv, TypeOK, MarkOutboxPublished, DispatchersKnow, remote
    <2>5. IntentKept'
      BY <1>8 DEF Inv, TypeOK, MarkOutboxPublished, IntentKept, Claimable,
             DispatchersKnow, RowsType, remote
    <2>6. TaskType' /\ HandlerType' /\ RemoteType'
      BY <1>8 DEF Inv, TypeOK, MarkOutboxPublished, TaskType, HandlerType, RemoteType,
             remote
    <2>7. NotifiersKnow' /\ CancelersKnow' /\ PollerKnows' /\ TrailEndsInStatus' /\
           DoneMeansUploaded'
      BY <1>8 DEF Inv, MarkOutboxPublished, NotifiersKnow, CancelersKnow, PollerKnows,
             TrailEndsInStatus, DoneMeansUploaded, Uploaded, remote
    <2> QED
      BY <2>1, <2>2, <2>3, <2>4, <2>5, <2>6, <2>7 DEF Inv, TypeOK
  <1>9. CASE RetryOutbox(p)
    <2>1. /\ DispatcherType'
          /\ disp'[p].pc = "idle" /\ disp'[p].tries < MaxTries
          /\ \A q \in Dispatchers \ {p} : disp'[q] = disp[q]
      BY <1>9, GoStep, FinishStep DEF Inv, TypeOK, RetryOutbox, RetriesLeft,
             DispatcherPc
    <2>2. disp[p].tries + 1 \in 0..MaxTries
      BY <1>9 DEF Inv, TypeOK, RetryOutbox, DispatcherType, RetriesLeft
    <2>3. RowsType'
      BY <1>9, <2>2 DEF Inv, TypeOK, RetryOutbox, RowsType, remote
    <2>4. RetriesLeft'
      BY <1>9, <2>1 DEF Inv, TypeOK, RetryOutbox, RetriesLeft, Claimable, RowsType,
             DispatcherType, remote
    <2>5. DispatchersKnow'
      BY <1>9, <2>1 DEF Inv, TypeOK, RetryOutbox, DispatchersKnow, remote
    <2>6. IntentKept'
      BY <1>9 DEF Inv, TypeOK, RetryOutbox, IntentKept, Claimable, RowsType, remote
    <2>7. TaskType' /\ HandlerType' /\ RemoteType'
      BY <1>9 DEF Inv, TypeOK, RetryOutbox, TaskType, HandlerType, RemoteType, remote
    <2>8. NotifiersKnow' /\ CancelersKnow' /\ PollerKnows' /\ TrailEndsInStatus' /\
           DoneMeansUploaded'
      BY <1>9 DEF Inv, RetryOutbox, NotifiersKnow, CancelersKnow, PollerKnows,
             TrailEndsInStatus, DoneMeansUploaded, Uploaded, remote
    <2> QED
      BY <2>1, <2>2, <2>3, <2>4, <2>5, <2>6, <2>7, <2>8 DEF Inv, TypeOK
  <1>10. CASE FailOutbox(p)
    <2>1. /\ DispatcherType'
          /\ disp'[p].pc = "dead" /\ disp'[p].tries < MaxTries
          /\ \A q \in Dispatchers \ {p} : disp'[q] = disp[q]
      BY <1>10, GoStep, FinishStep DEF Inv, TypeOK, FailOutbox, RetriesLeft,
             DispatcherPc
    <2>2. /\ TaskType' /\ TrailEndsInStatus'
          /\ status' = status \/ (status = "CREATED" /\ status' = "FAILED")
      BY <1>10, TransitionStep DEF Inv, TypeOK, FailOutbox, Abstract!Statuses, TaskType,
             TrailEndsInStatus, remote
    <2>3. status' # "CREATED"
      BY <1>10, <2>2 DEF FailOutbox, Transition
    <2>4. /\ RowsType' /\ Len(attempts') = Len(attempts)
      BY <1>10, LatestClosedType DEF Inv, TypeOK, FailOutbox, RowsType
    <2>5. RemoteType'
      BY <1>10, <2>4 DEF Inv, TypeOK, FailOutbox, RemoteType, remote
    <2>6. RetriesLeft'
      BY <1>10, <2>1 DEF Inv, TypeOK, FailOutbox, RetriesLeft, Claimable, remote
    <2>7. DispatchersKnow'
      BY <1>10, <2>1, <2>3, <2>4 DEF Inv, TypeOK, FailOutbox, DispatchersKnow, remote
    <2>8. CancelersKnow'
      BY <1>10, <2>3 DEF Inv, TypeOK, FailOutbox, CancelersKnow, remote
    <2>9. IntentKept'
      BY <1>10, <2>3 DEF Inv, TypeOK, FailOutbox, IntentKept, Claimable, remote
    <2>10. DoneMeansUploaded'
      BY <1>10, <2>2 DEF Inv, TypeOK, FailOutbox, DoneMeansUploaded, Uploaded, remote
    <2>11. HandlerType'
      BY <1>10 DEF Inv, TypeOK, FailOutbox, HandlerType, remote
    <2>12. NotifiersKnow' /\ PollerKnows'
      BY <1>10 DEF Inv, FailOutbox, NotifiersKnow, PollerKnows, Uploaded, remote
    <2> QED
      BY <2>1, <2>2, <2>3, <2>4, <2>5, <2>6, <2>7, <2>8, <2>9, <2>10, <2>11, <2>12
         DEF Inv, TypeOK
  <1>11. CASE DeadLetter(p)
    <2>1. /\ DispatcherType'
          /\ disp'[p].pc = "idle" /\ disp'[p].tries < MaxTries
          /\ \A q \in Dispatchers \ {p} : disp'[q] = disp[q]
      BY <1>11, GoStep, FinishStep DEF Inv, TypeOK, DeadLetter, RetriesLeft,
             DispatcherPc
    <2>2. disp[p].tries + 1 \in 0..MaxTries
      BY <1>11 DEF Inv, TypeOK, DeadLetter, DispatcherType, RetriesLeft
    <2>3. RowsType'
      BY <1>11, <2>2 DEF Inv, TypeOK, DeadLetter, RowsType, remote
    <2>4. RetriesLeft'
      BY <1>11, <2>1 DEF Inv, TypeOK, DeadLetter, RetriesLeft, Claimable, RowsType,
             DispatcherType, remote
    <2>5. DispatchersKnow'
      BY <1>11, <2>1 DEF Inv, TypeOK, DeadLetter, DispatchersKnow, remote
    <2>6. IntentKept'
      BY <1>11 DEF Inv, TypeOK, DeadLetter, IntentKept, Claimable, RowsType,
             DispatchersKnow, remote
    <2>7. TaskType' /\ HandlerType' /\ RemoteType'
      BY <1>11 DEF Inv, TypeOK, DeadLetter, TaskType, HandlerType, RemoteType, remote
    <2>8. NotifiersKnow' /\ CancelersKnow' /\ PollerKnows' /\ TrailEndsInStatus' /\
           DoneMeansUploaded'
      BY <1>11 DEF Inv, DeadLetter, NotifiersKnow, CancelersKnow, PollerKnows,
             TrailEndsInStatus, DoneMeansUploaded, Uploaded, remote
    <2> QED
      BY <2>1, <2>2, <2>3, <2>4, <2>5, <2>6, <2>7, <2>8 DEF Inv, TypeOK
  <1> QED
    BY <1>1, <1>2, <1>3, <1>4, <1>5, <1>6, <1>7, <1>8, <1>9, <1>10, <1>11 DEF Dispatch

\* The end of an attempt, as far as the apiserver can see it.
LEMMA ExecuteInv ==
  ASSUME Inv, NEW a \in accepted, Execute(a)
  PROVE  Inv'
  <1>1. CASE Execute(a)
    <2>1. RemoteType'
      BY <1>1 DEF Inv, TypeOK, Execute, RemoteType, Outcomes, db
    <2>2. NotifiersKnow'
      BY <1>1 DEF Inv, TypeOK, Execute, NotifiersKnow, db
    <2>3. PollerKnows'
      BY <1>1 DEF Inv, TypeOK, Execute, PollerKnows, Uploaded, RemoteType, db
    <2>4. DoneMeansUploaded'
      BY <1>1 DEF Inv, TypeOK, Execute, DoneMeansUploaded, Uploaded, RemoteType, db
    <2>5. TaskType' /\ RowsType' /\ DispatcherType' /\ HandlerType'
      BY <1>1 DEF Inv, TypeOK, Execute, TaskType, RowsType, DispatcherType, HandlerType,
             db
    <2>6. RetriesLeft' /\ DispatchersKnow' /\ CancelersKnow' /\ TrailEndsInStatus' /\
           IntentKept'
      BY <1>1 DEF Inv, Execute, RetriesLeft, DispatchersKnow, CancelersKnow,
             TrailEndsInStatus, IntentKept, Claimable, db
    <2> QED
      BY <2>1, <2>2, <2>3, <2>4, <2>5, <2>6 DEF Inv, TypeOK
  <1> QED
    BY <1>1

\* NotifyTaskResult preserves the invariant: reading the task ...
LEMMA NotifyReadInv ==
  ASSUME Inv, NEW h \in Notifiers, NEW a \in DOMAIN outcome, NotifyRead(h, a)
  PROVE  Inv'
  <1>1. CASE NotifyRead(h, a)
    <2>1. a \in 1..Len(attempts)
      BY <1>1 DEF Inv, TypeOK, RemoteType
    <2>2. a \in Nat
      BY <1>1, <2>1 DEF Inv, TypeOK, RowsType
    <2>3. HandlerType'
      BY <1>1, <2>2 DEF Inv, TypeOK, NotifyRead, HandlerType, TaskType, db, remote
    <2>4. NotifiersKnow'
      BY <1>1 DEF Inv, TypeOK, NotifyRead, NotifiersKnow, HandlerType, db, remote
    <2>5. TaskType' /\ RowsType' /\ DispatcherType' /\ RemoteType'
      BY <1>1 DEF Inv, TypeOK, NotifyRead, TaskType, RowsType, DispatcherType,
             RemoteType, db, remote
    <2>6. RetriesLeft' /\ DispatchersKnow' /\ CancelersKnow' /\ PollerKnows' /\
           TrailEndsInStatus' /\ IntentKept' /\ DoneMeansUploaded'
      BY <1>1 DEF Inv, NotifyRead, RetriesLeft, DispatchersKnow, CancelersKnow,
             PollerKnows, TrailEndsInStatus, IntentKept, DoneMeansUploaded, Claimable,
             Uploaded, db, remote
    <2> QED
      BY <2>1, <2>2, <2>3, <2>4, <2>5, <2>6 DEF Inv, TypeOK
  <1> QED
    BY <1>1

\* ... and its transactions.
LEMMA NotifyInv ==
  ASSUME Inv, NEW h \in Notifiers, NotifyError(h) \/ NotifySuccess(h)
  PROVE  Inv'
  <1>1. CASE NotifyError(h)
    <2>1. /\ notifier[h].att \in DOMAIN outcome /\ notifier[h].att \in 1..Len(attempts)
          /\ notifier[h].seen \in Abstract!Statuses
      BY <1>1 DEF Inv, TypeOK, NotifyError, NotifiersKnow, RemoteType, HandlerType
    <2>2. /\ RowsType' /\ Len(attempts') = Len(attempts)
      BY <1>1, ClosedType, AnalysisQueuedType, <2>1 DEF Inv, TypeOK, NotifyError,
             RowsType
    <2>3. /\ TaskType' /\ TrailEndsInStatus'
          /\ status' = status \/ status' = "FAILED"
      BY <1>1, <2>1, TransitionStep DEF Inv, TypeOK, NotifyError, TaskType,
             TrailEndsInStatus, Abstract!Statuses
    <2>4. /\ HandlerType' /\ NotifiersKnow'
      BY <1>1 DEF Inv, TypeOK, NotifyError, HandlerType, NotifiersKnow, NotifyDone,
             IdleNotifiers, Abstract!Statuses, remote
    <2>5. RemoteType'
      BY <1>1, <2>2 DEF Inv, TypeOK, NotifyError, RemoteType, remote
    <2>6. DispatchersKnow'
      BY <1>1, <2>2, <2>3 DEF Inv, TypeOK, NotifyError, DispatchersKnow, remote
    <2>7. CancelersKnow'
      BY <1>1, <2>3 DEF Inv, TypeOK, NotifyError, CancelersKnow, remote
    <2>8. IntentKept' /\ DoneMeansUploaded'
      BY <1>1, <2>3 DEF Inv, TypeOK, NotifyError, IntentKept, Claimable,
             DoneMeansUploaded, Uploaded, remote
    <2>9. DispatcherType'
      BY <1>1 DEF Inv, TypeOK, NotifyError, DispatcherType, remote
    <2>10. RetriesLeft' /\ PollerKnows'
      BY <1>1 DEF Inv, NotifyError, RetriesLeft, PollerKnows, Claimable, Uploaded,
             remote
    <2> QED
      BY <2>1, <2>2, <2>3, <2>4, <2>5, <2>6, <2>7, <2>8, <2>9, <2>10 DEF Inv, TypeOK
  <1>2. CASE NotifySuccess(h)
    <2>1. /\ notifier[h].att \in DOMAIN outcome /\ notifier[h].att \in 1..Len(attempts)
          /\ notifier[h].seen \in Abstract!Statuses
      BY <1>2 DEF Inv, TypeOK, NotifySuccess, NotifiersKnow, RemoteType, HandlerType
    <2>2. /\ RowsType' /\ Len(attempts') = Len(attempts)
      <3>1. /\ jobs' = AnalysisQueued(notifier[h].att) /\ outbox' = outbox
            /\ attempts' = [attempts EXCEPT ![notifier[h].att] = "closed"]
        BY <1>2 DEF NotifySuccess
      <3>2. attempts' \in Seq({"open", "closed"}) /\ Len(attempts') = Len(attempts)
        BY <2>1, <3>1, ClosedType DEF Inv, TypeOK
      <3>3. notifier[h].att \in 0..Len(attempts)
        BY <2>1
      <3>4. jobs' \subseteq 0..Len(attempts)
        BY <3>1, <3>3, AnalysisQueuedType DEF Inv, TypeOK
      <3> QED
        BY <3>1, <3>2, <3>4 DEF Inv, TypeOK, RowsType
    <2>3. /\ AdvanceEvents(notifier[h].seen, status) \in Seq(Event)
          /\ AdvanceEvents(notifier[h].seen, status) # <<>> =>
                /\ status \in {"RUNNING", "UPLOADING"}
                /\ Len(AdvanceEvents(notifier[h].seen, status)) > 0
                /\ AdvanceEvents(notifier[h].seen, status)[Len(AdvanceEvents(notifier[h].seen, status))][2] = "DONE"
      BY <1>2, <2>1, AdvanceEventsType DEF Inv, TypeOK, TaskType
    <2>4. /\ events' \in Seq(Event)
          /\ AdvanceEvents(notifier[h].seen, status) = <<>> => events' = events
          /\ AdvanceEvents(notifier[h].seen, status) # <<>> => events' # <<>> /\ events'[Len(events')][2] = "DONE"
      <3> DEFINE advance == AdvanceEvents(notifier[h].seen, status)
      <3>1. events \in Seq(Event) /\ advance \in Seq(Event) /\ events' = events \o advance
        BY <1>2, <2>3 DEF Inv, TypeOK, TaskType, NotifySuccess
      <3>2. advance # <<>> => Len(advance) > 0 /\ advance[Len(advance)][2] = "DONE"
        BY <2>3
      <3> HIDE DEF advance
      <3>3. /\ events' \in Seq(Event)
            /\ advance = <<>> => events' = events
            /\ advance # <<>> => events' # <<>> /\ events'[Len(events')][2] = "DONE"
        BY <3>1, <3>2, AppendedEvents
      <3> QED
        BY <3>3 DEF advance
    <2>5. /\ TaskType' /\ TrailEndsInStatus'
          /\ \/ status' = status
             \/ status \in {"RUNNING", "UPLOADING"} /\ status' = "DONE"
      BY <1>2, <2>3, <2>4 DEF Inv, TypeOK, NotifySuccess, TaskType, TrailEndsInStatus,
             Abstract!Statuses
    <2>6. /\ HandlerType' /\ NotifiersKnow'
      BY <1>2 DEF Inv, TypeOK, NotifySuccess, HandlerType, NotifiersKnow, NotifyDone,
             IdleNotifiers, Abstract!Statuses, remote
    <2>7. Uploaded # {}
      BY <1>2, <2>1 DEF NotifySuccess, Uploaded
    <2>8. RemoteType'
      BY <1>2, <2>2 DEF Inv, TypeOK, NotifySuccess, RemoteType, remote
    <2>9. DispatchersKnow'
      BY <1>2, <2>2, <2>5 DEF Inv, TypeOK, NotifySuccess, DispatchersKnow, remote
    <2>10. CancelersKnow'
      BY <1>2, <2>5 DEF Inv, TypeOK, NotifySuccess, CancelersKnow, remote
    <2>11. IntentKept'
      BY <1>2, <2>5 DEF Inv, TypeOK, NotifySuccess, IntentKept, Claimable, remote
    <2>12. DoneMeansUploaded'
      BY <1>2, <2>5, <2>7 DEF Inv, TypeOK, NotifySuccess, DoneMeansUploaded, Uploaded,
             remote
    <2>13. DispatcherType'
      BY <1>2 DEF Inv, TypeOK, NotifySuccess, DispatcherType, remote
    <2>14. RetriesLeft' /\ PollerKnows'
      BY <1>2 DEF Inv, NotifySuccess, RetriesLeft, PollerKnows, Claimable, Uploaded,
             remote
    <2> QED
      BY <2>1, <2>2, <2>3, <2>4, <2>5, <2>6, <2>7, <2>8, <2>9, <2>10, <2>11, <2>12,
         <2>13, <2>14 DEF Inv, TypeOK
  <1> QED
    BY <1>1, <1>2

\* CancelTask preserves the invariant.
LEMMA CancelInv ==
  ASSUME Inv, NEW c \in Cancelers, Cancel(c)
  PROVE  Inv'
  <1>1. CASE CancelRead(c)
    <2>1. HandlerType'
      BY <1>1 DEF Inv, TypeOK, CancelRead, HandlerType, TaskType, db, remote
    <2>2. CancelersKnow'
      BY <1>1 DEF Inv, TypeOK, CancelRead, CancelersKnow, HandlerType, db, remote
    <2>3. TaskType' /\ RowsType' /\ DispatcherType' /\ RemoteType'
      BY <1>1 DEF Inv, TypeOK, CancelRead, TaskType, RowsType, DispatcherType,
             RemoteType, db, remote
    <2>4. RetriesLeft' /\ DispatchersKnow' /\ NotifiersKnow' /\ PollerKnows' /\
           TrailEndsInStatus' /\ IntentKept' /\ DoneMeansUploaded'
      BY <1>1 DEF Inv, CancelRead, RetriesLeft, DispatchersKnow, NotifiersKnow,
             PollerKnows, TrailEndsInStatus, IntentKept, DoneMeansUploaded, Claimable,
             Uploaded, db, remote
    <2> QED
      BY <2>1, <2>2, <2>3, <2>4 DEF Inv, TypeOK
  <1>2. CASE CancelTransition(c)
    <2>1. /\ canceler[c].seen \in Abstract!Statuses /\ canceler[c].seen \notin Terminal
      BY <1>2 DEF Inv, TypeOK, CancelTransition, HandlerType, CancelersKnow
    <2>2. /\ TaskType' /\ TrailEndsInStatus'
          /\ status' = status \/ status' = "CANCELED"
      BY <1>2, <2>1, TransitionStep DEF Inv, TypeOK, CancelTransition, TaskType,
             TrailEndsInStatus, Abstract!Statuses
    <2>3. status = canceler[c].seen => status' = "CANCELED"
      BY <1>2 DEF CancelTransition, Transition
    <2>4. HandlerType'
      BY <1>2 DEF Inv, TypeOK, CancelTransition, HandlerType, Canceling, remote
    <2>5. CancelersKnow'
      BY <1>2, <2>2, <2>3 DEF Inv, TypeOK, CancelTransition, CancelersKnow, Canceling,
             HandlerType, remote
    <2>6. DispatchersKnow'
      BY <1>2, <2>2 DEF Inv, TypeOK, CancelTransition, DispatchersKnow, remote
    <2>7. IntentKept' /\ DoneMeansUploaded'
      BY <1>2, <2>2 DEF Inv, TypeOK, CancelTransition, IntentKept, Claimable,
             DoneMeansUploaded, Uploaded, remote
    <2>8. RowsType' /\ DispatcherType' /\ RemoteType'
      BY <1>2 DEF Inv, TypeOK, CancelTransition, RowsType, DispatcherType, RemoteType,
             remote
    <2>9. RetriesLeft' /\ NotifiersKnow' /\ PollerKnows'
      BY <1>2 DEF Inv, CancelTransition, RetriesLeft, NotifiersKnow, PollerKnows,
             Claimable, Uploaded, remote
    <2> QED
      BY <2>1, <2>2, <2>3, <2>4, <2>5, <2>6, <2>7, <2>8, <2>9 DEF Inv, TypeOK
  <1>3. CASE CancelReread(c)
    <2>1. HandlerType'
      BY <1>3 DEF Inv, TypeOK, CancelReread, HandlerType, TaskType, db, remote
    <2>2. CancelersKnow'
      BY <1>3 DEF Inv, TypeOK, CancelReread, CancelersKnow, HandlerType, db, remote
    <2>3. TaskType' /\ RowsType' /\ DispatcherType' /\ RemoteType'
      BY <1>3 DEF Inv, TypeOK, CancelReread, TaskType, RowsType, DispatcherType,
             RemoteType, db, remote
    <2>4. RetriesLeft' /\ DispatchersKnow' /\ NotifiersKnow' /\ PollerKnows' /\
           TrailEndsInStatus' /\ IntentKept' /\ DoneMeansUploaded'
      BY <1>3 DEF Inv, CancelReread, RetriesLeft, DispatchersKnow, NotifiersKnow,
             PollerKnows, TrailEndsInStatus, IntentKept, DoneMeansUploaded, Claimable,
             Uploaded, db, remote
    <2> QED
      BY <2>1, <2>2, <2>3, <2>4 DEF Inv, TypeOK
  <1>4. CASE CancelClose(c)
    <2>1. /\ RowsType' /\ Len(attempts') = Len(attempts)
      BY <1>4, LatestClosedType DEF Inv, TypeOK, CancelClose, RowsType
    <2>2. HandlerType'
      BY <1>4 DEF Inv, TypeOK, CancelClose, HandlerType, Canceling, remote
    <2>3. CancelersKnow'
      BY <1>4 DEF Inv, TypeOK, CancelClose, CancelersKnow, HandlerType, Canceling,
             remote
    <2>4. RemoteType'
      BY <1>4, <2>1 DEF Inv, TypeOK, CancelClose, RemoteType, remote
    <2>5. DispatchersKnow'
      BY <1>4, <2>1 DEF Inv, TypeOK, CancelClose, DispatchersKnow, remote
    <2>6. TaskType' /\ DispatcherType'
      BY <1>4 DEF Inv, TypeOK, CancelClose, TaskType, DispatcherType, remote
    <2>7. RetriesLeft' /\ NotifiersKnow' /\ PollerKnows' /\ TrailEndsInStatus' /\
           IntentKept' /\ DoneMeansUploaded'
      BY <1>4 DEF Inv, CancelClose, RetriesLeft, NotifiersKnow, PollerKnows,
             TrailEndsInStatus, IntentKept, DoneMeansUploaded, Claimable, Uploaded,
             remote
    <2> QED
      BY <2>1, <2>2, <2>3, <2>4, <2>5, <2>6, <2>7 DEF Inv, TypeOK
  <1>5. CASE CancelOutbox(c)
    <2>1. RowsType'
      BY <1>5 DEF Inv, TypeOK, CancelOutbox, RowsType, remote
    <2>2. HandlerType'
      BY <1>5 DEF Inv, TypeOK, CancelOutbox, HandlerType, Canceling, remote
    <2>3. CancelersKnow'
      BY <1>5 DEF Inv, TypeOK, CancelOutbox, CancelersKnow, HandlerType, Canceling,
             remote
    <2>4. RetriesLeft'
      BY <1>5 DEF Inv, TypeOK, CancelOutbox, RetriesLeft, Claimable, RowsType, remote
    <2>5. IntentKept'
      BY <1>5 DEF Inv, TypeOK, CancelOutbox, IntentKept, Claimable, RowsType,
             CancelersKnow, remote
    <2>6. TaskType' /\ DispatcherType' /\ RemoteType'
      BY <1>5 DEF Inv, TypeOK, CancelOutbox, TaskType, DispatcherType, RemoteType,
             remote
    <2>7. DispatchersKnow' /\ NotifiersKnow' /\ PollerKnows' /\ TrailEndsInStatus' /\
           DoneMeansUploaded'
      BY <1>5 DEF Inv, CancelOutbox, DispatchersKnow, NotifiersKnow, PollerKnows,
             TrailEndsInStatus, DoneMeansUploaded, Uploaded, remote
    <2> QED
      BY <2>1, <2>2, <2>3, <2>4, <2>5, <2>6, <2>7 DEF Inv, TypeOK
  <1> QED
    BY <1>1, <1>2, <1>3, <1>4, <1>5 DEF Cancel

\* pollRunningTasks preserves the invariant.
LEMMA PollInv ==
  ASSUME Inv, Poll
  PROVE  Inv'
  <1>1. CASE PollRead
    <2>1. HandlerType'
      BY <1>1 DEF Inv, TypeOK, PollRead, HandlerType, TaskType, db, remote
    <2>2. PollerKnows'
      BY <1>1 DEF Inv, TypeOK, PollRead, PollerKnows, Uploaded, db, remote
    <2>3. TaskType' /\ RowsType' /\ DispatcherType' /\ RemoteType'
      BY <1>1 DEF Inv, TypeOK, PollRead, TaskType, RowsType, DispatcherType, RemoteType,
             db, remote
    <2>4. RetriesLeft' /\ DispatchersKnow' /\ NotifiersKnow' /\ CancelersKnow' /\
           TrailEndsInStatus' /\ IntentKept' /\ DoneMeansUploaded'
      BY <1>1 DEF Inv, PollRead, RetriesLeft, DispatchersKnow, NotifiersKnow,
             CancelersKnow, TrailEndsInStatus, IntentKept, DoneMeansUploaded, Claimable,
             Uploaded, db, remote
    <2> QED
      BY <2>1, <2>2, <2>3, <2>4 DEF Inv, TypeOK
  <1>2. CASE PollRunning
    <2>1. /\ TaskType' /\ TrailEndsInStatus'
          /\ status' = status \/ (status = "RUNNING" /\ status' = "UPLOADING")
      BY <1>2, TransitionStep DEF Inv, TypeOK, PollRunning, TaskType, TrailEndsInStatus,
             Abstract!Statuses
    <2>2. HandlerType'
      BY <1>2 DEF Inv, TypeOK, PollRunning, HandlerType, PollGo, IdlePoller,
             Abstract!Statuses, remote
    <2>3. DispatchersKnow'
      BY <1>2, <2>1 DEF Inv, TypeOK, PollRunning, DispatchersKnow, remote
    <2>4. CancelersKnow'
      BY <1>2, <2>1 DEF Inv, TypeOK, PollRunning, CancelersKnow, remote
    <2>5. PollerKnows'
      BY <1>2 DEF Inv, TypeOK, PollRunning, PollerKnows, Uploaded, PollGo, IdlePoller,
             Abstract!Statuses, remote
    <2>6. IntentKept' /\ DoneMeansUploaded'
      BY <1>2, <2>1 DEF Inv, TypeOK, PollRunning, IntentKept, Claimable,
             DoneMeansUploaded, Uploaded, remote
    <2>7. RowsType' /\ DispatcherType' /\ RemoteType'
      BY <1>2 DEF Inv, TypeOK, PollRunning, RowsType, DispatcherType, RemoteType, remote
    <2>8. RetriesLeft' /\ NotifiersKnow'
      BY <1>2 DEF Inv, PollRunning, RetriesLeft, NotifiersKnow, Claimable, remote
    <2> QED
      BY <2>1, <2>2, <2>3, <2>4, <2>5, <2>6, <2>7, <2>8 DEF Inv, TypeOK
  <1>3. CASE PollUploading
    <2>1. HandlerType'
      BY <1>3 DEF Inv, TypeOK, PollUploading, HandlerType, PollGo, IdlePoller,
             Abstract!Statuses, db, remote
    <2>2. PollerKnows'
      BY <1>3 DEF Inv, TypeOK, PollUploading, PollerKnows, Uploaded, PollGo, IdlePoller,
             Abstract!Statuses, RawVisible, HandlerType, db, remote
    <2>3. TaskType' /\ RowsType' /\ DispatcherType' /\ RemoteType'
      BY <1>3 DEF Inv, TypeOK, PollUploading, TaskType, RowsType, DispatcherType,
             RemoteType, db, remote
    <2>4. RetriesLeft' /\ DispatchersKnow' /\ NotifiersKnow' /\ CancelersKnow' /\
           TrailEndsInStatus' /\ IntentKept' /\ DoneMeansUploaded'
      BY <1>3 DEF Inv, PollUploading, RetriesLeft, DispatchersKnow, NotifiersKnow,
             CancelersKnow, TrailEndsInStatus, IntentKept, DoneMeansUploaded, Claimable,
             Uploaded, db, remote
    <2> QED
      BY <2>1, <2>2, <2>3, <2>4 DEF Inv, TypeOK
  <1>4. CASE PollDone
    <2>1. /\ TaskType' /\ TrailEndsInStatus'
          /\ status' = status \/ (status = "UPLOADING" /\ status' = "DONE")
      BY <1>4, TransitionStep DEF Inv, TypeOK, PollDone, TaskType, TrailEndsInStatus,
             Abstract!Statuses
    <2>2. HandlerType'
      BY <1>4 DEF Inv, TypeOK, PollDone, HandlerType, PollGo, IdlePoller,
             Abstract!Statuses, remote
    <2>3. DispatchersKnow'
      BY <1>4, <2>1 DEF Inv, TypeOK, PollDone, DispatchersKnow, remote
    <2>4. CancelersKnow'
      BY <1>4, <2>1 DEF Inv, TypeOK, PollDone, CancelersKnow, remote
    <2>5. PollerKnows'
      BY <1>4 DEF Inv, TypeOK, PollDone, PollerKnows, Uploaded, PollGo, IdlePoller,
             Abstract!Statuses, HandlerType, remote
    <2>6. IntentKept'
      BY <1>4, <2>1 DEF Inv, TypeOK, PollDone, IntentKept, Claimable, remote
    <2>7. DoneMeansUploaded'
      BY <1>4, <2>1 DEF Inv, TypeOK, PollDone, DoneMeansUploaded, Uploaded, PollerKnows,
             remote
    <2>8. RowsType' /\ DispatcherType' /\ RemoteType'
      BY <1>4 DEF Inv, TypeOK, PollDone, RowsType, DispatcherType, RemoteType, remote
    <2>9. RetriesLeft' /\ NotifiersKnow'
      BY <1>4 DEF Inv, PollDone, RetriesLeft, NotifiersKnow, Claimable, remote
    <2> QED
      BY <2>1, <2>2, <2>3, <2>4, <2>5, <2>6, <2>7, <2>8, <2>9 DEF Inv, TypeOK
  <1>5. CASE PollQueue
    <2>1. RowsType'
      BY <1>5, AnalysisQueuedType DEF Inv, TypeOK, PollQueue, RowsType
    <2>2. HandlerType'
      BY <1>5 DEF Inv, TypeOK, PollQueue, HandlerType, PollGo, IdlePoller,
             Abstract!Statuses, remote
    <2>3. PollerKnows'
      BY <1>5 DEF Inv, TypeOK, PollQueue, PollerKnows, Uploaded, PollGo, IdlePoller,
             Abstract!Statuses, remote
    <2>4. TaskType' /\ DispatcherType' /\ RemoteType'
      BY <1>5 DEF Inv, TypeOK, PollQueue, TaskType, DispatcherType, RemoteType, remote
    <2>5. RetriesLeft' /\ DispatchersKnow' /\ NotifiersKnow' /\ CancelersKnow' /\
           TrailEndsInStatus' /\ IntentKept' /\ DoneMeansUploaded'
      BY <1>5 DEF Inv, PollQueue, RetriesLeft, DispatchersKnow, NotifiersKnow,
             CancelersKnow, TrailEndsInStatus, IntentKept, DoneMeansUploaded, Claimable,
             Uploaded, remote
    <2> QED
      BY <2>1, <2>2, <2>3, <2>4, <2>5 DEF Inv, TypeOK
  <1>6. CASE PollFail
    <2>1. /\ TaskType' /\ TrailEndsInStatus'
          /\ status' = status \/ (status = "UPLOADING" /\ status' = "FAILED")
      BY <1>6, TransitionStep DEF Inv, TypeOK, PollFail, TaskType, TrailEndsInStatus,
             Abstract!Statuses
    <2>2. HandlerType'
      BY <1>6 DEF Inv, TypeOK, PollFail, HandlerType, PollGo, IdlePoller,
             Abstract!Statuses, remote
    <2>3. DispatchersKnow'
      BY <1>6, <2>1 DEF Inv, TypeOK, PollFail, DispatchersKnow, remote
    <2>4. CancelersKnow'
      BY <1>6, <2>1 DEF Inv, TypeOK, PollFail, CancelersKnow, remote
    <2>5. PollerKnows'
      BY <1>6 DEF Inv, TypeOK, PollFail, PollerKnows, Uploaded, PollGo, IdlePoller,
             Abstract!Statuses, remote
    <2>6. IntentKept' /\ DoneMeansUploaded'
      BY <1>6, <2>1 DEF Inv, TypeOK, PollFail, IntentKept, Claimable, DoneMeansUploaded,
             Uploaded, remote
    <2>7. RowsType' /\ DispatcherType' /\ RemoteType'
      BY <1>6 DEF Inv, TypeOK, PollFail, RowsType, DispatcherType, RemoteType, remote
    <2>8. RetriesLeft' /\ NotifiersKnow'
      BY <1>6 DEF Inv, PollFail, RetriesLeft, NotifiersKnow, Claimable, remote
    <2> QED
      BY <2>1, <2>2, <2>3, <2>4, <2>5, <2>6, <2>7, <2>8 DEF Inv, TypeOK
  <1> QED
    BY <1>1, <1>2, <1>3, <1>4, <1>5, <1>6 DEF Poll

\* The connection, the backfill, the clock and a restart preserve the invariant.
LEMMA OtherInv ==
  ASSUME Inv, Connect \/ Backfill \/ WindowEnds \/ Restart
  PROVE  Inv'
  <1> USE LifecycleAssumption
  <1>1. CASE Connect
    <2>1. HandlerType'
      BY <1>1 DEF Inv, TypeOK, Connect, HandlerType, db, remote
    <2>2. TaskType' /\ RowsType' /\ DispatcherType' /\ RemoteType'
      BY <1>1 DEF Inv, TypeOK, Connect, TaskType, RowsType, DispatcherType, RemoteType,
             db, remote
    <2>3. RetriesLeft' /\ DispatchersKnow' /\ NotifiersKnow' /\ CancelersKnow' /\
           PollerKnows' /\ TrailEndsInStatus' /\ IntentKept' /\ DoneMeansUploaded'
      BY <1>1 DEF Inv, Connect, RetriesLeft, DispatchersKnow, NotifiersKnow,
             CancelersKnow, PollerKnows, TrailEndsInStatus, IntentKept,
             DoneMeansUploaded, Claimable, Uploaded, db, remote
    <2> QED
      BY <2>1, <2>2, <2>3 DEF Inv, TypeOK
  <1>2. CASE Backfill
    <2>1. 0 \in 0..Len(attempts)
      BY <1>2 DEF Inv, TypeOK, RowsType
    <2>2. RowsType'
      BY <1>2, <2>1, AnalysisQueuedType DEF Inv, TypeOK, Backfill, RowsType
    <2>3. HandlerType'
      BY <1>2 DEF Inv, TypeOK, Backfill, HandlerType, remote
    <2>4. TaskType' /\ DispatcherType' /\ RemoteType'
      BY <1>2 DEF Inv, TypeOK, Backfill, TaskType, DispatcherType, RemoteType, remote
    <2>5. RetriesLeft' /\ DispatchersKnow' /\ NotifiersKnow' /\ CancelersKnow' /\
           PollerKnows' /\ TrailEndsInStatus' /\ IntentKept' /\ DoneMeansUploaded'
      BY <1>2 DEF Inv, Backfill, RetriesLeft, DispatchersKnow, NotifiersKnow,
             CancelersKnow, PollerKnows, TrailEndsInStatus, IntentKept,
             DoneMeansUploaded, Claimable, Uploaded, remote
    <2> QED
      BY <2>1, <2>2, <2>3, <2>4, <2>5 DEF Inv, TypeOK
  <1>3. CASE WindowEnds
    <2>1. TaskType'
      BY <1>3 DEF Inv, TypeOK, WindowEnds, TaskType, Windows, remote
    <2>2. RowsType' /\ DispatcherType' /\ HandlerType' /\ RemoteType'
      BY <1>3 DEF Inv, TypeOK, WindowEnds, RowsType, DispatcherType, HandlerType,
             RemoteType, remote
    <2>3. RetriesLeft' /\ DispatchersKnow' /\ NotifiersKnow' /\ CancelersKnow' /\
           PollerKnows' /\ TrailEndsInStatus' /\ IntentKept' /\ DoneMeansUploaded'
      BY <1>3 DEF Inv, WindowEnds, RetriesLeft, DispatchersKnow, NotifiersKnow,
             CancelersKnow, PollerKnows, TrailEndsInStatus, IntentKept,
             DoneMeansUploaded, Claimable, Uploaded, remote
    <2> QED
      BY <2>1, <2>2, <2>3 DEF Inv, TypeOK
  <1>4. CASE Restart
    <2> DEFINE stays == /\ disp' = IdleDispatchers /\ outbox' = outbox
                        /\ attempts' = attempts /\ accepted' = accepted
                        /\ outcome' = outcome /\ lost' = lost
                        /\ crashes < MaxCrashes /\ crashes' = crashes + 1
    <2>0. stays
      BY <1>4 DEF Restart, db, remote
    <2>1. DispatcherType'
      BY <2>0 DEF DispatcherType, IdleDispatchers, DispatcherPc
    <2>2. HandlerType'
      BY <1>4 DEF Inv, TypeOK, Restart, HandlerType, IdleNotifiers, IdleCancelers,
             IdlePoller, Abstract!Statuses, db, remote
    <2>3. RemoteType'
      BY <2>0 DEF Inv, TypeOK, RemoteType
    <2>4. RetriesLeft'
      BY <2>0 DEF Inv, RetriesLeft, Claimable, IdleDispatchers
    <2>5. DispatchersKnow'
      <3>1. \A p \in Dispatchers : disp'[p].pc \in {"claimed", "idle"}
        BY <2>0 DEF IdleDispatchers
      <3> QED
        BY <3>1 DEF DispatchersKnow
    <2>6. NotifiersKnow'
      BY <1>4 DEF Inv, TypeOK, Restart, NotifiersKnow, IdleNotifiers, db, remote
    <2>7. CancelersKnow'
      BY <1>4 DEF Inv, TypeOK, Restart, CancelersKnow, IdleCancelers, db, remote
    <2>8. PollerKnows'
      BY <1>4 DEF Inv, TypeOK, Restart, PollerKnows, Uploaded, IdlePoller, db, remote
    <2>9. TaskType' /\ RowsType'
      BY <1>4 DEF Inv, TypeOK, Restart, TaskType, RowsType, db, remote
    <2>10. TrailEndsInStatus' /\ IntentKept' /\ DoneMeansUploaded'
      BY <1>4 DEF Inv, Restart, TrailEndsInStatus, IntentKept, DoneMeansUploaded,
             Claimable, Uploaded, db, remote
    <2> QED
      BY <2>1, <2>2, <2>3, <2>4, <2>5, <2>6, <2>7, <2>8, <2>9, <2>10 DEF Inv, TypeOK
  <1> QED
    BY <1>1, <1>2, <1>3, <1>4

-----------------------------------------------------------------------------
(* The theorems. *)

\* Every step preserves the invariant.
LEMMA NextInv == Inv /\ [Next]_vars => Inv'
  <1> SUFFICES ASSUME Inv, [Next]_vars PROVE Inv'
    OBVIOUS
  <1>1. CASE UNCHANGED vars
    <2>1. TypeOK'
      BY <1>1 DEF Inv, TypeOK, TaskType, RowsType, DispatcherType, HandlerType, RemoteType,
                  vars, db, remote
    <2> QED
      BY <1>1, <2>1
         DEF Inv, RetriesLeft, DispatchersKnow, NotifiersKnow, CancelersKnow, PollerKnows,
             TrailEndsInStatus, IntentKept, DoneMeansUploaded, Claimable, Uploaded,
             vars, db, remote
  <1>2. CASE Next
    BY <1>2, DispatchInv, ExecuteInv, NotifyReadInv, NotifyInv, CancelInv, PollInv, OtherInv
       DEF Next, Notify
  <1> QED
    BY <1>1, <1>2

\* Inv holds in every state the apiserver, its database, the agents and any
\* number of handlers can reach.
THEOREM Invariance == Spec => []Inv
  BY InitInv, NextInv, PTL DEF Spec

\* The records of all processes and rows are well typed; in particular no
\* dispatcher retries an outbox entry more often than retryOrFailOutbox allows,
\* and every attempt a row, job or process refers to exists.
THEOREM TypeCorrect == Spec => []TypeOK
  BY Invariance, PTL DEF Inv

\* The audit trail written by transitionTaskStatus and NotifyTaskResult always
\* ends with the status of the task.
THEOREM TrailIsComplete == Spec => []TrailEndsInStatus
  BY Invariance, PTL DEF Inv

\* No interleaving of dispatchers, reconciler, cancellations, crashes and lost
\* answers gives up the outbox entry of a task that is still CREATED.
THEOREM IntentIsKept == Spec => []IntentKept
  BY Invariance, PTL DEF Inv

\* A task is DONE only with a raw object in the storage, and RUNNING only after
\* drop_server has accepted an attempt of it.
THEOREM DoneIsBacked == Spec => []DoneMeansUploaded
  BY Invariance, PTL DEF Inv

-----------------------------------------------------------------------------
(* Refinement: the status obeys TaskStatus. *)

\* Every step of the apiserver is a step of TaskStatus or leaves the status.
LEMMA StatusStep == Inv /\ [Next]_vars => [Abstract!Next]_status
  <1> SUFFICES ASSUME Inv, [Next]_vars, status' # status PROVE Abstract!Next
    OBVIOUS
  <1> USE DEF Abstract!Next, Abstract!Edges, Abstract!Statuses
  <1>1. ASSUME NEW p \in Dispatchers, Dispatch(p) PROVE Abstract!Next
    <2>1. Transition("CREATED", "FAILED") \/ Transition("CREATED", "RUNNING")
      BY <1>1 DEF Dispatch, ClaimOutbox, ReadTask, NotConnected, StartTaskAttempt,
                  SendAccepted, SendFailed, MarkRunning, MarkOutboxPublished, RetryOutbox,
                  FailOutbox, DeadLetter, db
    <2> QED
      BY <2>1 DEF Transition
  <1>2. ASSUME NEW h \in Notifiers, Notify(h) PROVE Abstract!Next
    <2>1. CASE NotifyError(h)
      <3>1. /\ notifier[h].seen \in Abstract!Statuses \ {"CANCELED", "FAILED"}
            /\ Transition(notifier[h].seen, "FAILED")
        BY <2>1 DEF NotifyError, Inv, TypeOK, HandlerType
      <3> QED
        BY <3>1 DEF Transition
    <2>2. CASE NotifySuccess(h)
      <3>1. status' = "DONE" /\ AdvanceEvents(notifier[h].seen, status) # <<>>
        BY <2>2 DEF NotifySuccess
      <3>2. status \in {"RUNNING", "UPLOADING"}
        BY <3>1, AdvanceEventsType DEF Inv, TypeOK, HandlerType, TaskType
      <3> QED
        BY <3>1, <3>2
    <2> QED
      BY <1>2, <2>1, <2>2 DEF Notify, NotifyRead, db
  <1>3. ASSUME NEW c \in Cancelers, Cancel(c) PROVE Abstract!Next
    <2>1. Transition(canceler[c].seen, "CANCELED") /\ canceler[c].pc = "read"
      BY <1>3 DEF Cancel, CancelRead, CancelTransition, CancelReread, CancelClose,
                  CancelOutbox, db
    <2>2. canceler[c].seen \in Abstract!Statuses \ Terminal
      BY <2>1 DEF Inv, TypeOK, HandlerType, CancelersKnow
    <2> QED
      BY <2>1, <2>2 DEF Transition, Terminal, Abstract!Terminal
  <1>4. CASE Poll
    <2>1. \/ Transition("RUNNING", "UPLOADING")
          \/ Transition("UPLOADING", "DONE")
          \/ Transition("UPLOADING", "FAILED")
      BY <1>4 DEF Poll, PollRead, PollRunning, PollUploading, PollDone, PollQueue,
                  PollFail, db
    <2> QED
      BY <2>1 DEF Transition
  <1>5. ~(\/ Connect \/ Backfill \/ WindowEnds \/ Restart \/ UNCHANGED vars
          \/ \E a \in accepted : Execute(a))
    BY DEF Connect, Backfill, WindowEnds, Restart, Execute, vars, db
  <1> QED
    BY <1>1, <1>2, <1>3, <1>4, <1>5 DEF Next

\* The apiserver implements TaskStatus: no late callback, poll, cancellation or
\* dispatch, in any number and order, moves a status along another edge or
\* leaves FAILED or CANCELED.
THEOREM StatusRefined == Spec => StatusPromise
  <1>1. Init => Abstract!Init
    BY DEF Init, Abstract!Init
  <1> QED
    BY <1>1, Invariance, StatusStep, PTL DEF Spec, StatusPromise, Abstract!Spec

=============================================================================
