--------------------------- MODULE TaskLifecycle ---------------------------
(***************************************************************************)
(* The life of one collection task in the apiserver (src/apiserver/server):*)
(* its row in hotmethod_tasks with the audit trail of its status, its      *)
(* outbox entry, its attempts and its initial analysis jobs, and everything*)
(* that works on them at the same time:                                    *)
(*   - the outbox dispatchers and, once per start, the reconciler;         *)
(*   - the HTTP handlers of result callbacks (NotifyTaskResult);           *)
(*   - the HTTP handlers of cancellations (CancelTask);                    *)
(*   - the poller of RUNNING and UPLOADING tasks and, once per start, the  *)
(*     backfill of the analysis queue.                                     *)
(*                                                                         *)
(* Each of them reads the task row, works on that copy and writes later: a *)
(* database transaction is one step, and what a process has read before is *)
(* in its own record.  Writes to a status are conditional updates          *)
(* (transitionTaskStatus) against the status of the copy.                  *)
(*                                                                         *)
(* drop_server and the agents are the set of accepted attempts and what    *)
(* became of each; callbacks may be lost, repeated and arbitrarily late.   *)
(***************************************************************************)
EXTENDS Integers, Sequences, FiniteSets

CONSTANTS
    Outboxes,       \* outbox dispatchers: one per apiserver process
    Reconciler,     \* the start-up reconciliation
    Notifiers,      \* concurrent handlers of task-notify
    Cancelers,      \* concurrent handlers of cancel
    MaxTries,       \* maxAttempts of retryOrFailOutbox (3)
    Generations,    \* SINGLE_SHOT_GENERATIONS_ENABLED
    LayoutV2,       \* SINGLE_SHOT_LAYOUT_V2_ENABLED / DROP_AGENT_LAYOUT_V2
    MaxEnds,        \* bound on attempts that end (the others keep running)
    MaxLost,        \* bound on CreateTask calls whose answer is lost
    MaxCrashes      \* bound on apiserver restarts

ASSUME LifecycleAssumption ==
    /\ Reconciler \notin Outboxes
    /\ MaxTries \in Nat \ {0}
    /\ Generations \in BOOLEAN
    /\ LayoutV2 \in BOOLEAN
    /\ MaxEnds \in Nat
    /\ MaxLost \in Nat
    /\ MaxCrashes \in Nat

VARIABLES
    status,         \* hotmethod_tasks.status
    events,         \* task_status_events: the transitions, in order
    window,         \* begin_time against the clock, see Windows
    analysisFailed, \* hotmethod_tasks.analysis_status = 3
    attempts,       \* task_attempts: is end_time still NULL
    jobs,           \* attempts that have an initial analysis job
    outbox,         \* the entry: published_at set, dead_letter, attempt count
    disp,           \* the outbox dispatchers and the reconciler
    notifier,       \* the task-notify handlers
    canceler,       \* the cancel handlers
    poller,         \* pollRunningTasks
    backfilled,     \* has the backfill of this start run
    grpc,           \* GrpcConnected()
    accepted,       \* external: attempts drop_server has accepted
    outcome,        \* external: how accepted attempts have ended
    lost, crashes   \* faults so far

db == <<status, events, window, analysisFailed, attempts, jobs, outbox>>
remote == <<accepted, outcome, lost>>
vars == <<db, disp, notifier, canceler, poller, backfilled, grpc, remote, crashes>>

Abstract == INSTANCE TaskStatus
Terminal == Abstract!Terminal

Dispatchers == Outboxes \cup {Reconciler}

\* begin_time is NULL; the collection window is open; it is over; the 30 s
\* that an upload may take are over as well.
Windows == {"unset", "open", "over", "overdue"}

Outcomes == {"ok", "error", "errorWithRaw"}

\* A status event: from where to where.
Event == Abstract!Statuses \X Abstract!Statuses

TaskType ==
    /\ status \in Abstract!Statuses
    /\ events \in Seq(Event)
    /\ window \in Windows
    /\ analysisFailed \in BOOLEAN

RowsType ==
    /\ attempts \in Seq({"open", "closed"})
    /\ jobs \subseteq 0..Len(attempts)
    /\ outbox \in [published : BOOLEAN, dead : BOOLEAN, tries : 0..MaxTries]

DispatcherPc == {"idle", "claimed", "start", "send", "sent", "failed", "dead", "publish"}

DispatcherType ==
    disp \in [Dispatchers -> [pc : DispatcherPc, tries : 0..MaxTries, att : Nat]]

HandlerType ==
    /\ notifier \in [Notifiers -> [pc : {"idle", "read"}, att : Nat, seen : Abstract!Statuses]]
    /\ canceler \in [Cancelers ->
                        [pc : {"idle", "read", "reread", "close", "outbox",
                               "canceled", "already_terminal"},
                         seen : Abstract!Statuses]]
    /\ poller \in [pc : {"idle", "read", "found", "missing", "queue"}, seen : Abstract!Statuses]
    /\ backfilled \in BOOLEAN
    /\ grpc \in BOOLEAN

RemoteType ==
    /\ accepted \subseteq 1..Len(attempts)
    /\ DOMAIN outcome \subseteq accepted
    /\ \A a \in DOMAIN outcome : outcome[a] \in Outcomes
    /\ lost \in 0..MaxLost
    /\ crashes \in 0..MaxCrashes

TypeOK == TaskType /\ RowsType /\ DispatcherType /\ HandlerType /\ RemoteType

\* A new process: nothing in memory, initGRPC and the reconciliation pending.
IdleDispatchers ==
    [p \in Dispatchers |->
        [pc |-> IF p = Reconciler THEN "claimed" ELSE "idle", tries |-> 0, att |-> 0]]
IdleNotifiers == [h \in Notifiers |-> [pc |-> "idle", att |-> 0, seen |-> "CREATED"]]
IdleCancelers == [c \in Cancelers |-> [pc |-> "idle", seen |-> "CREATED"]]
IdlePoller == [pc |-> "idle", seen |-> "CREATED"]

\* createTaskWithOutbox has written the task and its outbox entry.
Init ==
    /\ status = "CREATED"
    /\ events = <<>>
    /\ window = "unset"
    /\ analysisFailed = FALSE
    /\ attempts = <<>>
    /\ jobs = {}
    /\ outbox = [published |-> FALSE, dead |-> FALSE, tries |-> 0]
    /\ disp = IdleDispatchers
    /\ notifier = IdleNotifiers
    /\ canceler = IdleCancelers
    /\ poller = IdlePoller
    /\ backfilled = FALSE
    /\ grpc = FALSE
    /\ accepted = {}
    /\ outcome = <<>>
    /\ lost = 0
    /\ crashes = 0

-----------------------------------------------------------------------------
(* Transactions on the database. *)

\* transitionTaskStatus of a task whose copy has status seen: a conditional
\* update and its event, or nothing (ErrTaskStatusStale).
Transition(seen, to) ==
    IF status = seen
    THEN /\ status' = to
         /\ events' = Append(events, <<seen, to>>)
    ELSE UNCHANGED <<status, events>>

\* finishLatestTaskAttempt: the last attempt without an end_time.
LatestClosed ==
    LET open == {a \in DOMAIN attempts : attempts[a] = "open"}
    IN  [a \in DOMAIN attempts |->
            IF a \in open /\ \A b \in open : b <= a THEN "closed" ELSE attempts[a]]

\* ensureAnalysisQueuedTx for a raw object of attempt att, 0 for the latest.
\* With generations there is one initial job per attempt, without them one.
AnalysisQueued(att) ==
    LET resolved == IF att = 0 THEN Len(attempts) ELSE att
    IN  IF Generations \/ jobs = {} THEN jobs \cup {resolved} ELSE jobs

-----------------------------------------------------------------------------
(* Dispatch: dispatchOutboxLoop and reconcileOrphanedTasks. *)

\* initGRPC, in the background after every start.
Connect ==
    /\ ~grpc
    /\ grpc' = TRUE
    /\ UNCHANGED <<db, disp, notifier, canceler, poller, backfilled, remote, crashes>>

\* The condition of claimOutboxEntries.
Claimable == ~outbox.published /\ ~outbox.dead

At(p, pc) == disp[p].pc = pc
Go(p, pc) == disp' = [disp EXCEPT ![p].pc = pc]
Finish(p) == disp' = [disp EXCEPT ![p] = [pc |-> "idle", tries |-> 0, att |-> 0]]

\* claimOutboxEntries.  An entry another dispatcher is processing can be
\* claimed again: the row is only locked inside the claiming transaction.
ClaimOutbox(p) ==
    /\ p \in Outboxes
    /\ At(p, "idle")
    /\ Claimable
    /\ disp' = [disp EXCEPT ![p] = [pc |-> "claimed", tries |-> outbox.tries, att |-> 0]]
    /\ UNCHANGED <<db, notifier, canceler, poller, backfilled, grpc, remote, crashes>>

\* processOutboxEntry and reconcileOrphanedTasks read the task: only a CREATED
\* one is dispatched.  The reconciler skips tasks younger than 30 s.
ReadTask(p) ==
    /\ At(p, "claimed")
    /\ \/ status = "CREATED" /\ Go(p, "start")
       \/ p \in Outboxes /\ status # "CREATED" /\ Go(p, "publish")
       \/ p = Reconciler /\ Finish(p)
    /\ UNCHANGED <<db, notifier, canceler, poller, backfilled, grpc, remote, crashes>>

\* Without a connection the dispatcher records a failed attempt, and the
\* reconciler fails the task.
NotConnected(p) ==
    /\ At(p, "start")
    /\ ~grpc
    /\ IF p = Reconciler
       THEN /\ Transition("CREATED", "FAILED")
            /\ Finish(p)
            /\ UNCHANGED attempts
       ELSE /\ attempts' = Append(attempts, "closed")
            /\ Go(p, "failed")
            /\ UNCHANGED <<status, events>>
    /\ UNCHANGED <<window, analysisFailed, jobs, outbox, notifier, canceler,
                   poller, backfilled, grpc, remote, crashes>>

\* dispatchTask: startTaskAttempt ...
StartTaskAttempt(p) ==
    /\ At(p, "start")
    /\ grpc
    /\ attempts' = Append(attempts, "open")
    /\ disp' = [disp EXCEPT ![p].pc = "send", ![p].att = Len(attempts) + 1]
    /\ UNCHANGED <<status, events, window, analysisFailed, jobs, outbox, notifier,
                   canceler, poller, backfilled, grpc, remote, crashes>>

\* ... the CreateTask call, answered with code 0 ...
SendAccepted(p) ==
    /\ At(p, "send")
    /\ accepted' = accepted \cup {disp[p].att}
    /\ Go(p, "sent")
    /\ UNCHANGED <<db, notifier, canceler, poller, backfilled, grpc, outcome,
                   lost, crashes>>

\* Mutant: a call that was not delivered counts as done.
SendFailedPublishes(p) ==
    /\ At(p, "send")
    /\ attempts' = [attempts EXCEPT ![disp[p].att] = "closed"]
    /\ IF p = Reconciler THEN Finish(p) ELSE Go(p, "publish")
    /\ UNCHANGED <<status, events, window, analysisFailed, jobs, outbox, notifier,
                   canceler, poller, backfilled, grpc, remote, crashes>>

\* ... or failed: not delivered, refused, or accepted and the answer lost.
SendFailed(p) ==
    /\ At(p, "send")
    /\ \/ UNCHANGED <<accepted, lost>>
       \/ /\ lost < MaxLost
          /\ lost' = lost + 1
          /\ accepted' = accepted \cup {disp[p].att}
    /\ attempts' = [attempts EXCEPT ![disp[p].att] = "closed"]
    /\ IF p = Reconciler THEN Finish(p) ELSE Go(p, "failed")
    /\ UNCHANGED <<status, events, window, analysisFailed, jobs, outbox, notifier,
                   canceler, poller, backfilled, grpc, outcome, crashes>>

\* ... and the transition to RUNNING, which sets begin_time; a stale copy is
\* not an error.
MarkRunning(p) ==
    /\ At(p, "sent")
    /\ Transition("CREATED", "RUNNING")
    /\ window' = IF status = "CREATED" THEN "open" ELSE window
    /\ IF p = Reconciler THEN Finish(p) ELSE Go(p, "publish")
    /\ UNCHANGED <<analysisFailed, attempts, jobs, outbox, notifier, canceler,
                   poller, backfilled, grpc, remote, crashes>>

\* markOutboxPublished
MarkOutboxPublished(p) ==
    /\ At(p, "publish")
    /\ outbox' = [outbox EXCEPT !.published = TRUE, !.dead = FALSE]
    /\ Finish(p)
    /\ UNCHANGED <<status, events, window, analysisFailed, attempts, jobs, notifier,
                   canceler, poller, backfilled, grpc, remote, crashes>>

\* retryOrFailOutbox: try again later, from the count of the claimed copy ...
RetryOutbox(p) ==
    /\ At(p, "failed")
    /\ disp[p].tries + 1 < MaxTries
    /\ outbox' = [outbox EXCEPT !.dead = FALSE, !.tries = disp[p].tries + 1]
    /\ Finish(p)
    /\ UNCHANGED <<status, events, window, analysisFailed, attempts, jobs, notifier,
                   canceler, poller, backfilled, grpc, remote, crashes>>

\* ... or give up: close the attempt, fail the task ...
FailOutbox(p) ==
    /\ At(p, "failed")
    /\ disp[p].tries + 1 >= MaxTries
    /\ attempts' = LatestClosed
    /\ Transition("CREATED", "FAILED")
    /\ Go(p, "dead")
    /\ UNCHANGED <<window, analysisFailed, jobs, outbox, notifier, canceler, poller,
                   backfilled, grpc, remote, crashes>>

\* ... and retire the entry.
DeadLetter(p) ==
    /\ At(p, "dead")
    /\ outbox' = [outbox EXCEPT !.dead = TRUE, !.tries = disp[p].tries + 1]
    /\ Finish(p)
    /\ UNCHANGED <<status, events, window, analysisFailed, attempts, jobs, notifier,
                   canceler, poller, backfilled, grpc, remote, crashes>>

Dispatch(p) ==
    \/ ClaimOutbox(p) \/ ReadTask(p) \/ NotConnected(p) \/ StartTaskAttempt(p)
    \/ SendAccepted(p) \/ SendFailed(p) \/ MarkRunning(p) \/ MarkOutboxPublished(p)
    \/ RetryOutbox(p) \/ FailOutbox(p) \/ DeadLetter(p)

-----------------------------------------------------------------------------
(* drop_server and the agents, as the apiserver sees them. *)

\* An accepted attempt ends; what it has collected, and the part collected
\* before an error, is in the object storage from then on.
Execute(a) ==
    /\ a \in accepted \ DOMAIN outcome
    /\ Cardinality(DOMAIN outcome) < MaxEnds
    /\ \E o \in Outcomes :
          outcome' = [b \in DOMAIN outcome \cup {a} |-> IF b = a THEN o ELSE outcome[b]]
    /\ UNCHANGED <<db, disp, notifier, canceler, poller, backfilled, grpc, accepted,
                   lost, crashes>>

Uploaded == {a \in DOMAIN outcome : outcome[a] \in {"ok", "errorWithRaw"}}

-----------------------------------------------------------------------------
(* NotifyTaskResult: a callback of drop_server about attempt a, which may  *)
(* come more than once and at any time after the end of the attempt.       *)

NotifyRead(h, a) ==
    /\ notifier[h].pc = "idle"
    /\ a \in DOMAIN outcome
    /\ notifier' = [notifier EXCEPT ![h] = [pc |-> "read", att |-> a, seen |-> status]]
    /\ UNCHANGED <<db, disp, canceler, poller, backfilled, grpc, remote, crashes>>

NotifyDone(h) == notifier' = [notifier EXCEPT ![h] = IdleNotifiers[h]]

\* Mutant: a canceled task is failed by the error report of its attempt.
NotifyErrorAlways(h) ==
    /\ notifier[h].pc = "read"
    /\ outcome[notifier[h].att] # "ok"
    /\ attempts' = [attempts EXCEPT ![notifier[h].att] = "closed"]
    /\ Transition(notifier[h].seen, "FAILED")
    /\ analysisFailed' = (analysisFailed \/ status = notifier[h].seen)
    /\ NotifyDone(h)
    /\ UNCHANGED <<window, jobs, outbox, disp, canceler, poller, backfilled,
                   grpc, remote, crashes>>

\* A callback with an error message: finishTaskAttemptForNotify, and FAILED
\* unless the copy says CANCELED or FAILED.
NotifyError(h) ==
    LET seen == notifier[h].seen
    IN  /\ notifier[h].pc = "read"
        /\ outcome[notifier[h].att] # "ok"
        /\ attempts' = [attempts EXCEPT ![notifier[h].att] = "closed"]
        /\ IF seen \in {"CANCELED", "FAILED"}
           THEN /\ analysisFailed' = (analysisFailed \/ seen = "FAILED")
                /\ UNCHANGED <<status, events>>
           ELSE /\ Transition(seen, "FAILED")
                /\ analysisFailed' = (analysisFailed \/ status = seen)
        /\ NotifyDone(h)
        /\ UNCHANGED <<window, jobs, outbox, disp, canceler, poller, backfilled,
                       grpc, remote, crashes>>

\* Mutant: the second event of the transaction is forgotten.
AdvanceEventsOnce(seen, s) ==
    IF seen # "DONE" /\ s \in {"RUNNING", "UPLOADING"}
    THEN <<<<s, IF s = "RUNNING" THEN "UPLOADING" ELSE "DONE">>>> ELSE <<>>

\* The transaction of a callback without one: the events it records when it
\* finds the task in status s after the handler has read seen.
AdvanceEvents(seen, s) ==
    CASE seen = "DONE" -> <<>>
      [] seen = "RUNNING" /\ s = "RUNNING" -> <<<<"RUNNING", "UPLOADING">>,
                                                <<"UPLOADING", "DONE">>>>
      [] seen = "RUNNING" /\ s = "UPLOADING" -> <<<<"UPLOADING", "DONE">>>>
      [] seen \notin {"DONE", "RUNNING"} /\ s \in {"RUNNING", "UPLOADING"}
            -> <<<<seen, "DONE">>>>
      [] OTHER -> <<>>

\* Mutant: the error message of the callback is not looked at.
NotifySuccessAlways(h) ==
    LET advance == AdvanceEvents(notifier[h].seen, status)
    IN  /\ notifier[h].pc = "read"
        /\ status' = IF advance = <<>> THEN status ELSE "DONE"
        /\ events' = events \o advance
        /\ jobs' = AnalysisQueued(notifier[h].att)
        /\ attempts' = [attempts EXCEPT ![notifier[h].att] = "closed"]
        /\ NotifyDone(h)
        /\ UNCHANGED <<window, analysisFailed, outbox, disp, canceler, poller,
                       backfilled, grpc, remote, crashes>>

\* It advances the task if it can, and queues the analysis and finishes the
\* attempt in any case.
NotifySuccess(h) ==
    LET advance == AdvanceEvents(notifier[h].seen, status)
    IN  /\ notifier[h].pc = "read"
        /\ outcome[notifier[h].att] = "ok"
        /\ status' = IF advance = <<>> THEN status ELSE "DONE"
        /\ events' = events \o advance
        /\ jobs' = AnalysisQueued(notifier[h].att)
        /\ attempts' = [attempts EXCEPT ![notifier[h].att] = "closed"]
        /\ NotifyDone(h)
        /\ UNCHANGED <<window, analysisFailed, outbox, disp, canceler, poller,
                       backfilled, grpc, remote, crashes>>

-----------------------------------------------------------------------------
(* CancelTask *)

Canceling(c, pc) == canceler' = [canceler EXCEPT ![c].pc = pc]

CancelRead(c) ==
    /\ canceler[c].pc = "idle"
    /\ canceler' = [canceler EXCEPT
            ![c] = [pc |-> IF status \in Terminal THEN "already_terminal" ELSE "read",
                    seen |-> status]]
    /\ UNCHANGED <<db, disp, notifier, poller, backfilled, grpc, remote, crashes>>

CancelTransition(c) ==
    /\ canceler[c].pc = "read"
    /\ Transition(canceler[c].seen, "CANCELED")
    /\ Canceling(c, IF status = canceler[c].seen THEN "close" ELSE "reread")
    /\ UNCHANGED <<window, analysisFailed, attempts, jobs, outbox, disp, notifier,
                   poller, backfilled, grpc, remote, crashes>>

\* After ErrTaskStatusStale the answer is the latest status and
\* already_terminal, whatever that status is.
CancelReread(c) ==
    /\ canceler[c].pc = "reread"
    /\ canceler' = [canceler EXCEPT ![c] = [pc |-> "already_terminal", seen |-> status]]
    /\ UNCHANGED <<db, disp, notifier, poller, backfilled, grpc, remote, crashes>>

CancelClose(c) ==
    /\ canceler[c].pc = "close"
    /\ attempts' = LatestClosed
    /\ Canceling(c, "outbox")
    /\ UNCHANGED <<status, events, window, analysisFailed, jobs, outbox, disp, notifier,
                   poller, backfilled, grpc, remote, crashes>>

\* ... and the relay of the cancellation to drop_server (CancelTask of
\* DropServer) for the latest attempt, whose failure is only logged.
CancelOutbox(c) ==
    /\ canceler[c].pc = "outbox"
    /\ outbox' = IF outbox.published THEN outbox
                 ELSE [outbox EXCEPT !.published = TRUE, !.dead = FALSE]
    /\ Canceling(c, "canceled")
    /\ UNCHANGED <<status, events, window, analysisFailed, attempts, jobs, disp, notifier,
                   poller, backfilled, grpc, remote, crashes>>

Cancel(c) ==
    \/ CancelRead(c) \/ CancelTransition(c) \/ CancelReread(c) \/ CancelClose(c)
    \/ CancelOutbox(c)

-----------------------------------------------------------------------------
(* pollRunningTasks and backfillAnalysisQueueForCompletedTasks *)

\* Mutant: an attempt that drop_server has taken counts as uploaded.
RawAssumed == IF LayoutV2 THEN {} ELSE accepted

\* findRawCollectionArtifact lists the objects under "{tid}/", where the
\* agents put raw data in the old layout; in the new one its key starts with
\* "tasks/{tid}/".
RawVisible == IF LayoutV2 THEN {} ELSE Uploaded

PollGo(pc) == poller' = IF pc = "idle" THEN IdlePoller ELSE [poller EXCEPT !.pc = pc]

PollRead ==
    /\ poller.pc = "idle"
    /\ status \in {"RUNNING", "UPLOADING"}
    /\ window # "unset"
    /\ poller' = [pc |-> "read", seen |-> status]
    /\ UNCHANGED <<db, disp, notifier, canceler, backfilled, grpc, remote, crashes>>

PollRunning ==
    /\ poller.pc = "read"
    /\ poller.seen = "RUNNING"
    /\ IF window = "open" THEN UNCHANGED <<status, events>>
                          ELSE Transition("RUNNING", "UPLOADING")
    /\ PollGo("idle")
    /\ UNCHANGED <<window, analysisFailed, attempts, jobs, outbox, disp, notifier,
                   canceler, backfilled, grpc, remote, crashes>>

\* Mutant: there is no upload deadline.
PollUploadingWaits ==
    /\ poller.pc = "read"
    /\ poller.seen = "UPLOADING"
    /\ PollGo(IF RawVisible # {} THEN "found" ELSE "idle")
    /\ UNCHANGED <<db, disp, notifier, canceler, backfilled, grpc, remote, crashes>>

PollUploading ==
    /\ poller.pc = "read"
    /\ poller.seen = "UPLOADING"
    /\ PollGo(IF RawVisible # {} THEN "found"
              ELSE IF window = "overdue" THEN "missing" ELSE "idle")
    /\ UNCHANGED <<db, disp, notifier, canceler, backfilled, grpc, remote, crashes>>

PollDone ==
    /\ poller.pc = "found"
    /\ Transition("UPLOADING", "DONE")
    /\ PollGo("queue")
    /\ UNCHANGED <<window, analysisFailed, attempts, jobs, outbox, disp, notifier,
                   canceler, backfilled, grpc, remote, crashes>>

\* ensureAnalysisQueued, also when the transition was lost.
PollQueue ==
    /\ poller.pc = "queue"
    /\ jobs' = AnalysisQueued(0)
    /\ PollGo("idle")
    /\ UNCHANGED <<status, events, window, analysisFailed, attempts, outbox, disp,
                   notifier, canceler, backfilled, grpc, remote, crashes>>

PollFail ==
    /\ poller.pc = "missing"
    /\ Transition("UPLOADING", "FAILED")
    /\ analysisFailed' = (analysisFailed \/ status = "UPLOADING")
    /\ PollGo("idle")
    /\ UNCHANGED <<window, attempts, jobs, outbox, disp, notifier, canceler,
                   backfilled, grpc, remote, crashes>>

Poll == PollRead \/ PollRunning \/ PollUploading \/ PollDone \/ PollQueue \/ PollFail

\* Mutant: nothing is queued for tasks that were finished before the start.
BackfillNothing ==
    /\ ~backfilled
    /\ backfilled' = TRUE
    /\ UNCHANGED <<db, disp, notifier, canceler, poller, grpc, remote, crashes>>

\* Once after every start.  (The repair of tasks an older version has marked
\* DONE without an artifact is left out: no task is in that state.)
Backfill ==
    /\ ~backfilled
    /\ backfilled' = TRUE
    /\ jobs' = IF status = "DONE" /\ ~analysisFailed /\ RawVisible # {}
               THEN AnalysisQueued(0) ELSE jobs
    /\ UNCHANGED <<status, events, window, analysisFailed, attempts, outbox, disp,
                   notifier, canceler, poller, grpc, remote, crashes>>

-----------------------------------------------------------------------------
\* The clock: the collection window, then the upload buffer run out.
WindowEnds ==
    /\ window \in {"open", "over"}
    /\ window' = IF window = "open" THEN "over" ELSE "overdue"
    /\ UNCHANGED <<status, events, analysisFailed, attempts, jobs, outbox, disp,
                   notifier, canceler, poller, backfilled, grpc, remote, crashes>>

\* The apiserver stops, at any point, and starts again.
Restart ==
    /\ crashes < MaxCrashes
    /\ crashes' = crashes + 1
    /\ disp' = IdleDispatchers
    /\ notifier' = IdleNotifiers
    /\ canceler' = [c \in Cancelers |->
            IF canceler[c].pc \in {"canceled", "already_terminal"} THEN canceler[c]
            ELSE IdleCancelers[c]]
    /\ poller' = IdlePoller
    /\ backfilled' = FALSE
    /\ grpc' = FALSE
    /\ UNCHANGED <<db, remote>>

Notify(h) == (\E a \in DOMAIN outcome : NotifyRead(h, a)) \/ NotifyError(h) \/ NotifySuccess(h)

Next ==
    \/ Connect
    \/ \E p \in Dispatchers : Dispatch(p)
    \/ \E a \in accepted : Execute(a)
    \/ \E h \in Notifiers : Notify(h)
    \/ \E c \in Cancelers : Cancel(c)
    \/ Poll
    \/ Backfill
    \/ WindowEnds
    \/ Restart

Spec == Init /\ [][Next]_vars

\* The background loops of the apiserver and the clock go on; a handler that
\* has read its task finishes.  Nothing else is assumed: not a connection,
\* an execution, a callback or a cancellation.
Fairness ==
    /\ \A p \in Dispatchers : WF_vars(Dispatch(p))
    /\ \A h \in Notifiers : WF_vars(NotifyError(h) \/ NotifySuccess(h))
    /\ WF_vars(Poll)
    /\ WF_vars(Backfill)
    /\ WF_vars(WindowEnds)

FairSpec == Spec /\ Fairness

-----------------------------------------------------------------------------
(* Properties. *)

\* The status moves only along the edges of TaskStatus, whoever writes it from
\* whichever stale copy: a late callback, poll, cancellation or dispatch does
\* not bring a FAILED or CANCELED task back.
StatusPromise == Abstract!Spec

\* Every transition is recorded with it: the audit trail ends with the status
\* of the task.
TrailEndsInStatus ==
    status = IF events = <<>> THEN "CREATED" ELSE events[Len(events)][2]

\* The outbox entry is given up only when the task has moved on: no crash,
\* retry or race of two dispatchers leaves a task CREATED that nobody will
\* dispatch ("outbox" of task.go, against the orphans of server.go).
IntentKept == ~Claimable => status # "CREATED"

\* A task that is DONE has a raw object in the storage, and one that is shown
\* as RUNNING or later was accepted by drop_server.
DoneMeansUploaded ==
    /\ status = "DONE" => Uploaded # {}
    /\ status \in {"RUNNING", "UPLOADING", "DONE"} => accepted # {}

\* Whatever is lost on the way (connection, answers, callbacks, the process),
\* the task does not stay in a state that asks its owner to wait.
EventuallyTerminal == <>[](status \in Terminal)

\* A task that was collected is analysed: also when the poller or the process
\* stops between the transition to DONE and the analysis queue.
DoneIsQueued == status = "DONE" ~> (jobs # {} \/ status # "DONE")

-----------------------------------------------------------------------------
(* The inductive invariant: what a process knows from an earlier step and  *)
(* still holds at its next one, whatever the others did in between.        *)

RetriesLeft ==
    /\ Claimable => outbox.tries < MaxTries
    /\ \A p \in Dispatchers : disp[p].tries < MaxTries

DispatchersKnow ==
    \A p \in Dispatchers :
        /\ disp[p].pc \in {"send", "sent"} => disp[p].att \in 1..Len(attempts)
        /\ disp[p].pc = "sent" => disp[p].att \in accepted
        /\ disp[p].pc \in {"publish", "dead"} => status # "CREATED"

NotifiersKnow ==
    \A h \in Notifiers : notifier[h].pc = "read" => notifier[h].att \in DOMAIN outcome

CancelersKnow ==
    \A c \in Cancelers :
        /\ canceler[c].pc = "read" => canceler[c].seen \notin Terminal
        /\ canceler[c].pc \in {"close", "outbox"} => status # "CREATED"

PollerKnows == poller.pc = "found" => Uploaded # {}

Inv ==
    /\ TypeOK
    /\ RetriesLeft
    /\ DispatchersKnow
    /\ NotifiersKnow
    /\ CancelersKnow
    /\ PollerKnows
    /\ TrailEndsInStatus
    /\ IntentKept
    /\ DoneMeansUploaded

-----------------------------------------------------------------------------
(* What comments and documents say, and the code does not do. *)

\* CancelTask: a cancellation that finds the task changed since it was read
\* answers already_terminal, because "the task was already driven to a terminal
\* status by the notify callback, the outbox or the poller".
AnswerIsTrue ==
    \A c \in Cancelers : canceler[c].pc = "already_terminal" => canceler[c].seen \in Terminal

\* ResultNotifier.cpp: when the callback fails, "the poller of the apiserver
\* will still find" the raw object: it does not fail a task whose object is in
\* the storage.
PollerFindsRaw ==
    [][poller.pc = "read" /\ poller'.pc = "missing" => Uploaded = {}]_vars
=============================================================================
