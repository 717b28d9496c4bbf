----------------------------- MODULE DropServer -----------------------------
(***************************************************************************)
(* drop_server: the in-memory task queue of the C++ scheduler              *)
(* (src/drop/server), the RPC handlers that change it, the snapshot it     *)
(* keeps on disk and its restart.                                          *)
(*                                                                         *)
(* Every handler works under tasks_mutex, so a handler is one action.  The *)
(* snapshot is two: its contents are taken under the mutex, the rename     *)
(* that makes them durable comes after the mutex is released.  The restore *)
(* at start-up handles one record per step; no RPC is served before it has *)
(* read the last one.                                                      *)
(*                                                                         *)
(* An attempt is identified by its key <<tid, attempt id>>.  The target    *)
(* agent, the priority (infer_priority of the task's resource budget) and  *)
(* the deadline belong to the task and never change, so they are constant  *)
(* functions of the tid.                                                   *)
(***************************************************************************)
EXTENDS Integers, Sequences

CONSTANTS
    IPs,            \* agents, by target IP
    Tids,           \* task ids
    AttemptIds,     \* ids of task_attempts rows, positive
    Target,         \* [Tids -> IPs]
    Priority,       \* [Tids -> Int]
    Deadline,       \* [Tids -> Nat], 0 for "no deadline"
    MaxQueue,       \* MAX_QUEUE_LENGTH_PER_AGENT
    MaxTime,        \* bound on the clock
    MaxRestarts     \* bound on the number of process restarts

ASSUME ConstantsAssumption ==
    /\ AttemptIds \subseteq Nat \ {0}
    /\ Target \in [Tids -> IPs]
    /\ Priority \in [Tids -> Int]
    /\ Deadline \in [Tids -> Nat]
    /\ MaxQueue \in Nat \ {0}
    /\ MaxTime \in Nat
    /\ MaxRestarts \in Nat

VARIABLES
    now,            \* wall clock
    phase,          \* of the process: "restoring", "serving", "draining" or "down"
    tasks,          \* tasks_: the queue of each agent
    completed,      \* completed_attempts_
    cancels,        \* pending_cancels_: per agent, the relayed cancellations
    tmpSnap,        \* the ".tmp" file: the set of its contents, {} for no file
    snapshot,       \* contents of the snapshot file
    unread,         \* while restoring: the records not yet read
    restarts,       \* number of restarts so far
    sent,           \* attempts the apiserver has sent: a new one for every send
    asked,          \* tasks the apiserver has asked to cancel: at most once each
    relayed,        \* history: the cancellations that were relayed to an agent
    dispatched      \* history: the attempts handed to an agent

serverVars == <<now, phase, tasks, completed, cancels, tmpSnap, snapshot,
                unread, restarts, sent, asked, relayed, dispatched>>

\* An attempt id of 0 in a cancel request stands for every attempt of the task.
Keys == Tids \X (AttemptIds \cup {0})
Attempts == Tids \X AttemptIds

Item == [key : Attempts, enqueued : Nat, canceled : BOOLEAN]

EmptyQueues == [ip \in IPs |-> <<>>]
NoCancels == [ip \in IPs |-> {}]

TypeOK ==
    /\ now \in 0..MaxTime
    /\ phase \in {"restoring", "serving", "draining", "down"}
    /\ tasks \in [IPs -> Seq(Item)]
    /\ completed \subseteq Keys
    /\ cancels \in [IPs -> SUBSET Keys]
    /\ tmpSnap \subseteq [IPs -> Seq(Item)]
    /\ snapshot \in [IPs -> Seq(Item)]
    /\ unread \in [IPs -> Seq(Item)]
    /\ restarts \in 0..MaxRestarts
    /\ sent \subseteq Attempts
    /\ asked \subseteq Tids
    /\ relayed \subseteq Keys
    /\ dispatched \subseteq Attempts

Init ==
    /\ now = 0
    /\ phase = "restoring"
    /\ tasks = EmptyQueues
    /\ completed = {}
    /\ cancels = NoCancels
    /\ tmpSnap = {}
    /\ snapshot = EmptyQueues
    /\ unread = EmptyQueues
    /\ restarts = 0
    /\ sent = {}
    /\ asked = {}
    /\ relayed = {}
    /\ dispatched = {}

-----------------------------------------------------------------------------
(* The queue operations of TaskQueue.cpp. *)

Expired(k) == Deadline[k[1]] > 0 /\ Deadline[k[1]] <= now

\* The comparison of the two stable_sort calls: priority from high to low,
\* then the earlier deadline (none counts as the latest), then first come.
Before(a, b) ==
    LET pa == Priority[a.key[1]]
        pb == Priority[b.key[1]]
        da == Deadline[a.key[1]]
        db == Deadline[b.key[1]]
    IN  \/ pa > pb
        \/ pa = pb /\ da # db /\ da # 0 /\ (db = 0 \/ da < db)
        \/ pa = pb /\ da = db /\ a.enqueued < b.enqueued

\* push_back of an item on a sorted queue followed by stable_sort: the item
\* goes in front of the first element it must precede.
Position(q, item) ==
    CHOOSE p \in 1..Len(q) + 1 :
        /\ \A i \in 1..p - 1 : ~Before(item, q[i])
        /\ p <= Len(q) => Before(item, q[p])

\* Mutant: the sort after push_back is missing.
InsertUnsorted(q, item) == Append(q, item)

InsertSorted(q, item) ==
    LET p == Position(q, item)
    IN  [i \in 1..Len(q) + 1 |->
            IF i < p THEN q[i] ELSE IF i = p THEN item ELSE q[i - 1]]

InQueue(q, k) == \E i \in DOMAIN q : q[i].key = k

\* enqueue_task_locked: what it answers, in the order of its early returns.
EnqueueAnswer(k) ==
    LET q == tasks[Target[k[1]]]
    IN  CASE Expired(k) -> "expired"
          [] ~Expired(k) /\ (k \in completed \/ InQueue(q, k)) -> "duplicate"
          [] ~Expired(k) /\ ~(k \in completed \/ InQueue(q, k))
                         /\ Len(q) >= MaxQueue -> "full"
          [] OTHER -> "queued"

Enqueued(k) ==
    IF EnqueueAnswer(k) = "queued"
    THEN [tasks EXCEPT ![Target[k[1]]] =
            InsertSorted(@, [key |-> k, enqueued |-> now, canceled |-> FALSE])]
    ELSE tasks

\* cancel_task_locked on one queue.
Matches(item, tid, att) == item.key[1] = tid /\ (att = 0 \/ item.key[2] = att)

MarkCanceled(q, tid, att) ==
    [i \in DOMAIN q |->
        IF Matches(q[i], tid, att) THEN [q[i] EXCEPT !.canceled = TRUE] ELSE q[i]]

\* pop_next_dispatchable_task_locked: items at the head that are canceled,
\* expired or completed are dropped.
Dispatchable(item, done) ==
    ~item.canceled /\ ~Expired(item.key) /\ item.key \notin done

FirstDispatchable(q, done) ==
    CHOOSE i \in 1..Len(q) + 1 :
        /\ \A j \in 1..i - 1 : ~Dispatchable(q[j], done)
        /\ i <= Len(q) => Dispatchable(q[i], done)

Popped(q, done) ==
    LET i == FirstDispatchable(q, done)
    IN  IF i <= Len(q) THEN {q[i].key} ELSE {}

\* Mutant: the task that is handed out stays at the head.
RestWithPopped(q, done) == SubSeq(q, FirstDispatchable(q, done), Len(q))

Rest(q, done) == SubSeq(q, FirstDispatchable(q, done) + 1, Len(q))

-----------------------------------------------------------------------------
(* The RPC handlers. *)

\* RPCs are accepted until Shutdown, also while the last snapshot is written.
Serving == phase \in {"serving", "draining"}

\* ControlService::CreateTask.  dispatchTask of the apiserver inserts a new
\* task_attempts row for every send, so no key is sent twice.
CreateTask(k) ==
    /\ Serving
    /\ k \notin sent
    /\ sent' = sent \cup {k}
    /\ tasks' = Enqueued(k)
    /\ UNCHANGED <<now, phase, completed, cancels, tmpSnap, snapshot, unread,
                   restarts, asked, relayed, dispatched>>

\* ControlService::CancelTask: a queued attempt is marked, one that is not in
\* the queue is relayed to the agent unless it is known to be over.  The
\* apiserver calls it after a transition to CANCELED that succeeds only once.
CancelTask(tid, att) ==
    LET ip == Target[tid]
        queuedCanceled == \E i \in DOMAIN tasks[ip] : Matches(tasks[ip][i], tid, att)
        alreadyTerminal == <<tid, att>> \in completed
    IN  /\ Serving
        /\ tid \notin asked
        /\ asked' = asked \cup {tid}
        /\ tasks' = [tasks EXCEPT ![ip] = MarkCanceled(@, tid, att)]
        /\ IF queuedCanceled \/ alreadyTerminal THEN UNCHANGED <<cancels, relayed>>
           ELSE /\ cancels' = [cancels EXCEPT ![ip] = @ \cup {<<tid, att>>}]
                /\ relayed' = relayed \cup {<<tid, att>>}
        /\ UNCHANGED <<now, phase, completed, tmpSnap, snapshot, unread,
                       restarts, sent, dispatched>>

\* mark_attempt_completed_locked for a set of attempts.
MarkCompleted(done) ==
    /\ completed' = completed \cup done
    /\ cancels' = [ip \in IPs |-> cancels[ip] \ done]

\* Mutant: a cancellation is sent once and forgotten.
HealthCheckForgetsCancels(ip, done) ==
    /\ Serving
    /\ completed' = completed \cup done
    /\ cancels' = [cancels EXCEPT ![ip] = {}]
    /\ dispatched' = dispatched \cup Popped(tasks[ip], completed')
    /\ tasks' = [tasks EXCEPT ![ip] = Rest(@, completed')]
    /\ UNCHANGED <<now, phase, tmpSnap, snapshot, unread, restarts, sent, asked,
                   relayed>>

\* Mutant: the next task is popped before the completed ones are noted.
HealthCheckPopsFirst(ip, done) ==
    /\ Serving
    /\ MarkCompleted(done)
    /\ dispatched' = dispatched \cup Popped(tasks[ip], completed)
    /\ tasks' = [tasks EXCEPT ![ip] = Rest(@, completed)]
    /\ UNCHANGED <<now, phase, tmpSnap, snapshot, unread, restarts, sent, asked,
                   relayed>>

\* HealthCheckService::Do for a heartbeat that reports done as completed: the
\* answer holds the attempts of Popped and, after it, the set cancels'[ip].
HealthCheckDo(ip, done) ==
    /\ Serving
    /\ MarkCompleted(done)
    /\ dispatched' = dispatched \cup Popped(tasks[ip], completed')
    /\ tasks' = [tasks EXCEPT ![ip] = Rest(@, completed')]
    /\ UNCHANGED <<now, phase, tmpSnap, snapshot, unread, restarts, sent, asked,
                   relayed>>

\* HotmethodService::NotifyResult (the call to the apiserver that follows the
\* locked section is part of the apiserver's specification).
NotifyResult(k) ==
    /\ Serving
    /\ MarkCompleted({k})
    /\ UNCHANGED <<now, phase, tasks, tmpSnap, snapshot, unread, restarts,
                   sent, asked, relayed, dispatched>>

-----------------------------------------------------------------------------
(* Snapshot, shutdown and restart. *)

\* snapshot_tasks_to_disk, up to the release of tasks_mutex.  Only the queue
\* is written: neither completed_attempts_ nor pending_cancels_.  (A snapshot
\* that no restart within the bound can read is left out.)
SnapshotWrite ==
    /\ phase = "serving"
    /\ restarts < MaxRestarts
    /\ tmpSnap = {}
    /\ tmpSnap' = {tasks}
    /\ UNCHANGED <<now, phase, tasks, completed, cancels, snapshot, unread,
                   restarts, sent, asked, relayed, dispatched>>

\* ... and its rename; it may fail, and then the old snapshot stays.
SnapshotRename ==
    /\ phase = "serving"
    /\ \E file \in tmpSnap : snapshot' \in {file, snapshot}
    /\ tmpSnap' = {}
    /\ UNCHANGED <<now, phase, tasks, completed, cancels, unread, restarts,
                   sent, asked, relayed, dispatched>>

\* The end of main: the threads are joined and the last snapshot is written
\* while the gRPC server still accepts calls (a rename that fails here leaves
\* what a Crash in its place leaves) ...
FinalSnapshot ==
    /\ phase = "serving"
    /\ restarts < MaxRestarts
    /\ tmpSnap = {}
    /\ phase' = "draining"
    /\ snapshot' = tasks
    /\ UNCHANGED <<now, tasks, completed, cancels, tmpSnap, unread, restarts,
                   sent, asked, relayed, dispatched>>

\* ... and server->Shutdown() and the exit come after it.
Shutdown ==
    /\ phase = "draining"
    /\ phase' = "down"
    /\ UNCHANGED <<now, tasks, completed, cancels, tmpSnap, snapshot, unread,
                   restarts, sent, asked, relayed, dispatched>>

Crash ==
    /\ phase \in {"restoring", "serving", "draining"}
    /\ restarts < MaxRestarts
    /\ phase' = "down"
    /\ UNCHANGED <<now, tasks, completed, cancels, tmpSnap, snapshot, unread,
                   restarts, sent, asked, relayed, dispatched>>

\* A new process: what was in memory is gone, and a leftover ".tmp" file is
\* truncated by the next snapshot.
Start ==
    /\ phase = "down"
    /\ restarts < MaxRestarts
    /\ restarts' = restarts + 1
    /\ phase' = "restoring"
    /\ tasks' = EmptyQueues
    /\ completed' = {}
    /\ cancels' = NoCancels
    /\ tmpSnap' = {}
    /\ unread' = snapshot
    /\ UNCHANGED <<now, snapshot, sent, asked, relayed, dispatched>>

\* Mutant: the canceled flag is not restored.
RestoredWithoutFlag(ip, item) ==
    IF \/ item.key \in completed
       \/ InQueue(tasks[ip], item.key)
       \/ Len(tasks[ip]) >= MaxQueue
    THEN tasks
    ELSE [tasks EXCEPT ![ip] = InsertSorted(@, [item EXCEPT !.canceled = FALSE])]

\* restore_tasks_from_disk, one record: the whole item is restored, with its
\* canceled flag and its time of arrival; a deadline is not looked at.
Restored(ip, item) ==
    IF \/ item.key \in completed
       \/ InQueue(tasks[ip], item.key)
       \/ Len(tasks[ip]) >= MaxQueue
    THEN tasks
    ELSE [tasks EXCEPT ![ip] = InsertSorted(@, item)]

RestoreRecord(ip) ==
    /\ phase = "restoring"
    /\ unread[ip] # <<>>
    /\ tasks' = Restored(ip, Head(unread[ip]))
    /\ unread' = [unread EXCEPT ![ip] = Tail(@)]
    /\ UNCHANGED <<now, phase, completed, cancels, tmpSnap, snapshot,
                   restarts, sent, asked, relayed, dispatched>>

\* BuildAndStart after the last record.
Serve ==
    /\ phase = "restoring"
    /\ unread = EmptyQueues
    /\ phase' = "serving"
    /\ UNCHANGED <<now, tasks, completed, cancels, tmpSnap, snapshot, unread,
                   restarts, sent, asked, relayed, dispatched>>

Tick ==
    /\ now < MaxTime
    /\ now' = now + 1
    /\ UNCHANGED <<phase, tasks, completed, cancels, tmpSnap, snapshot,
                   unread, restarts, sent, asked, relayed, dispatched>>

-----------------------------------------------------------------------------
\* An agent reports as completed what it was handed, or what it was asked to
\* cancel and does not have; again and again, also to a server that has been
\* restarted since.
Reportable(ip) == {k \in dispatched \cup relayed : Target[k[1]] = ip}

ServerStep ==
    \/ SnapshotWrite
    \/ SnapshotRename
    \/ FinalSnapshot
    \/ Shutdown
    \/ Crash
    \/ Start
    \/ \E ip \in IPs : RestoreRecord(ip)
    \/ Serve

Next ==
    \/ \E k \in Attempts : CreateTask(k)
    \/ \E k \in Keys : CancelTask(k[1], k[2])
    \/ \E ip \in IPs : \E done \in SUBSET Reportable(ip) : HealthCheckDo(ip, done)
    \/ \E k \in dispatched : NotifyResult(k)
    \/ ServerStep
    \/ Tick

Spec == Init /\ [][Next]_serverVars

-----------------------------------------------------------------------------
(* Properties. *)

\* No attempt is queued twice, a queue is never longer than its limit, and it
\* is ordered by priority, deadline and arrival: after every enqueue, cancel,
\* pop and restore.
QueueUnique ==
    \A ip \in IPs : \A i, j \in DOMAIN tasks[ip] :
        tasks[ip][i].key = tasks[ip][j].key => i = j

QueueBounded == \A ip \in IPs : Len(tasks[ip]) <= MaxQueue

QueueSorted ==
    \A ip \in IPs : \A i, j \in DOMAIN tasks[ip] :
        i < j => ~Before(tasks[ip][j], tasks[ip][i])

QueueWellFormed == QueueUnique /\ QueueBounded /\ QueueSorted

\* restore_tasks_from_disk: "a canceled task must not be dispatched again after
\* a restart".  Whatever is recorded as canceled on disk is canceled in memory
\* wherever it is still queued, whenever the process stopped and restarted.
CancelSurvivesRestart ==
    \A ip \in IPs : \A r \in DOMAIN snapshot[ip], i \in DOMAIN tasks[ip] :
        /\ snapshot[ip][r].key = tasks[ip][i].key
        /\ snapshot[ip][r].canceled
        => tasks[ip][i].canceled

\* Until the process is restarted, an attempt that was handed to its agent is
\* not queued again: a heartbeat never hands out an attempt twice.
DispatchedOnce ==
    restarts = 0 => \A k \in dispatched : ~InQueue(tasks[Target[k[1]]], k)

\* collect_cancel_attempts_locked and mark_attempt_completed_locked: a relayed
\* cancellation is dropped only when the agent has confirmed the end of the
\* attempt, or with the whole memory of the process.
CancelKeptUntilConfirmed ==
    [][\A ip \in IPs : \A k \in cancels[ip] :
            k \in cancels'[ip] \/ k \in completed' \/ restarts' # restarts]_serverVars
=============================================================================
