------------------------------ MODULE DropAgent ------------------------------
(***************************************************************************)
(* One drop_agent process (src/drop/agent): the heartbeat thread, the      *)
(* worker thread and the upload worker, which share the task queue, the    *)
(* upload queue and the AttemptTracker.                                    *)
(*                                                                         *)
(* The two RPCs the agent makes are open here: the heartbeat thread sends  *)
(* a request and takes a reply or a failure, the upload worker sends a     *)
(* result and takes an acknowledgement or a failure.  The composition with *)
(* drop_server says what a reply holds.                                    *)
(***************************************************************************)
EXTENDS Integers, Sequences, Functions

CONSTANTS
    Key,            \* what identifies an attempt: its task id and attempt id
    MaxCompleted,   \* completed_ keeps this many attempts (50 in the code)
    MaxNotify,      \* ResultDeliveryPolicy.maxAttempts
    MaxFailures     \* bound on the number of failed RPCs

VARIABLES
    hb,             \* heartbeat thread: [pc, done, task, cancels, cur]
    queue,          \* TaskQueue: attempts waiting for the worker
    running,        \* AttemptTracker.running_
    finished,       \* AttemptTracker.completed_, oldest first
    cancelRequested,\* AttemptTracker.cancelRequested_
    worker,         \* the attempts the worker thread is sampling: at most one
    uploads,        \* UploadQueue: [key, result]
    uploader,       \* upload worker: [pc, key, result, tries]
    failures,       \* failed RPCs so far
    started         \* history: how often the worker has begun each attempt

agentVars == <<hb, queue, running, finished, cancelRequested, worker,
               uploads, uploader, failures, started>>

\* How sampling ended: by itself, well or with an error, or stopped by a
\* cancellation.
Results == {"ended", "canceled"}

\* One heartbeat: "idle", "sent" (request out), "replied" (answer on its way),
\* "cancels" (working through the cancel list), "marking" (IsRunning has
\* answered yes for the attempts in cur, RequestCancel is next).
HeartbeatPc == {"idle", "sent", "replied", "cancels", "marking"}

IdleHb == [pc |-> "idle", done |-> {}, task |-> {}, cancels |-> {}, cur |-> {}]
IdleUploader == [pc |-> "idle", job |-> <<>>, tries |-> 0]

UploadJob == [key : Key, result : Results]

TypeOK ==
    /\ hb \in [pc : HeartbeatPc, done : SUBSET Key, task : SUBSET Key,
               cancels : SUBSET Key, cur : SUBSET Key]
    /\ queue \in Seq(Key)
    /\ running \subseteq Key
    /\ finished \in Seq(Key) /\ Len(finished) <= MaxCompleted
    /\ cancelRequested \subseteq Key
    /\ worker \subseteq Key
    /\ uploads \in Seq(UploadJob)
    /\ uploader \in [pc : {"idle", "sending", "served"}, job : Seq(UploadJob),
                     tries : 0..MaxNotify]
    /\ failures \in 0..MaxFailures
    /\ started \in [Key -> Nat]

Init ==
    /\ hb = IdleHb
    /\ queue = <<>>
    /\ running = {}
    /\ finished = <<>>
    /\ cancelRequested = {}
    /\ worker = {}
    /\ uploads = <<>>
    /\ uploader = IdleUploader
    /\ failures = 0
    /\ started = [k \in Key |-> 0]

-----------------------------------------------------------------------------
(* AttemptTracker and TaskQueue: each call is atomic under the object's mutex. *)

MarkRunning(k) ==
    running' = IF k \in running \cup Range(finished) THEN running
               ELSE running \cup {k}

\* completed_ is cut from the front once it is longer than its limit.
Recorded(k) ==
    LET all == IF k \in Range(finished) THEN finished ELSE Append(finished, k)
    IN  IF Len(all) > MaxCompleted THEN Tail(all) ELSE all

MarkCompleted(k) ==
    /\ running' = running \ {k}
    /\ finished' = Recorded(k)
    /\ cancelRequested' = cancelRequested \ {k}

-----------------------------------------------------------------------------
(* HeartbeatThread::Loop. *)

HeartbeatSend ==
    /\ hb.pc = "idle"
    /\ hb' = [IdleHb EXCEPT !.pc = "sent", !.done = Range(finished)]
    /\ UNCHANGED <<queue, running, finished, cancelRequested, worker, uploads,
                   uploader, failures, started>>

\* The server's answer: at most one attempt, and the attempts to cancel.
HeartbeatServed(task, cancelSet) ==
    /\ hb.pc = "sent"
    /\ hb' = [hb EXCEPT !.pc = "replied", !.task = task, !.cancels = cancelSet]
    /\ UNCHANGED <<queue, running, finished, cancelRequested, worker, uploads,
                   uploader, failures, started>>

\* The RPC fails, before or after the server has handled it: the answer is
\* gone, the agent reconnects and goes on with its next heartbeat.
HeartbeatFail ==
    /\ hb.pc \in {"sent", "replied"}
    /\ failures < MaxFailures
    /\ failures' = failures + 1
    /\ hb' = IdleHb
    /\ UNCHANGED <<queue, running, finished, cancelRequested, worker, uploads,
                   uploader, started>>

\* MarkRunning and Push of the attempt in the answer, if there is one.  Push
\* does not ask whether the attempt is already known.
HeartbeatReceive ==
    /\ hb.pc = "replied"
    /\ hb' = [hb EXCEPT !.pc = "cancels"]
    /\ \/ hb.task = {} /\ UNCHANGED <<queue, running>>
       \/ \E k \in hb.task : queue' = Append(queue, k) /\ MarkRunning(k)
    /\ UNCHANGED <<finished, cancelRequested, worker, uploads, uploader,
                   failures, started>>

\* TaskQueue::CancelQueued: find_if and erase, the first entry of the attempt.
WithoutFirst(q, k) ==
    LET p == CHOOSE i \in DOMAIN q : q[i] = k /\ \A j \in 1..i - 1 : q[j] # k
    IN  [i \in 1..Len(q) - 1 |-> IF i < p THEN q[i] ELSE q[i + 1]]

\* A cancel instruction for an attempt that waits in the queue: it is taken out
\* and confirmed at once.
CancelQueued(k) ==
    /\ hb.pc = "cancels"
    /\ k \in hb.cancels
    /\ k \in Range(queue)
    /\ hb' = [hb EXCEPT !.cancels = @ \ {k}]
    /\ queue' = WithoutFirst(queue, k)
    /\ MarkCompleted(k)
    /\ UNCHANGED <<worker, uploads, uploader, failures, started>>

\* ... for one that is running: IsRunning answers yes ...
CancelSeesRunning(k) ==
    /\ hb.pc = "cancels"
    /\ k \in hb.cancels
    /\ k \notin Range(queue)
    /\ k \in running
    /\ hb' = [hb EXCEPT !.pc = "marking", !.cancels = @ \ {k}, !.cur = {k}]
    /\ UNCHANGED <<queue, running, finished, cancelRequested, worker, uploads,
                   uploader, failures, started>>

\* ... and RequestCancel leaves the mark the worker polls.
RequestCancel ==
    /\ hb.pc = "marking"
    /\ hb' = [hb EXCEPT !.pc = "cancels", !.cur = {}]
    /\ cancelRequested' = cancelRequested \cup hb.cur
    /\ UNCHANGED <<queue, running, finished, worker, uploads, uploader,
                   failures, started>>

\* Mutant: the instruction is ignored.
CancelUnknownIgnored(k) ==
    /\ hb.pc = "cancels"
    /\ k \in hb.cancels
    /\ k \notin Range(queue)
    /\ k \notin running
    /\ hb' = [hb EXCEPT !.cancels = @ \ {k}]
    /\ UNCHANGED <<queue, running, finished, cancelRequested, worker, uploads,
                   uploader, failures, started>>

\* ... for one this agent does not have: confirmed, so that the server forgets
\* the instruction.
CancelUnknown(k) ==
    /\ hb.pc = "cancels"
    /\ k \in hb.cancels
    /\ k \notin Range(queue)
    /\ k \notin running
    /\ hb' = [hb EXCEPT !.cancels = @ \ {k}]
    /\ MarkCompleted(k)
    /\ UNCHANGED <<queue, worker, uploads, uploader, failures, started>>

HeartbeatDone ==
    /\ hb.pc = "cancels"
    /\ hb.cancels = {}
    /\ hb' = IdleHb
    /\ UNCHANGED <<queue, running, finished, cancelRequested, worker, uploads,
                   uploader, failures, started>>

-----------------------------------------------------------------------------
(* WorkerThread::Loop and RunTaskLifecycle: one attempt at a time. *)

\* Mutant: the attempt stays in the queue while it is sampled.
WorkerPeek ==
    /\ worker = {}
    /\ queue # <<>>
    /\ worker' = {Head(queue)}
    /\ started' = [started EXCEPT ![Head(queue)] = @ + 1]
    /\ UNCHANGED <<hb, queue, running, finished, cancelRequested, uploads, uploader,
                   failures>>

WorkerTake ==
    /\ worker = {}
    /\ queue # <<>>
    /\ worker' = {Head(queue)}
    /\ queue' = Tail(queue)
    /\ started' = [started EXCEPT ![Head(queue)] = @ + 1]
    /\ UNCHANGED <<hb, running, finished, cancelRequested, uploads, uploader,
                   failures>>

\* Mutant: an attempt that fails to start leaves nothing to report.
WorkerDrops ==
    /\ worker # {}
    /\ worker' = {}
    /\ UNCHANGED <<hb, queue, running, finished, cancelRequested, uploads, uploader,
                   failures, started>>

\* The runner ends by itself, well or with an error (an expired deadline, a
\* failed validation, start or collection).
WorkerFinish ==
    /\ \E k \in worker : uploads' = Append(uploads, [key |-> k, result |-> "ended"])
    /\ worker' = {}
    /\ UNCHANGED <<hb, queue, running, finished, cancelRequested, uploader,
                   failures, started>>

\* The poll loop sees the mark of RequestCancel and stops the runner.
WorkerCancel ==
    /\ \E k \in worker \cap cancelRequested :
            uploads' = Append(uploads, [key |-> k, result |-> "canceled"])
    /\ worker' = {}
    /\ UNCHANGED <<hb, queue, running, finished, cancelRequested, uploader,
                   failures, started>>

-----------------------------------------------------------------------------
(* UploadWorker::Loop, BuildTaskResult and DeliverResultAndMarkCompleted. *)

\* The raw object and its manifest are uploaded once, and the result is built
\* from what came of it (a failed upload is an error result, reported alike).
UploaderTake ==
    /\ uploader.pc = "idle"
    /\ uploads # <<>>
    /\ uploader' = [pc |-> "sending", job |-> <<Head(uploads)>>, tries |-> 0]
    /\ uploads' = Tail(uploads)
    /\ UNCHANGED <<hb, queue, running, finished, cancelRequested, worker,
                   failures, started>>

\* The server has handled NotifyResult, its answer is on the way.
UploaderServed ==
    /\ uploader.pc = "sending"
    /\ uploader' = [uploader EXCEPT !.pc = "served"]
    /\ UNCHANGED <<hb, queue, running, finished, cancelRequested, worker,
                   uploads, failures, started>>

UploaderAcknowledged ==
    /\ uploader.pc = "served"
    /\ MarkCompleted(uploader.job[1].key)
    /\ uploader' = IdleUploader
    /\ UNCHANGED <<hb, queue, worker, uploads, failures, started>>

\* Mutant: after the last try the attempt is marked completed all the same.
UploaderGivesUp ==
    /\ uploader.pc \in {"sending", "served"}
    /\ failures < MaxFailures
    /\ failures' = failures + 1
    /\ IF uploader.tries + 1 < MaxNotify
       THEN /\ uploader' = [uploader EXCEPT !.pc = "sending", !.tries = @ + 1]
            /\ UNCHANGED <<running, finished, cancelRequested>>
       ELSE uploader' = IdleUploader /\ MarkCompleted(uploader.job[1].key)
    /\ UNCHANGED <<hb, queue, worker, uploads, started>>

\* The RPC fails, before or after the server has handled it.  After the last
\* try the attempt stays in running_.
UploaderFail ==
    /\ uploader.pc \in {"sending", "served"}
    /\ failures < MaxFailures
    /\ failures' = failures + 1
    /\ uploader' = IF uploader.tries + 1 < MaxNotify
                   THEN [uploader EXCEPT !.pc = "sending", !.tries = @ + 1]
                   ELSE IdleUploader
    /\ UNCHANGED <<hb, queue, running, finished, cancelRequested, worker,
                   uploads, started>>

-----------------------------------------------------------------------------
\* The process dies and comes back: everything it knew is gone.
AgentRestart ==
    /\ failures < MaxFailures
    /\ failures' = failures + 1
    /\ hb' = IdleHb
    /\ queue' = <<>>
    /\ running' = {}
    /\ finished' = <<>>
    /\ cancelRequested' = {}
    /\ worker' = {}
    /\ uploads' = <<>>
    /\ uploader' = IdleUploader
    /\ UNCHANGED started

\* The steps of the threads that need no answer from the server.
LocalStep ==
    \/ HeartbeatSend
    \/ HeartbeatReceive
    \/ \E k \in hb.cancels :
            CancelQueued(k) \/ CancelSeesRunning(k) \/ CancelUnknown(k)
    \/ RequestCancel
    \/ HeartbeatDone
    \/ WorkerTake
    \/ WorkerFinish
    \/ WorkerCancel
    \/ UploaderTake
    \/ UploaderAcknowledged
=============================================================================
