----------------------------- MODULE Collection -----------------------------
(***************************************************************************)
(* drop_server and one drop_agent together: heartbeats that fetch attempts *)
(* and cancellations, results reported with NotifyResult, RPCs that fail   *)
(* before or after the server has handled them, and restarts of both       *)
(* processes.  The apiserver is the environment: it sends attempts and     *)
(* cancellations.                                                          *)
(***************************************************************************)
EXTENDS Integers, Sequences, Functions

CONSTANTS Tids, AttemptIds, Me, MaxQueue, MaxRestarts,
          MaxCompleted, MaxNotify, MaxFailures

ASSUME CollectionAssumption ==
    /\ AttemptIds \subseteq Nat \ {0}
    /\ MaxQueue \in Nat \ {0}
    /\ MaxRestarts \in Nat
    /\ MaxCompleted \in Nat \ {0}
    /\ MaxNotify \in Nat \ {0}
    /\ MaxFailures \in Nat

VARIABLES
    now, phase, tasks, completed, cancels, tmpSnap, snapshot, unread,
    restarts, sent, asked, relayed, dispatched,
    hb, queue, running, finished, cancelRequested, worker, uploads, uploader,
    failures, started,
    accepted,   \* history: attempts the server has queued
    received,   \* history: attempts whose result the server has handled
    gone,       \* history: attempts lost with a reply or an agent that died
    undelivered \* history: attempts whose result could not be delivered

\* One agent: the queues of different agents do not interact.  No deadlines
\* and equal priorities: the server's own specification has them.
Server == INSTANCE DropServer WITH
    IPs <- {Me},
    Target <- [t \in Tids |-> Me],
    Priority <- [t \in Tids |-> 0],
    Deadline <- [t \in Tids |-> 0],
    MaxTime <- 0

Agent == INSTANCE DropAgent WITH Key <- Server!Keys

serverVars == <<now, phase, tasks, completed, cancels, tmpSnap, snapshot,
                unread, restarts, sent, asked, relayed, dispatched>>
agentVars == <<hb, queue, running, finished, cancelRequested, worker,
               uploads, uploader, failures, started>>
history == <<accepted, received, gone, undelivered>>
vars == <<serverVars, agentVars, history>>

TypeOK ==
    /\ Server!TypeOK
    /\ Agent!TypeOK
    /\ accepted \subseteq Server!Attempts
    /\ received \subseteq Server!Attempts
    /\ gone \subseteq Server!Attempts
    /\ undelivered \subseteq Server!Attempts

Init ==
    /\ Server!Init
    /\ Agent!Init
    /\ accepted = {}
    /\ received = {}
    /\ gone = {}
    /\ undelivered = {}

-----------------------------------------------------------------------------
Api ==
    /\ \/ \E k \in Server!Attempts :
            /\ Server!CreateTask(k)
            /\ accepted' = IF Server!EnqueueAnswer(k) = "queued"
                           THEN accepted \cup {k} ELSE accepted
       \/ /\ \E k \in Server!Keys : Server!CancelTask(k[1], k[2])
          /\ UNCHANGED accepted
    /\ UNCHANGED <<agentVars, received, gone, undelivered>>

\* HealthCheckService::Do: completed attempts are noted first, then the next
\* attempt is popped, then the cancel list is read.
ServeHeartbeat ==
    /\ Server!HealthCheckDo(Me, hb.done)
    /\ Agent!HeartbeatServed(Server!Popped(tasks[Me], completed'), cancels'[Me])
    /\ UNCHANGED history

HeartbeatFail ==
    /\ Agent!HeartbeatFail
    /\ gone' = gone \cup hb.task
    /\ UNCHANGED <<serverVars, accepted, received, undelivered>>

ServeNotify ==
    /\ Agent!UploaderServed
    /\ Server!NotifyResult(uploader.job[1].key)
    /\ received' = received \cup {uploader.job[1].key}
    /\ UNCHANGED <<accepted, gone, undelivered>>

NotifyFail ==
    /\ Agent!UploaderFail
    /\ undelivered' = IF uploader'.pc = "idle"
                      THEN undelivered \cup {uploader.job[1].key} ELSE undelivered
    /\ UNCHANGED <<serverVars, accepted, received, gone>>

AgentLocal == Agent!LocalStep /\ UNCHANGED <<serverVars, history>>

AgentRestart ==
    /\ Agent!AgentRestart
    /\ gone' = gone \cup hb.task \cup (running \cap Server!Attempts)
    /\ UNCHANGED <<serverVars, accepted, received, undelivered>>

ServerStep == Server!ServerStep /\ UNCHANGED <<agentVars, history>>

Next ==
    \/ Api
    \/ ServeHeartbeat
    \/ HeartbeatFail
    \/ ServeNotify
    \/ NotifyFail
    \/ AgentLocal
    \/ AgentRestart
    \/ ServerStep

Spec == Init /\ [][Next]_vars

\* Every thread goes on while it can: the heartbeat loop and the workers never
\* stop, a runner ends (its duration and its time-out bound it), and a server
\* that is up answers.  A process that went down is started again.
Fairness ==
    /\ WF_vars(Agent!HeartbeatSend /\ UNCHANGED <<serverVars, history>>)
    /\ WF_vars(Agent!HeartbeatReceive /\ UNCHANGED <<serverVars, history>>)
    /\ WF_vars(/\ \/ \E k \in hb.cancels : \/ Agent!CancelQueued(k)
                                           \/ Agent!CancelSeesRunning(k)
                                           \/ Agent!CancelUnknown(k)
                  \/ Agent!RequestCancel
                  \/ Agent!HeartbeatDone
               /\ UNCHANGED <<serverVars, history>>)
    /\ WF_vars((Agent!WorkerTake \/ Agent!WorkerFinish) /\ UNCHANGED <<serverVars, history>>)
    /\ WF_vars((Agent!UploaderTake \/ Agent!UploaderAcknowledged)
               /\ UNCHANGED <<serverVars, history>>)
    /\ WF_vars(ServeHeartbeat)
    /\ WF_vars(ServeNotify)
    /\ WF_vars((Server!Start \/ (\E ip \in {Me} : Server!RestoreRecord(ip)) \/ Server!Serve)
               /\ UNCHANGED <<agentVars, history>>)

FairSpec == Spec /\ Fairness

-----------------------------------------------------------------------------
(* Properties. *)

\* Where an attempt is between the moment the server queues it and the moment
\* its result is reported: the container and the position in it.
Places(k) ==
         {"server"} \X {i \in DOMAIN tasks[Me] : tasks[Me][i].key = k}
    \cup {"reply"} \X {t \in hb.task : hb.pc = "replied" /\ t = k}
    \cup {"queue"} \X {i \in DOMAIN queue : queue[i] = k}
    \cup {"worker"} \X {t \in worker : t = k}
    \cup {"uploads"} \X {i \in DOMAIN uploads : uploads[i].key = k}
    \cup {"uploader"} \X {i \in DOMAIN uploader.job : uploader.job[i].key = k}

InOnePlace(k) == \E p \in Places(k) : Places(k) = {p}

\* While drop_server runs without a restart, an attempt is in one place at a
\* time and is sampled at most once, whatever RPCs fail or agents restart:
\* a reported or lost attempt is never fetched again.
SampledOnce ==
    restarts = 0 => \A k \in Server!Attempts :
        (Places(k) = {} \/ InOnePlace(k)) /\ started[k] <= 1

\* Nothing disappears unnoticed: an attempt that was queued and that nobody
\* asked to cancel is in its place, or its result has reached the server, or
\* it went with a lost reply, an undeliverable result or a dead agent.
AcceptedIsSomewhere ==
    restarts = 0 => \A k \in accepted :
        \/ k[1] \in asked
        \/ InOnePlace(k)
        \/ k \in received
        \/ k \in gone \cup undelivered

\* ResultDelivery.h: "a completed heartbeat is an acknowledgement that the
\* result reached the server".  An attempt that was sampled is reported as
\* completed only after NotifyResult was handled, except one that an earlier
\* process of the agent had begun and this one knows nothing of.
CompletedMeansDelivered ==
    restarts = 0 => \A k \in Range(finished) :
        started[k] > 0 => k \in received \cup gone

\* A cancellation that the agent has confirmed for an attempt it had not begun
\* keeps as long as completed_ remembers it: the attempt is not begun, even when
\* the cancellation overtook the task itself.  completed_ is bounded and does
\* not survive the agent: of an attempt that was cut from it nothing is said.
ConfirmedCancelKeeps ==
    [][\A k \in Range(finished) :
            restarts' = 0 /\ started[k] = 0 => started'[k] = 0]_vars

\* Every relayed cancellation is confirmed in the end, so that the server need
\* not resend it for ever: also one that overtakes its task, meets it in the
\* queue, or comes when it is over.  The exception is an attempt whose result
\* could not be delivered: it stays in running_ until the agent is restarted.
CancelConfirmed ==
    \A k \in Server!Keys :
        k \in cancels[Me] ~> (k \notin cancels[Me] \/ k \in undelivered)
=============================================================================
