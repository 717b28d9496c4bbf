---------------------------- MODULE AnalysisJobs ----------------------------
(***************************************************************************)
(* The analysis of one task: the rows of analysis_jobs that the apiserver  *)
(* inserts (task.go, stage4.go), and the analysis daemons (src/analysis)   *)
(* that claim them with a lease, analyse, and commit the result together   *)
(* with the choice of the active job whose results the user sees.          *)
(*                                                                         *)
(* A transaction is one step.  A lease is either live or expired; it       *)
(* expires when its owner is dead, or could not renew it in time.          *)
(***************************************************************************)
EXTENDS Integers, Sequences

CONSTANTS
    Workers,        \* analysis daemons, by worker_id
    AttemptIds,     \* collection attempts of the task that delivered raw data
    MaxAttempts,    \* max_attempts of a job (3)
    MaxJobs,        \* bound on the number of jobs
    MaxExpiries,    \* bound on the leases a working daemon fails to renew
    MaxCrashes      \* bound on the crashes of daemons

NoWorker == "no worker"

ASSUME AnalysisAssumption ==
    /\ NoWorker \notin Workers
    /\ AttemptIds \subseteq Nat \ {0}
    /\ MaxAttempts \in Nat \ {0}
    /\ MaxJobs \in Nat
    /\ MaxExpiries \in Nat
    /\ MaxCrashes \in Nat

VARIABLES
    jobs,           \* the rows of analysis_jobs, by id
    active,         \* hotmethod_tasks.active_analysis_job_id, 0 for NULL
    analysis,       \* hotmethod_tasks.analysis_status
    worker,         \* what each daemon is doing
    expiries, crashes

vars == <<jobs, active, analysis, worker, expiries, crashes>>

Job == [attempt : AttemptIds, generation : Nat, trigger : {"initial", "manual"},
        status : {"pending", "running", "retry", "success", "failed"},
        owner : Workers \cup {NoWorker}, live : BOOLEAN, tries : Nat,
        superseded : BOOLEAN]

InFlight == {"pending", "running", "retry"}

\* In "claimed" a job has been leased, in "analysing" the analyzer is at work,
\* in "failing" it has raised, in "rejected" the result was refused because the
\* lease was lost, in "aborting" an error before the analysis was published.
Worker == [pc : {"idle", "claimed", "analysing", "failing", "rejected", "aborting"},
           job : Nat, tries : Nat, retry : BOOLEAN]

Idle == [pc |-> "idle", job |-> 0, tries |-> 0, retry |-> FALSE]

TypeOK ==
    /\ jobs \in Seq(Job)
    /\ active \in 0..Len(jobs)
    /\ analysis \in 0..3
    /\ worker \in [Workers -> Worker]
    /\ \A w \in Workers : worker[w].pc # "idle" => worker[w].job \in 1..Len(jobs)
    /\ expiries \in 0..MaxExpiries
    /\ crashes \in 0..MaxCrashes

Init ==
    /\ jobs = <<>>
    /\ active = 0
    /\ analysis = 0
    /\ worker = [w \in Workers |-> Idle]
    /\ expiries = 0
    /\ crashes = 0

-----------------------------------------------------------------------------
(* The apiserver. *)

\* Mutant: every job writes under the first generation.
FirstGeneration == 1

\* COALESCE(MAX(generation), 0) + 1, under the lock of the task row.
NextGeneration ==
    LET generations == {0} \cup {jobs[j].generation : j \in DOMAIN jobs}
    IN  1 + CHOOSE g \in generations : \A h \in generations : h <= g

NewJob(att, trigger) ==
    [attempt |-> att, generation |-> NextGeneration, trigger |-> trigger,
     status |-> "pending", owner |-> NoWorker, live |-> FALSE, tries |-> 0,
     superseded |-> FALSE]

\* ensureAnalysisQueuedTx for a result callback (possibly a repeated one), the
\* poller or the backfill: one initial job per attempt.
EnsureAnalysisQueued(att) ==
    /\ Len(jobs) < MaxJobs
    /\ ~\E j \in DOMAIN jobs : jobs[j].attempt = att /\ jobs[j].trigger = "initial"
    /\ jobs' = Append(jobs, NewJob(att, "initial"))
    /\ UNCHANGED <<active, analysis, worker, expiries, crashes>>

\* ReanalyzeTask, its transaction: refused while a job is in flight.  Only an
\* attempt whose raw data is registered can be chosen.
ReanalyzeTask(att) ==
    /\ Len(jobs) < MaxJobs
    /\ \E j \in DOMAIN jobs : jobs[j].attempt = att
    /\ \A j \in DOMAIN jobs : jobs[j].status \notin InFlight
    /\ jobs' = Append(jobs, NewJob(att, "manual"))
    /\ UNCHANGED <<active, analysis, worker, expiries, crashes>>

-----------------------------------------------------------------------------
(* AnalysisLeaseClient *)

\* Mutant: a job whose daemon died is not claimed again.
ClaimableOnce(j) == jobs[j].status \in {"pending", "retry"}

Claimable(j) ==
    \/ jobs[j].status \in {"pending", "retry"}
    \/ jobs[j].status = "running" /\ ~jobs[j].live

\* claim_one: the oldest claimable row.  SKIP LOCKED may pass over a row whose
\* late owner is just committing.
ClaimOne(w, j) ==
    /\ worker[w].pc = "idle"
    /\ Claimable(j)
    /\ \A i \in 1..j - 1 : Claimable(i) => jobs[i].status = "running"
    /\ jobs' = [jobs EXCEPT ![j].status = "running", ![j].owner = w,
                            ![j].live = TRUE, ![j].tries = @ + 1]
    /\ worker' = [worker EXCEPT ![w] = [pc |-> "claimed", job |-> j,
                                        tries |-> jobs[j].tries + 1, retry |-> FALSE]]
    /\ UNCHANGED <<active, analysis, expiries, crashes>>

Owns(w) == jobs[worker[w].job].owner = w

\* heartbeat, every third of the lease: it also revives an expired lease that
\* nobody has claimed yet.
Heartbeat(w) ==
    /\ worker[w].pc # "idle"
    /\ Owns(w)
    /\ ~jobs[worker[w].job].live
    /\ jobs' = [jobs EXCEPT ![worker[w].job].live = TRUE]
    /\ UNCHANGED <<active, analysis, worker, expiries, crashes>>

\* The bound is on leases that a working owner fails to renew.
LeaseExpires(j) ==
    LET held == \E w \in Workers : worker[w].pc # "idle" /\ worker[w].job = j /\ Owns(w)
    IN  /\ jobs[j].status = "running"
        /\ jobs[j].live
        /\ held => expiries < MaxExpiries
        /\ expiries' = IF held THEN expiries + 1 ELSE expiries
        /\ jobs' = [jobs EXCEPT ![j].live = FALSE]
        /\ UNCHANGED <<active, analysis, worker, crashes>>

\* Mutant: the lease owner is not compared.
FinishedByAnyone(w, status) ==
    [jobs EXCEPT ![worker[w].job].status = status,
                 ![worker[w].job].owner = NoWorker,
                 ![worker[w].job].live = FALSE]

\* _finish: only the owner of the lease changes the row.
Finished(w, status) ==
    IF Owns(w)
    THEN [jobs EXCEPT ![worker[w].job].status = status,
                      ![worker[w].job].owner = NoWorker,
                      ![worker[w].job].live = FALSE]
    ELSE jobs

-----------------------------------------------------------------------------
(* run_job of the analysis daemon. *)

ShouldRetry(w) == worker[w].tries < MaxAttempts

\* update_analysis_status(1): the task shows "analysing".
StartAnalysis(w) ==
    /\ worker[w].pc = "claimed"
    /\ analysis' = 1
    /\ worker' = [worker EXCEPT ![w].pc = "analysing"]
    /\ UNCHANGED <<jobs, active, expiries, crashes>>

\* An error before that: no analyzer for the task type (not retried), no
\* configuration, database or task row.  The task is marked failed first, and
\* the job after it.
AbortAnalysis(w) ==
    /\ worker[w].pc = "claimed"
    /\ analysis' = 3
    /\ \E retry \in {FALSE, ShouldRetry(w)} :
          worker' = [worker EXCEPT ![w].pc = "aborting", ![w].retry = retry]
    /\ UNCHANGED <<jobs, active, expiries, crashes>>

AbortJob(w) ==
    /\ worker[w].pc = "aborting"
    /\ jobs' = Finished(w, IF worker[w].retry THEN "retry" ELSE "failed")
    /\ worker' = [worker EXCEPT ![w] = Idle]
    /\ UNCHANGED <<active, analysis, expiries, crashes>>

\* Mutant: whoever commits last is active.
SwitchesAlways(j) == TRUE

\* _switch_active_job_tx: a manual job always becomes active, an initial one
\* unless the active job analyses a later attempt.
Switches(j) ==
    \/ active = 0
    \/ jobs[j].trigger = "manual"
    \/ jobs[active].attempt <= jobs[j].attempt

\* Mutant: the replaced job keeps its retention.
SupersededNever(rows, j) == rows

\* The job that loses the election is superseded.
Superseded(rows, j) ==
    [i \in DOMAIN rows |->
        IF i = (IF Switches(j) THEN active ELSE j)
        THEN [rows[i] EXCEPT !.superseded = TRUE] ELSE rows[i]]

\* finalize_success_tx: one transaction, rolled back when the lease is lost.
FinalizeSuccess(w) ==
    LET j == worker[w].job
    IN  /\ worker[w].pc = "analysing"
        /\ Owns(w)
        /\ jobs' = Superseded(Finished(w, "success"), j)
        /\ active' = IF Switches(j) THEN j ELSE active
        /\ analysis' = 2
        /\ worker' = [worker EXCEPT ![w] = Idle]
        /\ UNCHANGED <<expiries, crashes>>

\* The analyzer raises, or the transaction above is refused; input errors are
\* not retried.
AnalysisRaises(w) ==
    /\ worker[w].pc = "analysing"
    /\ \E retry \in {FALSE, ShouldRetry(w)} :
          worker' = [worker EXCEPT ![w].pc = "failing", ![w].retry = retry]
    /\ UNCHANGED <<jobs, active, analysis, expiries, crashes>>

\* finalize_failure_tx, refused when the lease is lost ...
FinalizeFailure(w) ==
    /\ worker[w].pc = "failing"
    /\ IF Owns(w)
       THEN /\ jobs' = Finished(w, IF worker[w].retry THEN "retry" ELSE "failed")
            /\ analysis' = 3
            /\ worker' = [worker EXCEPT ![w] = Idle]
       ELSE /\ worker' = [worker EXCEPT ![w].pc = "rejected"]
            /\ UNCHANGED <<jobs, analysis>>
    /\ UNCHANGED <<active, expiries, crashes>>

\* ... and then the task is marked failed without a look at the lease.
Rejected(w) ==
    /\ worker[w].pc = "rejected"
    /\ analysis' = 3
    /\ jobs' = Finished(w, IF worker[w].retry THEN "retry" ELSE "failed")
    /\ worker' = [worker EXCEPT ![w] = Idle]
    /\ UNCHANGED <<active, expiries, crashes>>

WorkerCrash(w) ==
    /\ worker[w].pc # "idle"
    /\ crashes < MaxCrashes
    /\ crashes' = crashes + 1
    /\ worker' = [worker EXCEPT ![w] = Idle]
    /\ UNCHANGED <<jobs, active, analysis, expiries>>

-----------------------------------------------------------------------------
RunJob(w) ==
    \/ StartAnalysis(w) \/ AbortAnalysis(w) \/ AbortJob(w) \/ FinalizeSuccess(w)
    \/ AnalysisRaises(w) \/ FinalizeFailure(w) \/ Rejected(w)

Claim(w) == \E j \in DOMAIN jobs : ClaimOne(w, j)

Next ==
    \/ \E att \in AttemptIds : EnsureAnalysisQueued(att) \/ ReanalyzeTask(att)
    \/ \E w \in Workers : Claim(w) \/ Heartbeat(w) \/ RunJob(w) \/ WorkerCrash(w)
    \/ \E j \in DOMAIN jobs : LeaseExpires(j)

Spec == Init /\ [][Next]_vars

\* A daemon polls the queue, an analysis ends, and a lease nobody renews expires.
Fairness ==
    /\ \A w \in Workers : WF_vars(Claim(w)) /\ WF_vars(RunJob(w))
    /\ \A j \in 1..MaxJobs : WF_vars(j \in DOMAIN jobs /\ LeaseExpires(j))

FairSpec == Spec /\ Fairness

-----------------------------------------------------------------------------
(* Properties. *)

\* Of the successful jobs exactly the active one is not superseded, however
\* late a daemon commits: the user sees one result, and the others, and only
\* they, fall under the short retention.
OneActiveResult ==
    /\ active # 0 => jobs[active].status = "success"
    /\ \A j \in DOMAIN jobs :
          jobs[j].status = "success" => (jobs[j].superseded <=> j # active)

\* Generations are distinct and grow with the id: repeated callbacks, the
\* poller and a reanalysis never write under the same output prefix.
GenerationsGrow ==
    \A i, j \in DOMAIN jobs : i < j => jobs[i].generation < jobs[j].generation

\* A job that is finished stays as it is: a daemon that has lost its lease
\* neither reopens nor overwrites it.
FinishedJobsStay ==
    [][\A j \in DOMAIN jobs : jobs[j].status \in {"success", "failed"} =>
            jobs'[j] = [jobs[j] EXCEPT !.superseded = jobs'[j].superseded]]_vars

\* The late analysis of an early attempt does not replace the result of a
\* later one, unless a user has asked for it.
LateAttemptKeepsActive ==
    [][active # 0 /\ active' # active /\ jobs[active'].trigger = "initial" =>
            jobs[active].attempt <= jobs[active'].attempt]_vars

\* Every job is finished, though daemons crash and leases expire under them.
JobsFinish ==
    \A j \in 1..MaxJobs :
        j \in DOMAIN jobs ~> (j \in DOMAIN jobs /\ jobs[j].status \in {"success", "failed"})

-----------------------------------------------------------------------------
(* The inductive invariant. *)

\* Only a running job has an owner, so a daemon that finds itself the owner of
\* its job can finish it, and only jobs that were finished well are superseded.
OwnedJobsRun ==
    \A j \in DOMAIN jobs : jobs[j].owner # NoWorker => jobs[j].status = "running"

SupersededJobsSucceeded ==
    \A j \in DOMAIN jobs : jobs[j].superseded => jobs[j].status = "success"

Inv ==
    /\ TypeOK
    /\ OwnedJobsRun
    /\ SupersededJobsSucceeded
    /\ OneActiveResult
    /\ GenerationsGrow

-----------------------------------------------------------------------------
\* "A late daemon must check the owner when it commits, so that it does not
\* overwrite the new result": a daemon that has lost the lease leaves the
\* status of a successful analysis alone.
LateWorkerIsSilent ==
    [][\A w \in Workers :
            worker[w].pc # "idle" /\ ~Owns(w) /\ worker'[w] # worker[w] =>
                (analysis = 2 => analysis' = 2)]_vars
=============================================================================
