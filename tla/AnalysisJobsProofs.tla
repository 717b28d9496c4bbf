------------------------- MODULE AnalysisJobsProofs -------------------------
(***************************************************************************)
(* Proofs about AnalysisJobs, for any number of daemons, jobs, attempts,   *)
(* lost leases and crashes.                                                *)
(***************************************************************************)
EXTENDS AnalysisJobs, SequenceTheorems, TLAPS

-----------------------------------------------------------------------------
(* The rows. *)

\* COALESCE(MAX(generation), 0) + 1 is above every generation.
LEMMA NextGenerationAbove ==
  ASSUME TypeOK, GenerationsGrow
  PROVE  /\ NextGeneration \in Nat
         /\ \A j \in DOMAIN jobs : jobs[j].generation < NextGeneration
  <1> DEFINE generations == {0} \cup {jobs[j].generation : j \in DOMAIN jobs}
             greatest == IF jobs = <<>> THEN 0 ELSE jobs[Len(jobs)].generation
  <1>1. /\ DOMAIN jobs = 1..Len(jobs) /\ Len(jobs) \in Nat
        /\ \A j \in DOMAIN jobs : jobs[j].generation \in Nat
        /\ jobs # <<>> => Len(jobs) \in DOMAIN jobs
    <2>1. \A j \in DOMAIN jobs : jobs[j] \in Job
      BY DEF TypeOK
    <2>2. DOMAIN jobs = 1..Len(jobs) /\ Len(jobs) \in Nat
      BY DEF TypeOK
    <2>3. jobs # <<>> => Len(jobs) \in Nat \ {0}
      BY EmptySeq DEF TypeOK
    <2> QED
      BY <2>1, <2>2, <2>3 DEF Job
  <1>2. greatest \in generations /\ \A h \in generations : h <= greatest
    BY <1>1 DEF GenerationsGrow
  <1>3. PICK g \in generations : NextGeneration = 1 + g /\ \A h \in generations : h <= g
    BY <1>2 DEF NextGeneration
  <1>4. g \in Nat
    BY <1>1
  <1> QED
    BY <1>1, <1>3, <1>4

\* Inserting a job keeps the others.
LEMMA InsertJob ==
  ASSUME Inv, NEW att \in AttemptIds, NEW trigger \in {"initial", "manual"},
         jobs' = Append(jobs, NewJob(att, trigger)),
         UNCHANGED <<active, analysis, worker, expiries, crashes>>
  PROVE  Inv'
  <1> DEFINE n == Len(jobs) + 1
             new == NewJob(att, trigger)
  <1>1. new \in Job
    BY NextGenerationAbove, AnalysisAssumption DEF Inv, NewJob, Job
  <1>2. /\ jobs' \in Seq(Job) /\ Len(jobs') = n /\ DOMAIN jobs' = 1..n
        /\ Len(jobs) \in Nat /\ DOMAIN jobs = 1..Len(jobs)
        /\ jobs'[n] = new
        /\ \A j \in DOMAIN jobs : jobs'[j] = jobs[j]
    BY <1>1 DEF Inv, TypeOK
  <1>3. /\ new.owner = NoWorker /\ new.status = "pending" /\ new.superseded = FALSE
        /\ new.generation = NextGeneration
    BY DEF NewJob
  <1> HIDE DEF new, n
  <1>4. n = Len(jobs) + 1
    BY DEF n
  <1>5. TypeOK'
    BY <1>2, <1>4 DEF Inv, TypeOK
  <1>6. OwnedJobsRun' /\ SupersededJobsSucceeded'
    BY <1>2, <1>3, <1>4 DEF Inv, OwnedJobsRun, SupersededJobsSucceeded
  <1>7. OneActiveResult'
    BY <1>2, <1>3, <1>4 DEF Inv, TypeOK, OneActiveResult
  <1>8. GenerationsGrow'
    BY <1>2, <1>3, <1>4, NextGenerationAbove DEF Inv, GenerationsGrow
  <1> QED
    BY <1>5, <1>6, <1>7, <1>8 DEF Inv

\* A change to the row of one job that is not finished well, and stays so.
LEMMA ChangeJob ==
  ASSUME Inv, NEW j \in 1..Len(jobs), NEW row \in Job,
         jobs[j].status # "success", row.status # "success",
         row.generation = jobs[j].generation, row.superseded = jobs[j].superseded,
         row.owner # NoWorker => row.status = "running",
         jobs' = [jobs EXCEPT ![j] = row], active' = active
  PROVE  /\ jobs' \in Seq(Job) /\ Len(jobs') = Len(jobs)
         /\ OwnedJobsRun' /\ SupersededJobsSucceeded'
         /\ OneActiveResult' /\ GenerationsGrow'
  <1>1. /\ jobs' \in Seq(Job) /\ Len(jobs') = Len(jobs)
        /\ Len(jobs) \in Nat /\ DOMAIN jobs = 1..Len(jobs) /\ DOMAIN jobs' = 1..Len(jobs)
        /\ jobs'[j] = row
        /\ \A i \in 1..Len(jobs) : i # j => jobs'[i] = jobs[i]
    BY DEF Inv, TypeOK
  <1>2. OwnedJobsRun' /\ SupersededJobsSucceeded'
    BY <1>1 DEF Inv, OwnedJobsRun, SupersededJobsSucceeded
  <1>3. OneActiveResult'
    BY <1>1 DEF Inv, TypeOK, OneActiveResult
  <1>4. GenerationsGrow'
    BY <1>1 DEF Inv, GenerationsGrow
  <1> QED
    BY <1>1, <1>2, <1>3, <1>4

\* What the type invariant says of a single row or daemon.
LEMMA Rows ==
  ASSUME Inv
  PROVE  /\ Len(jobs) \in Nat /\ DOMAIN jobs = 1..Len(jobs)
         /\ \A j \in DOMAIN jobs : jobs[j] \in Job
         /\ \A w \in Workers : worker[w] \in Worker
         /\ \A w \in Workers : worker[w].pc # "idle" => worker[w].job \in DOMAIN jobs
  BY DEF Inv, TypeOK

\* _finish with "retry" or "failed", by the owner of the lease or by a daemon
\* that has lost it.
LEMMA FinishJob ==
  ASSUME Inv, NEW w \in Workers, worker[w].pc # "idle",
         NEW s \in {"retry", "failed"}, jobs' = Finished(w, s), active' = active
  PROVE  /\ jobs' \in Seq(Job) /\ Len(jobs') = Len(jobs)
         /\ OwnedJobsRun' /\ SupersededJobsSucceeded'
         /\ OneActiveResult' /\ GenerationsGrow'
  <1> DEFINE j == worker[w].job
             row == [jobs[j] EXCEPT !.status = s, !.owner = NoWorker, !.live = FALSE]
  <1>1. CASE Owns(w)
    <2>1. j \in 1..Len(jobs) /\ jobs[j] \in Job
      BY Rows
    <2>2. jobs[j].status = "running"
      BY <1>1, <2>1, Rows, AnalysisAssumption DEF Owns, Inv, OwnedJobsRun
    <2>3. /\ row \in Job /\ row.status = s /\ row.owner = NoWorker
          /\ row.generation = jobs[j].generation /\ row.superseded = jobs[j].superseded
      BY <2>1 DEF Job
    <2>4. jobs' = [jobs EXCEPT ![j] = row]
      BY <1>1 DEF Finished
    <2> HIDE DEF j, row
    <2> QED
      BY <2>1, <2>2, <2>3, <2>4, ChangeJob
  <1>2. CASE ~Owns(w)
    BY <1>2 DEF Finished, Inv, TypeOK, OwnedJobsRun, SupersededJobsSucceeded,
                OneActiveResult, GenerationsGrow
  <1> QED
    BY <1>1, <1>2

\* The rest of the type invariant: the daemons.
LEMMA WorkerType ==
  ASSUME Inv, NEW w \in Workers, NEW new \in Worker,
         Len(jobs') = Len(jobs), worker' = [worker EXCEPT ![w] = new],
         new.pc # "idle" => new.job \in 1..Len(jobs)
  PROVE  /\ worker' \in [Workers -> Worker]
         /\ \A v \in Workers : worker'[v].pc # "idle" => worker'[v].job \in 1..Len(jobs')
  BY DEF Inv, TypeOK

-----------------------------------------------------------------------------
(* The actions. *)

\* claim_one preserves the invariant.
LEMMA ClaimInv ==
  ASSUME Inv, NEW w \in Workers, NEW j \in DOMAIN jobs, ClaimOne(w, j)
  PROVE  Inv'
  <1> DEFINE t == jobs[j].tries + 1
             row == [jobs[j] EXCEPT !.status = "running", !.owner = w, !.live = TRUE,
                                    !.tries = t]
             new == [pc |-> "claimed", job |-> j, tries |-> t, retry |-> FALSE]
  <1>1. j \in 1..Len(jobs) /\ jobs[j] \in Job /\ t \in Nat /\ Len(jobs) \in Nat
    BY Rows DEF Job
  <1>4. jobs' = [jobs EXCEPT ![j] = row] /\ worker' = [worker EXCEPT ![w] = new]
    BY DEF ClaimOne
  <1> HIDE DEF t
  <1>2. /\ row \in Job /\ row.status = "running" /\ row.owner = w
        /\ row.generation = jobs[j].generation /\ row.superseded = jobs[j].superseded
    BY <1>1 DEF Job
  <1>3. new \in Worker /\ new.job = j
    BY <1>1, Rows DEF Worker
  <1>5. jobs[j].status # "success" /\ active' = active
    BY DEF ClaimOne, Claimable
  <1> HIDE DEF row, new
  <1>6. /\ jobs' \in Seq(Job) /\ Len(jobs') = Len(jobs)
        /\ OwnedJobsRun' /\ SupersededJobsSucceeded'
        /\ OneActiveResult' /\ GenerationsGrow'
    BY <1>1, <1>2, <1>4, <1>5, ChangeJob
  <1>7. TypeOK'
    <2>1. /\ worker' \in [Workers -> Worker]
          /\ \A v \in Workers : worker'[v].pc # "idle" => worker'[v].job \in 1..Len(jobs')
      BY <1>1, <1>3, <1>4, <1>6, WorkerType
    <2> QED
      BY <1>6, <2>1 DEF ClaimOne, Inv, TypeOK
  <1> QED
    BY <1>6, <1>7 DEF Inv

\* So do the renewal and the expiry of a lease.
LEMMA LeaseInv ==
  ASSUME Inv, NEW j \in DOMAIN jobs, NEW live \in BOOLEAN,
         jobs[j].status # "success", jobs' = [jobs EXCEPT ![j].live = live],
         UNCHANGED <<active, analysis, worker, crashes>>, expiries' \in 0..MaxExpiries
  PROVE  Inv'
  <1> DEFINE row == [jobs[j] EXCEPT !.live = live]
  <1>1. j \in 1..Len(jobs) /\ jobs[j] \in Job
    BY Rows
  <1>2. /\ row \in Job /\ row.status = jobs[j].status /\ row.owner = jobs[j].owner
        /\ row.generation = jobs[j].generation /\ row.superseded = jobs[j].superseded
    BY <1>1 DEF Job
  <1>3. jobs' = [jobs EXCEPT ![j] = row] /\ active' = active
    OBVIOUS
  <1>4. row.owner # NoWorker => row.status = "running"
    BY <1>2 DEF Inv, OwnedJobsRun
  <1> HIDE DEF row
  <1>5. /\ jobs' \in Seq(Job) /\ Len(jobs') = Len(jobs)
        /\ OwnedJobsRun' /\ SupersededJobsSucceeded'
        /\ OneActiveResult' /\ GenerationsGrow'
    BY <1>1, <1>2, <1>3, <1>4, ChangeJob
  <1>6. TypeOK'
    BY <1>5 DEF Inv, TypeOK
  <1> QED
    BY <1>5, <1>6 DEF Inv

\* finalize_success_tx preserves the invariant: the finished job becomes active
\* and the active one superseded, or the finished one superseded.
LEMMA FinalizeSuccessInv ==
  ASSUME Inv, NEW w \in Workers, FinalizeSuccess(w)
  PROVE  Inv'
  <1> DEFINE j == worker[w].job
             loser == IF Switches(j) THEN active ELSE j
             rows == Finished(w, "success")
             row == [jobs[j] EXCEPT !.status = "success", !.owner = NoWorker, !.live = FALSE]
  <1>1. /\ j \in 1..Len(jobs) /\ jobs[j] \in Job
        /\ Len(jobs) \in Nat /\ DOMAIN jobs = 1..Len(jobs)
    BY Rows DEF FinalizeSuccess
  <1>2. jobs[j].status = "running" /\ ~jobs[j].superseded
    BY <1>1, AnalysisAssumption
       DEF FinalizeSuccess, Owns, Inv, OwnedJobsRun, SupersededJobsSucceeded
  <1>3. /\ row \in Job /\ row.status = "success" /\ row.owner = NoWorker
        /\ row.generation = jobs[j].generation /\ ~row.superseded
    BY <1>1, <1>2 DEF Job
  <1>4. rows = [jobs EXCEPT ![j] = row]
    BY DEF FinalizeSuccess, Finished
  <1>5. active \in 0..Len(jobs) /\ active # j
    BY <1>1, <1>2 DEF Inv, TypeOK, OneActiveResult
  <1>6. /\ rows \in Seq(Job) /\ DOMAIN rows = 1..Len(jobs) /\ Len(rows) = Len(jobs)
        /\ rows[j] = row /\ \A i \in 1..Len(jobs) : i # j => rows[i] = jobs[i]
        /\ \A i \in 1..Len(jobs) : rows[i] \in Job
    BY <1>1, <1>3, <1>4 DEF Inv, TypeOK
  <1>7. /\ jobs' = [i \in 1..Len(jobs) |->
                       IF i = loser THEN [rows[i] EXCEPT !.superseded = TRUE] ELSE rows[i]]
        /\ active' = (IF Switches(j) THEN j ELSE active)
        /\ analysis' = 2 /\ worker' = [worker EXCEPT ![w] = Idle]
        /\ UNCHANGED <<expiries, crashes>>
    BY <1>6 DEF FinalizeSuccess, Superseded
  <1>8. /\ loser \in {active, j} /\ active' \in {active, j} /\ loser # active'
        /\ active' # active <=> loser = active
    BY <1>5, <1>7
  <1>9. Switches(j) \/ active # 0
    BY DEF Switches
  <1>10. active' # 0
    BY <1>1, <1>7, <1>9
  <1> HIDE DEF loser, rows, row, j
  <1>11. /\ jobs' \in Seq(Job) /\ Len(jobs') = Len(jobs) /\ DOMAIN jobs' = 1..Len(jobs)
         /\ \A i \in 1..Len(jobs) :
               /\ jobs'[i] \in Job
               /\ jobs'[i].status = rows[i].status /\ jobs'[i].owner = rows[i].owner
               /\ jobs'[i].generation = rows[i].generation
               /\ jobs'[i].superseded = (IF i = loser THEN TRUE ELSE rows[i].superseded)
    <2>1. \A i \in 1..Len(jobs) : [rows[i] EXCEPT !.superseded = TRUE] \in Job
      <3>1. ASSUME NEW r \in Job PROVE [r EXCEPT !.superseded = TRUE] \in Job
        BY DEF Job
      <3> QED
        BY <1>6, <3>1
    <2>2. /\ jobs' \in [1..Len(jobs) -> Job]
          /\ \A i \in 1..Len(jobs) :
               /\ jobs'[i].status = rows[i].status /\ jobs'[i].owner = rows[i].owner
               /\ jobs'[i].generation = rows[i].generation
               /\ jobs'[i].superseded = (IF i = loser THEN TRUE ELSE rows[i].superseded)
      BY <1>6, <1>7, <2>1 DEF Job
    <2>3. jobs' \in Seq(Job) /\ Len(jobs') = Len(jobs)
      BY <1>1, <2>2, SeqDef, LenProperties
    <2> QED
      BY <2>2, <2>3
  <1>12. TypeOK'
    <2>1. Idle \in Worker /\ Idle.pc = "idle"
      BY DEF Idle, Worker
    <2>2. /\ worker' \in [Workers -> Worker]
          /\ \A v \in Workers : worker'[v].pc # "idle" => worker'[v].job \in 1..Len(jobs')
      BY <1>7, <1>11, <2>1, WorkerType
    <2>3. active' \in 0..Len(jobs') /\ analysis' \in 0..3
      BY <1>1, <1>5, <1>7, <1>8, <1>11
    <2> QED
      BY <1>7, <1>11, <2>2, <2>3 DEF Inv, TypeOK
  <1>13. /\ jobs'[j].status = "success" /\ jobs'[j].owner = NoWorker
         /\ jobs'[j].superseded <=> j = loser
         /\ \A i \in 1..Len(jobs) : i # j =>
               /\ jobs'[i].status = jobs[i].status /\ jobs'[i].owner = jobs[i].owner
               /\ jobs'[i].superseded <=> i = loser \/ jobs[i].superseded
    BY <1>1, <1>3, <1>6, <1>11
  <1>14. OwnedJobsRun'
    BY <1>1, <1>11, <1>13 DEF Inv, OwnedJobsRun
  <1>15. OneActiveResult'
    <2>1. jobs'[active'].status = "success"
      BY <1>1, <1>5, <1>8, <1>10, <1>13 DEF Inv, OneActiveResult
    <2>2. ASSUME NEW i \in 1..Len(jobs), jobs'[i].status = "success"
          PROVE  jobs'[i].superseded <=> i # active'
      <3>1. CASE i = j
        BY <1>5, <1>8, <1>13, <3>1
      <3>2. CASE i # j
        <4>1. jobs[i].superseded <=> i # active
          BY <1>1, <1>13, <2>2, <3>2 DEF Inv, OneActiveResult
        <4> QED
          BY <1>5, <1>8, <1>13, <3>2, <4>1
      <3> QED
        BY <3>1, <3>2
    <2> QED
      BY <1>11, <2>1, <2>2 DEF OneActiveResult
  <1>16. SupersededJobsSucceeded'
    <2>1. ASSUME NEW i \in 1..Len(jobs), jobs'[i].superseded, i # j
          PROVE  jobs[i].status = "success"
      BY <1>1, <1>5, <1>8, <1>13, <2>1 DEF Inv, SupersededJobsSucceeded, OneActiveResult
    <2> QED
      BY <1>11, <1>13, <2>1 DEF SupersededJobsSucceeded
  <1>17. GenerationsGrow'
    <2>1. \A i \in 1..Len(jobs) : jobs'[i].generation = jobs[i].generation
      BY <1>3, <1>6, <1>11
    <2> QED
      BY <1>11, <2>1 DEF Inv, GenerationsGrow
  <1> QED
    BY <1>12, <1>14, <1>15, <1>16, <1>17 DEF Inv

\* The other steps of run_job, and a crash: the row is left alone or finished
\* with "retry" or "failed".
LEMMA RunJobInv ==
  ASSUME Inv, NEW w \in Workers, RunJob(w) \/ WorkerCrash(w), ~FinalizeSuccess(w)
  PROVE  Inv'
  <1> DEFINE same == jobs' = jobs
             finished == worker[w].pc # "idle" /\
                         \E s \in {"retry", "failed"} : jobs' = Finished(w, s)
  <1>1. /\ same \/ finished
        /\ active' = active /\ expiries' = expiries
    BY DEF RunJob, StartAnalysis, AbortAnalysis, AbortJob, AnalysisRaises,
           FinalizeFailure, Rejected, WorkerCrash
  <1>2. /\ jobs' \in Seq(Job) /\ Len(jobs') = Len(jobs)
        /\ OwnedJobsRun' /\ SupersededJobsSucceeded'
        /\ OneActiveResult' /\ GenerationsGrow'
    <2>1. CASE same
      BY <1>1, <2>1 DEF Inv, TypeOK, OwnedJobsRun, SupersededJobsSucceeded,
                        OneActiveResult, GenerationsGrow
    <2>2. CASE finished
      BY <1>1, <2>2, FinishJob
    <2> QED
      BY <1>1, <2>1, <2>2
  <1>3. analysis' \in 0..3 /\ crashes' \in 0..MaxCrashes
    BY AnalysisAssumption
       DEF RunJob, StartAnalysis, AbortAnalysis, AbortJob, AnalysisRaises,
           FinalizeFailure, Rejected, WorkerCrash, Inv, TypeOK
  <1>4. PICK new \in Worker : /\ worker' = [worker EXCEPT ![w] = new]
                              /\ new.pc # "idle" => new.job \in 1..Len(jobs)
    <2>1. worker[w] \in Worker /\ (worker[w].pc # "idle" => worker[w].job \in 1..Len(jobs))
      BY DEF Inv, TypeOK
    <2>2. Idle \in Worker /\ Idle.pc = "idle"
      BY DEF Idle, Worker
    <2>3. CASE worker' = [worker EXCEPT ![w] = Idle]
      BY <2>2, <2>3
    <2>4. ASSUME NEW pc \in {"analysing", "aborting", "failing", "rejected"},
                 NEW retry \in BOOLEAN, worker[w].pc # "idle",
                 worker' = [worker EXCEPT ![w] = [worker[w] EXCEPT !.pc = pc, !.retry = retry]]
          PROVE  \E new \in Worker : /\ worker' = [worker EXCEPT ![w] = new]
                                     /\ new.pc # "idle" => new.job \in 1..Len(jobs)
      <3> DEFINE new == [worker[w] EXCEPT !.pc = pc, !.retry = retry]
      <3>1. new \in Worker /\ new.job = worker[w].job
        BY <2>1 DEF Worker
      <3> QED
        BY <2>1, <2>4, <3>1
    <2>5. CASE StartAnalysis(w) \/ FinalizeFailure(w)
      <3>1. worker[w].retry \in BOOLEAN /\ worker[w].pc # "idle"
        BY <2>1, <2>5 DEF Worker, StartAnalysis, FinalizeFailure
      <3>2. \A pc : [worker[w] EXCEPT !.pc = pc]
                       = [worker[w] EXCEPT !.pc = pc, !.retry = worker[w].retry]
        BY <2>1 DEF Worker
      <3>3. \/ worker' = [worker EXCEPT ![w] = Idle]
            \/ worker' = [worker EXCEPT ![w] = [worker[w] EXCEPT !.pc = "analysing"]]
            \/ worker' = [worker EXCEPT ![w] = [worker[w] EXCEPT !.pc = "rejected"]]
        BY <2>5 DEF StartAnalysis, FinalizeFailure
      <3>4. \/ worker' = [worker EXCEPT ![w] = Idle]
            \/ \E pc \in {"analysing", "rejected"} :
                  worker' = [worker EXCEPT ![w] =
                               [worker[w] EXCEPT !.pc = pc, !.retry = worker[w].retry]]
        BY <3>2, <3>3
      <3> QED
        BY <2>3, <2>4, <3>1, <3>4
    <2>6. CASE AbortAnalysis(w) \/ AnalysisRaises(w)
      <3>1. ShouldRetry(w) \in BOOLEAN
        BY DEF ShouldRetry
      <3>2. PICK retry \in BOOLEAN, pc \in {"aborting", "failing"} :
              worker' = [worker EXCEPT ![w] = [worker[w] EXCEPT !.pc = pc, !.retry = retry]]
        BY <2>6, <3>1 DEF AbortAnalysis, AnalysisRaises
      <3>3. worker[w].pc # "idle"
        BY <2>6 DEF AbortAnalysis, AnalysisRaises
      <3> QED
        BY <2>4, <3>2, <3>3
    <2>7. CASE AbortJob(w) \/ Rejected(w) \/ WorkerCrash(w)
      BY <2>3, <2>7 DEF AbortJob, Rejected, WorkerCrash
    <2> QED
      BY <2>5, <2>6, <2>7 DEF RunJob
  <1>5. /\ worker' \in [Workers -> Worker]
        /\ \A v \in Workers : worker'[v].pc # "idle" => worker'[v].job \in 1..Len(jobs')
    BY <1>2, <1>4, WorkerType
  <1>6. TypeOK'
    BY <1>1, <1>2, <1>3, <1>5 DEF Inv, TypeOK
  <1> QED
    BY <1>2, <1>6 DEF Inv

-----------------------------------------------------------------------------
(* The specification. *)

\* An empty table satisfies the invariant.
LEMMA InitInv ==
  Init => Inv
  <1> SUFFICES ASSUME Init PROVE Inv
    OBVIOUS
  <1>1. jobs \in Seq(Job) /\ Len(jobs) = 0 /\ DOMAIN jobs = {}
    BY EmptySeq DEF Init
  <1>2. Idle \in Worker /\ Idle.pc = "idle"
    BY DEF Idle, Worker
  <1>3. TypeOK
    BY <1>1, <1>2, AnalysisAssumption DEF Init, TypeOK
  <1> QED
    BY <1>1, <1>3 DEF Init, Inv, OwnedJobsRun, SupersededJobsSucceeded,
                      OneActiveResult, GenerationsGrow

\* Every step preserves the invariant.
LEMMA NextInv ==
  Inv /\ [Next]_vars => Inv'
  <1> SUFFICES ASSUME Inv, [Next]_vars PROVE Inv'
    OBVIOUS
  <1>1. ASSUME NEW att \in AttemptIds, EnsureAnalysisQueued(att) \/ ReanalyzeTask(att)
        PROVE  Inv'
    BY <1>1, InsertJob DEF EnsureAnalysisQueued, ReanalyzeTask
  <1>2. ASSUME NEW w \in Workers, Claim(w)
        PROVE  Inv'
    BY <1>2, ClaimInv DEF Claim
  <1>3. ASSUME NEW w \in Workers, Heartbeat(w)
        PROVE  Inv'
    <2>1. /\ worker[w].job \in DOMAIN jobs
          /\ jobs[worker[w].job].status # "success"
      BY <1>3, Rows, AnalysisAssumption DEF Heartbeat, Owns, Inv, OwnedJobsRun
    <2>2. expiries' \in 0..MaxExpiries
      BY <1>3 DEF Heartbeat, Inv, TypeOK
    <2> QED
      BY <1>3, <2>1, <2>2, LeaseInv DEF Heartbeat
  <1>4. ASSUME NEW j \in DOMAIN jobs, LeaseExpires(j)
        PROVE  Inv'
    <2>1. expiries' \in 0..MaxExpiries
      BY <1>4, AnalysisAssumption DEF LeaseExpires, Inv, TypeOK
    <2> QED
      BY <1>4, <2>1, LeaseInv DEF LeaseExpires
  <1>5. ASSUME NEW w \in Workers, RunJob(w) \/ WorkerCrash(w)
        PROVE  Inv'
    BY <1>5, FinalizeSuccessInv, RunJobInv
  <1>6. CASE UNCHANGED vars
    BY <1>6 DEF vars, Inv, TypeOK, OwnedJobsRun, SupersededJobsSucceeded,
                OneActiveResult, GenerationsGrow
  <1> QED
    BY <1>1, <1>2, <1>3, <1>4, <1>5, <1>6 DEF Next

\* The inductive invariant holds in every reachable state.
THEOREM Invariance ==
  Spec => []Inv
  BY InitInv, NextInv, PTL DEF Spec

\* The rows, the active job and the daemons keep their types.
THEOREM TypeCorrect ==
  Spec => []TypeOK
  BY Invariance, PTL DEF Inv

\* finalize_success_tx elects one result: of the successful jobs exactly the
\* active one is not superseded.
THEOREM ResultIsUnique ==
  Spec => []OneActiveResult
  BY Invariance, PTL DEF Inv

\* ensureAnalysisQueuedTx and ReanalyzeTask never hand out a generation twice.
THEOREM GenerationsAreFresh ==
  Spec => []GenerationsGrow
  BY Invariance, PTL DEF Inv

\* A finished job is only ever marked superseded: claim_one does not take it,
\* and _finish finds that its late caller owns no lease on it.
THEOREM FinishedIsFinal ==
  Spec => FinishedJobsStay
  <1> DEFINE Step == \A j \in DOMAIN jobs : jobs[j].status \in {"success", "failed"} =>
                       jobs'[j] = [jobs[j] EXCEPT !.superseded = jobs'[j].superseded]
  <1>1. ASSUME Inv, [Next]_vars PROVE [Step]_vars
    <2> SUFFICES ASSUME NEW j \in DOMAIN jobs, jobs[j].status \in {"success", "failed"}
                 PROVE  jobs'[j] = [jobs[j] EXCEPT !.superseded = jobs'[j].superseded]
      OBVIOUS
    <2>1. /\ j \in 1..Len(jobs) /\ jobs[j] \in Job /\ jobs \in Seq(Job)
          /\ DOMAIN jobs = 1..Len(jobs) /\ jobs[j].owner = NoWorker
      <3>1. jobs[j].owner = NoWorker
        BY <1>1 DEF Inv, OwnedJobsRun
      <3> QED
        BY <1>1, <3>1, Rows DEF Inv, TypeOK
    <2>2. SUFFICES \/ jobs'[j] = jobs[j]
                   \/ jobs'[j] = [jobs[j] EXCEPT !.superseded = TRUE]
      BY <2>1 DEF Job
    <2>3. ASSUME NEW w \in Workers, worker[w].pc # "idle", Owns(w)
          PROVE  worker[w].job # j
      BY <2>1, <2>3, AnalysisAssumption DEF Owns
    <2>4. ASSUME NEW w \in Workers, worker[w].pc # "idle", NEW s
          PROVE  Finished(w, s)[j] = jobs[j] /\ DOMAIN Finished(w, s) = DOMAIN jobs
      BY <2>1, <2>3, <2>4 DEF Finished
    <2>5. ASSUME NEW att \in AttemptIds, EnsureAnalysisQueued(att) \/ ReanalyzeTask(att)
          PROVE  jobs'[j] = jobs[j]
      <3>1. \E new : jobs' = Append(jobs, new)
        BY <2>5 DEF EnsureAnalysisQueued, ReanalyzeTask
      <3> QED
        BY <2>1, <3>1
    <2>6. ASSUME NEW w \in Workers, Claim(w) \/ Heartbeat(w)
          PROVE  jobs'[j] = jobs[j]
      <3>1. ASSUME NEW i \in DOMAIN jobs, ClaimOne(w, i)
            PROVE  jobs'[j] = jobs[j]
        <4>1. i # j
          BY <3>1 DEF ClaimOne, Claimable
        <4> QED
          BY <2>1, <3>1, <4>1 DEF ClaimOne
      <3>2. CASE Heartbeat(w)
        BY <2>1, <2>3, <3>2 DEF Heartbeat
      <3> QED
        BY <2>6, <3>1, <3>2 DEF Claim
    <2>7. ASSUME NEW i \in DOMAIN jobs, LeaseExpires(i)
          PROVE  jobs'[j] = jobs[j]
      <3>1. i # j
        BY <2>7 DEF LeaseExpires
      <3> QED
        BY <2>1, <2>7, <3>1 DEF LeaseExpires
    <2>8. ASSUME NEW w \in Workers, FinalizeSuccess(w)
          PROVE  \/ jobs'[j] = jobs[j]
                 \/ jobs'[j] = [jobs[j] EXCEPT !.superseded = TRUE]
      <3>1. worker[w].pc # "idle"
        BY <2>8 DEF FinalizeSuccess
      <3> QED
        BY <2>1, <2>4, <2>8, <3>1 DEF FinalizeSuccess, Superseded
    <2>9. ASSUME NEW w \in Workers, RunJob(w) \/ WorkerCrash(w), ~FinalizeSuccess(w)
          PROVE  jobs'[j] = jobs[j]
      BY <2>4, <2>9 DEF RunJob, StartAnalysis, AbortAnalysis, AbortJob, AnalysisRaises,
                        FinalizeFailure, Rejected, WorkerCrash
    <2>10. CASE UNCHANGED vars
      BY <2>10 DEF vars
    <2> QED
      BY <1>1, <2>5, <2>6, <2>7, <2>8, <2>9, <2>10 DEF Next
  <1> QED
    BY <1>1, Invariance, PTL DEF Spec, FinishedJobsStay

\* _switch_active_job_tx compares attempts before it replaces a result, so the
\* late initial analysis of an early attempt never wins.
THEOREM LateAttemptLoses ==
  Spec => LateAttemptKeepsActive
  <1> DEFINE Step == active # 0 /\ active' # active /\ jobs[active'].trigger = "initial" =>
                       jobs[active].attempt <= jobs[active'].attempt
  <1>1. [Next]_vars => [Step]_vars
    <2> SUFFICES ASSUME Next, active' # active PROVE Step
      BY DEF vars
    <2>1. PICK w \in Workers : FinalizeSuccess(w)
      BY DEF Next, EnsureAnalysisQueued, ReanalyzeTask, Claim, ClaimOne, Heartbeat,
             LeaseExpires, RunJob, StartAnalysis, AbortAnalysis, AbortJob,
             AnalysisRaises, FinalizeFailure, Rejected, WorkerCrash
    <2>2. active' = worker[w].job /\ Switches(worker[w].job)
      BY <2>1 DEF FinalizeSuccess
    <2> QED
      BY <2>2 DEF Switches
  <1> QED
    BY <1>1, PTL DEF Spec, LateAttemptKeepsActive

=============================================================================
