----------------------------- MODULE Schedules -----------------------------
(***************************************************************************)
(* The periodic collections of the apiserver: plans with an interval,      *)
(* driven by a worker that polls the database, and plans with a cron       *)
(* expression, driven by the cron of each process.  Both end in            *)
(* executeScheduledTaskAt, which claims the slot in schedule_triggers and  *)
(* creates a task.  Several processes serve the same database, and any of  *)
(* them may end between two statements.                                    *)
(***************************************************************************)
EXTENDS Naturals, FiniteSets

CONSTANTS Plans,      \* schedule ids, all for one target and task kind
          CronPlans,  \* those with a cron expression
          Wanted,     \* sets of plans that users may create
          Interval,   \* interval_seconds of the others
          Threads,    \* goroutines that execute plans
          Process,    \* the apiserver process of each
          Pollers,    \* those that poll; the others run entries of the cron
          MaxTime,    \* bound: the clock, in minutes
          MaxCrashes  \* bound: processes that end

VARIABLES
  wanted,   \* the plans users create
  clock,
  plan,     \* rows of schedule_tasks
  entries,  \* per process: entries of its cron, and those CronJobs knows
  trigger,  \* schedule_triggers.status by plan and slot
  tasks,    \* tasks created, by plan and slot
  active,   \* plans and slots of tasks not ended
  thread,   \* what each thread is doing
  crashes

schedulevars == <<wanted, clock, plan, entries, trigger, tasks, active, thread, crashes>>

Slots == 0..(MaxTime + Interval)
Processes == {Process[t] : t \in Threads}
NoThread == [step |-> "idle", due |-> {}, at |-> 0, sid |-> "none", slot |-> 0]
NoEntries == [n |-> [p \in Plans |-> 0], known |-> {}]
Enabled == {p \in Plans : plan[p].there /\ plan[p].enabled}

\* The first slot after time, from a slot on (intervalNextRun and the loop of
\* triggerIntervalSchedule).
NextSlot(slot, time) ==
  IF slot > time THEN slot ELSE slot + Interval * (((time - slot) \div Interval) + 1)

ScheduleInit ==
  /\ wanted \in Wanted
  /\ clock = 0
  /\ plan = [p \in Plans |-> [there |-> FALSE, made |-> FALSE, enabled |-> FALSE, next |-> 0]]
  /\ entries = [q \in Processes |-> NoEntries]
  /\ trigger = [p \in Plans |-> [s \in Slots |-> "none"]]
  /\ tasks = [p \in Plans |-> [s \in Slots |-> 0]]
  /\ active = {}
  /\ thread = [t \in Threads |-> NoThread]
  /\ crashes = 0

MinutePasses ==
  /\ clock < MaxTime
  /\ clock' = clock + 1
  /\ UNCHANGED <<wanted, plan, entries, trigger, tasks, active, thread, crashes>>

---------------------------------------------------------------------------
(* Requests on plans. *)

\* addCronJob: the entry added before, if any, stays.
AddCronJob(q, p) ==
  entries' = IF p \in CronPlans
             THEN [entries EXCEPT ![q].n[p] = @ + 1, ![q].known = @ \cup {p}]
             ELSE entries

RemoveCronJob(q, p) ==
  entries' = IF p \in entries[q].known
             THEN [entries EXCEPT ![q].n[p] = @ - 1, ![q].known = @ \ {p}]
             ELSE entries

\* CreateSchedule with a start time: in the past it means the next slot from it.
CreateSchedule(q, p, start) ==
  /\ p \in wanted /\ ~plan[p].made
  /\ plan' = [plan EXCEPT ![p] = [there |-> TRUE, made |-> TRUE, enabled |-> TRUE,
                                  next |-> NextSlot(start, clock)]]
  /\ AddCronJob(q, p)
  /\ UNCHANGED <<wanted, clock, trigger, tasks, active, thread, crashes>>

DeleteSchedule(q, p) ==
  /\ plan[p].there
  /\ plan' = [plan EXCEPT ![p].there = FALSE]
  /\ RemoveCronJob(q, p)
  /\ UNCHANGED <<wanted, clock, trigger, tasks, active, thread, crashes>>

\* ToggleSchedule finds deleted plans too: their row is not written, but the
\* cron is told.
ToggleSchedule(q, p) ==
  /\ plan[p].made
  /\ plan' = IF plan[p].there THEN [plan EXCEPT ![p].enabled = ~@] ELSE plan
  /\ IF plan[p].enabled THEN RemoveCronJob(q, p)
     ELSE entries[q].n[p] < 2 /\ AddCronJob(q, p)
  /\ UNCHANGED <<wanted, clock, trigger, tasks, active, thread, crashes>>

---------------------------------------------------------------------------
(* The execution of a plan. *)

\* pollDueSchedules.
Poll(t) ==
  /\ t \in Pollers /\ thread[t].step = "idle"
  /\ LET due == {p \in Enabled \ CronPlans : plan[p].next <= clock}
     IN  /\ due # {}
         /\ thread' = [thread EXCEPT ![t] = [step |-> "next",
                                             due |-> {<<p, plan[p].next>> : p \in due},
                                             at |-> clock, sid |-> "none", slot |-> 0]]
  /\ UNCHANGED <<wanted, clock, plan, entries, trigger, tasks, active, crashes>>

NextDue(t) ==
  /\ thread[t].step = "next" /\ thread[t].due # {}
  /\ \E d \in thread[t].due :
       thread' = [thread EXCEPT ![t] = [step |-> "claim", due |-> thread[t].due \ {d},
                                    at |-> thread[t].at, sid |-> d[1], slot |-> d[2]]]
  /\ UNCHANGED <<wanted, clock, plan, entries, trigger, tasks, active, crashes>>

PollDone(t) ==
  /\ thread[t].step = "next" /\ thread[t].due = {}
  /\ thread' = [thread EXCEPT ![t] = NoThread]
  /\ UNCHANGED <<wanted, clock, plan, entries, trigger, tasks, active, crashes>>

\* executeScheduledTask: an entry of the cron, in the current minute.
CronFires(t, p) ==
  /\ t \notin Pollers /\ thread[t].step = "idle"
  /\ entries[Process[t]].n[p] > 0
  /\ thread' = [thread EXCEPT ![t] = [step |-> "claim", due |-> {}, at |-> clock, sid |-> p,
                                  slot |-> clock]]
  /\ UNCHANGED <<wanted, clock, plan, entries, trigger, tasks, active, crashes>>

\* What follows when thread t is done with a slot: a poller advances the plan.
After(t) == IF t \in Pollers THEN "advance" ELSE "idle"
Mark(t, status) == [trigger EXCEPT ![thread[t].sid][thread[t].slot] = status]

\* Mutant: no unique key; a slot still being executed can be claimed.
ClaimUnkeyed(t, fails) ==
  /\ thread[t].step = "claim"
  /\ LET wins == trigger[thread[t].sid][thread[t].slot] \in {"none", "claimed"} /\ ~fails
     IN  /\ trigger' = IF wins THEN Mark(t, "claimed") ELSE trigger
         /\ thread' = [thread EXCEPT ![t].step = IF wins THEN "check" ELSE After(t)]
  /\ UNCHANGED <<wanted, clock, plan, entries, tasks, active, crashes>>

\* claimScheduleTrigger: the unique key lets one thread through; a thread that
\* finds the advisory lock taken, or fails, does not claim either.
Claim(t, fails) ==
  /\ thread[t].step = "claim"
  /\ LET wins == trigger[thread[t].sid][thread[t].slot] = "none" /\ ~fails
     IN  /\ trigger' = IF wins THEN Mark(t, "claimed") ELSE trigger
         /\ thread' = [thread EXCEPT ![t].step = IF wins THEN "check" ELSE After(t)]
  /\ UNCHANGED <<wanted, clock, plan, entries, tasks, active, crashes>>

\* canStartCollection refuses, or a task of the target and kind is still active.
Skip(t, status) ==
  /\ thread[t].step = "check"
  /\ status = "skipped_overlap" => active # {}
  /\ trigger' = Mark(t, status)
  /\ thread' = [thread EXCEPT ![t].step = After(t)]
  /\ UNCHANGED <<wanted, clock, plan, entries, tasks, active, crashes>>

\* The count of active tasks fails: the claim stays.
CheckFails(t) ==
  /\ thread[t].step = "check"
  /\ thread' = [thread EXCEPT ![t].step = After(t)]
  /\ UNCHANGED <<wanted, clock, plan, entries, trigger, tasks, active, crashes>>

Pass(t) ==
  /\ thread[t].step = "check"
  /\ active = {}
  /\ thread' = [thread EXCEPT ![t].step = "create"]
  /\ UNCHANGED <<wanted, clock, plan, entries, trigger, tasks, active, crashes>>

\* createTaskWithOutbox, which may fail.
CreateTask(t) ==
  /\ thread[t].step = "create"
  /\ tasks' = [tasks EXCEPT ![thread[t].sid][thread[t].slot] = @ + 1]
  /\ active' = active \cup {<<thread[t].sid, thread[t].slot>>}
  /\ thread' = [thread EXCEPT ![t].step = "created"]
  /\ UNCHANGED <<wanted, clock, plan, entries, trigger, crashes>>

CreateFails(t) ==
  /\ thread[t].step = "create"
  /\ trigger' = Mark(t, "failed")
  /\ thread' = [thread EXCEPT ![t].step = After(t)]
  /\ UNCHANGED <<wanted, clock, plan, entries, tasks, active, crashes>>

Created(t) ==
  /\ thread[t].step = "created"
  /\ trigger' = Mark(t, "created")
  /\ thread' = [thread EXCEPT ![t].step = After(t)]
  /\ UNCHANGED <<wanted, clock, plan, entries, tasks, active, crashes>>

\* triggerIntervalSchedule, after the execution: from the slot and the time the
\* poller read; a deleted plan has no row to update.
AdvancePlan(t) ==
  /\ thread[t].step = "advance"
  /\ plan' = IF plan[thread[t].sid].there
             THEN [plan EXCEPT ![thread[t].sid].next = NextSlot(thread[t].slot, thread[t].at)]
             ELSE plan
  /\ thread' = [thread EXCEPT ![t].step = "next"]
  /\ UNCHANGED <<wanted, clock, entries, trigger, tasks, active, crashes>>

CollectionEnds(a) ==
  /\ a \in active
  /\ active' = active \ {a}
  /\ UNCHANGED <<wanted, clock, plan, entries, trigger, tasks, thread, crashes>>

\* A process ends and is started again: initCron adds the enabled cron plans.
Restart(q) ==
  /\ crashes < MaxCrashes
  /\ crashes' = crashes + 1
  /\ thread' = [t \in Threads |-> IF Process[t] = q THEN NoThread ELSE thread[t]]
  /\ entries' = [entries EXCEPT ![q] =
                   [n |-> [p \in Plans |-> IF p \in Enabled \cap CronPlans THEN 1 ELSE 0],
                    known |-> Enabled \cap CronPlans]]
  /\ UNCHANGED <<wanted, clock, plan, trigger, tasks, active>>

---------------------------------------------------------------------------
ThreadStep(t) ==
  \/ Poll(t) \/ NextDue(t) \/ PollDone(t) \/ \E p \in Plans : CronFires(t, p)
  \/ \E fails \in BOOLEAN : Claim(t, fails)
  \/ \E status \in {"skipped_low_disk", "skipped_overlap"} : Skip(t, status)
  \/ CheckFails(t) \/ Pass(t)
  \/ CreateTask(t) \/ CreateFails(t) \/ Created(t) \/ AdvancePlan(t)

RequestStep ==
  \E q \in Processes, p \in Plans :
    \/ \E start \in 0..MaxTime : CreateSchedule(q, p, start)
    \/ DeleteSchedule(q, p) \/ ToggleSchedule(q, p)

ScheduleNext ==
  \/ MinutePasses \/ RequestStep
  \/ \E t \in Threads : ThreadStep(t)
  \/ \E a \in active : CollectionEnds(a)
  \/ \E q \in Processes : Restart(q)

ScheduleSpec == ScheduleInit /\ [][ScheduleNext]_schedulevars

---------------------------------------------------------------------------
(* However many processes execute a plan, and wherever they end, a slot of  *)
(* it gives at most one task, and the trigger row tells the truth about it: *)
(* one task where it says created, none where it says skipped or failed.    *)
OneTaskPerSlot ==
  \A p \in Plans, s \in Slots :
    /\ tasks[p][s] <= 1
    /\ trigger[p][s] = "created" => tasks[p][s] = 1
    /\ trigger[p][s] \in {"none", "skipped_low_disk", "skipped_overlap", "failed"} => tasks[p][s] = 0
=============================================================================
