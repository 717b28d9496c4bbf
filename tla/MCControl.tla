----------------------------- MODULE MCControl -----------------------------
(* The control plane: continuous sessions, schedules, composite tasks, the   *)
(* anomaly detector and the table of agents.  They share no state, so each   *)
(* behaviour moves one of them and leaves the others in their first state.   *)
EXTENDS ContinuousSessions, AgentRegistry, Schedules, CompositeTasks, Detection

VARIABLE plane

allvars == <<plane, vars, schedulevars, compositevars, detectionvars, registryvars>>

\* Two sessions of one process, of two processes with room for both or for one,
\* a host and a process session, and one session whose agent samples and may
\* crash or lose an answer once.
OfProcess(x) == [scope |-> "process", selector |-> x]
Host == [scope |-> "host", selector |-> "host"]
Pair(x, y) == "s1" :> x @@ "s2" :> y
Single == "s1" :> OfProcess("a")
Full == Pair(OfProcess("a"), OfProcess("c"))
RequestsDef == {Pair(OfProcess("a"), OfProcess("a")), Pair(OfProcess("a"), OfProcess("b")), Full,
                Pair(Host, OfProcess("b")), Single}
LimitDef == [r \in RequestsDef |-> IF r = Full THEN 1 ELSE 2]
OneIfSingle == [r \in RequestsDef |-> IF r = Single THEN 1 ELSE 0]

\* A plan with an interval or one with a cron expression, two processes.
ProcessDef == "a1" :> "a" @@ "b1" :> "b" @@ "b2" :> "b"

PoliciesDef == [kind : {"ALL_REQUIRED", "BEST_EFFORT"}, quorum : {0}]
               \cup [kind : {"QUORUM"}, quorum : {0, 2}]

RulesDef == "io" :> [signal |-> "io_latency", windows |-> 2, hits |-> 2]
            @@ "db" :> [signal |-> "db_snapshot", windows |-> 1, hits |-> 1]

ControlInit ==
  /\ plane \in {"sessions", "schedules", "composite", "detection", "agents"}
  /\ Init /\ ScheduleInit /\ CompositeInit /\ DetectionInit /\ RegistryInit
  /\ plane # "sessions" => req = Single
  /\ plane # "schedules" => wanted = {"p"}
  /\ plane # "composite" => policy = CHOOSE p \in Policies : TRUE
  /\ plane # "detection" => rules = {"io"}

ControlNext ==
  /\ UNCHANGED plane
  /\ plane # "sessions" => UNCHANGED vars
  /\ plane # "schedules" => UNCHANGED schedulevars
  /\ plane # "composite" => UNCHANGED compositevars
  /\ plane # "detection" => UNCHANGED detectionvars
  /\ plane # "agents" => UNCHANGED registryvars
  /\ \/ plane = "sessions" /\ Next
     \/ plane = "schedules" /\ ScheduleNext
     \/ plane = "composite" /\ CompositeNext
     \/ plane = "detection" /\ DetectionNext
     \/ plane = "agents" /\ RegistryNext

\* The one liveness property is about the sessions, and so is the fairness; the
\* safety properties of the other parts need none.
ControlSpec == ControlInit /\ [][ControlNext]_allvars /\ Fairness
=============================================================================
