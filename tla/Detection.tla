------------------------------ MODULE Detection ------------------------------
(***************************************************************************)
(* The anomaly detector (detection.go, sentinel_rule.go): one loop loads   *)
(* the enabled rules and judges them one by one.  A histogram rule keeps a *)
(* rolling baseline (median and MAD of the last values) and, when an       *)
(* observation passes every gate, starts a diagnosis task; a db_snapshot   *)
(* rule only records the event.  Each statement on the database is a step  *)
(* of its own, and the process may stop between two of them.               *)
(***************************************************************************)
EXTENDS Integers, Sequences, FiniteSets, FiniteSetsExt, TLC

CONSTANTS
  Rules,        \* rule |-> [signal, windows, hits]
  RuleSets,     \* sets of rules that users may create in one behaviour
  Values,       \* observed values
  Floor,        \* rule.FloorValue
  K,            \* rule.KFactor times madToStdDevFactor
  Window,       \* detectionBaselineWindowSize
  Cooldown, LastTime, MaxStops

ASSUME DetectionAssumption == Cooldown \in Nat

VARIABLES
  rules, time, enabled,
  recent,       \* detection_states.recent_values
  lastFired,    \* detection_states.last_fired_at, 0 when never
  busy,         \* rules whose target and task kind have an active task
  loaded,       \* rules loaded by this turn of the loop and not judged yet
  judged,       \* the rule being judged
  fired,        \* when a rule last fired, 0 when never, for the properties
  forgotten,    \* rules whose last firing was never written down
  stops

detectionvars ==
  <<rules, time, enabled, recent, lastFired, busy, loaded, judged, fired, forgotten, stops>>

NoRule == "none"
NoJudgement == [step |-> "idle", rule |-> NoRule, spread |-> 0, off |-> 0]
IsDB(r) == Rules[r].signal = "db_snapshot"

---------------------------------------------------------------------------
(* Medians are kept doubled, so that the mean of two values stays whole.    *)

\* detectionMedianOf of a sorted sequence, doubled.
MedianOf(sorted) ==
  LET n == Len(sorted)
  IN  IF n = 0 THEN 0
      ELSE IF n % 2 = 1 THEN 2 * sorted[n \div 2 + 1]
      ELSE sorted[n \div 2] + sorted[n \div 2 + 1]

Sorted(values) == SortSeq(values, LAMBDA x, y : x < y)
Distance(x, y) == IF x < y THEN y - x ELSE x - y

Median(values) == MedianOf(Sorted(values))

\* detectionMedianMAD: the median of the distances to the median, four times.
MAD(values) ==
  MedianOf(Sorted([i \in DOMAIN values |-> Distance(2 * values[i], Median(values))]))

\* detectionPersistentEnough of the last values of the trend.
PersistentEnough(trend, r) ==
  LET n == Min({Rules[r].windows, Len(trend)})
      hits == Cardinality({i \in Len(trend) - n + 1 .. Len(trend) : trend[i] > Floor})
  IN  hits >= Rules[r].hits

---------------------------------------------------------------------------
DetectionInit ==
  /\ rules \in RuleSets
  /\ time = 1 /\ enabled = {} /\ busy = {} /\ loaded = {} /\ judged = NoJudgement
  /\ recent = [r \in DOMAIN Rules |-> <<>>]
  /\ lastFired = [r \in DOMAIN Rules |-> 0]
  /\ fired = [r \in DOMAIN Rules |-> 0]
  /\ forgotten = {} /\ stops = 0

TimePasses ==
  /\ time < LastTime /\ time' = time + 1
  /\ UNCHANGED <<rules, enabled, recent, lastFired, busy, loaded, judged, fired, forgotten, stops>>

CreateSentinelRule(r) ==
  /\ r \in rules \ enabled /\ enabled' = enabled \cup {r}
  /\ UNCHANGED <<rules, time, recent, lastFired, busy, loaded, judged, fired, forgotten, stops>>

\* The state and the events of a deleted rule stay.
DeleteSentinelRule(r) ==
  /\ r \in enabled /\ enabled' = enabled \ {r}
  /\ UNCHANGED <<rules, time, recent, lastFired, busy, loaded, judged, fired, forgotten, stops>>

\* A user's task of the same kind, and the end of any of these tasks.
TaskStarts(r) ==
  /\ r \in rules \ busy /\ ~IsDB(r) /\ busy' = busy \cup {r}
  /\ UNCHANGED <<rules, time, enabled, recent, lastFired, loaded, judged, fired, forgotten, stops>>

DiagnosisEnds(r) ==
  /\ r \in busy /\ busy' = busy \ {r}
  /\ UNCHANGED <<rules, time, enabled, recent, lastFired, loaded, judged, fired, forgotten, stops>>

\* evaluateSentinelRules loads the enabled rules (a failed load does nothing) ...
evaluateSentinelRules ==
  /\ judged = NoJudgement /\ loaded = {} /\ enabled # {}
  /\ loaded' = enabled
  /\ UNCHANGED <<rules, time, enabled, recent, lastFired, busy, judged, fired, forgotten, stops>>

\* ... and judges them.  No data or too little coverage ends the judgement here.
NoData(r) ==
  /\ judged = NoJudgement /\ r \in loaded /\ loaded' = loaded \ {r}
  /\ UNCHANGED <<rules, time, enabled, recent, lastFired, busy, judged, fired, forgotten, stops>>

\* evaluateSentinelRule up to detectionUpdateBaseline: the score uses the baseline
\* without the observation, which then joins it whatever the judgement.
\* stored = FALSE: the baseline could not be read or written.
Judge(r, trend, stored) ==
  LET observed == trend[Len(trend)]
      spread == IF stored THEN MAD(recent[r]) ELSE 0
      off == Distance(2 * observed, Median(recent[r]))
  IN  /\ judged = NoJudgement /\ r \in loaded /\ ~IsDB(r)
      /\ loaded' = loaded \ {r}
      /\ recent' = IF ~stored THEN recent
                   ELSE [recent EXCEPT ![r] =
                           LET all == Append(@, observed)
                           IN  SubSeq(all, Len(all) - Min({Window, Len(all)}) + 1, Len(all))]
      /\ judged' = IF observed > Floor /\ PersistentEnough(trend, r)
                   THEN [step |-> "deviation", rule |-> r, spread |-> spread, off |-> off]
                   ELSE NoJudgement
      /\ UNCHANGED <<rules, time, enabled, lastFired, busy, fired, forgotten, stops>>

\* evaluateDBSnapshotRule: a lock wait or a digest above its limits; hit says so.
JudgeDB(r, hit) ==
  /\ judged = NoJudgement /\ r \in loaded /\ IsDB(r)
  /\ loaded' = loaded \ {r}
  /\ judged' = IF hit THEN [step |-> "cooldown", rule |-> r, spread |-> 0, off |-> 0]
               ELSE NoJudgement
  /\ UNCHANGED <<rules, time, enabled, recent, lastFired, busy, fired, forgotten, stops>>

\* The deviation gate: the distance to the median must exceed K times the MAD.
Deviation ==
  /\ judged.step = "deviation"
  /\ judged' = IF judged.spread > 0 /\ 2 * judged.off <= K * judged.spread THEN NoJudgement
             ELSE [judged EXCEPT !.step = "cooldown"]
  /\ UNCHANGED <<rules, time, enabled, recent, lastFired, busy, loaded, fired, forgotten, stops>>

InCooldown(r) == lastFired[r] # 0 /\ time - lastFired[r] < Cooldown

\* detectionInCooldown; a state that cannot be read counts as none.
CheckCooldown ==
  /\ judged.step = "cooldown"
  /\ judged' = IF InCooldown(judged.rule) THEN NoJudgement
             ELSE [judged EXCEPT !.step = IF IsDB(judged.rule) THEN "record" ELSE "overlap"]
  /\ UNCHANGED <<rules, time, enabled, recent, lastFired, busy, loaded, fired, forgotten, stops>>

\* canStartCollection and detectionHasActiveTask; room = FALSE: low disk, or a
\* query that failed and counts as an active task.
CheckOverlap(room) ==
  /\ judged.step = "overlap"
  /\ judged' = IF room /\ judged.rule \notin busy THEN [judged EXCEPT !.step = "create"]
               ELSE NoJudgement
  /\ UNCHANGED <<rules, time, enabled, recent, lastFired, busy, loaded, fired, forgotten, stops>>

Fires(r) ==
  /\ fired' = [fired EXCEPT ![r] = time]
  /\ forgotten' = forgotten \cup {r}
  /\ judged' = [judged EXCEPT !.step = "mark"]

\* triggerDetectionDiagnosis; a failure leaves no event and no mark.
CreateDiagnosis(ok) ==
  /\ judged.step = "create"
  /\ IF ok THEN Fires(judged.rule) /\ busy' = busy \cup {judged.rule}
           ELSE judged' = NoJudgement /\ UNCHANGED <<fired, forgotten, busy>>
  /\ UNCHANGED <<rules, time, enabled, recent, lastFired, loaded, stops>>

\* The fired_no_action event of a db_snapshot rule.
RecordEvent ==
  /\ judged.step = "record" /\ Fires(judged.rule)
  /\ UNCHANGED <<rules, time, enabled, recent, lastFired, busy, loaded, stops>>

\* Mutant: a db_snapshot rule has no state to mark.
MarkFiredHistogram(ok) ==
  /\ judged.step = "mark"
  /\ lastFired' = IF ok /\ ~IsDB(judged.rule) THEN [lastFired EXCEPT ![judged.rule] = time]
                  ELSE lastFired
  /\ forgotten' = IF ok THEN forgotten \ {judged.rule} ELSE forgotten
  /\ judged' = NoJudgement
  /\ UNCHANGED <<rules, time, enabled, recent, busy, loaded, fired, stops>>

\* markDetectionFired; a failed write is only logged.
MarkFired(ok) ==
  /\ judged.step = "mark"
  /\ lastFired' = IF ok THEN [lastFired EXCEPT ![judged.rule] = time] ELSE lastFired
  /\ forgotten' = IF ok THEN forgotten \ {judged.rule} ELSE forgotten
  /\ judged' = NoJudgement
  /\ UNCHANGED <<rules, time, enabled, recent, busy, loaded, fired, stops>>

Crash ==
  /\ stops < MaxStops /\ stops' = stops + 1
  /\ judged' = NoJudgement /\ loaded' = {}
  /\ UNCHANGED <<rules, time, enabled, recent, lastFired, busy, fired, forgotten>>

Trends == UNION {[1 .. n -> Values] : n \in 1 .. 2}

DetectionNext ==
  \/ TimePasses
  \/ \E r \in DOMAIN Rules : \/ CreateSentinelRule(r) \/ DeleteSentinelRule(r)
                             \/ TaskStarts(r) \/ DiagnosisEnds(r) \/ NoData(r)
                             \/ \E trend \in Trends, stored \in BOOLEAN : Judge(r, trend, stored)
                             \/ \E hit \in BOOLEAN : JudgeDB(r, hit)
  \/ evaluateSentinelRules \/ Deviation \/ CheckCooldown
  \/ \E ok \in BOOLEAN : CheckOverlap(ok) \/ CreateDiagnosis(ok) \/ MarkFired(ok)
  \/ RecordEvent
  \/ Crash

DetectionSpec == DetectionInit /\ [][DetectionNext]_detectionvars

---------------------------------------------------------------------------
(* A rule does not fire twice within its cooldown, unless the time of the   *)
(* first firing was never written: the detector stopped, or the write       *)
(* failed, between the diagnosis task and the mark.                          *)
CooldownIsKept ==
  [][\A r \in DOMAIN Rules \ forgotten :
       judged.rule = r /\ judged.step # "mark" /\ judged'.step = "mark" /\ fired[r] # 0
         => time - fired[r] >= Cooldown]_detectionvars
=============================================================================
