------------------------------- MODULE Timeline -------------------------------
(***************************************************************************)
(* The timeline of a continuous session (coverage_bands.go and             *)
(* GetContinuousTimeline): while windows arrive, a query divides a range   *)
(* of time into intervals with one status each, counts their seconds and   *)
(* draws at most BandLimit bands.  Times are whole seconds; the session    *)
(* starts at 0, all windows are of the queried signal and recent enough    *)
(* not to be compacted.                                                    *)
(***************************************************************************)
EXTENDS Integers, Sequences, FiniteSets, FiniteSetsExt, SequencesExt

CONSTANTS
  MaxSeconds, MaxWindows,
  Grace,          \* continuousTimelineGrace
  Tolerance,      \* pqCoverageMergeTolerance
  BandLimit,      \* continuousCoverageBandLimit
  Resolutions     \* the steps of niceBucketResolution

VARIABLES
  time,
  stopped,   \* stopped_at, or -1 while the session runs
  windows    \* profile_windows, in order of arrival

timelinevars == <<time, stopped, windows>>

Interval(start, end, status) == [start |-> start, end |-> end, status |-> status]
Later(x, y) == Max({x, y})
Earlier(x, y) == Min({x, y})

\* continuousWindowCoverageStatus of an ingested window.
WindowStatuses == {"healthy", "target_idle", "collector_failed", "unknown"}

\* coverageStatusPriority.
Priority(status) ==
  CASE status = "real_gap" -> 5
    [] status = "collector_failed" -> 4
    [] status \in {"target_idle", "startup_grace", "shutdown_grace", "unknown"} -> 3
    [] status = "pending_upload" -> 2
    [] OTHER -> 1

---------------------------------------------------------------------------
(* mergeStatusIntervals.                                                    *)

\* The interval that wins at a point: highest priority, then lowest index.
Winner(ivs, p) ==
  LET active == {i \in DOMAIN ivs : ivs[i].start <= p /\ p < ivs[i].end}
      better(i, j) == \/ Priority(ivs[i].status) > Priority(ivs[j].status)
                      \/ Priority(ivs[i].status) = Priority(ivs[j].status) /\ i < j
  IN  IF active = {} THEN 0 ELSE CHOOSE i \in active : \A j \in active \ {i} : better(i, j)

\* One segment between each two neighbouring ends of intervals that someone wins.
Segments(ivs) ==
  LET points == SetToSortSeq(UNION {{ivs[i].start, ivs[i].end} : i \in DOMAIN ivs}, <)
      pieces == [k \in 1 .. Len(points) - 1 |->
                   LET i == Winner(ivs, points[k])
                   IN  Interval(points[k], points[k + 1], IF i = 0 THEN "none" ELSE ivs[i].status)]
  IN  IF ivs = <<>> THEN <<>> ELSE SelectSeq(pieces, LAMBDA iv : iv.status # "none")

\* Neighbours of the same status at most Tolerance apart become one.
Merge(ivs) ==
  FoldLeft(LAMBDA merged, iv :
             IF /\ merged # <<>>
                /\ iv.status = Last(merged).status
                /\ iv.start - Last(merged).end <= Tolerance
             THEN Append(Front(merged), [Last(merged) EXCEPT !.end = Later(@, iv.end)])
             ELSE Append(merged, iv), <<>>, Segments(ivs))

---------------------------------------------------------------------------
(* The intervals of a query of [from, to].                                  *)

\* continuousFinalizationState: where missing data starts to count as missing.
FinalizedTo ==
  IF stopped >= 0 THEN stopped
  ELSE Max({time - Grace} \cup (IF windows = <<>> THEN {0} ELSE {w.end : w \in ToSet(windows)}))

\* continuousTimelineV2 loads the windows that start in the range.
Loaded(from, to) == SelectSeq(windows, LAMBDA w : from <= w.start /\ w.start <= to)
Healthy(from, to) == {w \in ToSet(Loaded(from, to)) : w.status = "healthy"}

\* continuousSessionBoundariesFor: the time before the first and, of a stopped
\* session, after the last data, cut to the range.
StartupGrace(from, to) ==
  LET end == Min({Grace} \cup {w.start : w \in Healthy(from, to)})
      iv == Interval(from, Earlier(end, to), "startup_grace")
  IN  IF iv.start < iv.end THEN <<iv>> ELSE <<>>

ShutdownGrace(from, to) ==
  LET lastData == Max({0} \cup {w.end : w \in Healthy(from, to)})
      iv == Interval(Later(lastData, from), Earlier(stopped, to), "shutdown_grace")
  IN  IF stopped > lastData /\ iv.start < iv.end THEN <<iv>> ELSE <<>>

\* Windows, graces and the pending tail after the finalized part.
Known(from, to, finalTo) ==
  LET loaded == Loaded(from, to)
      cut == [k \in DOMAIN loaded |-> [loaded[k] EXCEPT !.start = Later(@, from),
                                                        !.end = Earlier(@, to)]]
      grace == StartupGrace(from, to)
      pending == IF grace # <<>> THEN Later(finalTo, grace[1].end) ELSE finalTo
  IN  SelectSeq(cut, LAMBDA iv : iv.start < iv.end)
        \o grace \o ShutdownGrace(from, to)
        \o (IF pending < to THEN <<Interval(pending, to, "pending_upload")>> ELSE <<>>)

\* A hole is a real gap, or unknown when it is not longer than the tolerance.
Hole(start, end) ==
  IF start >= end THEN <<>>
  ELSE <<Interval(start, end, IF end - start > Tolerance THEN "real_gap" ELSE "unknown")>>

\* continuousStatusIntervalsFor: the known intervals and the holes between them.
StatusIntervals(from, to) ==
  LET finalTo == Later(Earlier(FinalizedTo, to), from)
      known == Known(from, to, finalTo)
      scan == FoldLeft(LAMBDA acc, iv :
                         [cursor |-> Later(acc.cursor, iv.end),
                          holes |-> acc.holes \o Hole(acc.cursor, Earlier(iv.start, finalTo))],
                       [cursor |-> from, holes |-> <<>>], Merge(known))
  IN  known \o scan.holes \o Hole(scan.cursor, finalTo)

Merged(from, to) == Merge(StatusIntervals(from, to))

\* Seconds of the intervals with these statuses (continuousCoverageStatsOf).
Seconds(ivs, statuses) ==
  FoldLeft(LAMBDA total, iv : total + IF iv.status \in statuses THEN iv.end - iv.start ELSE 0,
           0, ivs)

Red == {"real_gap", "collector_failed"}

\* continuousOverallStatus.
OverallStatus(ivs) ==
  LET covered == Seconds(ivs, {"healthy"})
      red == Seconds(ivs, Red)
      pending == Seconds(ivs, {"pending_upload"})
      gray == Seconds(ivs, {"target_idle", "startup_grace", "shutdown_grace", "unknown"})
  IN  IF red > 0 THEN IF covered > 0 THEN "mixed"
                      ELSE IF Seconds(ivs, {"collector_failed"}) >= red THEN "collector_failed"
                      ELSE "real_gap"
      ELSE IF pending > covered THEN "pending_upload"
      ELSE IF gray > covered THEN "target_idle"
      ELSE IF covered > 0 THEN "healthy"
      ELSE "unknown"

---------------------------------------------------------------------------
(* continuousCoverageBands.                                                 *)

\* niceBucketResolution of a range cut into BandLimit bands.
Grid(from, to) == Min({step \in Resolutions : to - from <= step * BandLimit})

\* The bucket of a second, counted from the start of the range.
Bucket(t, from, to) == (t - from) \div Grid(from, to)

Overlap(iv, start, end) == Later(0, Earlier(iv.end, end) - Later(iv.start, start))

\* Mutant: an interval counts with its whole length in every band it touches.
BandUncut(ivs, k, from, to) ==
  LET start == from + k * Grid(from, to)
      end == Earlier(start + Grid(from, to), to)
      within == SelectSeq(ivs, LAMBDA iv : Overlap(iv, start, end) > 0)
  IN  [start |-> start, end |-> end, status |-> within[1].status,
       covered |-> Seconds(within, {"healthy"}), gap |-> Seconds(within, Red)]

Band(ivs, k, from, to) ==
  LET start == from + k * Grid(from, to)
      end == Earlier(start + Grid(from, to), to)
      within == SelectSeq(ivs, LAMBDA iv : Overlap(iv, start, end) > 0)
      cut == [i \in DOMAIN within |-> [within[i] EXCEPT !.start = Later(@, start),
                                                        !.end = Earlier(@, end)]]
      shown == CHOOSE i \in DOMAIN cut :
                 \A j \in DOMAIN cut : Priority(cut[i].status) >= Priority(cut[j].status)
  IN  [start |-> start, end |-> end, status |-> cut[shown].status,
       covered |-> Seconds(cut, {"healthy"}), gap |-> Seconds(cut, Red)]

Bands(ivs, from, to) ==
  IF Len(ivs) <= BandLimit
  THEN [i \in DOMAIN ivs |-> [start |-> ivs[i].start, end |-> ivs[i].end, status |-> ivs[i].status,
                              covered |-> Seconds(<<ivs[i]>>, {"healthy"}),
                              gap |-> Seconds(<<ivs[i]>>, Red)]]
  ELSE LET shown == UNION {iv.start .. iv.end - 1 : iv \in ToSet(ivs)}
           buckets == SetToSortSeq({Bucket(t, from, to) : t \in shown}, <)
       IN  [n \in DOMAIN buckets |-> Band(ivs, buckets[n], from, to)]

---------------------------------------------------------------------------
TimelineInit == time = 0 /\ stopped = -1 /\ windows = <<>>

SecondPasses == time < MaxSeconds /\ time' = time + 1 /\ UNCHANGED <<stopped, windows>>

\* A batch with a window of the past is ingested.
IngestWindow(start, end, status) ==
  /\ Len(windows) < MaxWindows
  /\ start < end /\ end <= time
  /\ windows' = Append(windows, Interval(start, end, status))
  /\ UNCHANGED <<time, stopped>>

StopSession == stopped = -1 /\ stopped' = time /\ UNCHANGED <<time, windows>>

TimelineNext ==
  \/ SecondPasses \/ StopSession
  \/ \E start, end \in 0 .. MaxSeconds, status \in WindowStatuses : IngestWindow(start, end, status)

TimelineSpec == TimelineInit /\ [][TimelineNext]_timelinevars

\* The ranges GetContinuousTimeline accepts.
Ranges ==
  LET last == IF stopped >= 0 THEN stopped ELSE time
  IN  {r \in (0 .. last) \X (0 .. last) : r[1] < r[2]}

(* Whatever windows overlap, arrive late or are missing, a timeline divides  *)
(* its range: every second has exactly one status, a session with a red      *)
(* second is not called healthy, and aggregating the intervals into at most  *)
(* BandLimit bands changes neither the covered nor the missing seconds.      *)
TimelineIsExact ==
  \A r \in Ranges :
    LET ivs == Merged(r[1], r[2])
        bands == Bands(ivs, r[1], r[2])
        total(n) == FoldLeft(LAMBDA sum, x : sum + x, 0, n)
    IN  /\ ivs # <<>> /\ ivs[1].start = r[1] /\ Last(ivs).end = r[2]
        /\ \A i \in 1 .. Len(ivs) - 1 : ivs[i].end = ivs[i + 1].start
        /\ OverallStatus(ivs) = "healthy" => \A i \in DOMAIN ivs : ivs[i].status \notin Red
        /\ Len(bands) <= BandLimit
        /\ \A i \in 1 .. Len(bands) - 1 : bands[i].end <= bands[i + 1].start
        /\ total([i \in DOMAIN bands |-> bands[i].covered]) = Seconds(ivs, {"healthy"})
        /\ total([i \in DOMAIN bands |-> bands[i].gap]) = Seconds(ivs, Red)
=============================================================================
