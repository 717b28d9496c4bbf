------------------------------ MODULE DiskGuard ------------------------------
(***************************************************************************)
(* The capacity gate (disk_guard.go, disk_guard_v2.go): every entry that   *)
(* starts a collection asks canStartCollection; a reading below            *)
(* required_free halts collection, and the 60-second check resumes it only *)
(* after RecoveryChecks readings in a row above required_free plus a       *)
(* hysteresis.  Readings of the disk are taken before the lock.            *)
(***************************************************************************)
EXTENDS Naturals, FiniteSets, FiniteSetsExt

CONSTANTS
  Requests,       \* requests that may start a collection
  Hours,          \* hours of the ingest history
  MaxBytes,       \* most bytes ingested in an hour
  Disk,           \* amounts of free space
  MinFree, Critical, Reserve, Hysteresis, RecoveryChecks, Quota,
  MaxChanges      \* changes of the free space

ASSUME DiskAssumption == RecoveryChecks \in Nat

VARIABLES
  free,      \* free bytes, or Unknown while statfs fails
  changes,   \* how often free has changed
  staged,    \* staged[h]: bytes of batches of hour h not yet compacted
  ingested,  \* ingested[h]: bytes of all batches of hour h
  blocks,    \* bytes of v1 and v2 blocks
  halted, consecutiveOK,  \* parquetDiskState
  check,     \* the 60-second check in progress
  request,   \* requests in progress
  fresh      \* good checks begun and ended since a reading last halted collection

diskvars ==
  <<free, changes, staged, ingested, blocks, halted, consecutiveOK, check, request, fresh>>

Unknown == 99
NoCheck == [step |-> "idle", seen |-> Unknown, stale |-> FALSE]
NoRequest == [step |-> "idle", seen |-> Unknown]

\* The level of currentStorageSnapshot that the gates look at.
Emergency(seen) == seen # Unknown /\ seen < MinFree

\* p95HourlyIngestBytes over the hours that have batches.
P95 ==
  LET totals == {h \in Hours : ingested[h] > 0}
      rank == ((Cardinality(totals) - 1) * 95) \div 100 + 1
  IN  IF totals = {} THEN 0
      ELSE CHOOSE v \in {ingested[h] : h \in totals} :
             /\ Cardinality({h \in totals : ingested[h] < v}) < rank
             /\ Cardinality({h \in totals : ingested[h] <= v}) >= rank

\* largestPendingCompactionInput.
LargestPending == Max({staged[h] : h \in Hours})

\* requiredFreeBytes: protection line, reserve, twice the largest compaction and
\* twice the hourly ingest, at least the critical level.
RequiredFree == Max({Critical, MinFree + Reserve + 2 * LargestPending + 2 * P95})

DiskInit ==
  /\ free \in Disk /\ changes = 0
  /\ staged = [h \in Hours |-> 0] /\ ingested = [h \in Hours |-> 0] /\ blocks = 0
  /\ halted = FALSE /\ consecutiveOK = 0
  /\ check = NoCheck /\ request = [r \in Requests |-> NoRequest]
  /\ fresh = RecoveryChecks

\* Other users of the disk, cleaning, or a failing statfs.
DiskChanges(to) ==
  /\ changes < MaxChanges /\ free # to
  /\ free' = to /\ changes' = changes + 1
  /\ UNCHANGED <<staged, ingested, blocks, halted, consecutiveOK, check, request, fresh>>

\* capacityHalted, the gate of ingestion, lets a batch of hour
\* h in; it is staged until the block builder takes it.
IngestBatch(h) ==
  /\ ~halted /\ ingested[h] < MaxBytes
  /\ staged' = [staged EXCEPT ![h] = @ + 1] /\ ingested' = [ingested EXCEPT ![h] = @ + 1]
  /\ UNCHANGED <<free, changes, blocks, halted, consecutiveOK, check, request, fresh>>

QuotaUsed == FoldSet(LAMBDA h, total : total + staged[h], 0, Hours) + blocks

\* maintenanceSpaceOK(0) and continuousQuotaOK, the gates of the block builder.
Compact(h) ==
  /\ free # Unknown /\ free >= MinFree + Reserve
  /\ QuotaUsed < Quota
  /\ staged[h] > 0
  /\ blocks' = blocks + staged[h] /\ staged' = [staged EXCEPT ![h] = 0]
  /\ UNCHANGED <<free, changes, ingested, halted, consecutiveOK, check, request, fresh>>

\* checkStoragePressure takes a snapshot; tickRecoveryState works on it later.
\* consecutiveOK is only compared with RecoveryChecks, so it is capped there.
CheckReads ==
  /\ check.step = "idle"
  /\ check' = [step |-> "read", seen |-> free, stale |-> FALSE]
  /\ UNCHANGED <<free, changes, staged, ingested, blocks, halted, consecutiveOK, request, fresh>>

Blocked == check.seen = Unknown \/ check.seen < RequiredFree
Recovered == ~Blocked /\ check.seen >= RequiredFree + Hysteresis

tickRecoveryState ==
  /\ check.step = "read"
  /\ consecutiveOK' = IF Recovered THEN Min({consecutiveOK + 1, RecoveryChecks}) ELSE 0
  /\ halted' = (Blocked \/ (halted /\ consecutiveOK' < RecoveryChecks))
  /\ fresh' = IF Blocked THEN 0
              ELSE IF Recovered /\ ~check.stale /\ fresh < RecoveryChecks THEN fresh + 1 ELSE fresh
  /\ check' = NoCheck
  /\ UNCHANGED <<free, changes, staged, ingested, blocks, request>>

\* canStartCollection refuses below the protection line, and when statfs fails,
\* without halting; ...
CanStart(r) ==
  /\ request[r].step = "idle"
  /\ request' = [request EXCEPT ![r].step = IF free = Unknown \/ Emergency(free) THEN "refused"
                                             ELSE "passed"]
  /\ UNCHANGED <<free, changes, staged, ingested, blocks, halted, consecutiveOK, check, fresh>>

\* ... collectionCapacityOK takes a snapshot of its own, ...
CapacityReads(r) ==
  /\ request[r].step = "passed"
  /\ request' = [request EXCEPT ![r] = IF free = Unknown THEN [@ EXCEPT !.step = "refused"]
                                       ELSE [step |-> "read", seen |-> free]]
  /\ UNCHANGED <<free, changes, staged, ingested, blocks, halted, consecutiveOK, check, fresh>>

\* Mutant: a reading that halts collection keeps the count of good checks.
CapacityOKKeepsCount(r) ==
  /\ request[r].step = "read"
  /\ LET low == request[r].seen < RequiredFree
     IN  /\ halted' = (halted \/ low)
         /\ fresh' = IF low THEN 0 ELSE fresh
         /\ check' = IF low THEN [check EXCEPT !.stale = check.step = "read"] ELSE check
         /\ request' = [request EXCEPT ![r] = [step |-> IF halted' THEN "refused" ELSE "admitted",
                                               seen |-> Unknown]]
  /\ UNCHANGED <<free, changes, staged, ingested, blocks, consecutiveOK>>

\* ... and decides under the lock.
collectionCapacityOK(r) ==
  /\ request[r].step = "read"
  /\ LET low == request[r].seen < RequiredFree
     IN  /\ halted' = (halted \/ low)
         /\ consecutiveOK' = IF low THEN 0 ELSE consecutiveOK
         /\ fresh' = IF low THEN 0 ELSE fresh
         /\ check' = IF low THEN [check EXCEPT !.stale = check.step = "read"] ELSE check
         /\ request' = [request EXCEPT ![r] = [step |-> IF halted' THEN "refused" ELSE "admitted",
                                               seen |-> Unknown]]
  /\ UNCHANGED <<free, changes, staged, ingested, blocks>>

\* The caller is answered and may ask again.
Answered(r) ==
  /\ request[r].step \in {"refused", "admitted"}
  /\ request' = [request EXCEPT ![r] = NoRequest]
  /\ UNCHANGED <<free, changes, staged, ingested, blocks, halted, consecutiveOK, check, fresh>>

\* The state is in memory only.
RestartGuard ==
  /\ halted
  /\ halted' = FALSE /\ consecutiveOK' = 0 /\ fresh' = RecoveryChecks
  /\ check' = NoCheck /\ request' = [r \in Requests |-> NoRequest]
  /\ UNCHANGED <<free, changes, staged, ingested, blocks>>

DiskNext ==
  \/ \E to \in Disk \cup {Unknown} : DiskChanges(to)
  \/ \E h \in Hours : IngestBatch(h) \/ Compact(h)
  \/ CheckReads \/ tickRecoveryState
  \/ \E r \in Requests : CanStart(r) \/ CapacityReads(r) \/ collectionCapacityOK(r) \/ Answered(r)
  \/ RestartGuard

DiskSpec == DiskInit /\ [][DiskNext]_diskvars

---------------------------------------------------------------------------
(* Once a reading has halted collection, a request is admitted only after   *)
(* at least RecoveryChecks - 1 checks that read the disk after that halt    *)
(* found it above required_free plus the hysteresis: the one check that had *)
(* read it before the halt may still be counted, no other.                  *)
RecoveryIsObserved ==
  [][\A r \in Requests : request[r].step = "read" /\ request'[r].step = "admitted"
                           => fresh + 1 >= RecoveryChecks]_diskvars
=============================================================================
