---------------------------- MODULE ParquetLedger ----------------------------
(***************************************************************************)
(* The Parquet ledger beside the data of ContinuousStore: raw blocks built *)
(* from the window rows of a sealed hour, their 5m and 1h downsamples, the *)
(* migration receipts, the fine-grained GC that deletes migrated metadata  *)
(* and minute objects, the failure records and the sweep                   *)
(* (apiserver/server/parquet_*.go, fine_gc.go, migration_*.go,             *)
(* receipt_gc.go, coverage.go).                                            *)
(*                                                                         *)
(* One goroutine runs every step of runParquetCycle.  Each call of a cycle *)
(* ends early on a database error, so the model lets the worker start the  *)
(* calls in any order.  A block's rows are represented by the batches they *)
(* come from.  Only passed receipts are ever read: a revoked receipt and a *)
(* collected one are both absent.  A block whose reconciliation fails is   *)
(* retired in the same transaction, so an active block is a reconciled one *)
(***************************************************************************)
EXTENDS ContinuousStore

CONSTANTS
  PqIds,      \* ids of ledger blocks
  RetryLimit  \* MigrationFailureRetryLimit

\* An id is a row's own; 0 stands for the absence of a block.
ASSUME IdsAssumption == 0 \notin V1Ids /\ 0 \notin PqIds

VARIABLES
  pq,        \* continuous_parquet_blocks with their rows and lineage
  receipts,  \* passed migration receipts <<batch, signal, block>>
  cov,       \* coverage segments: the windows <<batch, signal>> they span
  miss,      \* migration failures of windows: missing source objects
  delfail,   \* batches with a failed deletion of their minute object
  work       \* what the Parquet worker is in the middle of

pqvars == <<pq, receipts, cov, miss, delfail, work>>
vars == <<v1vars, pqvars>>

Enabled == mode \in {"shadow", "prefer", "enforce"}
Idle == [step |-> "idle"]
NoPq == [status |-> "none", sig |-> "", res |-> "", rows |-> {}, seen |-> {}, src |-> 0]
NoMiss == [st |-> "none", n |-> 0, key |-> << >>]

Finer == [r \in {"5m", "1h"} |-> IF r = "5m" THEN "raw" ELSE "5m"]

\* pqFindActiveBlock.
ActivePq(s, r) ==
  LET found == {k \in PqIds : pq[k].status = "active" /\ pq[k].sig = s /\ pq[k].res = r}
  IN IF found = {} THEN 0 ELSE CHOOSE k \in found : TRUE

Unresolved(w) == miss[w].st \in {"retrying", "quarantined"}

\* recordContinuousMigrationFailure for the windows W, whose object_key was
\* read as key[w]: a quarantined record stays quarantined.
Missed(W, key) ==
  [w \in DOMAIN miss |->
     IF w \notin W THEN miss[w]
     ELSE [st |-> IF miss[w].st = "quarantined" THEN "quarantined" ELSE "retrying",
           n |-> IF miss[w].st = "none" THEN 0
                 ELSE IF miss[w].n < RetryLimit THEN miss[w].n + 1 ELSE miss[w].n,
           key |-> key[w]]]

-----------------------------------------------------------------------------
(* Building raw blocks *)

\* pqSealedRawHours: some window's signal has no active raw block, or the
\* window is newer than the building row of that block.
NeedsBuild == \E w \in win : LET k == ActivePq(w[2], "raw")
                             IN k # 0 => w[1] \notin pq[k].seen

BuildRead ==
  /\ work = Idle /\ Enabled /\ age >= 1 /\ NeedsBuild
  /\ work' = [step |-> "load", key |-> [w \in win |-> ObjectKey(w[1])]]
  /\ UNCHANGED <<v1vars, pq, receipts, cov, miss, delfail>>

\* The payloads are loaded object by object.  A window whose object is
\* missing, unreadable or does not hold its batch gets a failure record and
\* is left out; every other window is consumed.
BuildLoad ==
  /\ work.step = "load"
  /\ \E bad \in {{}} \cup {{w \in DOMAIN work.key : work.key[w] = o} :
                              o \in {work.key[w] : w \in DOMAIN work.key}} :
       LET got == {w \in DOMAIN work.key \ bad : w[1] \in Holds(work.key[w])}
       IN /\ IF bad = {} THEN UNCHANGED fails ELSE Fail
          /\ miss' = Missed(DOMAIN work.key \ got, work.key)
          /\ work' = IF got = {} THEN Idle
                     ELSE [step |-> "block", rows |-> got, res |-> "raw", src |-> 0]
  /\ UNCHANGED <<scene, mode, age, expired, batch, win, obj, v1, summary, sends, clean, comp,
                 gone, pq, receipts, cov, delfail>>

\* pqBuildDownsample: an active block old enough for the next resolution
\* whose active target was not built from it.
DownsampleRead(k) ==
  \E r \in {"5m", "1h"} :
    LET target == ActivePq(pq[k].sig, r)
    IN /\ work = Idle /\ Enabled
       /\ pq[k].status = "active" /\ pq[k].res = Finer[r]
       /\ age >= IF r = "5m" THEN 2 ELSE 3
       /\ target # 0 => pq[target].src # k
       /\ work' = [step |-> "block", rows |-> pq[k].rows \X {pq[k].sig}, res |-> r, src |-> k]
       /\ UNCHANGED <<v1vars, pq, receipts, cov, miss, delfail>>

\* pqWriteSignalBlock registers a building row, whose creation time later
\* tells which windows came after it.
WriteBlock ==
  /\ work.step = "block"
  /\ \E s \in {w[2] : w \in work.rows}, k \in {j \in PqIds : pq[j].status = "none"} :
    /\ \A j \in PqIds : pq[j].status = "none" => k <= j
    /\ pq' = [pq EXCEPT ![k] =
         [status |-> "building", sig |-> s, res |-> work.res, src |-> work.src,
          rows |-> {w[1] : w \in {x \in work.rows : x[2] = s}},
          seen |-> IF work.res = "raw" THEN {b \in Batches : <<b, s>> \in win} ELSE {}]]
    /\ work' = [step |-> "register", blk |-> k, src |-> work.src, res |-> work.res,
                rows |-> {w \in work.rows : w[2] # s}]
    /\ UNCHANGED <<v1vars, receipts, cov, miss, delfail>>

\* pqRegisterActiveBlockMulti: one transaction retires the old active block
\* of the partition, activates the new one and, for a raw block, writes its
\* receipts and rebuilds the coverage of the hour from the window rows
\* present, or from the block's members when none are left.  A failed write
\* or transaction marks the block failed; the next signal goes on.
RegisterBlock ==
  /\ work.step = "register"
  /\ LET k == work.blk
         s == pq[k].sig
         old == ActivePq(s, work.res)
         left == {w \in win : w[2] = s}
     IN
     /\ work' = IF work.rows = {} THEN Idle
                ELSE [step |-> "block", rows |-> work.rows, res |-> work.res, src |-> work.src]
     /\ \/ /\ pq' = [j \in PqIds |-> IF j = k THEN [pq[j] EXCEPT !.status = "active"]
                                     ELSE IF j = old THEN [pq[j] EXCEPT !.status = "superseded"]
                                     ELSE pq[j]]
           /\ IF work.res # "raw" THEN UNCHANGED <<receipts, cov>>
              ELSE /\ receipts' = receipts \cup {<<b, s, k>> : b \in pq[k].rows}
                   /\ cov' = {w \in cov : w[2] # s}
                             \cup (IF left # {} THEN left ELSE pq[k].rows \X {s})
           /\ UNCHANGED fails
        \/ /\ Fail
           /\ pq' = [pq EXCEPT ![k].status = "failed"]
           /\ UNCHANGED <<receipts, cov>>
     /\ UNCHANGED <<scene, mode, age, expired, batch, win, obj, v1, summary, sends, clean, comp,
                    gone, miss, delfail>>

-----------------------------------------------------------------------------
(* Retiring blocks *)

\* Mutant: any active block of the next resolution will do.
DeleteLayerUnlinked(k) ==
  \E r \in {"5m", "1h"} :
    /\ work = Idle /\ Enabled
    /\ pq[k].status = "active" /\ pq[k].res = Finer[r]
    /\ age >= IF r = "5m" THEN 2 ELSE 3
    /\ ActivePq(pq[k].sig, r) # 0
    /\ pq' = [pq EXCEPT ![k].status = "superseded"]
    /\ UNCHANGED <<v1vars, receipts, cov, miss, delfail, work>>

\* pqDeleteLayerAfterGrace: only when the active block of the next
\* resolution was built from this very block.
DeleteLayer(k) ==
  \E r \in {"5m", "1h"} :
    LET target == ActivePq(pq[k].sig, r)
    IN /\ work = Idle /\ Enabled
       /\ pq[k].status = "active" /\ pq[k].res = Finer[r]
       /\ age >= IF r = "5m" THEN 2 ELSE 3
       /\ target # 0 /\ pq[target].src = k
       /\ pq' = [pq EXCEPT ![k].status = "superseded"]
       /\ UNCHANGED <<v1vars, receipts, cov, miss, delfail, work>>

\* pqReclaimExpiredBlocks at the end of the 1h retention, or
\* pqReclaimOldest1hToTarget over quota.
Reclaim1h(k) ==
  /\ work = Idle /\ Enabled
  /\ pq[k].status = "active" /\ pq[k].res = "1h"
  /\ pq' = [pq EXCEPT ![k].status = "superseded"]
  /\ UNCHANGED <<v1vars, receipts, cov, miss, delfail, work>>

\* pqShadowReconcileBlock: every window that arrived before the hour was
\* sealed must be in the block's lineage unless it has a failure record.
\* Otherwise the block is retired and its receipts are revoked.
Reconcile(k) ==
  /\ work = Idle /\ mode \in {"shadow", "prefer"}
  /\ pq[k].status = "active" /\ pq[k].res = "raw"
  /\ \E w \in win : /\ w[2] = pq[k].sig /\ batch[w[1]].ontime
                    /\ ~Unresolved(w) /\ w[1] \notin pq[k].rows
  /\ pq' = [pq EXCEPT ![k].status = "superseded"]
  /\ receipts' = {r \in receipts : r[3] # k}
  /\ UNCHANGED <<v1vars, cov, miss, delfail, work>>

\* pqSweepCleanup and the quota path delete the files of a superseded block
\* and keep its row as a tombstone; a failed or abandoned building block
\* loses its row.
SweepPq(k) ==
  /\ work = Idle /\ Enabled
  /\ pq[k].status \in {"superseded", "failed", "building"}
  /\ pq' = [pq EXCEPT ![k] = IF @.status = "superseded"
                             THEN [NoPq EXCEPT !.status = "deleted"] ELSE NoPq]
  /\ UNCHANGED <<v1vars, receipts, cov, miss, delfail, work>>

\* pqReclaimExpiredCoverage.
ReclaimCoverage ==
  /\ work = Idle /\ Enabled /\ age = 4 /\ cov # {}
  /\ cov' = {}
  /\ UNCHANGED <<v1vars, pq, receipts, miss, delfail, work>>

-----------------------------------------------------------------------------
(* Fine-grained GC and staging reclaim (enforce mode) *)

\* Mutant: one migrated signal stands for all of the batch.
CoveredOnce(b) == \E r \in receipts : r[1] = b

\* pqBatchCoveredByValidatedRaw: a passed receipt for every signal the batch
\* has windows for; without windows, any receipt or a quarantined window of
\* the same object.
Covered(b) ==
  LET sigs == {w[2] : w \in WindowsOf({b})}
  IN IF sigs # {} THEN \A s \in sigs : \E r \in receipts : r[1] = b /\ r[2] = s
     ELSE \/ \E r \in receipts : r[1] = b
          \/ \E w \in DOMAIN miss : miss[w].st = "quarantined" /\ miss[w].key = ObjectKey(b)

\* pqFineGCCandidateBlockReason, or pqReclaimStaging's check over quota.
GCCheck(b) ==
  /\ work = Idle /\ mode = "enforce" /\ age >= 1
  /\ batch[b].row /\ b \notin delfail /\ Covered(b)
  /\ work' = [step |-> "gc", b |-> b]
  /\ UNCHANGED <<v1vars, pq, receipts, cov, miss, delfail>>

\* One transaction deletes the windows and the batch row; the row locked in
\* it tells whether the object is the batch's own.
GCRemove ==
  /\ work.step = "gc"
  /\ IF batch[work.b].row
     THEN /\ DeleteRows({work.b}) /\ gone' = gone \cup {work.b}
          /\ work' = IF batch[work.b].block = 0 THEN [step |-> "gcobject", b |-> work.b] ELSE Idle
     ELSE work' = Idle /\ UNCHANGED <<batch, win, gone>>
  /\ UNCHANGED <<scene, mode, age, expired, obj, v1, summary, sends, clean, comp, fails,
                 pq, receipts, cov, miss, delfail>>

GCObject ==
  /\ work.step = "gcobject"
  /\ work' = Idle
  /\ \/ obj' = obj \ {Minute(work.b)} /\ UNCHANGED delfail
     \/ delfail' = delfail \cup {work.b} /\ UNCHANGED obj
  /\ UNCHANGED <<scene, mode, age, expired, batch, win, v1, summary, sends, clean, comp, fails,
                 gone, pq, receipts, cov, miss>>

\* pqRunMigrationReceiptGC: receipts of batches without a row.
ReceiptGC(b) ==
  /\ work = Idle /\ Enabled /\ age >= 2 /\ ~batch[b].row
  /\ \E r \in receipts : r[1] = b
  /\ receipts' = {r \in receipts : r[1] # b}
  /\ UNCHANGED <<v1vars, pq, cov, miss, delfail, work>>

\* pqReclaimV1Blocks: after the rollback window an hour block whose batches
\* are all covered is dropped, though their rows may still refer to it.
ReclaimV1(k) ==
  /\ work = Idle /\ mode = "enforce" /\ age >= 2
  /\ \A b \in MembersOf(k) : Covered(b)
  /\ DeleteBlock(k, {})
  /\ gone' = gone \cup MembersOf(k)
  /\ UNCHANGED <<scene, mode, age, expired, obj, summary, sends, clean, comp, fails, pqvars>>

-----------------------------------------------------------------------------
(* pqProcessMigrationFailures *)

RetryMissing(w) ==
  /\ work = Idle /\ Enabled
  /\ miss[w].st = "retrying" /\ miss[w].n < RetryLimit
  /\ miss' = [miss EXCEPT ![w].st = IF miss[w].key \in obj THEN "resolved" ELSE @,
                          ![w].n = @ + 1]
  /\ UNCHANGED <<v1vars, pq, receipts, cov, delfail, work>>

\* After RetryLimit failures the record is quarantined and the window row it
\* stands for is deleted.
QuarantineMissing(w) ==
  /\ work = Idle /\ Enabled
  /\ miss[w].st = "retrying" /\ miss[w].n >= RetryLimit
  /\ miss' = [miss EXCEPT ![w].st = "quarantined"]
  /\ win' = win \ {w}
  /\ UNCHANGED <<scene, mode, age, expired, batch, obj, v1, summary, sends, clean, comp, fails,
                 gone, pq, receipts, cov, delfail, work>>

RetryDelete(b) ==
  /\ work = Idle /\ Enabled /\ b \in delfail
  /\ obj' = obj \ {Minute(b)}
  /\ delfail' = delfail \ {b}
  /\ UNCHANGED <<scene, mode, age, expired, batch, win, v1, summary, sends, clean, comp, fails,
                 gone, pq, receipts, cov, miss, work>>

-----------------------------------------------------------------------------
(* Queries over the hour: the batches an answer is made of, or an error.  The *)
(* argument readable says whether the block's files could be read.            *)

Answer(batches) == [ok |-> TRUE, batches |-> batches]
Error == [ok |-> FALSE, batches |-> {}]

\* pqFindBestBlock: raw before 5m before 1h.
BestBlock(s) ==
  IF ActivePq(s, "raw") # 0 THEN ActivePq(s, "raw")
  ELSE IF ActivePq(s, "5m") # 0 THEN ActivePq(s, "5m")
  ELSE ActivePq(s, "1h")

Hot(s) == {w \in win : w[2] = s}

\* aggregateV1WindowsInto: an object that cannot be loaded fails the query; a
\* batch that is missing from its object is skipped.
V1Answer(s) ==
  IF \E w \in Hot(s) : ObjectKey(w[1]) \notin obj THEN Error
  ELSE Answer({w[1] : w \in {x \in Hot(s) : x[1] \in Holds(ObjectKey(x[1]))}})

\* pqQueryAggregateMixed: without a block the hour is read from the windows; a
\* block that cannot be read falls back to the windows if there are any.
CPUAnswer(s, readable) ==
  LET k == BestBlock(s)
  IN IF k = 0 THEN V1Answer(s)
     ELSE IF readable THEN Answer(pq[k].rows)
     ELSE IF Hot(s) # {} THEN V1Answer(s) ELSE Error

\* pqQueryTimeseriesMixed falls back even when no window is left.
MetricsAnswer(s, readable) ==
  LET k == BestBlock(s)
  IN IF k = 0 THEN V1Answer(s)
     ELSE IF readable THEN Answer(pq[k].rows) ELSE V1Answer(s)

\* pqQueryHistogramMixed drops the error of the fallback.
HistogramAnswer(s, readable) ==
  LET k == BestBlock(s)
  IN IF k = 0 THEN V1Answer(s)
     ELSE IF readable THEN Answer(pq[k].rows)
     ELSE IF Hot(s) # {} THEN Answer(V1Answer(s).batches) ELSE Error

Query(s, readable) ==
  CASE mode \in {"off", "shadow"} -> V1Answer(s)
    [] mode \notin {"off", "shadow"} /\ s = "cpu" -> CPUAnswer(s, readable)
    [] mode \notin {"off", "shadow"} /\ s = "metrics" -> MetricsAnswer(s, readable)
    [] OTHER -> HistogramAnswer(s, readable)

-----------------------------------------------------------------------------
Init == /\ V1Init
        /\ pq = [k \in PqIds |-> NoPq]
        /\ receipts = {} /\ cov = {} /\ delfail = {}
        /\ miss = [w \in UNION {{b} \X SignalsOf[b] : b \in Batches} |-> NoMiss]
        /\ work = Idle

Restart(m) == /\ V1Restart(m)
              /\ work' = Idle
              /\ UNCHANGED <<pq, receipts, cov, miss, delfail>>

Build == BuildRead \/ BuildLoad \/ WriteBlock \/ RegisterBlock
         \/ \E k \in PqIds : DownsampleRead(k)

Retire == \/ \E k \in PqIds : DeleteLayer(k) \/ Reclaim1h(k) \/ Reconcile(k) \/ SweepPq(k)
          \/ ReclaimCoverage

GC == \/ \E b \in Batches : GCCheck(b) \/ ReceiptGC(b)
      \/ GCRemove \/ GCObject
      \/ \E k \in V1Ids : ReclaimV1(k)

Failures == \/ \E w \in DOMAIN miss : RetryMissing(w) \/ QuarantineMissing(w)
            \/ \E b \in Batches : RetryDelete(b)

Next == \/ V1Step /\ UNCHANGED pqvars
        \/ \E m \in scene.modes : Restart(m)
        \/ Build \/ Retire \/ GC \/ Failures

Spec == Init /\ [][Next]_vars

-----------------------------------------------------------------------------
(* Properties *)

\* Every window row can be read unless its batch was given up before (its row
\* deleted and stored again, or its hour block reclaimed in enforce mode): no
\* interleaving of ingestion, retention, compaction, sweep and GC leaves a row
\* whose object is missing or does not hold its batch.  So no query fails as long
\* as no such batch has windows.
QueryableIsReadable ==
  /\ \A w \in win : w[1] \notin gone => w[1] \in Holds(ObjectKey(w[1]))
  /\ WindowsOf(gone) = {} => \A s \in Signals : Query(s, TRUE).ok

\* Outside enforce mode a cpu window is deleted only after its samples were
\* merged into a summary, or as quarantined because its object stayed missing,
\* unless its batch was stored again after it had been given up.
SummarisedBeforeRemoval ==
  [][mode # "enforce" => \A w \in win \ win' :
       w[2] = "cpu" /\ w[1] \notin gone => summary'[w[1]] > 0 \/ miss'[w].st = "quarantined"]_vars

\* In enforce mode an unexpired batch loses its row only when each of its signals
\* has a migration receipt or was quarantined.
GCRemovesOnlyMigrated ==
  [][mode = "enforce" => \A b \in Batches \ expired :
       batch[b].row /\ ~batch'[b].row =>
         \A s \in SignalsOf[b] : \/ \E r \in receipts : r[1] = b /\ r[2] = s
                                 \/ miss[<<b, s>>].st = "quarantined"]_vars

\* A raw or 5m block is retired only for a new block of its partition, for a
\* coarser block with all its rows, or with its receipts revoked.
LayersHandOver ==
  [][\A k \in PqIds :
       pq[k].status = "active" /\ pq[k].res # "1h" /\ pq'[k].status # "active" =>
         \/ \E j \in PqIds : /\ pq'[j].status = "active" /\ pq'[j].sig = pq[k].sig
                             /\ pq'[j].res = pq[k].res \/ pq[k].rows \subseteq pq'[j].rows
         \/ \A r \in receipts' : r[3] # k]_vars

\* When a block's files cannot be read and the hot table was cleaned up, the
\* query returns the partial-coverage error.
ReadFailureIsReported ==
  mode \in {"prefer", "enforce"} =>
    \A s \in Signals : BestBlock(s) # 0 /\ Hot(s) = {} => ~Query(s, FALSE).ok
=============================================================================
