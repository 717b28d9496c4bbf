---------------------------- MODULE StorageProofs ----------------------------
(***************************************************************************)
(* The storage plane, for any artifacts, keys, workers, policies and       *)
(* requests: content that is being deleted has no reference, what is       *)
(* pinned is not deleted, and what is deleted stays so (BlobStore); a      *)
(* finished task's artifact has a deadline, which is not brought forward   *)
(* without notice (Retention); collection is resumed only after observed   *)
(* recovery (DiskGuard).                                                   *)
(***************************************************************************)
EXTENDS BlobStore, Retention, DiskGuard, TLAPS

USE Zenon

-----------------------------------------------------------------------------
(* The object store *)

Rests == {"none", "ready", "deleting", "deleted"}

\* Where a worker has an artifact, a key, or an artifact of a certain kind in hand.
OfArtifact == {"claim", "process", "delete", "unlist", "complete", "describe", "name", "notify",
               "record"}
OfKey == {"claimblob", "delblob", "tombstone", "recheck", "unlink"}
OfLogical == {"retire", "ensure", "link", "enqueue", "collect", "collected", "sweep", "sweepdel"}
OfMigration == {"shadow", "verify", "upsert", "switch"}

Steps == OfArtifact \cup OfKey \cup OfLogical \cup OfMigration \cup {"idle", "list"}

Op == [pc : Steps, a : Arts \cup {None}, k : Keys \cup {None}, st : Rests,
       bl : Keys \cup {None}, prot : BOOLEAN]

\* A worker has at hand what its step needs, ...
Fits(pc, a, k) ==
  /\ pc \in OfArtifact => a \in Arts
  /\ pc \in OfKey => k \in Keys
  /\ pc \in OfLogical => k \in Logical
  /\ pc \in OfMigration => k \in Migratable
  /\ pc = "describe" => Kind[a] = "result" /\ k \in Cas
  /\ pc = "name" => Kind[a] = "manifest"
  /\ pc = "record" => Kind[a] = "kernel"
  /\ pc = "list" => \/ a = None /\ k \in Ledger
                    \/ a \in Arts /\ Kind[a] = "kernel"

\* ... and an artifact is claimed unprotected only for a deletion that was decided before.
Decided(o, t) ==
  o.pc = "claim" => /\ o.st \in {"ready", "deleting"}
                    /\ o.st = "ready" /\ ~o.prot => t[TaskOf[o.a]].deleted

OpOK(o, t) == Fits(o.pc, o.a, o.k) /\ Decided(o, t)
OpsOK == op \in [Workers -> Op] /\ \A w \in Workers : OpOK(op[w], task)

\* A row that was never written has no blob, and a manifest is never compressed.
RowOK(a) ==
  /\ art[a].st = "none" => art[a].blob = None
  /\ Kind[a] = "manifest" => art[a].blob \notin Cas

RowsOK == \A a \in Arts : RowOK(a)

Types ==
  /\ task \in [Tasks -> [deleted : BOOLEAN, pinned : BOOLEAN]]
  /\ art \in [Arts -> Row]
  /\ blob \in [Keys -> Rests]
  /\ ledger \in [Ledger -> {Absent, None} \cup Keys]

DataOK == Types /\ RowsOK /\ CasDeletionHasNoReference /\ PinnedIsKept

BlobInv == OpsOK /\ DataOK

\* A deleted task stays deleted.
Grows == \A t \in Tasks : task[t].deleted => task'[t].deleted

\* A tombstone stays.
Kept == \A a \in Arts : art[a].st = "deleted" => art'[a].st = "deleted"

-----------------------------------------------------------------------------
(* What a worker does next *)

\* A worker at rest has nothing in hand.
LEMMA IdleOK == NoOp \in Op /\ Fits(NoOp.pc, NoOp.a, NoOp.k) /\ NoOp.pc # "claim"
<1>1. NoOp.pc = "idle" /\ NoOp \in Op
  <2>1. None \in Rests
    BY DEF None, Rests
  <2>2. NoOp.pc = "idle"
    BY DEF NoOp
  <2>3. NoOp \in Op
    BY <2>1 DEF NoOp, Op, Steps
  <2> QED
    BY <2>2, <2>3
<1>2. "idle" \notin OfArtifact \cup OfKey \cup OfLogical \cup OfMigration
  BY DEF OfArtifact, OfKey, OfLogical, OfMigration
<1> QED
  BY <1>1, <1>2 DEF Fits

\* A worker takes up o, and the others keep what they have.
LEMMA SetOp ==
  ASSUME BlobConstants, OpsOK, Grows, NEW w, NEW o \in Op, OpOK(o, task'),
         op' = [op EXCEPT ![w] = o]
  PROVE  OpsOK'
<1>1. op' \in [Workers -> Op]
  BY DEF OpsOK
<1>2. ASSUME NEW v \in Workers
      PROVE  OpOK(op'[v], task')
  <2>1. CASE v = w
    BY <2>1 DEF OpsOK
  <2>2. CASE v # w
    <3>1. op'[v] = op[v] /\ op[v] \in Op /\ OpOK(op[v], task)
      BY <2>2 DEF OpsOK
    <3>2. op[v].pc = "claim" => TaskOf[op[v].a] \in Tasks
      BY <3>1 DEF OpOK, Fits, OfArtifact, BlobConstants
    <3> QED
      BY <3>1, <3>2 DEF OpOK, Decided, Grows
  <2> QED
    BY <2>1, <2>2
<1> QED
  BY <1>1, <1>2 DEF OpsOK

\* A worker has done its work.
LEMMA StopOp ==
  ASSUME BlobConstants, OpsOK, Grows, NEW w, Leave(w)
  PROVE  OpsOK'
<1>1. OpOK(NoOp, task')
  BY IdleOK DEF OpOK, Decided
<1> QED
  BY <1>1, IdleOK, SetOp DEF Leave

\* A worker goes on with what it has in hand.
LEMMA GotoOp ==
  ASSUME BlobConstants, OpsOK, Grows, NEW w \in Workers, NEW l \in Steps, Goto(w, l),
         Fits(l, op[w].a, op[w].k), l # "claim"
  PROVE  OpsOK'
<1> DEFINE o == [op[w] EXCEPT !.pc = l]
<1>1. op[w] \in Op
  BY DEF OpsOK
<1>2. o \in Op /\ o.pc = l /\ o.a = op[w].a /\ o.k = op[w].k
  BY <1>1 DEF Op
<1>3. op' = [op EXCEPT ![w] = o]
  BY DEF Goto
<1> HIDE DEF o
<1>4. OpOK(o, task')
  BY <1>2 DEF OpOK, Decided
<1> QED
  BY <1>2, <1>3, <1>4, SetOp

\* A worker that was idle begins.
LEMMA BeginOp ==
  ASSUME BlobConstants, OpsOK, Grows, NEW w, NEW o \in Op, OpOK(o, task'), Begin(w, o)
  PROVE  OpsOK'
BY SetOp DEF Begin

\* Nothing but the worker changes.
LEMMA DataSame ==
  ASSUME DataOK, UNCHANGED <<task, art, blob, ledger>>
  PROVE  DataOK' /\ Grows /\ Kept
<1>1. Types' /\ RowsOK'
  BY DEF DataOK, Types, RowsOK, RowOK
<1>2. CasDeletionHasNoReference' /\ PinnedIsKept'
  BY DEF DataOK, CasDeletionHasNoReference, Refs, Live, PinnedIsKept
<1> QED
  BY <1>1, <1>2 DEF DataOK, Grows, Kept

\* What the kind of an artifact says about its key.
LEMMA KindOfKey ==
  ASSUME BlobConstants, NEW a \in Arts
  PROVE  /\ Kind[a] = "result" => CasOf[KeyOf[a]] \in Cas
         /\ Kind[a] = "manifest" => KeyOf[a] \notin Migratable
         /\ Kind[a] = "kernel" => KeyOf[a] \in Ledger
BY DEF BlobConstants

-----------------------------------------------------------------------------
(* What a step does to the rows *)

\* Content that is not being deleted afterwards, or was so before.
Revived == \A k \in Cas : blob'[k] \in {blob[k], "ready"}

\* A statement that writes the row of a.
LEMMA ArtStep ==
  ASSUME DataOK, NEW a \in Arts, NEW r \in Row, art' = [art EXCEPT ![a] = r],
         UNCHANGED <<task, ledger>>, blob' \in [Keys -> Rests], Revived,
         r.st = "none" => r.blob = None, art[a].st = "deleted" => r.st = "deleted",
         Kind[a] = "manifest" => r.blob \notin Cas,
         r.st = "ready" /\ r.blob \in Cas => blob'[r.blob] = "ready",
         r.st = "deleting" /\ art[a].st # "deleting"
           => ~(task[TaskOf[a]].pinned /\ ~task[TaskOf[a]].deleted)
  PROVE  DataOK' /\ Grows /\ Kept
<1>1. art' \in [Arts -> Row] /\ art'[a] = r /\ \A b \in Arts \ {a} : art'[b] = art[b]
  BY DEF DataOK, Types
<1>2. Types' /\ Grows
  BY <1>1 DEF DataOK, Types, Grows
<1>3. RowsOK'
  BY <1>1 DEF DataOK, RowsOK, RowOK
<1>4. CasDeletionHasNoReference'
  <2> SUFFICES ASSUME NEW k \in Cas, blob'[k] \in {"deleting", "deleted"}
               PROVE  Refs(k)' = {}
    BY DEF CasDeletionHasNoReference
  <2>1. blob[k] = blob'[k]
    BY DEF Revived
  <2>2. Refs(k) = {}
    BY <2>1 DEF DataOK, CasDeletionHasNoReference
  <2>3. ~(r.st = "ready" /\ r.blob = k)
    OBVIOUS
  <2>4. \A b \in Arts : ~(art'[b].st = "ready" /\ art'[b].blob = k)
    BY <1>1, <2>2, <2>3 DEF Refs, Live
  <2>5. \A l \in Elf : ledger'[l] # k
    BY <2>2 DEF Refs
  <2> QED
    BY <2>4, <2>5 DEF Refs, Live
<1>5. PinnedIsKept'
  BY <1>1 DEF DataOK, PinnedIsKept
<1> QED
  BY <1>1, <1>2, <1>3, <1>4, <1>5 DEF DataOK, Kept

\* A statement that writes the row of a blob.
LEMMA BlobStep ==
  ASSUME DataOK, NEW k, NEW s \in Rests, blob' = [blob EXCEPT ![k] = s],
         UNCHANGED <<task, art, ledger>>,
         k \in Cas /\ s \in {"deleting", "deleted"} => Refs(k) = {}
  PROVE  DataOK' /\ Grows /\ Kept
<1>1. blob' \in [Keys -> Rests] /\ \A l \in Keys : blob'[l] = IF l = k THEN s ELSE blob[l]
  BY DEF DataOK, Types
<1>2. Types' /\ RowsOK' /\ PinnedIsKept' /\ Grows
  BY <1>1 DEF DataOK, Types, RowsOK, RowOK, PinnedIsKept, Grows
<1>3. \A l : Refs(l)' = Refs(l)
  BY DEF Refs, Live
<1>4. CasDeletionHasNoReference'
  BY <1>1, <1>3 DEF DataOK, CasDeletionHasNoReference, Keys
<1> QED
  BY <1>2, <1>4 DEF DataOK, Kept

\* A statement that lists symbols without a blob, or takes them from the ledger.
LEMMA LedgerStep ==
  ASSUME BlobConstants, DataOK, UNCHANGED <<task, art, blob>>,
         ledger' \in [Ledger -> {Absent, None} \cup Keys],
         \A l \in Ledger : ledger'[l] \in {ledger[l], Absent, None}
  PROVE  DataOK' /\ Grows /\ Kept
<1>1. Types' /\ RowsOK' /\ PinnedIsKept' /\ Grows
  BY DEF DataOK, Types, RowsOK, RowOK, PinnedIsKept, Grows
<1>2. \A k \in Cas : k \notin {Absent, None}
  BY DEF BlobConstants, Keys
<1>3. \A l \in Elf : l \in Ledger
  BY DEF BlobConstants
<1>4. \A k \in Cas : Refs(k)' \subseteq Refs(k)
  BY <1>2, <1>3 DEF Refs, Live
<1>5. CasDeletionHasNoReference'
  BY <1>4 DEF DataOK, CasDeletionHasNoReference
<1> QED
  BY <1>1, <1>5 DEF DataOK, Kept

\* Linking and switching: live rows and ledger entries get the blob c, which is ready.
LEMMA SwitchStep ==
  ASSUME BlobConstants, DataOK, NEW c \in Keys, UNCHANGED task,
         blob' \in [Keys -> Rests], Revived, c \in Cas => blob'[c] = "ready",
         art' \in [Arts -> Row],
         \A a \in Arts : \/ art'[a] = art[a]
                         \/ /\ Live(a) /\ art'[a] = [art[a] EXCEPT !.blob = c]
                            /\ Kind[a] = "manifest" => c \notin Cas,
         ledger' \in [Ledger -> {Absent, None} \cup Keys],
         \A l \in Ledger : ledger'[l] \in {ledger[l], c}
  PROVE  DataOK' /\ Grows /\ Kept
<1>1. Types' /\ Grows
  BY DEF DataOK, Types, Grows
<1>2. \A a \in Arts : \/ art'[a] = art[a]
                      \/ /\ art[a].st = "ready" /\ art'[a].st = "ready" /\ art'[a].blob = c
                         /\ Kind[a] = "manifest" => c \notin Cas
  BY DEF DataOK, Types, Row, Live
<1>3. RowsOK'
  BY <1>2 DEF DataOK, RowsOK, RowOK
<1>4. PinnedIsKept'
  BY <1>2 DEF DataOK, PinnedIsKept
<1>5. CasDeletionHasNoReference'
  <2> SUFFICES ASSUME NEW k \in Cas, blob'[k] \in {"deleting", "deleted"}
               PROVE  Refs(k)' = {}
    BY DEF CasDeletionHasNoReference
  <2>1. blob[k] = blob'[k] /\ k # c
    BY DEF Revived
  <2>2. Refs(k) = {}
    BY <2>1 DEF DataOK, CasDeletionHasNoReference
  <2>3. \A a \in Arts : ~(art'[a].st = "ready" /\ art'[a].blob = k)
    BY <1>2, <2>1, <2>2 DEF Refs, Live
  <2>4. \A l \in Elf : ledger'[l] # k
    BY <2>1, <2>2 DEF Refs, BlobConstants
  <2> QED
    BY <2>3, <2>4 DEF Refs, Live
<1> QED
  BY <1>1, <1>2, <1>3, <1>4, <1>5 DEF DataOK, Kept

-----------------------------------------------------------------------------
(* Workers take up work *)

\* A worker begins with a record of its own.
LEMMA StartStep ==
  ASSUME BlobConstants, BlobInv, UNCHANGED <<task, art, blob, ledger>>,
         NEW w, NEW o \in Op, OpOK(o, task), Begin(w, o)
  PROVE  BlobInv' /\ Kept
<1>1. DataOK' /\ Grows /\ Kept
  BY DataSame DEF BlobInv
<1>2. OpOK(o, task')
  OBVIOUS
<1> QED
  BY <1>1, <1>2, BeginOp DEF BlobInv

\* A worker begins with a key.
LEMMA StartKey ==
  ASSUME BlobConstants, BlobInv, UNCHANGED <<task, art, blob, ledger>>,
         NEW w, NEW l \in Steps \ OfArtifact, NEW key \in Keys, Fits(l, None, key),
         Begin(w, [NoOp EXCEPT !.pc = l, !.k = key])
  PROVE  BlobInv' /\ Kept
<1> DEFINE o == [NoOp EXCEPT !.pc = l, !.k = key]
<1>1. o \in Op /\ o.pc = l /\ o.k = key /\ o.a = None
  BY IdleOK DEF Op, NoOp
<1>2. Begin(w, o)
  OBVIOUS
<1> HIDE DEF o
<1>3. OpOK(o, task)
  BY <1>1 DEF OpOK, Decided, OfArtifact
<1> QED
  BY <1>1, <1>2, <1>3, StartStep

\* lifecycleCandidateIDs and the candidates of the retention cleaner.
LEMMA StartArtifactSteps ==
  ASSUME BlobConstants, BlobInv, NEW a \in Arts,
         StartExpired(a) \/ StartRetry(a) \/ StartTaskDeleted(a)
  PROVE  BlobInv' /\ Kept
<1>1. UNCHANGED <<task, art, blob, ledger>> /\ art[a].blob \in Keys \cup {None}
  BY DEF StartExpired, StartRetry, StartTaskDeleted, BlobInv, DataOK, Types, Row
<1>2. ASSUME NEW w, NEW o \in Op, Begin(w, o),
             o.pc = "claim" /\ o.a = a /\ o.k = None /\ o.st \in {"ready", "deleting"},
             o.st = "ready" /\ ~o.prot => task[TaskOf[a]].deleted
      PROVE  BlobInv' /\ Kept
  <2>1. Fits("claim", a, None)
    BY DEF Fits, OfArtifact, OfKey, OfLogical, OfMigration
  <2>2. OpOK(o, task)
    BY <1>2, <2>1 DEF OpOK, Decided
  <2> QED
    BY <1>1, <1>2, <2>2, StartStep
<1>3. "claim" \in Steps /\ {"ready", "deleting"} \subseteq Rests /\ NoOp \in Op
      /\ NoOp.k = None /\ NoOp.prot = FALSE
  BY IdleOK DEF Steps, OfArtifact, Rests, NoOp
<1>4. CASE StartExpired(a)
  <2> DEFINE o == [NoOp EXCEPT !.pc = "claim", !.a = a, !.st = "ready", !.bl = art[a].blob,
                               !.prot = TRUE]
  <2>1. o \in Op /\ o.pc = "claim" /\ o.a = a /\ o.k = None /\ o.st = "ready" /\ o.prot
    BY <1>1, <1>3 DEF Op
  <2>2. Begin("lifecycle", o)
    BY <1>4 DEF StartExpired
  <2> HIDE DEF o
  <2> QED
    BY <1>2, <2>1, <2>2
<1>5. CASE StartRetry(a)
  <2> DEFINE o == [NoOp EXCEPT !.pc = "claim", !.a = a, !.st = "deleting", !.bl = art[a].blob]
  <2>1. o \in Op /\ o.pc = "claim" /\ o.a = a /\ o.k = None /\ o.st = "deleting"
    BY <1>1, <1>3 DEF Op
  <2>2. Begin("lifecycle", o)
    BY <1>5 DEF StartRetry
  <2> HIDE DEF o
  <2> QED
    BY <1>2, <2>1, <2>2
<1>6. CASE StartTaskDeleted(a)
  <2> DEFINE o == [NoOp EXCEPT !.pc = "claim", !.a = a, !.st = "ready", !.bl = art[a].blob]
  <2>1. o \in Op /\ o.pc = "claim" /\ o.a = a /\ o.k = None /\ o.st = "ready"
    BY <1>1, <1>3 DEF Op
  <2>2. Begin("retention", o) /\ task[TaskOf[a]].deleted
    BY <1>6 DEF StartTaskDeleted
  <2> HIDE DEF o
  <2> QED
    BY <1>2, <2>1, <2>2
<1> QED
  BY <1>4, <1>5, <1>6

\* The candidates of the blob worker and of the sweep.
LEMMA StartKeySteps ==
  ASSUME BlobConstants, BlobInv, NEW k,
         \/ k \in Keys /\ (StartBlobRetry(k) \/ \E w \in BlobWorkers : StartOrphanCAS(w, k))
         \/ k \in Logical /\ \E w \in BlobWorkers : \/ StartOrphanBackfill(w, k) \/ StartGC(w, k)
                                                    \/ StartBackfill(w, k)
         \/ k \in Migratable /\ \E w \in BlobWorkers : StartMigration(w, k)
         \/ k \in Logical /\ StartSweep(k)
         \/ \E a \in Arts : k = KeyOf[a] /\ StartUntracked(a)
  PROVE  BlobInv' /\ Kept
<1>1. /\ UNCHANGED <<task, art, blob, ledger>>
      /\ \E w : \/ k \in Keys /\ \E l \in {"recheck", "claimblob"} :
                     Begin(w, [NoOp EXCEPT !.pc = l, !.k = k])
                \/ k \in Logical /\ \E l \in {"retire", "collect", "ensure", "sweep", "sweepdel"} :
                     Begin(w, [NoOp EXCEPT !.pc = l, !.k = k])
                \/ k \in Migratable /\ \E l \in {"switch", "shadow"} :
                     Begin(w, [NoOp EXCEPT !.pc = l, !.k = k])
  BY DEF StartBlobRetry, StartOrphanCAS, StartOrphanBackfill, StartGC, StartBackfill,
         StartMigration, StartSweep, StartUntracked, Logical
<1>2. k \in Keys
  BY <1>1 DEF Keys, BlobConstants
<1>3. PICK w, l : /\ Begin(w, [NoOp EXCEPT !.pc = l, !.k = k])
                  /\ \/ l \in {"recheck", "claimblob"}
                     \/ k \in Logical /\ l \in {"retire", "collect", "ensure", "sweep", "sweepdel"}
                     \/ k \in Migratable /\ l \in {"switch", "shadow"}
  BY <1>1
<1>4. l \in Steps \ OfArtifact /\ Fits(l, None, k)
  BY <1>2, <1>3 DEF Steps, Fits, OfArtifact, OfKey, OfLogical, OfMigration
<1> QED
  BY <1>1, <1>2, <1>3, <1>4, StartKey

-----------------------------------------------------------------------------
(* Cleaning *)

\* What a worker has in hand.
LEMMA AtHand ==
  ASSUME BlobInv, NEW w \in Workers
  PROVE  /\ op[w] \in Op /\ Fits(op[w].pc, op[w].a, op[w].k) /\ Decided(op[w], task)
         /\ op[w].a \in Arts \cup {None} /\ op[w].k \in Keys \cup {None}
         /\ op[w].bl \in Keys \cup {None}
BY DEF BlobInv, OpsOK, OpOK, Op

\* A worker goes on or stops, and writes no row.
LEMMA OpStep ==
  ASSUME BlobConstants, BlobInv, UNCHANGED <<task, art, blob, ledger>>, NEW w \in Workers,
         \/ Leave(w)
         \/ \E l \in Steps \ {"claim"} : Goto(w, l) /\ Fits(l, op[w].a, op[w].k)
  PROVE  BlobInv' /\ Kept
<1>1. DataOK' /\ Grows /\ Kept
  BY DataSame DEF BlobInv
<1>2. OpsOK'
  BY <1>1, StopOp, GotoOp DEF BlobInv
<1> QED
  BY <1>1, <1>2 DEF BlobInv

\* A call of the object store writes no row.
LEMMA DeleteStep ==
  ASSUME BlobConstants, BlobInv, UNCHANGED <<task, art, blob, ledger>>, NEW w \in Workers,
         NEW key, NEW l \in Steps \ {"claim"}, Fits(l, op[w].a, op[w].k), DeleteObject(w, key, l)
  PROVE  BlobInv' /\ Kept
<1>1. Leave(w) \/ Goto(w, l)
  BY DEF DeleteObject
<1> QED
  BY <1>1, OpStep

\* The steps of the cleaners that write no row.
LEMMA QuietSteps ==
  ASSUME BlobConstants, BlobInv, NEW w \in Workers,
         \/ DeleteArtifactObject(w) \/ DeleteBlobObject(w) \/ CollectObject(w) \/ SweepDelete(w)
         \/ SweepRecheck(w) \/ EnqueueGC(w) \/ MarkCollected(w) \/ ShadowUpload(w) \/ VerifyBlob(w)
  PROVE  BlobInv' /\ Kept
<1>1. UNCHANGED <<task, art, blob, ledger>>
  BY DEF DeleteArtifactObject, DeleteBlobObject, CollectObject, SweepDelete, SweepRecheck,
         EnqueueGC, MarkCollected, ShadowUpload, VerifyBlob, aux
<1>2. Fits("idle", op[w].a, op[w].k) /\ "idle" \in Steps
  BY DEF Fits, Steps, OfArtifact, OfKey, OfLogical, OfMigration
<1>3. CASE DeleteArtifactObject(w)
  <2>1. op[w].pc = "delete" /\ op[w].a \in Arts
    BY <1>3, AtHand DEF DeleteArtifactObject, Fits, OfArtifact
  <2>2. \A l \in {"unlist", "complete"} : l \in Steps \ {"claim"} /\ Fits(l, op[w].a, op[w].k)
    BY <2>1 DEF Steps, Fits, OfArtifact, OfKey, OfLogical, OfMigration
  <2> QED
    BY <1>1, <1>3, <2>2, DeleteStep DEF DeleteArtifactObject
<1>4. CASE DeleteBlobObject(w)
  <2>1. op[w].k \in Keys
    BY <1>4, AtHand DEF DeleteBlobObject, Fits, OfKey
  <2>2. "tombstone" \in Steps \ {"claim"} /\ Fits("tombstone", op[w].a, op[w].k)
    BY <2>1 DEF Steps, Fits, OfArtifact, OfKey, OfLogical, OfMigration
  <2> QED
    BY <1>1, <1>4, <2>2, DeleteStep DEF DeleteBlobObject
<1>5. CASE CollectObject(w)
  <2>1. op[w].k \in Logical
    BY <1>5, AtHand DEF CollectObject, Fits, OfLogical
  <2>2. "collected" \in Steps \ {"claim"} /\ Fits("collected", op[w].a, op[w].k)
    BY <2>1 DEF Steps, Fits, OfArtifact, OfKey, OfLogical, OfMigration
  <2> QED
    BY <1>1, <1>5, <2>2, DeleteStep DEF CollectObject
<1>6. CASE SweepDelete(w)
  <2>1. "idle" \in Steps \ {"claim"} /\ DeleteObject(w, op[w].k, "idle")
    BY <1>2, <1>6 DEF SweepDelete
  <2> QED
    BY <1>1, <1>2, <2>1, DeleteStep
<1>7. CASE SweepRecheck(w)
  <2>1. op[w].k \in Logical
    BY <1>7, AtHand DEF SweepRecheck, Fits, OfLogical
  <2>2. "sweepdel" \in Steps \ {"claim"} /\ Fits("sweepdel", op[w].a, op[w].k)
    BY <2>1 DEF Steps, Fits, OfArtifact, OfKey, OfLogical, OfMigration
  <2> QED
    BY <1>1, <1>7, <2>2, OpStep DEF SweepRecheck
<1>8. CASE EnqueueGC(w) \/ MarkCollected(w)
  BY <1>1, <1>8, OpStep DEF EnqueueGC, MarkCollected
<1>9. CASE ShadowUpload(w) \/ VerifyBlob(w)
  <2>1. op[w].k \in Migratable
    BY <1>9, AtHand DEF ShadowUpload, VerifyBlob, Fits, OfMigration
  <2>2. \A l \in {"verify", "upsert"} : l \in Steps \ {"claim"} /\ Fits(l, op[w].a, op[w].k)
    BY <2>1 DEF Steps, Fits, OfArtifact, OfKey, OfLogical, OfMigration
  <2>3. Leave(w) \/ Goto(w, "verify") \/ Goto(w, "upsert")
    BY <1>9 DEF ShadowUpload, VerifyBlob
  <2> QED
    BY <1>1, <2>2, <2>3, OpStep
<1> QED
  BY <1>3, <1>4, <1>5, <1>6, <1>7, <1>8, <1>9

\* A statement that sets the status of a row.
LEMMA StatusStep ==
  ASSUME DataOK, NEW a \in Arts, NEW s \in {"ready", "deleting", "deleted"},
         art' = [art EXCEPT ![a].st = s], UNCHANGED <<task, blob, ledger>>,
         art[a].st = "deleted" => s = "deleted",
         s = "ready" => art[a].blob \notin Cas,
         s = "deleting" /\ art[a].st # "deleting"
           => ~(task[TaskOf[a]].pinned /\ ~task[TaskOf[a]].deleted)
  PROVE  DataOK' /\ Grows /\ Kept
<1> DEFINE r == [art[a] EXCEPT !.st = s]
<1>1. art[a] \in Row /\ RowOK(a)
  BY DEF DataOK, Types, RowsOK
<1>2. r \in Row /\ r.st = s /\ r.blob = art[a].blob
  BY <1>1 DEF Row
<1>3. art' = [art EXCEPT ![a] = r]
  OBVIOUS
<1>4. Revived /\ blob' \in [Keys -> Rests]
  BY DEF Revived, DataOK, Types
<1> HIDE DEF r
<1> QED
  BY <1>1, <1>2, <1>3, <1>4, ArtStep DEF RowOK

\* completeArtifactDeletion leaves the tombstone of a row that is being deleted.
LEMMA CompleteStep ==
  ASSUME DataOK, NEW a \in Arts, CompleteArtifactDeletion(a), UNCHANGED <<task, blob, ledger>>
  PROVE  DataOK' /\ Grows /\ Kept
<1>1. CASE art[a].st = "deleting"
  BY <1>1, StatusStep DEF CompleteArtifactDeletion
<1>2. CASE art[a].st # "deleting"
  BY <1>2, DataSame DEF CompleteArtifactDeletion
<1> QED
  BY <1>1, <1>2

\* claimArtifactForDeletion looks at the task and at the row again.
LEMMA ClaimStep ==
  ASSUME BlobConstants, BlobInv, NEW w \in Workers, ClaimArtifactForDeletion(w)
  PROVE  BlobInv' /\ Kept
<1> DEFINE o == op[w]
           t == task[TaskOf[o.a]]
<1>1. /\ o.pc = "claim" /\ UNCHANGED <<task, blob, ledger>>
      /\ \/ Leave(w) /\ art' = art
         \/ /\ Goto(w, "process") /\ art' = [art EXCEPT ![o.a].st = "deleting"]
            /\ ~(o.prot /\ (t.deleted \/ t.pinned)) /\ art[o.a].st = o.st
  BY DEF ClaimArtifactForDeletion
<1>2. o.a \in Arts /\ o.st \in {"ready", "deleting"} /\ (o.st = "ready" /\ ~o.prot => t.deleted)
  BY <1>1, AtHand DEF Fits, OfArtifact, Decided
<1>3. "process" \in Steps \ {"claim"} /\ Fits("process", o.a, o.k)
  BY <1>2 DEF Steps, Fits, OfArtifact, OfKey, OfLogical, OfMigration
<1>4. CASE Leave(w) /\ art' = art
  BY <1>1, <1>4, OpStep
<1>5. CASE /\ Goto(w, "process") /\ art' = [art EXCEPT ![o.a].st = "deleting"]
           /\ ~(o.prot /\ (t.deleted \/ t.pinned)) /\ art[o.a].st = o.st
  <2>1. DataOK' /\ Grows /\ Kept
    BY <1>1, <1>2, <1>5, StatusStep DEF BlobInv
  <2>2. OpsOK'
    BY <1>3, <1>5, <2>1, GotoOp DEF BlobInv
  <2> QED
    BY <2>1, <2>2 DEF BlobInv
<1> QED
  BY <1>1, <1>4, <1>5

\* A worker goes on with another key.
LEMMA RekeyOp ==
  ASSUME BlobConstants, OpsOK, Grows, NEW w \in Workers, NEW l \in Steps \ {"claim"},
         NEW key \in Keys, op' = [op EXCEPT ![w].pc = l, ![w].k = key], Fits(l, op[w].a, key)
  PROVE  OpsOK'
<1> DEFINE o == [op[w] EXCEPT !.pc = l, !.k = key]
<1>1. op[w] \in Op
  BY DEF OpsOK
<1>2. o \in Op /\ o.pc = l /\ o.a = op[w].a /\ o.k = key
  BY <1>1 DEF Op
<1>3. op' = [op EXCEPT ![w] = o]
  OBVIOUS
<1> HIDE DEF o
<1>4. OpOK(o, task')
  BY <1>2 DEF OpOK, Decided
<1> QED
  BY <1>2, <1>3, <1>4, SetOp

\* processArtifactDeletion and its last step.
LEMMA ProcessSteps ==
  ASSUME BlobConstants, BlobInv, NEW w \in Workers,
         ProcessBlob(w) \/ ProcessShared(w) \/ ProcessPlain(w) \/ Complete(w)
  PROVE  BlobInv' /\ Kept
<1> DEFINE o == op[w]
<1>1. o.a \in Arts
  BY AtHand DEF ProcessBlob, ProcessShared, ProcessPlain, Complete, Fits, OfArtifact
<1>2. KeyOf[o.a] \in Keys
  BY <1>1 DEF Keys, Logical
<1>3. UNCHANGED <<task, blob, ledger>> /\ (CompleteArtifactDeletion(o.a) \/ UNCHANGED art)
  BY DEF ProcessBlob, ProcessShared, ProcessPlain, Complete
<1>4. DataOK' /\ Grows /\ Kept
  BY <1>1, <1>3, CompleteStep, DataSame DEF BlobInv
<1>5. \/ Leave(w)
      \/ op' = [op EXCEPT ![w].pc = "claimblob", ![w].k = o.bl] /\ o.bl \in Keys
      \/ op' = [op EXCEPT ![w].pc = "delete", ![w].k = KeyOf[o.a]]
  BY AtHand DEF ProcessBlob, ProcessShared, ProcessPlain, Complete
<1>6. OpsOK'
  <2>1. "claimblob" \in Steps \ {"claim"} /\ (o.bl \in Keys => Fits("claimblob", o.a, o.bl))
    BY DEF Steps, Fits, OfArtifact, OfKey, OfLogical, OfMigration
  <2>2. "delete" \in Steps \ {"claim"} /\ Fits("delete", o.a, KeyOf[o.a])
    BY <1>1 DEF Steps, Fits, OfArtifact, OfKey, OfLogical, OfMigration
  <2> QED
    BY <1>2, <1>4, <1>5, <2>1, <2>2, StopOp, RekeyOp DEF BlobInv
<1> QED
  BY <1>4, <1>6 DEF BlobInv

-----------------------------------------------------------------------------
(* Blobs and ledgers *)

\* A step whose rows are in order and after which its worker stops or goes on.
LEMMA Done ==
  ASSUME BlobConstants, BlobInv, DataOK' /\ Grows /\ Kept, NEW w \in Workers,
         \/ Leave(w)
         \/ \E l \in Steps \ {"claim"} : Goto(w, l) /\ Fits(l, op[w].a, op[w].k)
  PROVE  BlobInv' /\ Kept
<1>1. OpsOK'
  BY StopOp, GotoOp DEF BlobInv
<1> QED
  BY <1>1 DEF BlobInv

\* claimUnreferencedBlobDeletion, the tombstone of a blob, and what the retry of a
\* deletion finds.
LEMMA BlobDeletionSteps ==
  ASSUME BlobConstants, BlobInv, NEW w \in Workers,
         ClaimUnreferencedBlobDeletion(w) \/ TombstoneBlob(w) \/ RecheckBlob(w)
  PROVE  BlobInv' /\ Kept
<1> DEFINE k == op[w].k
<1>1. k \in Keys
  BY AtHand DEF ClaimUnreferencedBlobDeletion, TombstoneBlob, RecheckBlob, Fits, OfKey
<1>2. \A l \in {"delblob", "unlink"} : l \in Steps \ {"claim"} /\ Fits(l, op[w].a, k)
  BY <1>1 DEF Steps, Fits, OfArtifact, OfKey, OfLogical, OfMigration
<1>3. Leave(w) \/ Goto(w, "delblob") \/ Goto(w, "unlink")
  BY DEF ClaimUnreferencedBlobDeletion, TombstoneBlob, RecheckBlob
<1>4. /\ UNCHANGED <<task, art, ledger>>
      /\ \/ blob' = blob
         \/ blob' = [blob EXCEPT ![k] = "deleting"] /\ Refs(k) = {}
         \/ blob' = [blob EXCEPT ![k] = "deleted"] /\ blob[k] = "deleting"
         \/ blob' = [blob EXCEPT ![k] = "ready"]
  BY DEF ClaimUnreferencedBlobDeletion, TombstoneBlob, RecheckBlob
<1>5. k \in Cas /\ blob[k] = "deleting" => Refs(k) = {}
  BY DEF BlobInv, DataOK, CasDeletionHasNoReference
<1>6. {"deleting", "deleted", "ready"} \subseteq Rests
  BY DEF Rests
<1> HIDE DEF k
<1>7. DataOK' /\ Grows /\ Kept
  BY <1>4, <1>5, <1>6, BlobStep, DataSame DEF BlobInv
<1> QED
  BY <1>2, <1>3, <1>7, Done DEF k

\* The blob of an old key is retired, or made ready for a backfill.
LEMMA BackfillBlobSteps ==
  ASSUME BlobConstants, BlobInv, NEW w \in Workers,
         RetireBackfillBlob(w) \/ EnsureBackfillBlob(w)
  PROVE  BlobInv' /\ Kept
<1> DEFINE k == op[w].k
<1>1. k \in Logical
  BY AtHand DEF RetireBackfillBlob, EnsureBackfillBlob, Fits, OfLogical
<1>2. \A l \in {"enqueue", "link"} : l \in Steps \ {"claim"} /\ Fits(l, op[w].a, k)
  BY <1>1 DEF Steps, Fits, OfArtifact, OfKey, OfLogical, OfMigration
<1>3. Leave(w) \/ Goto(w, "enqueue") \/ Goto(w, "link")
  BY DEF RetireBackfillBlob, EnsureBackfillBlob
<1>4. /\ UNCHANGED <<task, art, ledger>>
      /\ blob' = blob \/ \E s \in {"deleted", "ready"} : blob' = [blob EXCEPT ![k] = s]
  BY DEF RetireBackfillBlob, EnsureBackfillBlob
<1>5. k \notin Cas /\ {"deleted", "ready"} \subseteq Rests
  BY <1>1 DEF BlobConstants, Rests
<1> HIDE DEF k
<1>6. DataOK' /\ Grows /\ Kept
  BY <1>4, <1>5, BlobStep, DataSame DEF BlobInv
<1> QED
  BY <1>2, <1>3, <1>6, Done DEF k

\* Symbols are listed, or taken from the ledger.
LEMMA LedgerSteps ==
  ASSUME BlobConstants, BlobInv, NEW w \in Workers,
         UnlistKernelSymbol(w) \/ UnlinkLedgers(w) \/ ListSymbol(w)
  PROVE  BlobInv' /\ Kept
<1>1. ledger \in [Ledger -> {Absent, None} \cup Keys]
  BY DEF BlobInv, DataOK, Types
<1>2. UNCHANGED <<task, art, blob>>
  BY DEF UnlistKernelSymbol, UnlinkLedgers, ListSymbol
<1>3. /\ ledger' \in [Ledger -> {Absent, None} \cup Keys]
      /\ \A l \in Ledger : ledger'[l] \in {ledger[l], Absent, None}
  <2>1. CASE UnlistKernelSymbol(w)
    BY <1>1, <2>1 DEF UnlistKernelSymbol
  <2>2. CASE UnlinkLedgers(w)
    BY <1>1, <2>2 DEF UnlinkLedgers
  <2>3. CASE ListSymbol(w)
    BY <1>1, <2>3 DEF ListSymbol
  <2> QED
    BY <2>1, <2>2, <2>3
<1>4. DataOK' /\ Grows /\ Kept
  BY <1>2, <1>3, LedgerStep DEF BlobInv
<1>5. CASE UnlistKernelSymbol(w)
  <2>1. op[w].a \in Arts
    BY <1>5, AtHand DEF UnlistKernelSymbol, Fits, OfArtifact
  <2>2. "complete" \in Steps \ {"claim"} /\ Fits("complete", op[w].a, op[w].k)
    BY <2>1 DEF Steps, Fits, OfArtifact, OfKey, OfLogical, OfMigration
  <2> QED
    BY <1>4, <1>5, <2>2, Done DEF UnlistKernelSymbol
<1>6. CASE UnlinkLedgers(w)
  BY <1>4, <1>6, Done DEF UnlinkLedgers
<1>7. CASE ListSymbol(w)
  <2>1. op[w].a # None => op[w].a \in Arts /\ Kind[op[w].a] = "kernel"
    BY <1>7, AtHand DEF ListSymbol, Fits
  <2>2. op[w].a # None => "record" \in Steps \ {"claim"} /\ Fits("record", op[w].a, op[w].k)
    BY <2>1 DEF Steps, Fits, OfArtifact, OfKey, OfLogical, OfMigration
  <2> QED
    BY <1>4, <1>7, <2>2, Done DEF ListSymbol
<1> QED
  BY <1>5, <1>6, <1>7

-----------------------------------------------------------------------------
(* Backfill and migration *)

\* backfillRefs: what still reads the key itself gets the blob of the key.
LEMMA LinkBackfillStep ==
  ASSUME BlobConstants, BlobInv, NEW w \in Workers, LinkBackfillRefs(w)
  PROVE  BlobInv' /\ Kept
<1> DEFINE k == op[w].k
<1>1. k \in Logical /\ k \in Keys /\ k \notin Cas
  BY AtHand DEF LinkBackfillRefs, Fits, OfLogical, Keys, BlobConstants
<1>2. Types
  BY DEF BlobInv, DataOK
<1>3. /\ UNCHANGED task /\ blob' \in [Keys -> Rests] /\ Revived
      /\ art' = [a \in Arts |-> IF KeyOf[a] = k /\ Live(a) /\ art[a].blob = None
                                THEN [art[a] EXCEPT !.blob = k] ELSE art[a]]
      /\ ledger' = [l \in Ledger |-> IF l = k /\ ledger[l] = None THEN k ELSE ledger[l]]
      /\ Leave(w)
  BY <1>2 DEF LinkBackfillRefs, Revived, Types
<1> HIDE DEF k
<1>4. /\ art' \in [Arts -> Row]
      /\ \A a \in Arts : \/ art'[a] = art[a]
                         \/ Live(a) /\ art'[a] = [art[a] EXCEPT !.blob = k]
  BY <1>1, <1>2, <1>3 DEF Types, Row
<1>5. /\ ledger' \in [Ledger -> {Absent, None} \cup Keys]
      /\ \A l \in Ledger : ledger'[l] \in {ledger[l], k}
  BY <1>1, <1>2, <1>3 DEF Types
<1>6. DataOK' /\ Grows /\ Kept
  BY <1>1, <1>3, <1>4, <1>5, SwitchStep DEF BlobInv
<1> QED
  BY <1>3, <1>6, Done

\* switchMigrationRefsTx: the references to an old key move to the blob of its content.
LEMMA SwitchRefs ==
  ASSUME BlobConstants, DataOK, NEW k \in Migratable, NEW c \in Cas, UNCHANGED task,
         blob' \in [Keys -> Rests], Revived, blob'[c] = "ready", SwitchMigrationRefs(k, c)
  PROVE  DataOK' /\ Grows /\ Kept
<1>1. c \in Keys /\ Types /\ \A a \in Arts : KeyOf[a] = k => Kind[a] # "manifest"
  BY KindOfKey DEF Keys, DataOK
<1>2. /\ art' \in [Arts -> Row]
      /\ \A a \in Arts : \/ art'[a] = art[a]
                         \/ /\ Live(a) /\ art'[a] = [art[a] EXCEPT !.blob = c]
                            /\ Kind[a] = "manifest" => c \notin Cas
  BY <1>1 DEF SwitchMigrationRefs, Types, Row
<1>3. /\ ledger' \in [Ledger -> {Absent, None} \cup Keys]
      /\ \A l \in Ledger : ledger'[l] \in {ledger[l], c}
  BY <1>1 DEF SwitchMigrationRefs, Types
<1> QED
  BY <1>1, <1>2, <1>3, SwitchStep

\* The two ends of a migration.
LEMMA MigrateSteps ==
  ASSUME BlobConstants, BlobInv, NEW w \in Workers, MigrateUpsert(w) \/ MigrateSwitch(w)
  PROVE  BlobInv' /\ Kept
<1> DEFINE k == op[w].k
           c == CasOf[k]
<1>1. k \in Migratable
  BY AtHand DEF MigrateUpsert, MigrateSwitch, Fits, OfMigration
<1>2. k \in Logical /\ c \in Cas /\ c \in Keys
  BY <1>1 DEF BlobConstants, Keys
<1>3. "enqueue" \in Steps \ {"claim"} /\ Fits("enqueue", op[w].a, k)
  BY <1>2 DEF Steps, Fits, OfArtifact, OfKey, OfLogical, OfMigration
<1>4. UNCHANGED task /\ (Leave(w) \/ Goto(w, "enqueue"))
  BY DEF MigrateUpsert, MigrateSwitch
<1>5. \/ UNCHANGED <<art, blob, ledger>>
      \/ blob' = [blob EXCEPT ![c] = "ready"] /\ SwitchMigrationRefs(k, c)
      \/ blob' = blob /\ blob[c] = "ready" /\ SwitchMigrationRefs(k, c)
  BY DEF MigrateUpsert, MigrateSwitch
<1>6. blob \in [Keys -> Rests] /\ DataOK /\ "ready" \in Rests
  BY DEF BlobInv, DataOK, Types, Rests
<1> HIDE DEF k, c
<1>7. DataOK' /\ Grows /\ Kept
  <2>1. CASE UNCHANGED <<art, blob, ledger>>
    BY <1>4, <1>6, <2>1, DataSame
  <2>2. CASE /\ \/ blob' = [blob EXCEPT ![c] = "ready"]
                \/ blob' = blob /\ blob[c] = "ready"
             /\ SwitchMigrationRefs(k, c)
    <3>1. blob' \in [Keys -> Rests] /\ Revived /\ blob'[c] = "ready"
      BY <1>2, <1>6, <2>2 DEF Revived, Keys
    <3> QED
      BY <1>1, <1>2, <1>4, <1>6, <2>2, <3>1, SwitchRefs
  <2> QED
    BY <1>5, <2>1, <2>2
<1> QED
  BY <1>3, <1>4, <1>7, Done DEF k

-----------------------------------------------------------------------------
(* Writers *)

\* A writer begins with an artifact.
LEMMA WriteArtifact ==
  ASSUME BlobConstants, BlobInv, DataOK' /\ Grows /\ Kept, NEW o \in Op,
         o.pc \in {"describe", "name", "notify", "record", "list"}, Fits(o.pc, o.a, o.k), Write(o)
  PROVE  BlobInv' /\ Kept
<1>1. OpOK(o, task')
  BY DEF OpOK, Decided
<1> QED
  BY <1>1, BeginOp DEF Write, BlobInv

\* Objects that writers put into the bucket.
LEMMA UploadSteps ==
  ASSUME BlobConstants, BlobInv, NEW a \in Arts,
         UploadResult(a) \/ UploadManifest(a) \/ UploadRaw(a)
  PROVE  BlobInv' /\ Kept
<1>1. DataOK' /\ Grows /\ Kept
  BY DataSame DEF UploadResult, UploadManifest, UploadRaw, BlobInv
<1>2. NoOp \in Op /\ NoOp.a = None /\ NoOp.k = None
      /\ {"describe", "name", "notify"} \subseteq Steps
  BY IdleOK DEF NoOp, Steps, OfArtifact
<1>3. CASE UploadResult(a)
  <2> DEFINE o == [NoOp EXCEPT !.pc = "describe", !.a = a, !.k = CasOf[KeyOf[a]]]
  <2>1. CasOf[KeyOf[a]] \in Cas /\ CasOf[KeyOf[a]] \in Keys /\ Kind[a] = "result"
    BY <1>3, KindOfKey DEF UploadResult, Keys
  <2>2. o \in Op /\ o.pc = "describe" /\ o.a = a /\ o.k = CasOf[KeyOf[a]]
    BY <1>2, <2>1 DEF Op
  <2>3. Write(o)
    BY <1>3 DEF UploadResult
  <2> HIDE DEF o
  <2>4. Fits(o.pc, o.a, o.k)
    BY <2>1, <2>2 DEF Fits, OfArtifact, OfKey, OfLogical, OfMigration
  <2> QED
    BY <1>1, <2>2, <2>3, <2>4, WriteArtifact
<1>4. CASE UploadManifest(a)
  <2> DEFINE o == [NoOp EXCEPT !.pc = "name", !.a = a, !.k = KeyOf[a]]
  <2>1. KeyOf[a] \in Keys /\ Kind[a] = "manifest"
    BY <1>4 DEF UploadManifest, Keys, Logical
  <2>2. o \in Op /\ o.pc = "name" /\ o.a = a
    BY <1>2, <2>1 DEF Op
  <2>3. Write(o)
    BY <1>4 DEF UploadManifest
  <2> HIDE DEF o
  <2>4. Fits(o.pc, o.a, o.k)
    BY <2>1, <2>2 DEF Fits, OfArtifact, OfKey, OfLogical, OfMigration
  <2> QED
    BY <1>1, <2>2, <2>3, <2>4, WriteArtifact
<1>5. CASE UploadRaw(a)
  <2> DEFINE o == [NoOp EXCEPT !.pc = "notify", !.a = a]
  <2>1. o \in Op /\ o.pc = "notify" /\ o.a = a
    BY <1>2 DEF Op
  <2>2. Write(o)
    BY <1>5 DEF UploadRaw
  <2> HIDE DEF o
  <2>3. Fits(o.pc, o.a, o.k)
    BY <2>1 DEF Fits, OfArtifact, OfKey, OfLogical, OfMigration
  <2> QED
    BY <1>1, <2>1, <2>2, <2>3, WriteArtifact
<1> QED
  BY <1>3, <1>4, <1>5

\* CheckKernelSymbol and UploadSymbol.
LEMMA SymbolSteps ==
  ASSUME BlobConstants, BlobInv,
         \/ \E a \in Arts : CheckKernelSymbol(a)
         \/ \E k \in Elf : UploadSymbol(k)
  PROVE  BlobInv' /\ Kept
<1>1. NoOp \in Op /\ NoOp.a = None /\ NoOp.k = None /\ {"record", "list"} \subseteq Steps
  BY IdleOK DEF NoOp, Steps, OfArtifact
<1>2. ASSUME NEW a \in Arts, CheckKernelSymbol(a)
      PROVE  BlobInv' /\ Kept
  <2>1. /\ Kind[a] = "kernel" /\ KeyOf[a] \in Ledger /\ UNCHANGED <<task, art, blob>>
        /\ ledger \in [Ledger -> {Absent, None} \cup Keys]
    BY <1>2, KindOfKey DEF CheckKernelSymbol, BlobInv, DataOK, Types
  <2>2. ledger' = ledger \/ ledger' = [ledger EXCEPT ![KeyOf[a]] = None]
    BY <1>2 DEF CheckKernelSymbol
  <2>3. /\ ledger' \in [Ledger -> {Absent, None} \cup Keys]
        /\ \A l \in Ledger : ledger'[l] \in {ledger[l], Absent, None}
    BY <2>1, <2>2
  <2>4. DataOK' /\ Grows /\ Kept
    BY <2>1, <2>3, LedgerStep DEF BlobInv
  <2>5. \/ /\ ledger[KeyOf[a]] # Absent
           /\ Write([NoOp EXCEPT !.pc = "record", !.a = a, !.bl = ledger[KeyOf[a]]])
        \/ Write([NoOp EXCEPT !.pc = "record", !.a = a])
        \/ Write([NoOp EXCEPT !.pc = "list", !.a = a])
    BY <1>2 DEF CheckKernelSymbol
  <2>6. ASSUME NEW o \in Op, o.pc \in {"record", "list"}, o.a = a, o.k = None, Write(o)
        PROVE  BlobInv' /\ Kept
    <3>1. Fits(o.pc, o.a, o.k)
      BY <2>1, <2>6 DEF Fits, OfArtifact, OfKey, OfLogical, OfMigration
    <3> QED
      BY <2>4, <2>6, <3>1, WriteArtifact
  <2>7. ASSUME NEW o, NEW l \in {"record", "list"}, NEW b \in Keys \cup {None},
               o = [NoOp EXCEPT !.pc = l, !.a = a, !.bl = b]
        PROVE  o \in Op /\ o.pc = l /\ o.a = a /\ o.k = None
    BY <1>1, <2>7 DEF Op
  <2>8. ASSUME NEW o, NEW l \in {"record", "list"}, o = [NoOp EXCEPT !.pc = l, !.a = a]
        PROVE  o \in Op /\ o.pc = l /\ o.a = a /\ o.k = None
    BY <1>1, <2>8 DEF Op
  <2>9. ledger[KeyOf[a]] \in {Absent, None} \cup Keys
    BY <2>1
  <2> QED
    BY <2>5, <2>6, <2>7, <2>8, <2>9
<1>3. ASSUME NEW k \in Elf, UploadSymbol(k)
      PROVE  BlobInv' /\ Kept
  <2> DEFINE o == [NoOp EXCEPT !.pc = "list", !.k = k]
  <2>1. DataOK' /\ Grows /\ Kept
    BY <1>3, DataSame DEF UploadSymbol, BlobInv
  <2>2. k \in Ledger /\ k \in Keys
    BY DEF BlobConstants, Keys, Logical
  <2>3. o \in Op /\ o.pc = "list" /\ o.a = None /\ o.k = k
    BY <1>1, <2>2 DEF Op
  <2>4. Write(o)
    BY <1>3 DEF UploadSymbol
  <2> HIDE DEF o
  <2>5. Fits(o.pc, o.a, o.k)
    BY <2>2, <2>3 DEF Fits, OfArtifact, OfKey, OfLogical, OfMigration
  <2> QED
    BY <2>1, <2>3, <2>4, <2>5, WriteArtifact
<1> QED
  BY <1>2, <1>3

\* _insert_artifact_from_descriptor, and the registration of a manifest, of a raw file
\* and of the symbols of a kernel.
LEMMA RegisterSteps ==
  ASSUME BlobConstants, BlobInv, NEW w \in Workers,
         \/ RegisterDescriptor(w) \/ RegisterKey(w) \/ RegisterRaw(w)
         \/ RecordKernelSymbolArtifact(w)
  PROVE  BlobInv' /\ Kept
<1> DEFINE a == op[w].a
           k == op[w].k
<1>1. a \in Arts /\ UNCHANGED <<task, ledger>> /\ Leave(w)
  BY AtHand DEF RegisterDescriptor, RegisterKey, RegisterRaw, RecordKernelSymbolArtifact,
                Fits, OfArtifact
<1>2. /\ DataOK /\ Types /\ art[a] \in Row /\ RowOK(a) /\ "ready" \in Rests
      /\ art[a].blob \in Keys \cup {None}
  BY <1>1 DEF BlobInv, DataOK, Types, RowsOK, Rests, Row
<1>3. ASSUME NEW b \in Keys \cup {None}, art' = [art EXCEPT ![a] = [st |-> "ready", blob |-> b]],
             blob' \in [Keys -> Rests], Revived, b \in Cas => blob'[b] = "ready",
             art[a].st # "deleted", Kind[a] # "manifest"
      PROVE  DataOK' /\ Grows /\ Kept
  <2> DEFINE r == [st |-> "ready", blob |-> b]
  <2>1. r \in Row /\ r.st = "ready" /\ r.blob = b
    BY DEF Row
  <2>2. art' = [art EXCEPT ![a] = r]
    BY <1>3
  <2> HIDE DEF r
  <2> QED
    BY <1>1, <1>2, <1>3, <2>1, <2>2, ArtStep
<1>4. DataOK' /\ Grows /\ Kept
  <2>1. CASE RegisterDescriptor(w)
    <3>1. Kind[a] = "result" /\ k \in Cas /\ k \in Keys
      BY <2>1, AtHand DEF RegisterDescriptor, Fits, Keys
    <3>2. \/ UNCHANGED <<art, blob>>
          \/ /\ blob' = [blob EXCEPT ![k] = "ready"]
             /\ \/ art' = art
                \/ art[a].st # "deleted" /\ art' = [art EXCEPT ![a] = [st |-> "ready", blob |-> k]]
      BY <2>1 DEF RegisterDescriptor
    <3> HIDE DEF a, k
    <3>3. CASE UNCHANGED <<art, blob>>
      BY <1>1, <1>2, <3>3, DataSame
    <3>4. CASE blob' = [blob EXCEPT ![k] = "ready"] /\ art' = art
      BY <1>1, <1>2, <3>4, BlobStep
    <3>5. CASE /\ blob' = [blob EXCEPT ![k] = "ready"] /\ art[a].st # "deleted"
               /\ art' = [art EXCEPT ![a] = [st |-> "ready", blob |-> k]]
      <4>1. blob' \in [Keys -> Rests] /\ Revived /\ blob'[k] = "ready"
        BY <1>2, <3>1, <3>5 DEF Types, Revived, Keys
      <4> QED
        BY <1>3, <3>1, <3>5, <4>1
    <3> QED
      BY <3>2, <3>3, <3>4, <3>5
  <2>2. CASE RegisterKey(w)
    <3>1. Kind[a] = "manifest" /\ art[a].blob \notin Cas
      BY <1>2, <2>2, AtHand DEF RegisterKey, Fits, RowOK
    <3>2. /\ blob' = blob
          /\ \/ art' = art
             \/ art[a].st # "deleted" /\ art' = [art EXCEPT ![a].st = "ready"]
      BY <2>2 DEF RegisterKey
    <3> HIDE DEF a
    <3> QED
      BY <1>1, <1>2, <3>1, <3>2, DataSame, StatusStep
  <2>3. CASE RegisterRaw(w)
    <3>1. /\ blob' = blob
          /\ \/ art' = art
             \/ art[a].st = "none" /\ art' = [art EXCEPT ![a].st = "ready"]
      BY <2>3 DEF RegisterRaw
    <3>2. art[a].st = "none" => art[a].blob \notin Cas
      BY <1>2 DEF RowOK, BlobConstants, Keys
    <3> HIDE DEF a
    <3> QED
      BY <1>1, <1>2, <3>1, <3>2, DataSame, StatusStep
  <2>4. CASE RecordKernelSymbolArtifact(w)
    <3> DEFINE b == op[w].bl
    <3>1. Kind[a] # "manifest" /\ b \in Keys \cup {None}
      BY <2>4, AtHand DEF RecordKernelSymbolArtifact, Fits
    <3>2. /\ blob' = blob
          /\ \/ art' = art
             \/ /\ b # None => blob[b] = "ready"
                /\ art[a].st # "deleted" /\ art' = [art EXCEPT ![a] = [st |-> "ready", blob |-> b]]
      BY <2>4 DEF RecordKernelSymbolArtifact
    <3>3. blob' \in [Keys -> Rests] /\ Revived /\ None \notin Cas
      BY <1>2, <3>2 DEF Types, Revived, BlobConstants, Keys
    <3> HIDE DEF a, b
    <3> QED
      BY <1>1, <1>2, <1>3, <3>1, <3>2, <3>3, DataSame
  <2> QED
    BY <2>1, <2>2, <2>3, <2>4
<1> QED
  BY <1>1, <1>4, Done

-----------------------------------------------------------------------------
(* Users and time *)

\* DeleteTask and PinTaskArtifacts.
LEMMA UserSteps ==
  ASSUME BlobConstants, BlobInv, NEW t,
         DeleteTask(t) \/ \E p \in BOOLEAN : PinTaskArtifacts(t, p)
  PROVE  BlobInv' /\ Kept
<1>1. UNCHANGED <<art, blob, ledger, op>> /\ Types
  BY DEF DeleteTask, PinTaskArtifacts, BlobInv, DataOK
<1> DEFINE Changed ==
      /\ Grows /\ task' \in [Tasks -> [deleted : BOOLEAN, pinned : BOOLEAN]]
      /\ \A u \in Tasks : task'[u].pinned /\ ~task'[u].deleted =>
            \/ task[u].pinned /\ ~task[u].deleted
            \/ \A a \in Arts : TaskOf[a] = u => art[a].st # "deleting"
<1>2. Changed
  <2>1. CASE DeleteTask(t)
    BY <1>1, <2>1 DEF DeleteTask, Types, Grows
  <2>2. ASSUME NEW p \in BOOLEAN, PinTaskArtifacts(t, p)
        PROVE  Changed
    <3>1. /\ task' = [task EXCEPT ![t].pinned = p] /\ ~task[t].deleted
          /\ p => \A a \in Arts : TaskOf[a] = t => art[a].st # "deleting"
      BY <2>2 DEF PinTaskArtifacts
    <3>2. task \in [Tasks -> [deleted : BOOLEAN, pinned : BOOLEAN]]
      BY <1>1 DEF Types
    <3>3. task' \in [Tasks -> [deleted : BOOLEAN, pinned : BOOLEAN]]
      <4> DEFINE r == [task[t] EXCEPT !.pinned = p]
      <4>1. t \in Tasks => r \in [deleted : BOOLEAN, pinned : BOOLEAN]
        BY <3>2
      <4>2. task' = [task EXCEPT ![t] = r]
        BY <3>1
      <4> HIDE DEF r
      <4> QED
        BY <3>2, <4>1, <4>2
    <3>4. \A u \in Tasks : /\ task'[u].deleted = task[u].deleted
                           /\ u # t => task'[u].pinned = task[u].pinned
                           /\ u = t => task'[u].pinned = p
      BY SMT, <3>1, <3>2
    <3> QED
      BY <3>1, <3>3, <3>4 DEF Grows
  <2> QED
    BY <2>1, <2>2
<1>3. PinnedIsKept'
  <2>1. \A a \in Arts : TaskOf[a] \in Tasks
    BY DEF BlobConstants
  <2> QED
    BY <1>1, <1>2, <2>1 DEF BlobInv, DataOK, PinnedIsKept
<1>4. Types' /\ RowsOK' /\ CasDeletionHasNoReference' /\ Kept
  BY <1>1, <1>2 DEF BlobInv, DataOK, Types, RowsOK, RowOK, CasDeletionHasNoReference, Refs, Live,
                    Kept
<1>5. OpsOK'
  <2>1. ASSUME NEW w \in Workers
        PROVE  OpOK(op[w], task')
    <3>1. OpOK(op[w], task) /\ (op[w].pc = "claim" => TaskOf[op[w].a] \in Tasks)
      BY DEF BlobInv, OpsOK, OpOK, Fits, OfArtifact, BlobConstants
    <3> QED
      BY <1>2, <3>1 DEF OpOK, Decided, Grows
  <2> QED
    BY <1>1, <2>1 DEF BlobInv, OpsOK
<1> QED
  BY <1>3, <1>4, <1>5 DEF BlobInv, DataOK

\* Nothing is written when time passes.
LEMMA AgeStep ==
  ASSUME BlobInv, UNCHANGED <<task, art, blob, ledger, op>>
  PROVE  BlobInv' /\ Kept
<1>1. DataOK' /\ Kept
  BY DataSame DEF BlobInv
<1>2. OpsOK'
  BY DEF BlobInv, OpsOK
<1> QED
  BY <1>1, <1>2 DEF BlobInv

-----------------------------------------------------------------------------
(* The theorems *)

\* Before anything is written, no task is pinned and no row refers to a blob.
LEMMA InvInit ==
  ASSUME BlobConstants, BlobInit
  PROVE  BlobInv
<1>1. OpsOK
  <2>1. OpOK(NoOp, task)
    BY IdleOK DEF OpOK, Decided
  <2> QED
    BY <2>1, IdleOK DEF BlobInit, OpsOK
<1>2. Types
  <2>1. art \in [Arts -> Row]
    BY DEF BlobInit, Row
  <2>2. ledger \in [Ledger -> {Absent, None} \cup Keys]
    BY DEF BlobInit
  <2> QED
    BY <2>1, <2>2 DEF BlobInit, Types, Rests
<1>3. RowsOK
  BY DEF BlobInit, RowsOK, RowOK, BlobConstants, Keys
<1>4. CasDeletionHasNoReference
  BY DEF BlobInit, CasDeletionHasNoReference, Keys
<1>5. PinnedIsKept
  BY DEF BlobInit, PinnedIsKept
<1> QED
  BY <1>1, <1>2, <1>3, <1>4, <1>5 DEF BlobInv, DataOK

\* Every step keeps the invariant and every tombstone.
LEMMA InvStep ==
  ASSUME BlobConstants, BlobInv, [BlobNext]_blobvars
  PROVE  BlobInv' /\ Kept
<1>1. CASE ArtifactCleaning
  BY <1>1, StartArtifactSteps, ClaimStep, ProcessSteps, QuietSteps, LedgerSteps
     DEF ArtifactCleaning
<1>2. CASE BlobCleaning
  BY <1>2, StartKeySteps, BlobDeletionSteps, BackfillBlobSteps, LedgerSteps, QuietSteps
     DEF BlobCleaning
<1>3. CASE Migration
  BY <1>3, StartKeySteps, BackfillBlobSteps, LinkBackfillStep, QuietSteps, MigrateSteps
     DEF Migration
<1>4. CASE Sweeping
  BY <1>4, StartKeySteps, QuietSteps DEF Sweeping
<1>5. CASE Writing
  BY <1>5, UploadSteps, SymbolSteps, RegisterSteps, LedgerSteps DEF Writing
<1>6. CASE Users
  BY <1>6, UserSteps DEF Users
<1>7. CASE TimePasses \/ UNCHANGED blobvars
  BY <1>7, AgeStep DEF TimePasses, blobvars
<1> QED
  BY <1>1, <1>2, <1>3, <1>4, <1>5, <1>6, <1>7 DEF BlobNext

\* The inductive invariant.
LEMMA Invariance ==
  ASSUME BlobConstants
  PROVE  BlobSpec => []BlobInv
<1>1. BlobInit => BlobInv
  BY InvInit
<1>2. BlobInv /\ [BlobNext]_blobvars => BlobInv'
  BY InvStep
<1> QED
  BY <1>1, <1>2, PTL DEF BlobSpec

\* claimUnreferencedBlobDeletion counts the references under the row lock of the blob, and
\* writers need it ready under the same lock: whatever stale candidates two blob workers,
\* the lifecycle cleaner and the writers hold, the object of a content-addressed blob is
\* deleted only while no artifact and no symbol file refers to it.
THEOREM DeletedContentIsUnreferenced == BlobSpec => []CasDeletionHasNoReference
<1> USE BlobAssumption
<1>1. BlobInv => CasDeletionHasNoReference
  BY DEF BlobInv, DataOK
<1> QED
  BY <1>1, Invariance, PTL

\* claimArtifactForDeletion and PinTaskArtifacts read the task and its rows in one
\* transaction: a task that is pinned while its artifacts are candidates loses none.
THEOREM PinnedArtifactsAreKept == BlobSpec => []PinnedIsKept
<1> USE BlobAssumption
<1>1. BlobInv => PinnedIsKept
  BY DEF BlobInv, DataOK
<1> QED
  BY <1>1, Invariance, PTL

\* No writer, backfill or migration turns the tombstone of an artifact back into a row
\* that can be read, however late its upload is registered.
THEOREM TombstonesAreFinal == BlobSpec => TombstoneIsFinal
<1> USE BlobAssumption
<1>1. BlobInv /\ [BlobNext]_blobvars
        => [\A a \in Arts : art[a].st = "deleted" => art'[a].st = "deleted"]_blobvars
  BY InvStep DEF Kept
<1> QED
  BY <1>1, Invariance, PTL DEF BlobSpec, TombstoneIsFinal

\* The rest of the state: queue of old objects, bucket, ages and counters.
Places ==
  /\ group \in Groups
  /\ gc \in [Logical -> {"none", "queued", "due", "done"}]
  /\ bucket \subseteq Keys /\ old \subseteq Keys /\ due \subseteq Arts
  /\ failures \in Nat /\ writes \in Nat

\* A step adds to the bucket what it uploads and to the counters at most one.
Placed ==
  /\ group' = group
  /\ gc' \in [Logical -> {"none", "queued", "due", "done"}]
  /\ bucket' \subseteq Keys /\ old' \subseteq Keys /\ due' \subseteq Arts
  /\ failures' = failures \/ failures' = failures + 1
  /\ writes' = writes \/ writes' = writes + 1

LEMMA CleaningPlaced ==
  ASSUME BlobConstants, Places, ArtifactCleaning \/ BlobCleaning \/ Sweeping
  PROVE  Placed
<1> USE DEF Places, Placed, aux
<1>1. CASE ArtifactCleaning
  BY <1>1 DEF ArtifactCleaning, StartExpired, StartRetry, StartTaskDeleted,
     ClaimArtifactForDeletion, ProcessBlob, ProcessShared, ProcessPlain,
     DeleteArtifactObject, DeleteObject, UnlistKernelSymbol, Complete
<1>2. CASE BlobCleaning
  <2>1. ASSUME NEW w, EnqueueGC(w) \/ MarkCollected(w) PROVE Placed
    BY <2>1 DEF EnqueueGC, MarkCollected
  <2> QED
    BY <1>2, <2>1 DEF BlobCleaning, StartBlobRetry, StartOrphanCAS, StartOrphanBackfill,
       StartGC, ClaimUnreferencedBlobDeletion, DeleteBlobObject, DeleteObject,
       TombstoneBlob, UnlinkLedgers, RecheckBlob, RetireBackfillBlob, CollectObject
<1>3. CASE Sweeping
  BY <1>3 DEF Sweeping, StartSweep, StartUntracked, SweepRecheck, SweepDelete, DeleteObject
<1> QED
  BY <1>1, <1>2, <1>3

LEMMA MigrationPlaced ==
  ASSUME BlobConstants, BlobInv, Places, Migration
  PROVE  Placed
<1> USE DEF Places, Placed, aux
<1>1. ASSUME NEW w \in Workers, ShadowUpload(w) PROVE Placed
  <2>1. CasOf[op[w].k] \in Keys
    BY <1>1, AtHand DEF ShadowUpload, Fits, OfMigration, BlobConstants, Keys
  <2> QED
    BY <1>1, <2>1 DEF ShadowUpload
<1>2. ASSUME NEW w, VerifyBlob(w) \/ MigrateUpsert(w) PROVE Placed
  BY <1>2 DEF VerifyBlob, MigrateUpsert
<1> QED
  BY <1>1, <1>2 DEF Migration, StartBackfill, StartMigration, EnsureBackfillBlob,
     LinkBackfillRefs, MigrateSwitch

LEMMA WritingPlaced ==
  ASSUME BlobConstants, Places, Writing
  PROVE  Placed
<1> USE DEF Places, Placed, aux, Write
<1>1. ASSUME NEW k \in Keys, PutObject(k) PROVE bucket' \subseteq Keys /\ old' \subseteq Keys
  BY <1>1 DEF PutObject
<1>2. ASSUME NEW a \in Arts, UploadResult(a) PROVE Placed
  <2>1. CasOf[KeyOf[a]] \in Keys
    BY <1>2 DEF UploadResult, BlobConstants, Keys
  <2> QED
    BY <1>1, <1>2, <2>1 DEF UploadResult
<1>3. \A a \in Arts : KeyOf[a] \in Keys
  BY DEF Keys, Logical
<1>4. ASSUME NEW a \in Arts, UploadManifest(a) \/ UploadRaw(a) \/ CheckKernelSymbol(a)
      PROVE  Placed
  BY <1>1, <1>3, <1>4 DEF UploadManifest, UploadRaw, CheckKernelSymbol
<1>5. ASSUME NEW k \in Elf, UploadSymbol(k) PROVE Placed
  <2>1. k \in Keys
    BY DEF Keys, Logical, BlobConstants
  <2> QED
    BY <1>1, <1>5, <2>1 DEF UploadSymbol
<1>6. ASSUME NEW w, \/ RegisterDescriptor(w) \/ RegisterKey(w) \/ RegisterRaw(w)
                    \/ ListSymbol(w) \/ RecordKernelSymbolArtifact(w)
      PROVE  Placed
  BY <1>6 DEF RegisterDescriptor, RegisterKey, RegisterRaw, ListSymbol,
     RecordKernelSymbolArtifact
<1> QED
  BY <1>2, <1>4, <1>5, <1>6 DEF Writing

LEMMA PlacesStep ==
  ASSUME BlobConstants, BlobInv, Places, [BlobNext]_blobvars
  PROVE  Places'
<1>1. ASSUME Users \/ UNCHANGED blobvars PROVE Placed
  BY <1>1 DEF Users, DeleteTask, PinTaskArtifacts, Places, Placed, aux, blobvars
<1>2. ASSUME TimePasses PROVE Placed
  BY <1>2 DEF TimePasses, Places, Placed, Keys
<1>3. Placed
  BY <1>1, <1>2, CleaningPlaced, MigrationPlaced, WritingPlaced DEF BlobNext
<1>4. failures' \in Nat /\ writes' \in Nat
  BY SMT, <1>3 DEF Placed, Places
<1> QED
  BY <1>3, <1>4 DEF Placed, Places

\* The rows, the queue, the bucket and the counters keep their types under every cleaner,
\* migration and writer.
THEOREM BlobTypes == BlobSpec => []BlobTypeOK
<1> USE BlobAssumption
<1>1. BlobInit => Places
  <2> SUFFICES ASSUME BlobInit PROVE Places
    OBVIOUS
  <2>1. bucket \subseteq Keys
    BY DEF BlobInit, Keys, Logical
  <2>2. failures \in Nat /\ writes \in Nat
    BY SMT DEF BlobInit
  <2> QED
    BY <2>1, <2>2 DEF BlobInit, Places
<1>2. BlobInv /\ Places /\ [BlobNext]_blobvars => Places'
  BY PlacesStep
<1>3. BlobInv /\ Places => BlobTypeOK
  BY DEF BlobInv, OpsOK, DataOK, Types, Places, BlobTypeOK, Rests
<1> QED
  BY <1>1, <1>2, <1>3, Invariance, PTL DEF BlobSpec

-----------------------------------------------------------------------------
(* Deadlines of artifacts *)

Times == Nat \cup {Never}
Ends == {"active", "done", "failed"}
Versions == {Never} \cup {p.version : p \in Policies}
Deadlines == [class : Classes \cup {"none"}, exp : Times, notBefore : Times,
              version : Versions, state : Ends \cup {"none"}, st : {"ready", "deleting"}]

\* A row has a deadline if it was computed after the end of its task, or is being deleted.
Dated(r) ==
  /\ r.st = "deleting" => r.exp # Never
  /\ r.state \in {"done", "failed"} /\ kind # "manifest" => r.exp # Never

\* The reconciler works on the row as it is, unless the generation was superseded meanwhile.
ReadOK ==
  read.pending =>
    /\ row.st = "ready" /\ read.row \in Deadlines /\ read.row.st = "ready"
    /\ read.status \in Ends /\ read.superseded \in Times
    /\ superseded = Never => read.row = row /\ read.superseded = Never

Clocks ==
  /\ now \in Nat /\ policy \in Policies /\ created \in Nat /\ ended \in Times
  /\ superseded \in Times /\ status \in Ends /\ kind \in Kinds /\ read.pending \in BOOLEAN

RetentionInv == Clocks /\ row \in Deadlines /\ Dated(row) /\ ReadOK

\* The time of expiry counts from a time that has passed, so it is none of the special
\* values.
LEMMA BaseOK ==
  ASSUME RetentionConstants, Clocks, NEW s \in Ends, NEW sup \in Times,
         NEW c, c = Classify(kind, s, sup # Never)
  PROVE  /\ c \in Classes
         /\ c = "manifest" <=> kind = "manifest"
         /\ c = "superseded" => sup # Never \/ kind = "superseded"
         /\ Max2(IF sup # Never THEN sup ELSE created, ended) + policy.time[c] \in Nat
<1>1. /\ c \in Classes
      /\ c = "manifest" <=> kind = "manifest"
      /\ c = "superseded" => sup # Never \/ kind = "superseded"
  BY DEF Classify, Classes, Clocks
<1>2. policy.time[c] \in Nat
  BY <1>1 DEF RetentionConstants, Clocks
<1>3. Max2(IF sup # Never THEN sup ELSE created, ended) \in Nat
  BY SMT DEF Max2, Times, Never, Clocks
<1>4. \A m, n \in Nat : m + n \in Nat
  BY SMT
<1> QED
  BY <1>1, <1>2, <1>3, <1>4

\* lifecycleComputeExpiry gives a deadline to what has ended, and a deadline that is
\* neither earlier than before nor within the protection period only to what is superseded.
LEMMA ExpiryOK ==
  ASSUME RetentionConstants, Clocks, NEW r \in Deadlines, NEW s \in Ends, NEW sup \in Times,
         NEW x, x = ComputeExpiry(r, s, sup)
  PROVE  /\ x \in Deadlines /\ x.st = r.st /\ x.state = s
         /\ s # "active" /\ kind # "manifest" => x.exp # Never
         /\ sup = Never /\ r.exp # Never /\ x.exp # Never =>
              \/ x.exp >= r.exp /\ x.notBefore = r.notBefore
              \/ x.exp >= now + Guard \/ x.notBefore >= now + Guard
<1> DEFINE class == Classify(kind, s, sup # Never)
           base == Max2(IF sup # Never THEN sup ELSE created, ended) + policy.time[class]
           guard == now + Guard
           y == [r EXCEPT !.class = class, !.version = policy.version, !.state = s]
<1>1. /\ class \in Classes
      /\ class = "manifest" <=> kind = "manifest"
      /\ class = "superseded" => sup # Never
      /\ base \in Nat
  BY BaseOK DEF RetentionConstants, Clocks
<1>2. guard \in Nat /\ policy.version \in Versions
  <2>1. now \in Nat /\ Guard \in Nat /\ policy.version \in Versions
    BY DEF Clocks, RetentionConstants, Versions
  <2> QED
    BY SMT, <2>1
<1>3. \/ /\ class = "manifest" \/ s = "active"
         /\ x = [y EXCEPT !.exp = Never]
      \/ /\ ~(class = "manifest" \/ s = "active")
         /\ \/ class = "superseded" /\ x = [y EXCEPT !.exp = base]
            \/ x = [y EXCEPT !.exp = base, !.notBefore = guard]
            \/ x = [y EXCEPT !.exp = guard, !.notBefore = Max2(r.notBefore, guard)]
            \/ /\ ~(r.exp # Never /\ base < r.exp /\ base < guard)
               /\ x = [y EXCEPT !.exp = base]
  BY DEF ComputeExpiry
<1>4. /\ y \in Deadlines /\ y.st = r.st /\ y.state = s /\ y.notBefore = r.notBefore
      /\ r.exp \in Times /\ r.notBefore \in Times
  BY <1>1, <1>2 DEF Deadlines
<1> HIDE DEF class, base, guard, y
<1>5. CASE x = [y EXCEPT !.exp = Never] /\ (class = "manifest" \/ s = "active")
  BY <1>1, <1>4, <1>5 DEF Deadlines, Times
<1>6. CASE /\ x = [y EXCEPT !.exp = base]
           /\ \/ class = "superseded"
              \/ ~(r.exp # Never /\ base < r.exp /\ base < guard)
  <2>1. x \in Deadlines /\ x.st = r.st /\ x.state = s /\ x.exp = base /\ x.notBefore = r.notBefore
    BY <1>1, <1>4, <1>6 DEF Deadlines, Times
  <2> QED
    BY SMT, <1>1, <1>2, <1>4, <1>6, <2>1 DEF Times, Never, guard
<1>7. CASE x = [y EXCEPT !.exp = base, !.notBefore = guard]
  <2>1. x \in Deadlines /\ x.st = r.st /\ x.state = s /\ x.exp = base /\ x.notBefore = guard
    BY <1>1, <1>2, <1>4, <1>7 DEF Deadlines, Times
  <2> QED
    BY SMT, <1>1, <1>2, <2>1 DEF Never, guard
<1>8. CASE x = [y EXCEPT !.exp = guard, !.notBefore = Max2(r.notBefore, guard)]
  <2>1. Max2(r.notBefore, guard) \in Times
    BY <1>2, <1>4 DEF Max2, Times
  <2>2. x \in Deadlines /\ x.st = r.st /\ x.state = s /\ x.exp = guard
    BY <1>2, <1>4, <1>8, <2>1 DEF Deadlines, Times
  <2> QED
    BY SMT, <1>2, <2>2 DEF Never, guard
<1> QED
  BY <1>3, <1>5, <1>6, <1>7, <1>8

\* What the reconciler writes.
LEMMA WriteOK ==
  ASSUME RetentionConstants, RetentionInv, ReconcileWrite
  PROVE  /\ row' \in Deadlines /\ row'.st = "ready" /\ Dated(row')
         /\ superseded = Never /\ row.exp # Never /\ row'.exp # Never =>
              \/ row'.exp >= row.exp /\ row'.notBefore = row.notBefore
              \/ row'.exp >= now + Guard \/ row'.notBefore >= now + Guard
<1> DEFINE x == ComputeExpiry(read.row, read.status, read.superseded)
<1>1. read.pending /\ row' = [x EXCEPT !.st = row.st] /\ Clocks
  BY DEF ReconcileWrite, RetentionInv
<1>2. /\ row.st = "ready" /\ read.row \in Deadlines /\ read.row.st = "ready"
      /\ read.status \in Ends /\ read.superseded \in Times
      /\ superseded = Never => read.row = row /\ read.superseded = Never
  BY <1>1 DEF RetentionInv, ReadOK
<1>3. /\ x \in Deadlines /\ x.st = read.row.st /\ x.state = read.status
      /\ read.status # "active" /\ kind # "manifest" => x.exp # Never
      /\ read.superseded = Never /\ read.row.exp # Never /\ x.exp # Never =>
           \/ x.exp >= read.row.exp /\ x.notBefore = read.row.notBefore
           \/ x.exp >= now + Guard \/ x.notBefore >= now + Guard
  BY SMT, <1>1, <1>2, ExpiryOK
<1> HIDE DEF x
<1>4. /\ row' \in Deadlines /\ row'.st = "ready" /\ row'.exp = x.exp
      /\ row'.notBefore = x.notBefore /\ row'.state = x.state
  BY <1>1, <1>2, <1>3 DEF Deadlines
<1> QED
  BY <1>2, <1>3, <1>4 DEF Dated

\* Every step of the reconciler, the daemon, the task and the clock keeps the invariant.
LEMMA RetentionStep ==
  ASSUME RetentionConstants, RetentionInv, [RetentionNext]_retentionvars
  PROVE  RetentionInv'
<1> USE DEF RetentionInv, Clocks, ReadOK
<1>1. CASE ReconcileRead
  <2>1. row' = row /\ kind' = kind /\ row.st = "ready"
    BY <1>1 DEF ReconcileRead, Stale
  <2> QED
    BY <1>1, <2>1 DEF ReconcileRead, Dated
<1>2. CASE ReconcileWrite
  <2>1. row' \in Deadlines /\ Dated(row') /\ kind' = kind
    BY <1>2, WriteOK DEF ReconcileWrite
  <2> QED
    BY <1>2, <2>1 DEF ReconcileWrite, Nothing, Dated
<1>3. CASE ClaimExpired
  <2>1. /\ row' \in Deadlines /\ row'.exp = row.exp /\ row'.state = row.state
        /\ row.exp # Never
    BY <1>3 DEF ClaimExpired, Deadlines
  <2> QED
    BY <1>3, <2>1 DEF ClaimExpired, Dated
<1>4. CASE Supersede
  <2>1. now + Superseded \in Nat /\ now + Superseded # Never
    <3>1. now \in Nat /\ Superseded \in Nat
      BY DEF RetentionConstants
    <3> QED
      BY SMT, <3>1 DEF Never
  <2>2. /\ row' \in Deadlines /\ row'.st = row.st
        /\ row' = row \/ row'.exp # Never
    <3>1. CASE row' = row
      BY <3>1
    <3>2. CASE row' = [row EXCEPT !.class = "superseded", !.exp = now + Superseded,
                                  !.state = "done"]
      BY <2>1, <3>2 DEF Deadlines, Times, Ends, Classes
    <3> QED
      BY <1>4, <3>1, <3>2 DEF Supersede
  <2>3. superseded' # Never /\ superseded' \in Times
    BY SMT, <1>4 DEF Supersede, Never, Times
  <2> QED
    BY <1>4, <2>2, <2>3 DEF Supersede, Dated
<1>5. ASSUME NEW s \in {"done", "failed"}, Finish(s)
      PROVE  RetentionInv'
  BY <1>5 DEF Finish, Dated, Ends, Times
<1>6. ASSUME NEW p \in Policies, RestartWithPolicy(p)
      PROVE  RetentionInv'
  BY <1>6 DEF RestartWithPolicy, Nothing, Dated
<1>7. CASE HourPasses
  BY SMT, <1>7 DEF HourPasses, Dated
<1>8. CASE UNCHANGED retentionvars
  BY <1>8 DEF retentionvars, Dated
<1> QED
  BY <1>1, <1>2, <1>3, <1>4, <1>5, <1>6, <1>7, <1>8 DEF RetentionNext

\* The inductive invariant of the deadlines.
LEMMA RetentionInvariance ==
  ASSUME RetentionConstants
  PROVE  RetentionSpec => []RetentionInv
<1>1. RetentionInit => RetentionInv
  <2>1. ASSUME RetentionInit
        PROVE  row \in Deadlines /\ Dated(row)
    BY <2>1 DEF RetentionInit, Blank, Deadlines, Times, Versions, Ends, Dated
  <2> QED
    <3>1. ASSUME RetentionInit
          PROVE  Clocks /\ ~read.pending
      BY SMT, <3>1 DEF RetentionInit, Nothing, Clocks, Times, Ends
    <3> QED
      BY <2>1, <3>1 DEF RetentionInv, ReadOK
<1>2. RetentionInv /\ [RetentionNext]_retentionvars => RetentionInv'
  BY RetentionStep
<1> QED
  BY <1>1, <1>2, PTL DEF RetentionSpec

\* A row that the reconciler will not visit again, because policy and state of the task are
\* the ones it was computed from, has a deadline once the task has ended, although rows,
\* task and superseded generations are read in one transaction and written in another.
THEOREM EndedArtifactsExpire == RetentionSpec => []SettledHasDeadline
<1> USE RetentionAssumption
<1>1. RetentionInv => SettledHasDeadline
  BY DEF RetentionInv, Clocks, Dated, Deadlines, Ends, SettledHasDeadline, Stale
<1> QED
  BY <1>1, RetentionInvariance, PTL

\* The clock stays within its bound, and every time that is kept was read from it.
THEOREM RetentionTypes == RetentionSpec => []RetentionTypeOK
<1> USE RetentionAssumption
<1> DEFINE T == 0..MaxTime
           Bounded == now \in T /\ created \in T /\ ended \in {Never} \cup T
                      /\ superseded \in {Never} \cup T
<1>1. RetentionInit => Bounded
  BY SMT DEF RetentionInit, RetentionConstants
<1>2. RetentionInv /\ Bounded /\ [RetentionNext]_retentionvars => Bounded'
  <2> SUFFICES ASSUME Bounded, [RetentionNext]_retentionvars PROVE Bounded'
    OBVIOUS
  <2>1. CASE HourPasses
    BY SMT, <2>1 DEF HourPasses, RetentionConstants
  <2> QED
    BY <2>1 DEF RetentionNext, ReconcileRead, ReconcileWrite, ClaimExpired, Supersede,
       Finish, RestartWithPolicy, retentionvars
<1>3. RetentionInv /\ Bounded => RetentionTypeOK
  <2> SUFFICES ASSUME RetentionInv, Bounded PROVE RetentionTypeOK
    OBVIOUS
  <2>1. row.st \in {"ready", "deleting"} /\ row.exp \in Times /\ row.notBefore \in Times
    BY SMT DEF RetentionInv, Deadlines
  <2>2. row.exp \in Int /\ row.notBefore \in Int
    BY SMT, <2>1 DEF Times, Never
  <2> QED
    BY <2>1, <2>2 DEF RetentionInv, Clocks, Ends, RetentionTypeOK
<1> QED
  BY <1>1, <1>2, <1>3, RetentionInvariance, PTL DEF RetentionSpec

\* A deadline is brought forward only to a time that leaves notBeforeProtection from now
\* on, whatever policies the server is restarted with and however stale the rows are that
\* the reconciler computed from, unless a newer generation superseded the artifact.
THEOREM DeadlinesAreNotSprung == RetentionSpec => ShortenedWithNotice
<1> USE RetentionAssumption
<1> DEFINE Noticed ==
      row.exp # Never /\ row'.exp # Never /\ Deadline(row') < Deadline(row)
        => \/ Deadline(row') >= now + Guard
           \/ superseded # Never \/ superseded' # Never
<1>1. ASSUME RetentionInv, [RetentionNext]_retentionvars
      PROVE  [Noticed]_retentionvars
  <2>1. CASE ReconcileWrite
    <3> SUFFICES ASSUME superseded = Never, row.exp # Never, row'.exp # Never
                 PROVE  \/ Deadline(row') >= now + Guard
                        \/ ~(Deadline(row') < Deadline(row))
      OBVIOUS
    <3>1. /\ row.exp \in Int /\ row.notBefore \in Int /\ row'.exp \in Int
          /\ row'.notBefore \in Int /\ now + Guard \in Int
      <4>1. Times \subseteq Int
        BY SMT DEF Times, Never
      <4>2. row \in Deadlines /\ row' \in Deadlines /\ now \in Nat /\ Guard \in Nat
        BY <1>1, <2>1, WriteOK DEF RetentionInv, Clocks, RetentionConstants
      <4>3. /\ row.exp \in Times /\ row.notBefore \in Times
            /\ row'.exp \in Times /\ row'.notBefore \in Times
        BY <4>2 DEF Deadlines
      <4>4. now + Guard \in Int
        BY SMT, <4>2
      <4> QED
        BY <4>1, <4>3, <4>4
    <3>2. \/ row'.exp >= row.exp /\ row'.notBefore = row.notBefore
          \/ row'.exp >= now + Guard \/ row'.notBefore >= now + Guard
      BY <1>1, <2>1, WriteOK
    <3> QED
      BY SMT, <3>1, <3>2 DEF Deadline, Max2
  <2>2. CASE Supersede
    BY SMT, <1>1, <2>2 DEF Supersede, RetentionInv, Clocks, Never
  <2>3. CASE ClaimExpired
    <3>1. row'.exp = row.exp /\ row'.notBefore = row.notBefore
          /\ row.exp \in Times /\ row.notBefore \in Times
      BY <1>1, <2>3 DEF ClaimExpired, RetentionInv, Deadlines
    <3> QED
      BY SMT, <3>1 DEF Deadline, Max2, Times, Never
  <2>4. CASE row' = row
    <3>1. row.exp \in Times /\ row.notBefore \in Times
      BY <1>1 DEF RetentionInv, Deadlines
    <3> QED
      BY SMT, <2>4, <3>1 DEF Deadline, Max2, Times, Never
  <2>5. \/ ReconcileWrite \/ Supersede \/ ClaimExpired
        \/ row' = row \/ UNCHANGED retentionvars
    BY <1>1 DEF RetentionNext, ReconcileRead, Finish, RestartWithPolicy, HourPasses
  <2> QED
    BY <2>1, <2>2, <2>3, <2>4, <2>5
<1>2. RetentionInv /\ [RetentionNext]_retentionvars => [Noticed]_retentionvars
  BY <1>1
<1> QED
  BY <1>2, RetentionInvariance, PTL DEF RetentionSpec, ShortenedWithNotice

-----------------------------------------------------------------------------
(* The capacity gate *)

\* Good checks are counted in fresh too, but for one that had read the disk before the
\* reading that halted collection; while collection runs, enough of them were counted.
GateInv ==
  /\ fresh \in Nat /\ consecutiveOK \in Nat /\ halted \in BOOLEAN
  /\ check.step = "read" /\ check.stale => consecutiveOK <= fresh
  /\ consecutiveOK <= fresh + 1
  /\ ~halted => fresh + 1 >= RecoveryChecks

Asked == [step : {"idle", "passed", "refused", "read", "admitted"}, seen : Disk \cup {Unknown}]
AskedOK == free \in Disk \cup {Unknown} /\ request \in [Requests -> Asked]

\* The smaller of two numbers.
LEMMA MinOfTwo ==
  ASSUME NEW m \in Nat, NEW n \in Nat
  PROVE  Min({m, n}) \in Nat /\ Min({m, n}) <= m /\ Min({m, n}) <= n
<1>1. \E x \in {m, n} : \A y \in {m, n} : x <= y
  <2>1. CASE m <= n
    BY SMT, <2>1
  <2>2. CASE n <= m
    BY SMT, <2>2
  <2> QED
    BY SMT, <2>1, <2>2
<1> QED
  BY <1>1 DEF Min

\* tickRecoveryState counts a good check, or starts again.
LEMMA TickOK ==
  ASSUME RecoveryChecks \in Nat, GateInv, tickRecoveryState
  PROVE  GateInv'
<1> DEFINE m == Min({consecutiveOK + 1, RecoveryChecks})
<1>1. m \in Nat /\ m <= consecutiveOK + 1 /\ m <= RecoveryChecks
  BY SMT, MinOfTwo DEF GateInv
<1>2. /\ check.step = "read" /\ check'.stale = FALSE
      /\ consecutiveOK' = IF Recovered THEN m ELSE 0
      /\ halted' = (Blocked \/ (halted /\ consecutiveOK' < RecoveryChecks))
      /\ fresh' = IF Blocked THEN 0
                  ELSE IF Recovered /\ ~check.stale /\ fresh < RecoveryChecks
                       THEN fresh + 1 ELSE fresh
  BY DEF tickRecoveryState, NoCheck
<1>3. Recovered => ~Blocked
  BY DEF Recovered
<1> HIDE DEF m
<1>4. /\ halted' \in BOOLEAN
      /\ Blocked => halted'
      /\ ~halted' => ~Blocked /\ (~halted \/ ~(consecutiveOK' < RecoveryChecks))
  BY <1>2, Zenon
<1>5. /\ fresh \in Nat /\ consecutiveOK \in Nat /\ consecutiveOK <= fresh + 1
      /\ check.stale => consecutiveOK <= fresh
      /\ ~halted => fresh + 1 >= RecoveryChecks
  BY <1>2 DEF GateInv
<1>6. CASE Blocked
  <2>1. fresh' = 0 /\ consecutiveOK' = 0 /\ halted'
    BY <1>2, <1>3, <1>4, <1>6
  <2> QED
    BY SMT, <1>2, <1>4, <2>1 DEF GateInv
<1>7. CASE ~Blocked /\ ~Recovered
  <2>1. fresh' = fresh /\ consecutiveOK' = 0
    BY <1>2, <1>7
  <2> QED
    BY SMT, <1>2, <1>4, <1>5, <2>1 DEF GateInv
<1>8. CASE ~Blocked /\ Recovered
  <2>1. /\ consecutiveOK' = m
        /\ fresh' = IF ~check.stale /\ fresh < RecoveryChecks THEN fresh + 1 ELSE fresh
    BY <1>2, <1>8
  <2>2. fresh' \in Nat /\ fresh' >= fresh /\ m <= fresh' + 1
    BY SMT, <1>1, <1>5, <2>1
  <2> QED
    BY SMT, <1>1, <1>2, <1>4, <1>5, <2>1, <2>2 DEF GateInv
<1> QED
  BY <1>6, <1>7, <1>8

\* collectionCapacityOK starts the count again when it halts collection.
LEMMA CapacityOK ==
  ASSUME RecoveryChecks \in Nat, GateInv, NEW r \in Requests, collectionCapacityOK(r)
  PROVE  GateInv'
<1> DEFINE low == request[r].seen < RequiredFree
<1>1. /\ halted' = (halted \/ low)
      /\ consecutiveOK' = IF low THEN 0 ELSE consecutiveOK
      /\ fresh' = IF low THEN 0 ELSE fresh
      /\ ~low => check' = check
  BY DEF collectionCapacityOK
<1> HIDE DEF low
<1>2. CASE low
  <2>1. halted' = TRUE
    BY <1>1, <1>2, Zenon
  <2>2. consecutiveOK' = 0 /\ fresh' = 0
    BY <1>1, <1>2
  <2> QED
    BY SMT, <2>1, <2>2 DEF GateInv
<1>3. CASE ~low
  <2>1. halted' = halted
    BY <1>1, <1>3, Zenon DEF GateInv
  <2> QED
    BY <1>1, <1>3, <2>1 DEF GateInv
<1> QED
  BY <1>2, <1>3

\* A request is admitted by collectionCapacityOK only, while collection is not halted.
LEMMA AskedStep ==
  ASSUME AskedOK, [DiskNext]_diskvars
  PROVE  /\ AskedOK'
         /\ \A r \in Requests : request[r].step = "read" /\ request'[r].step = "admitted"
              => collectionCapacityOK(r) /\ ~halted
<1>1. ASSUME NEW q \in Requests, NEW x \in Asked, free' = free,
             request' = [request EXCEPT ![q] = x],
             x.step = "admitted" => collectionCapacityOK(q) /\ ~halted
      PROVE  /\ AskedOK'
             /\ \A r \in Requests : request[r].step = "read" /\ request'[r].step = "admitted"
                  => collectionCapacityOK(r) /\ ~halted
  BY <1>1 DEF AskedOK
<1>2. ASSUME NEW q \in Requests, CanStart(q)
      PROVE  \E x \in Asked : request' = [request EXCEPT ![q] = x] /\ x.step # "admitted"
  <2> DEFINE l == IF free = Unknown \/ Emergency(free) THEN "refused" ELSE "passed"
             x == [request[q] EXCEPT !.step = l]
  <2>1. request' = [request EXCEPT ![q] = x] /\ l \in {"refused", "passed"}
    BY <1>2 DEF CanStart
  <2> HIDE DEF l
  <2>2. x \in Asked /\ x.step # "admitted"
    BY <2>1 DEF AskedOK, Asked
  <2> QED
    BY <2>1, <2>2
<1>3. ASSUME NEW q \in Requests, CapacityReads(q)
      PROVE  \E x \in Asked : request' = [request EXCEPT ![q] = x] /\ x.step # "admitted"
  <2> DEFINE x == IF free = Unknown THEN [request[q] EXCEPT !.step = "refused"]
                  ELSE [step |-> "read", seen |-> free]
  <2>1. request' = [request EXCEPT ![q] = x]
    BY <1>3 DEF CapacityReads
  <2>2. x \in Asked /\ x.step # "admitted"
    BY DEF AskedOK, Asked
  <2> QED
    BY <2>1, <2>2
<1>4. ASSUME NEW q \in Requests, collectionCapacityOK(q)
      PROVE  \E x \in Asked : /\ request' = [request EXCEPT ![q] = x]
                              /\ x.step = "admitted" => ~halted
  <2> DEFINE x == [step |-> IF halted' THEN "refused" ELSE "admitted", seen |-> Unknown]
  <2>1. request' = [request EXCEPT ![q] = x] /\ (halted => halted')
    BY <1>4 DEF collectionCapacityOK
  <2>2. x \in Asked /\ (x.step = "admitted" => ~halted')
    BY DEF Asked
  <2> QED
    BY <2>1, <2>2
<1>5. ASSUME NEW q \in Requests, Answered(q)
      PROVE  \E x \in Asked : request' = [request EXCEPT ![q] = x] /\ x.step # "admitted"
  <2>1. NoRequest \in Asked /\ NoRequest.step # "admitted"
    BY DEF NoRequest, Asked
  <2> QED
    BY <1>5, <2>1 DEF Answered
<1>6. CASE \E q \in Requests : \/ CanStart(q) \/ CapacityReads(q)
                               \/ collectionCapacityOK(q) \/ Answered(q)
  <2>1. free' = free
    BY <1>6 DEF CanStart, CapacityReads, collectionCapacityOK, Answered
  <2> QED
    BY <1>1, <1>2, <1>3, <1>4, <1>5, <1>6, <2>1
<1>7. CASE RestartGuard
  BY <1>7 DEF RestartGuard, NoRequest, AskedOK, Asked
<1>8. CASE request' = request /\ free' \in Disk \cup {Unknown}
  BY <1>8 DEF AskedOK
<1>9. \/ \E q \in Requests : \/ CanStart(q) \/ CapacityReads(q)
                             \/ collectionCapacityOK(q) \/ Answered(q)
      \/ RestartGuard
      \/ request' = request /\ free' \in Disk \cup {Unknown}
  BY DEF AskedOK, DiskNext, diskvars, DiskChanges, IngestBatch, Compact,
         CheckReads, tickRecoveryState
<1> QED
  BY <1>6, <1>7, <1>8, <1>9

\* Once a reading has halted collection, collectionCapacityOK admits a request only after
\* RecoveryChecks - 1 checks that read the disk after that reading found it recovered,
\* whatever readings were under way: the disk is read before the lock is taken.
THEOREM AdmittedAfterRecovery == DiskSpec => RecoveryIsObserved
<1> USE DiskAssumption
<1> DEFINE Observed ==
      \A r \in Requests : request[r].step = "read" /\ request'[r].step = "admitted"
                            => fresh + 1 >= RecoveryChecks
<1>1. DiskInit => GateInv /\ AskedOK
  <2>1. DiskInit => AskedOK
    BY SMT DEF DiskInit, AskedOK, Asked, NoRequest
  <2>2. DiskInit => GateInv
    <3> SUFFICES ASSUME DiskInit
                 PROVE  GateInv
      OBVIOUS
    <3>1. halted = FALSE /\ fresh = RecoveryChecks /\ consecutiveOK = 0
      BY DEF DiskInit
    <3>2. /\ fresh \in Nat /\ consecutiveOK \in Nat
          /\ consecutiveOK <= fresh /\ consecutiveOK <= fresh + 1
          /\ fresh + 1 >= RecoveryChecks
      BY SMT, <3>1
    <3>3. halted \in BOOLEAN
      BY <3>1
    <3> QED
      BY <3>2, <3>3 DEF GateInv
  <2> QED
    BY <2>1, <2>2
<1>2. ASSUME GateInv, AskedOK, [DiskNext]_diskvars
      PROVE  GateInv'
  <2>1. CASE CheckReads
    BY <1>2, <2>1 DEF CheckReads, GateInv
  <2>2. CASE RestartGuard
    <3>1. halted' = FALSE /\ fresh' = RecoveryChecks /\ consecutiveOK' = 0
      BY <2>2 DEF RestartGuard
    <3>2. /\ fresh' \in Nat /\ consecutiveOK' \in Nat
          /\ consecutiveOK' <= fresh' /\ consecutiveOK' <= fresh' + 1
          /\ fresh' + 1 >= RecoveryChecks
      BY SMT, <3>1
    <3>3. halted' \in BOOLEAN
      BY <3>1
    <3> QED
      BY <3>2, <3>3 DEF GateInv
  <2>3. CASE UNCHANGED <<fresh, consecutiveOK, halted, check>>
    BY <1>2, <2>3 DEF GateInv
  <2>4. \/ UNCHANGED <<fresh, consecutiveOK, halted, check>>
        \/ CheckReads \/ tickRecoveryState \/ RestartGuard
        \/ \E r \in Requests : collectionCapacityOK(r)
    BY <1>2 DEF DiskNext, diskvars, DiskChanges, IngestBatch, Compact,
                CanStart, CapacityReads, Answered
  <2> QED
    BY <1>2, <2>1, <2>2, <2>3, <2>4, TickOK, CapacityOK
<1>3. ASSUME GateInv, AskedOK, [DiskNext]_diskvars
      PROVE  AskedOK' /\ [Observed]_diskvars
  BY <1>3, AskedStep DEF GateInv
<1>4. (GateInv /\ AskedOK) /\ [DiskNext]_diskvars => (GateInv /\ AskedOK)' /\ [Observed]_diskvars
  BY <1>2, <1>3
<1> QED
  BY <1>1, <1>4, PTL DEF DiskSpec, RecoveryIsObserved

====
