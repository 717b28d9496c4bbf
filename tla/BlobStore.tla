----------------------------- MODULE BlobStore -----------------------------
(***************************************************************************)
(* The artifacts of tasks and the objects they live in: the rows of        *)
(* artifacts, storage_blobs, storage_object_gc and of the two symbol       *)
(* ledgers, the objects in the bucket, and everything that creates, moves  *)
(* or deletes them.                                                        *)
(*                                                                         *)
(* Five goroutines share these rows without a common lock: the lifecycle   *)
(* cleaner, the retention cleaner (which also stands for the handler that  *)
(* deletes a task), two cycles of the blob worker, and the writers         *)
(* (analysis daemons, symbol uploads, result callbacks).  A database       *)
(* statement or transaction and a call of the object store are one step    *)
(* each; what a worker has read before is kept in its record and may be    *)
(* stale.  A blob row is identified by its physical key, which the         *)
(* database keeps unique.                                                  *)
(***************************************************************************)
EXTENDS Integers, FiniteSets

CONSTANTS
    Tasks,
    Arts, TaskOf, KeyOf, Kind,  \* artifact rows, with task, logical key and kind
    Ledger,         \* logical keys the symbol ledgers can list
    Elf,            \* those of them that belong to symbol_files
    Cas, CasOf,     \* content-addressed keys; the one of a logical key's content
    Migratable,     \* logical keys the migration may compress
    Groups,         \* groups of rows that are in play together
    Legacy,         \* rows and ledger entries written before blobs existed
    Workers, BlobWorkers,
    MaxBusy,        \* bound on the workers that are at work at the same time
    MaxFails,       \* bound on the failures of the object store, per group
    MaxWrites,      \* bound on the writers' operations, for every group
    Touched         \* tasks that users delete or pin

None == "none"
Absent == "absent"

Logical == {KeyOf[a] : a \in Arts} \cup Ledger
Keys == Logical \cup Cas

\* Content-addressed keys have a prefix of their own.  Results, symbols of kernels
\* and symbol files are addressed by content; a manifest never is, because
\* migrateNextResult picks only results and intermediates.
BlobConstants ==
    /\ {None, Absent} \cap Keys = {} /\ None \notin Arts /\ Cas \cap Logical = {}
    /\ TaskOf \in [Arts -> Tasks] /\ Elf \subseteq Ledger /\ Migratable \subseteq Logical
    /\ \A k \in Migratable : CasOf[k] \in Cas
    /\ \A a \in Arts : /\ Kind[a] = "result" => CasOf[KeyOf[a]] \in Cas
                       /\ Kind[a] = "manifest" => KeyOf[a] \notin Migratable
                       /\ Kind[a] = "kernel" => KeyOf[a] \in Ledger
ASSUME BlobAssumption == BlobConstants

VARIABLES
    group,          \* the rows in play
    task,           \* soft deleted, pinned
    art,            \* status and blob_id of every artifact row
    blob,           \* status of the blob row of every physical key
    ledger,         \* blob_id of every ledger row
    gc,             \* storage_object_gc
    bucket,         \* objects in the bucket
    old,            \* keys whose row or object is older than every grace period
    due,            \* artifacts whose retention has passed
    op,             \* what each worker is doing
    failures, writes

blobvars == <<group, task, art, blob, ledger, gc, bucket, old, due, op, failures, writes>>
aux == <<group, old, due, failures, writes>>

NoOp == [pc |-> "idle", a |-> None, k |-> None, st |-> None, bl |-> None, prot |-> FALSE]

Row == [st : {"none", "ready", "deleting", "deleted"}, blob : Keys \cup {None}]

BlobTypeOK ==
    /\ group \in Groups
    /\ task \in [Tasks -> [deleted : BOOLEAN, pinned : BOOLEAN]]
    /\ art \in [Arts -> Row]
    /\ blob \in [Keys -> {"none", "ready", "deleting", "deleted"}]
    /\ ledger \in [Ledger -> {Absent, None} \cup Keys]
    /\ gc \in [Logical -> {"none", "queued", "due", "done"}]
    /\ bucket \subseteq Keys /\ old \subseteq Keys /\ due \subseteq Arts
    /\ DOMAIN op = Workers
    /\ failures \in Nat /\ writes \in Nat

BlobInit ==
    /\ group \in Groups
    /\ task = [t \in Tasks |-> [deleted |-> FALSE, pinned |-> FALSE]]
    /\ art = [a \in Arts |-> [st |-> IF a \in Legacy \cap group THEN "ready" ELSE "none",
                              blob |-> None]]
    /\ blob = [k \in Keys |-> "none"]
    /\ ledger = [k \in Ledger |-> IF k \in Legacy \cap group THEN None ELSE Absent]
    /\ gc = [k \in Logical |-> "none"]
    /\ bucket = {KeyOf[a] : a \in Legacy \cap group \cap Arts} \cup (Legacy \cap group \cap Ledger)
    /\ old = bucket
    /\ due = {}
    /\ op = [w \in Workers |-> NoOp]
    /\ failures = 0 /\ writes = 0

-----------------------------------------------------------------------------
Live(a) == art[a].st = "ready"

\* The owners of a blob: artifacts that are not being deleted, and symbol
\* files.  The ledger of kernel symbols only indexes artifacts.
Refs(b) == {a \in Arts : Live(a) /\ art[a].blob = b} \cup {k \in Elf : ledger[k] = b}

\* What still reads the object under a logical key itself.
LegacyKeyRefs(k) ==
    \/ \E a \in Arts : KeyOf[a] = k /\ Live(a) /\ art[a].blob = None
    \/ k \in Ledger /\ ledger[k] = None
    \/ blob[k] \in {"ready", "deleting"}

Busy == {w \in Workers : op[w].pc # "idle"}
Begin(w, o) ==
    /\ op[w].pc = "idle"
    /\ Cardinality(Busy) < MaxBusy
    /\ op' = [op EXCEPT ![w] = o]
Goto(w, l) == op' = [op EXCEPT ![w].pc = l]
Leave(w) == op' = [op EXCEPT ![w] = NoOp]

\* The object store deletes an object, or fails; the row then keeps its state
\* and the deletion is retried later.
DeleteObject(w, k, next) ==
    \/ /\ bucket' = bucket \ {k}
       /\ IF next = "idle" THEN Leave(w) ELSE Goto(w, next)
       /\ failures' = failures
    \/ failures < MaxFails[group] /\ failures' = failures + 1 /\ Leave(w) /\ bucket' = bucket

-----------------------------------------------------------------------------
(* Artifacts: a row is claimed, its object is deleted, and a tombstone is    *)
(* left.                                                                     *)

\* Candidates of a cycle are read first and claimed one by one later.  An
\* artifact that an active analysis job still needs is passed over.
StartExpired(a) ==
    /\ Live(a) /\ a \in due
    /\ ~task[TaskOf[a]].deleted /\ ~task[TaskOf[a]].pinned
    /\ Begin("lifecycle", [NoOp EXCEPT !.pc = "claim", !.a = a, !.st = "ready",
                                       !.bl = art[a].blob, !.prot = TRUE])
    /\ UNCHANGED <<aux, task, art, blob, ledger, gc, bucket>>

StartRetry(a) ==
    /\ art[a].st = "deleting"
    /\ Begin("lifecycle", [NoOp EXCEPT !.pc = "claim", !.a = a, !.st = "deleting",
                                       !.bl = art[a].blob])
    /\ UNCHANGED <<aux, task, art, blob, ledger, gc, bucket>>

StartTaskDeleted(a) ==
    /\ task[TaskOf[a]].deleted /\ Live(a)
    /\ Begin("retention", [NoOp EXCEPT !.pc = "claim", !.a = a, !.st = "ready",
                                       !.bl = art[a].blob])
    /\ UNCHANGED <<aux, task, art, blob, ledger, gc, bucket>>

\* Mutant: the claim does not look at the task again.
ClaimWithoutTask(w) ==
    LET o == op[w] IN
    /\ o.pc = "claim"
    /\ IF art[o.a].st # o.st THEN Leave(w) /\ art' = art
       ELSE Goto(w, "process") /\ art' = [art EXCEPT ![o.a].st = "deleting"]
    /\ UNCHANGED <<aux, task, blob, ledger, gc, bucket>>

ClaimArtifactForDeletion(w) ==
    LET o == op[w]
        t == task[TaskOf[o.a]]
    IN
    /\ o.pc = "claim"
    /\ IF (o.prot /\ (t.deleted \/ t.pinned)) \/ art[o.a].st # o.st
       THEN Leave(w) /\ art' = art
       ELSE Goto(w, "process") /\ art' = [art EXCEPT ![o.a].st = "deleting"]
    /\ UNCHANGED <<aux, task, blob, ledger, gc, bucket>>

CompleteArtifactDeletion(a) ==
    art' = IF art[a].st = "deleting" THEN [art EXCEPT ![a].st = "deleted"] ELSE art

\* A row with a blob leaves its tombstone first, and the blob is deleted only
\* with its last reference.
ProcessBlob(w) ==
    LET o == op[w] IN
    /\ o.pc = "process" /\ o.bl # None
    /\ CompleteArtifactDeletion(o.a)
    /\ IF blob[o.bl] = "deleted" THEN Leave(w)
       ELSE op' = [op EXCEPT ![w].pc = "claimblob", ![w].k = o.bl]
    /\ UNCHANGED <<aux, task, blob, ledger, gc, bucket>>

ProcessShared(w) ==
    LET o == op[w]
        k == KeyOf[o.a]
    IN
    /\ o.pc = "process" /\ o.bl = None /\ Kind[o.a] = "kernel"
    /\ IF \E b \in Arts \ {o.a} : KeyOf[b] = k /\ art[b].st \in {"ready", "deleting"}
       THEN CompleteArtifactDeletion(o.a) /\ Leave(w)
       ELSE op' = [op EXCEPT ![w].pc = "delete", ![w].k = k] /\ art' = art
    /\ UNCHANGED <<aux, task, blob, ledger, gc, bucket>>

ProcessPlain(w) ==
    LET o == op[w] IN
    /\ o.pc = "process" /\ o.bl = None /\ Kind[o.a] # "kernel"
    /\ op' = [op EXCEPT ![w].pc = "delete", ![w].k = KeyOf[o.a]]
    /\ UNCHANGED <<aux, task, art, blob, ledger, gc, bucket>>

DeleteArtifactObject(w) ==
    LET o == op[w] IN
    /\ o.pc = "delete"
    /\ DeleteObject(w, o.k, IF Kind[o.a] = "kernel" THEN "unlist" ELSE "complete")
    /\ UNCHANGED <<group, old, due, writes, task, art, blob, ledger, gc>>

UnlistKernelSymbol(w) ==
    /\ op[w].pc = "unlist"
    /\ ledger' = [ledger EXCEPT ![op[w].k] = Absent]
    /\ Goto(w, "complete")
    /\ UNCHANGED <<aux, task, art, blob, gc, bucket>>

Complete(w) ==
    /\ op[w].pc = "complete"
    /\ CompleteArtifactDeletion(op[w].a)
    /\ Leave(w)
    /\ UNCHANGED <<aux, task, blob, ledger, gc, bucket>>

-----------------------------------------------------------------------------
(* Blobs: the row lock of a blob makes counting its references and claiming  *)
(* it one step; writers that add a reference take the same lock.             *)

\* Mutant: the references are not counted again under the lock.
ClaimBlobUncounted(w) ==
    LET k == op[w].k IN
    /\ op[w].pc = "claimblob"
    /\ IF blob[k] = "ready" THEN blob' = [blob EXCEPT ![k] = "deleting"] /\ Goto(w, "delblob")
       ELSE blob' = blob /\ Leave(w)
    /\ UNCHANGED <<aux, task, art, ledger, gc, bucket>>

ClaimUnreferencedBlobDeletion(w) ==
    LET k == op[w].k IN
    /\ op[w].pc = "claimblob"
    /\ IF blob[k] = "ready" /\ Refs(k) = {}
       THEN blob' = [blob EXCEPT ![k] = "deleting"] /\ Goto(w, "delblob")
       ELSE blob' = blob /\ Leave(w)
    /\ UNCHANGED <<aux, task, art, ledger, gc, bucket>>

DeleteBlobObject(w) ==
    /\ op[w].pc = "delblob"
    /\ DeleteObject(w, op[w].k, "tombstone")
    /\ UNCHANGED <<group, old, due, writes, task, art, blob, ledger, gc>>

TombstoneBlob(w) ==
    LET k == op[w].k IN
    /\ op[w].pc = "tombstone"
    /\ blob' = IF blob[k] = "deleting" THEN [blob EXCEPT ![k] = "deleted"] ELSE blob
    /\ Goto(w, "unlink")
    /\ UNCHANGED <<aux, task, art, ledger, gc, bucket>>

UnlinkLedgers(w) ==
    /\ op[w].pc = "unlink"
    /\ ledger' = [k \in Ledger |-> IF ledger[k] = op[w].k THEN Absent ELSE ledger[k]]
    /\ Leave(w)
    /\ UNCHANGED <<aux, task, art, blob, gc, bucket>>

\* The lifecycle cycle retries a deletion that failed, unless the blob has
\* been referred to again.
StartBlobRetry(k) ==
    /\ blob[k] = "deleting"
    /\ Begin("lifecycle", [NoOp EXCEPT !.pc = "recheck", !.k = k])
    /\ UNCHANGED <<aux, task, art, blob, ledger, gc, bucket>>

RecheckBlob(w) ==
    LET k == op[w].k IN
    /\ op[w].pc = "recheck"
    /\ IF Refs(k) = {} THEN Goto(w, "delblob") /\ blob' = blob
       ELSE /\ blob' = IF blob[k] = "deleting" THEN [blob EXCEPT ![k] = "ready"] ELSE blob
            /\ Leave(w)
    /\ UNCHANGED <<aux, task, art, ledger, gc, bucket>>

StartOrphanCAS(w, k) ==
    /\ w \in BlobWorkers /\ k \in Cas \cap old /\ blob[k] = "ready"
    /\ Begin(w, [NoOp EXCEPT !.pc = "claimblob", !.k = k])
    /\ UNCHANGED <<aux, task, art, blob, ledger, gc, bucket>>

\* A blob of an old key that nothing refers to: here the count and the update
\* are two statements, and the object is left to the queue of old objects.
StartOrphanBackfill(w, k) ==
    /\ w \in BlobWorkers /\ k \in Logical /\ blob[k] = "ready" /\ Refs(k) = {}
    /\ Begin(w, [NoOp EXCEPT !.pc = "retire", !.k = k])
    /\ UNCHANGED <<aux, task, art, blob, ledger, gc, bucket>>

RetireBackfillBlob(w) ==
    LET k == op[w].k IN
    /\ op[w].pc = "retire"
    /\ IF blob[k] = "ready" THEN blob' = [blob EXCEPT ![k] = "deleted"] /\ Goto(w, "enqueue")
       ELSE blob' = blob /\ Leave(w)
    /\ UNCHANGED <<aux, task, art, ledger, gc, bucket>>

EnqueueGC(w) ==
    LET k == op[w].k IN
    /\ op[w].pc = "enqueue"
    /\ gc' = IF gc[k] = "none" THEN [gc EXCEPT ![k] = "queued"] ELSE gc
    /\ Leave(w)
    /\ UNCHANGED <<aux, task, art, blob, ledger, bucket>>

StartGC(w, k) ==
    /\ w \in BlobWorkers /\ gc[k] = "due" /\ ~LegacyKeyRefs(k)
    /\ Begin(w, [NoOp EXCEPT !.pc = "collect", !.k = k])
    /\ UNCHANGED <<aux, task, art, blob, ledger, gc, bucket>>

CollectObject(w) ==
    /\ op[w].pc = "collect"
    /\ DeleteObject(w, op[w].k, "collected")
    /\ UNCHANGED <<group, old, due, writes, task, art, blob, ledger, gc>>

MarkCollected(w) ==
    /\ op[w].pc = "collected"
    /\ gc' = [gc EXCEPT ![op[w].k] = "done"]
    /\ Leave(w)
    /\ UNCHANGED <<aux, task, art, blob, ledger, bucket>>

-----------------------------------------------------------------------------
(* Rows written before blobs existed get a blob of their own key, and are    *)
(* then compressed into the content-addressed part of the bucket.            *)

StartBackfill(w, k) ==
    /\ w \in BlobWorkers /\ k \in bucket
    /\ \/ \E a \in Arts : KeyOf[a] = k /\ Live(a) /\ art[a].blob = None
       \/ k \in Ledger /\ ledger[k] = None
    /\ Begin(w, [NoOp EXCEPT !.pc = "ensure", !.k = k])
    /\ UNCHANGED <<aux, task, art, blob, ledger, gc, bucket>>

\* A tombstone of the same key is revived; a blob being deleted is taken as
\* it is.
EnsureBackfillBlob(w) ==
    LET k == op[w].k IN
    /\ op[w].pc = "ensure"
    /\ blob' = IF blob[k] \in {"none", "deleted"} THEN [blob EXCEPT ![k] = "ready"] ELSE blob
    /\ Goto(w, "link")
    /\ UNCHANGED <<aux, task, art, ledger, gc, bucket>>

LinkBackfillRefs(w) ==
    LET k == op[w].k IN
    /\ op[w].pc = "link"
    /\ art' = [a \in Arts |-> IF KeyOf[a] = k /\ Live(a) /\ art[a].blob = None
                              THEN [art[a] EXCEPT !.blob = k] ELSE art[a]]
    /\ ledger' = [l \in Ledger |-> IF l = k /\ ledger[l] = None THEN k ELSE ledger[l]]
    /\ Leave(w)
    /\ UNCHANGED <<aux, task, blob, gc, bucket>>

\* The content of the old object decides the target key.  A blob of that
\* content is reused when it is ready and its object can be read back;
\* otherwise a shadow object is written.
StartMigration(w, k) ==
    LET c == CasOf[k] IN
    /\ w \in BlobWorkers /\ k \in bucket
    /\ \/ \E a \in Arts : KeyOf[a] = k /\ Live(a) /\ art[a].blob \notin Cas
       \/ k \in Ledger /\ ledger[k] # Absent /\ ledger[k] \notin Cas
    /\ blob[c] = "ready" => c \in bucket
    /\ blob[c] # "deleting"
    /\ Begin(w, [NoOp EXCEPT !.pc = IF blob[c] = "ready" THEN "switch" ELSE "shadow", !.k = k])
    /\ UNCHANGED <<aux, task, art, blob, ledger, gc, bucket>>

ShadowUpload(w) ==
    LET k == op[w].k IN
    /\ op[w].pc = "shadow"
    /\ IF k \in bucket THEN bucket' = bucket \cup {CasOf[k]} /\ Goto(w, "verify")
       ELSE bucket' = bucket /\ Leave(w)
    /\ UNCHANGED <<aux, task, art, blob, ledger, gc>>

\* When the shadow cannot be read back it is deleted again.
VerifyBlob(w) ==
    LET c == CasOf[op[w].k] IN
    /\ op[w].pc = "verify"
    /\ \/ c \in bucket /\ Goto(w, "upsert") /\ UNCHANGED <<bucket, failures>>
       \/ c \notin bucket /\ Leave(w) /\ UNCHANGED <<bucket, failures>>
       \/ /\ failures < MaxFails[group] /\ failures' = failures + 1
          /\ bucket' = bucket \ {c} /\ Leave(w)
    /\ UNCHANGED <<group, old, due, writes, task, art, blob, ledger, gc>>

SwitchMigrationRefs(k, c) ==
    /\ art' = [a \in Arts |-> IF KeyOf[a] = k /\ Live(a)
                              THEN [art[a] EXCEPT !.blob = c] ELSE art[a]]
    /\ ledger' = [l \in Ledger |-> IF l = k /\ ledger[l] # Absent THEN c ELSE ledger[l]]

\* One transaction: upsertBlobByContent and switchMigrationRefsTx.
MigrateUpsert(w) ==
    LET k == op[w].k
        c == CasOf[k]
    IN
    /\ op[w].pc = "upsert"
    /\ IF blob[c] = "deleting" THEN Leave(w) /\ UNCHANGED <<art, ledger, blob, old>>
       ELSE /\ blob' = [blob EXCEPT ![c] = "ready"]
            /\ old' = IF blob[c] = "none" THEN old \ {c} ELSE old
            /\ SwitchMigrationRefs(k, c)
            /\ Goto(w, "enqueue")
    /\ UNCHANGED <<group, due, failures, writes, task, gc, bucket>>

MigrateSwitch(w) ==
    LET k == op[w].k
        c == CasOf[k]
    IN
    /\ op[w].pc = "switch"
    /\ IF blob[c] # "ready" THEN Leave(w) /\ UNCHANGED <<art, ledger>>
       ELSE SwitchMigrationRefs(k, c) /\ Goto(w, "enqueue")
    /\ UNCHANGED <<aux, task, blob, gc, bucket>>

-----------------------------------------------------------------------------
(* The retention cleaner also sweeps objects that no row mentions.           *)

Unlisted(k) ==
    /\ \A a \in Arts : KeyOf[a] = k => art[a].st \in {"none", "deleted"}
    /\ k \in Ledger => ledger[k] = Absent

StartSweep(k) ==
    /\ k \in Logical \ Elf /\ k \in bucket \cap old /\ Unlisted(k)
    /\ Begin("retention", [NoOp EXCEPT !.pc = "sweep", !.k = k])
    /\ UNCHANGED <<aux, task, art, blob, ledger, gc, bucket>>

SweepRecheck(w) ==
    /\ op[w].pc = "sweep"
    /\ IF Unlisted(op[w].k) THEN Goto(w, "sweepdel") ELSE Leave(w)
    /\ UNCHANGED <<aux, task, art, blob, ledger, gc, bucket>>

\* Objects under the prefix of a deleted task that have no row at all.
StartUntracked(a) ==
    /\ task[TaskOf[a]].deleted /\ Kind[a] # "kernel"
    /\ KeyOf[a] \in bucket /\ art[a].st = "none"
    /\ Begin("retention", [NoOp EXCEPT !.pc = "sweepdel", !.k = KeyOf[a]])
    /\ UNCHANGED <<aux, task, art, blob, ledger, gc, bucket>>

SweepDelete(w) ==
    /\ op[w].pc = "sweepdel"
    /\ DeleteObject(w, op[w].k, "idle")
    /\ UNCHANGED <<group, old, due, writes, task, art, blob, ledger, gc>>

-----------------------------------------------------------------------------
(* Users delete and pin tasks.                                               *)

DeleteTask(t) ==
    /\ ~task[t].deleted
    /\ task' = [task EXCEPT ![t].deleted = TRUE]
    /\ UNCHANGED <<aux, art, blob, ledger, gc, bucket, op>>

PinTaskArtifacts(t, p) ==
    /\ ~task[t].deleted /\ task[t].pinned # p
    /\ p => \A a \in Arts : TaskOf[a] = t => art[a].st # "deleting"
    /\ task' = [task EXCEPT ![t].pinned = p]
    /\ UNCHANGED <<aux, art, blob, ledger, gc, bucket, op>>

\* The periods after which something is old (a day and more) are far longer
\* than a cycle, which is cut off after minutes.
TimePasses ==
    /\ Busy = {}
    /\ gc' = [k \in Logical |-> IF gc[k] = "queued" THEN "due" ELSE gc[k]]
    /\ old' = bucket \cup {k \in Cas : blob[k] # "none"}
    /\ due' = {a \in Arts : Live(a) /\ Kind[a] # "manifest"}
    /\ UNCHANGED <<group, failures, writes, task, art, blob, ledger, bucket, op>>

-----------------------------------------------------------------------------
(* Writers put the object into the bucket first and register it afterwards.  *)

Write(o) ==
    /\ writes < MaxWrites[group] /\ writes' = writes + 1
    /\ Begin("writer", o)

PutObject(k) ==
    /\ bucket' = bucket \cup {k}
    /\ old' = IF k \in Cas THEN old ELSE old \ {k}

\* The analysis daemon stores a result under its content.
UploadResult(a) ==
    /\ a \in group \ Legacy /\ Kind[a] = "result"
    /\ Write([NoOp EXCEPT !.pc = "describe", !.a = a, !.k = CasOf[KeyOf[a]]])
    /\ PutObject(CasOf[KeyOf[a]])
    /\ UNCHANGED <<group, due, failures, task, art, blob, ledger, gc>>

\* One transaction: _upsert_blob_row, which waits for nobody and refuses a blob
\* that is being deleted, and _insert_artifact_from_descriptor, which leaves a
\* tombstone alone.
RegisterDescriptor(w) ==
    LET a == op[w].a
        k == op[w].k
    IN
    /\ op[w].pc = "describe"
    /\ IF blob[k] = "deleting" THEN UNCHANGED <<art, blob, old>>
       ELSE /\ blob' = [blob EXCEPT ![k] = "ready"]
            /\ old' = IF blob[k] = "none" THEN old \ {k} ELSE old
            /\ art' = IF art[a].st = "deleted" THEN art
                      ELSE [art EXCEPT ![a] = [st |-> "ready", blob |-> k]]
    /\ Leave(w)
    /\ UNCHANGED <<group, due, failures, writes, task, ledger, gc, bucket>>

\* The manifest is named by its key.
UploadManifest(a) ==
    /\ a \in group /\ Kind[a] = "manifest"
    /\ Write([NoOp EXCEPT !.pc = "name", !.a = a, !.k = KeyOf[a]])
    /\ PutObject(KeyOf[a])
    /\ UNCHANGED <<group, due, failures, task, art, blob, ledger, gc>>

\* Mutant: a tombstone is overwritten like any other row.
RegisterKeyAlways(w) ==
    /\ op[w].pc = "name"
    /\ art' = [art EXCEPT ![op[w].a].st = "ready"]
    /\ Leave(w)
    /\ UNCHANGED <<aux, task, blob, ledger, gc, bucket>>

RegisterKey(w) ==
    LET a == op[w].a IN
    /\ op[w].pc = "name"
    /\ IF art[a].st = "deleted" THEN bucket' = bucket \ {op[w].k} /\ art' = art
       ELSE bucket' = bucket /\ art' = [art EXCEPT ![a].st = "ready"]
    /\ Leave(w)
    /\ UNCHANGED <<aux, task, blob, ledger, gc>>

\* The agent uploads what it has sampled, and the result callback registers it
\* for a task that is not deleted, unless a row of that key exists.
UploadRaw(a) ==
    /\ a \in group /\ Kind[a] = "raw"
    /\ Write([NoOp EXCEPT !.pc = "notify", !.a = a])
    /\ PutObject(KeyOf[a])
    /\ UNCHANGED <<group, due, failures, task, art, blob, ledger, gc>>

RegisterRaw(w) ==
    LET a == op[w].a IN
    /\ op[w].pc = "notify"
    /\ art' = IF art[a].st = "none" /\ ~task[TaskOf[a]].deleted
              THEN [art EXCEPT ![a].st = "ready"] ELSE art
    /\ Leave(w)
    /\ UNCHANGED <<aux, task, blob, ledger, gc, bucket>>

\* The agent asks whether the symbols of its kernel are stored already: a
\* listed one is referred to with the blob of the listing, an unlisted object
\* is listed first, and otherwise the agent uploads it.
CheckKernelSymbol(a) ==
    LET k == KeyOf[a] IN
    /\ a \in group /\ Kind[a] = "kernel"
    /\ \/ /\ ledger[k] # Absent
          /\ Write([NoOp EXCEPT !.pc = "record", !.a = a, !.bl = ledger[k]])
          /\ UNCHANGED <<ledger, bucket, old>>
       \/ /\ ledger[k] = Absent /\ k \in bucket
          /\ ledger' = [ledger EXCEPT ![k] = None]
          /\ Write([NoOp EXCEPT !.pc = "record", !.a = a])
          /\ UNCHANGED <<bucket, old>>
       \/ /\ ledger[k] = Absent /\ k \notin bucket \cup Migratable
          /\ PutObject(k)
          /\ Write([NoOp EXCEPT !.pc = "list", !.a = a])
          /\ UNCHANGED ledger
    /\ UNCHANGED <<group, due, failures, task, art, blob, gc>>

\* UploadKernelSymbol and UploadSymbol list what they have stored.
ListSymbol(w) ==
    LET o == op[w]
        k == IF o.a = None THEN o.k ELSE KeyOf[o.a]
    IN
    /\ o.pc = "list"
    /\ ledger' = [ledger EXCEPT ![k] = IF @ = Absent THEN None ELSE @]
    /\ IF o.a = None THEN Leave(w) ELSE Goto(w, "record")
    /\ UNCHANGED <<aux, task, art, blob, gc, bucket>>

\* One transaction, which locks the blob and needs it ready.
RecordKernelSymbolArtifact(w) ==
    LET o == op[w] IN
    /\ o.pc = "record"
    /\ art' = IF (o.bl # None /\ blob[o.bl] # "ready") \/ art[o.a].st = "deleted" THEN art
              ELSE [art EXCEPT ![o.a] = [st |-> "ready", blob |-> o.bl]]
    /\ Leave(w)
    /\ UNCHANGED <<aux, task, blob, ledger, gc, bucket>>

UploadSymbol(k) ==
    /\ k \in Elf \cap group
    /\ PutObject(k)
    /\ Write([NoOp EXCEPT !.pc = "list", !.k = k])
    /\ UNCHANGED <<group, due, failures, task, art, blob, ledger, gc>>

-----------------------------------------------------------------------------
ArtifactCleaning ==
    \/ \E a \in Arts : StartExpired(a) \/ StartRetry(a) \/ StartTaskDeleted(a)
    \/ \E w \in Workers :
          \/ ClaimArtifactForDeletion(w) \/ ProcessBlob(w) \/ ProcessShared(w)
          \/ ProcessPlain(w) \/ DeleteArtifactObject(w) \/ UnlistKernelSymbol(w)
          \/ Complete(w)

BlobCleaning ==
    \/ \E k \in Keys : StartBlobRetry(k) \/ \E w \in BlobWorkers : StartOrphanCAS(w, k)
    \/ \E k \in Logical, w \in BlobWorkers : StartOrphanBackfill(w, k) \/ StartGC(w, k)
    \/ \E w \in Workers :
          \/ ClaimUnreferencedBlobDeletion(w) \/ DeleteBlobObject(w) \/ TombstoneBlob(w)
          \/ UnlinkLedgers(w) \/ RecheckBlob(w) \/ RetireBackfillBlob(w)
          \/ EnqueueGC(w) \/ CollectObject(w) \/ MarkCollected(w)

Migration ==
    \/ \E w \in BlobWorkers, k \in Logical : StartBackfill(w, k)
    \/ \E w \in BlobWorkers, k \in Migratable : StartMigration(w, k)
    \/ \E w \in Workers :
          \/ EnsureBackfillBlob(w) \/ LinkBackfillRefs(w) \/ ShadowUpload(w)
          \/ VerifyBlob(w) \/ MigrateUpsert(w) \/ MigrateSwitch(w)

Sweeping ==
    \/ \E k \in Logical : StartSweep(k)
    \/ \E a \in Arts : StartUntracked(a)
    \/ \E w \in Workers : SweepRecheck(w) \/ SweepDelete(w)

Writing ==
    \/ \E a \in Arts : UploadResult(a) \/ UploadManifest(a) \/ UploadRaw(a)
                        \/ CheckKernelSymbol(a)
    \/ \E k \in Elf : UploadSymbol(k)
    \/ \E w \in Workers : RegisterDescriptor(w) \/ RegisterKey(w) \/ RegisterRaw(w)
                           \/ ListSymbol(w) \/ RecordKernelSymbolArtifact(w)

Users == \E t \in Touched : DeleteTask(t) \/ \E p \in BOOLEAN : PinTaskArtifacts(t, p)

BlobNext ==
    \/ ArtifactCleaning \/ BlobCleaning \/ Migration \/ Sweeping \/ Writing \/ Users \/ TimePasses

BlobSpec == BlobInit /\ [][BlobNext]_blobvars

-----------------------------------------------------------------------------
\* A content-addressed blob whose object is being deleted, or is gone, is
\* referred to by no artifact and no symbol file: countBlobRefs and the
\* writers work under the same row lock.
CasDeletionHasNoReference ==
    \A k \in Cas : blob[k] \in {"deleting", "deleted"} => Refs(k) = {}

\* No artifact of a pinned task is on its way to deletion, unless the task
\* itself was deleted: claiming and pinning lock the task row.
PinnedIsKept ==
    \A a \in Arts : task[TaskOf[a]].pinned /\ ~task[TaskOf[a]].deleted => art[a].st # "deleting"

\* A tombstone is never revived, whatever the writers upload late.
TombstoneIsFinal ==
    [][\A a \in Arts : art[a].st = "deleted" => art'[a].st = "deleted"]_blobvars
=============================================================================
