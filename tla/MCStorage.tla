----------------------------- MODULE MCStorage -----------------------------
(* The storage plane: object storage and its catalogue (BlobStore), the      *)
(* deadlines of artifacts (Retention), the continuous data with its Parquet  *)
(* ledger, the capacity gate and the coverage timeline.  They share no       *)
(* state, so each behaviour moves one of them and leaves the others in their *)
(* first state.                                                              *)
EXTENDS ParquetLedger, BlobStore, Retention, DiskGuard, Timeline, TLC

VARIABLE plane

allvars == <<plane, vars, blobvars, retentionvars, diskvars, timelinevars>>

\* Two results of equal content, the symbols of one kernel under an old key and,
\* for two tasks, under a new key, a symbol file, a raw file and a manifest.
ArtsDef == {"r1", "r2", "k1", "g1", "g2", "p1", "m1"}
TaskOfDef == [a \in ArtsDef |-> IF a \in {"r2", "g2"} THEN "t2" ELSE "t1"]
KeyOfDef == "r1" :> "t1/r" @@ "r2" :> "t2/r" @@ "p1" :> "t1/raw" @@ "m1" :> "t1/manifest"
            @@ "k1" :> "kern" @@ "g1" :> "kern.gz" @@ "g2" :> "kern.gz"
KindDef == [a \in ArtsDef |-> CASE a \in {"r1", "r2"} -> "result"
                                [] a = "p1" -> "raw"
                                [] a = "m1" -> "manifest"
                                [] OTHER -> "kernel"]
CasOfDef == "t1/r" :> "cas1" @@ "t2/r" :> "cas1" @@ "kern" :> "cas2" @@ "elf" :> "cas3"
GroupsDef == {{"r1", "r2"}, {"k1", "kern"}, {"g1", "g2"}, {"elf"}, {"p1"}, {"m1"}}
MaxFailsDef == [g \in GroupsDef |-> IF Cardinality(g) > 1 THEN 0 ELSE 1]
MaxWritesDef == [g \in GroupsDef |-> IF "k1" \in g \/ "r1" \in g THEN 1 ELSE 2]

\* A policy that keeps results longest and a uniformly short one.
PoliciesDef ==
  {[version |-> 1, time |-> [c \in Classes |-> CASE c = "result" -> 6
                                                 [] c = "diagnostic" -> 4
                                                 [] c = "manifest" -> 0
                                                 [] OTHER -> 2]],
   [version |-> 2, time |-> [c \in Classes |-> IF c = "manifest" THEN 0 ELSE 1]]}

\* Batch b1 has two signals, the others one.
SignalsOfDef == [b \in {"b1", "b2", "b3"} |-> IF b = "b1" THEN {"cpu", "metrics"} ELSE {"cpu"}]
Hour(first, modes, sent, times, until, faults) ==
  [first |-> first, modes |-> modes, sent |-> sent, sends |-> times, age |-> until,
   fails |-> faults]
ScenesDef ==
  {Hour("off", {"off"}, {"b1", "b2"}, 1, 2, 1),
   Hour("shadow", {"shadow"}, {"b2"}, 1, 2, 0),
   Hour("enforce", {"enforce"}, {"b2", "b3"}, 1, 2, 0),
   Hour("prefer", {"prefer"}, {"b2", "b3"}, 1, 1, 1),
   Hour("prefer", {"prefer"}, {"b2"}, 2, 2, 0),
   Hour("prefer", {"prefer", "enforce"}, {"b2"}, 1, 2, 1),
   Hour("enforce", {"enforce"}, {"b1", "b2"}, 1, 1, 0),
   Hour("enforce", {"enforce"}, {"b1"}, 1, 2, 0),
   Hour("enforce", {"enforce"}, {"b1"}, 1, 1, 1),
   Hour("enforce", {"enforce"}, {"b2"}, 1, 4, 0),
   Hour("off", {"off"}, {"b2"}, 2, 2, 0),
   Hour("enforce", {"enforce"}, {"b2"}, 2, 2, 0)}

Planes == {"blobs", "retention", "continuous", "disk", "timeline"}

StorageInit ==
  /\ plane \in Planes
  /\ Init /\ BlobInit /\ RetentionInit /\ DiskInit /\ TimelineInit
  /\ plane # "continuous" => scene = CHOOSE s \in Scenes : TRUE
  /\ plane # "blobs" => group = CHOOSE g \in Groups : TRUE
  /\ plane # "retention" => /\ policy = CHOOSE p \in Policies : TRUE
                            /\ kind = CHOOSE k \in Kinds : TRUE
  /\ plane # "disk" => free = 9

StorageNext ==
  /\ UNCHANGED plane
  /\ plane # "continuous" => UNCHANGED vars
  /\ plane # "blobs" => UNCHANGED blobvars
  /\ plane # "retention" => UNCHANGED retentionvars
  /\ plane # "disk" => UNCHANGED diskvars
  /\ plane # "timeline" => UNCHANGED timelinevars
  /\ \/ plane = "continuous" /\ Next
     \/ plane = "blobs" /\ BlobNext
     \/ plane = "retention" /\ RetentionNext
     \/ plane = "disk" /\ DiskNext
     \/ plane = "timeline" /\ TimelineNext

StorageSpec == StorageInit /\ [][StorageNext]_allvars
=============================================================================
