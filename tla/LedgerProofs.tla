---------------------------- MODULE LedgerProofs ----------------------------
(***************************************************************************)
(* Continuous data and its Parquet ledger, for any batches, signals,       *)
(* blocks, cleanups, failures and changes of the Parquet mode: a window    *)
(* row can be read, a window is summarised before it is removed, a batch   *)
(* is migrated before it is collected, and a layer is retired for another. *)
(***************************************************************************)
EXTENDS ParquetLedger, TLAPS

USE Zenon

-----------------------------------------------------------------------------
(* The inductive invariant *)

Pairs == UNION {{b} \X SignalsOf[b] : b \in Batches}
Ids == V1Ids \cup {0}
ObjKeys == {<< >>} \cup {Minute(b) : b \in Batches} \cup {Block(k) : k \in V1Ids}

Row == [row : BOOLEAN, block : Ids, src : BOOLEAN, ontime : BOOLEAN]
V1Block == [status : {"none", "unregistered", "active", "superseded", "deleting"},
            members : SUBSET Batches]
Compaction == [step : {"idle", "load", "register", "sources", "drop"}, old : Ids, new : Ids,
               keep : SUBSET Batches, removed : SUBSET Batches, fresh : SUBSET Batches,
               todo : SUBSET Batches]

Types ==
  /\ batch \in [Batches -> Row]
  /\ win \subseteq Pairs
  /\ v1 \in [V1Ids -> V1Block]

\* A row that was never given up has its payload where object_key says: in its minute
\* object, or in the active block it is a member of, ...
Stored(b) ==
  IF batch[b].block = 0 THEN Minute(b) \in obj
  ELSE /\ v1[batch[b].block].status = "active"
       /\ b \in v1[batch[b].block].members
       /\ Block(batch[b].block) \in obj
RowsStored == \A b \in Batches \ gone : batch[b].row => Stored(b)

\* ... a window has a row, and the members of an active block are rows that refer to it.
WindowsHaveRows == \A w \in win : batch[w[1]].row
MembersRefer ==
  \A k \in V1Ids : v1[k].status = "active" =>
    \A b \in v1[k].members \ gone : batch[b].row /\ batch[b].block = k

DataInv == Types /\ RowsStored /\ WindowsHaveRows /\ MembersRefer

\* What the compactor has read of batches that are not given up meanwhile is still so.
Loaded ==
  comp.step \in {"load", "register", "drop"} =>
    /\ comp.old # 0 => /\ v1[comp.old].status = "active"
                       /\ v1[comp.old].members = comp.keep \cup comp.removed
    /\ comp.old = 0 => comp.keep = {} /\ comp.removed = {}
    /\ \A b \in comp.removed \ gone : WindowsOf({b}) = {}
    /\ \A b \in comp.fresh \ gone : batch[b].row /\ batch[b].block = 0
Uploaded ==
  comp.step = "register" =>
    /\ comp.new # 0 /\ v1[comp.new].status = "unregistered"
    /\ v1[comp.new].members = comp.keep \cup comp.fresh
    /\ Block(comp.new) \in obj
Emptied == comp.step = "drop" => comp.old # 0 /\ comp.keep = {}
Packed ==
  comp.step = "sources" =>
    /\ comp.new # 0
    /\ \A b \in comp.todo \ gone : batch[b].row /\ batch[b].block # 0
Compacting == comp.step # "idle" => mode # "enforce"

CompInv == comp \in Compaction /\ Loaded /\ Uploaded /\ Emptied /\ Packed /\ Compacting

\* A cleanup removes expired windows that were summarised, and the objects of rows that
\* it deleted.
KeyMaps == {<< >>} \cup UNION {[B -> ObjKeys] : B \in SUBSET Batches}
Cleaning == [step : {"idle", "downsample", "windows", "batches", "object"},
             read : SUBSET (Pairs \cup Batches),
             key : KeyMaps,
             todo : SUBSET Batches]
CleanOK(c) ==
  /\ c.step \in {"downsample", "windows"} => c.read \subseteq Pairs /\ \A w \in c.read : w[1] \in expired
  /\ c.step = "windows" /\ mode # "enforce" => \A w \in c.read : w[2] = "cpu" => summary[w[1]] > 0
  /\ c.step = "object" => c.read \subseteq gone
  /\ c.todo \subseteq expired
CleanInv ==
  /\ clean \in [Cleaners -> Cleaning]
  /\ summary \in [Batches -> Nat]
  /\ \A c \in Cleaners : CleanOK(clean[c])

\* An unexpired row has a window for every signal unless that was quarantined, and a
\* batch that is about to be collected was migrated.
Missing == [st : {"none", "retrying", "resolved", "quarantined"}, n : Nat, key : ObjKeys]
Migrated(b) ==
  \A s \in SignalsOf[b] : \/ \E r \in receipts : r[1] = b /\ r[2] = s
                          \/ miss[<<b, s>>].st = "quarantined"
Complete ==
  \A b \in Batches \ expired : batch[b].row =>
    \A s \in SignalsOf[b] : <<b, s>> \in win \/ miss[<<b, s>>].st = "quarantined"
MigrationInv ==
  /\ miss \in [Pairs -> Missing]
  /\ Complete
  /\ work.step = "load" => work.key \in [DOMAIN work.key -> ObjKeys]
  /\ work.step = "gc" => /\ mode = "enforce" /\ work.b \in Batches
                         /\ work.b \notin expired => Migrated(work.b)
  /\ work.step = "gcobject" => work.b \in gone
  /\ delfail \subseteq gone

\* The names a block's signal may have.
Names == Signals \cup {""}

\* A block that was built from another one has its rows, as long as that has any.
PqStatus == {"none", "building", "active", "superseded", "failed", "deleted"}
PqBlock == [status : PqStatus, sig : Names, res : {"raw", "5m", "1h", ""},
            rows : SUBSET Batches, seen : SUBSET Batches, src : PqIds \cup {0}]
Derived(j) ==
  pq[j].src # 0 =>
    LET k == pq[j].src
    IN  /\ pq[k].status \in {"active", "superseded", "deleted"}
        /\ pq[k].status # "deleted" => pq[j].rows = pq[k].rows /\ pq[j].sig = pq[k].sig
Building ==
  /\ work.step = "load" => DOMAIN work.key \subseteq Pairs
  /\ work.step = "block" =>
       /\ work.rows \subseteq Batches \X Names
       /\ work.res \in {"raw", "5m", "1h"} /\ work.src \in PqIds \cup {0}
       /\ work.src # 0 => /\ pq[work.src].status = "active"
                          /\ work.rows = pq[work.src].rows \X {pq[work.src].sig}
  /\ work.step = "register" =>
       /\ work.blk \in PqIds /\ pq[work.blk].status = "building" /\ pq[work.blk].res = work.res
       /\ work.res \in {"raw", "5m", "1h"} /\ work.src \in PqIds \cup {0}
       /\ work.rows \subseteq Batches \X Names
       /\ work.src # 0 => work.rows = {}
LayerInv ==
  /\ pq \in [PqIds -> PqBlock]
  /\ \A j \in PqIds : Derived(j)
  /\ Building

Inv == DataInv /\ CompInv /\ CleanInv /\ MigrationInv /\ LayerInv

-----------------------------------------------------------------------------
(* Objects, rows and windows *)

\* A window row belongs to a batch and one of its signals.
LEMMA PairFacts ==
  ASSUME NEW w \in Pairs
  PROVE  w[1] \in Batches /\ w[2] \in SignalsOf[w[1]] /\ w = <<w[1], w[2]>>
BY SMT DEF Pairs

LEMMA IsPair ==
  ASSUME NEW b \in Batches, NEW s \in SignalsOf[b]
  PROVE  <<b, s>> \in Pairs
BY SMT DEF Pairs

\* Keys of minute objects and of blocks are apart.
LEMMA KeysApart ==
  /\ \A b, c : Minute(b) = Minute(c) => b = c
  /\ \A j, k : Block(j) = Block(k) => j = k
  /\ \A b, k : Minute(b) # Block(k)
BY SMT DEF Minute, Block

\* A batch of which nothing changes that the compactor relies on.
Steady(b) ==
  batch[b].row =>
    /\ batch'[b].row /\ batch'[b].block = batch[b].block
    /\ \A w \in win' : w[1] = b => w \in win

\* What the compactor carries stays true under the steps of others.
LEMMA CompKept ==
  ASSUME DataInv, CompInv, gone \subseteq gone', UNCHANGED <<comp, v1, mode>>,
         \A b \in Batches \ gone' : Steady(b),
         \A k \in V1Ids : Block(k) \in obj => Block(k) \in obj'
  PROVE  CompInv'
<1>0. /\ comp \in Compaction /\ comp' = comp /\ v1' = v1 /\ mode' = mode
      /\ comp.keep \subseteq Batches /\ comp.removed \subseteq Batches
      /\ comp.fresh \subseteq Batches /\ comp.todo \subseteq Batches
      /\ comp.old \in Ids /\ comp.new \in Ids
  BY SMT DEF CompInv, Compaction
<1>1. Loaded'
  <2> SUFFICES ASSUME comp.step \in {"load", "register", "drop"} PROVE Loaded'
    BY <1>0 DEF Loaded
  <2>1. \A b \in comp.removed \ gone' : WindowsOf({b})' = {}
    <3> TAKE b \in comp.removed \ gone'
    <3>1. comp.old # 0 /\ comp.old \in V1Ids
      BY <1>0 DEF Loaded, CompInv, Ids
    <3>2. b \in v1[comp.old].members \ gone /\ v1[comp.old].status = "active"
      BY <3>1 DEF Loaded, CompInv
    <3>3. batch[b].row
      BY <3>1, <3>2 DEF DataInv, MembersRefer
    <3>4. WindowsOf({b}) = {}
      BY DEF CompInv, Loaded
    <3> QED
      BY <1>0, <3>3, <3>4 DEF Steady, WindowsOf
  <2>2. \A b \in comp.fresh \ gone' : batch'[b].row /\ batch'[b].block = 0
    BY <1>0 DEF Loaded, CompInv, Steady
  <2> QED
    BY <1>0, <2>1, <2>2 DEF Loaded, CompInv
<1>2. Uploaded'
  <2> SUFFICES ASSUME comp.step = "register" PROVE Uploaded'
    BY <1>0 DEF Uploaded
  <2>1. comp.new \in V1Ids /\ Block(comp.new) \in obj
    BY <1>0 DEF CompInv, Uploaded, Ids
  <2> QED
    BY <1>0, <2>1 DEF CompInv, Uploaded
<1>3. Emptied' /\ Compacting'
  BY <1>0 DEF CompInv, Emptied, Compacting
<1>4. Packed'
  BY <1>0 DEF CompInv, Packed, Steady
<1> QED
  BY <1>0, <1>1, <1>2, <1>3, <1>4 DEF CompInv

\* A compactor at rest.
LEMMA CompRests ==
  ASSUME comp' = CompIdle
  PROVE  CompInv'
<1>1. comp' \in Compaction /\ comp'.step = "idle"
  BY SMT DEF CompIdle, Compaction, Ids
<1> QED
  BY <1>1 DEF CompInv, Loaded, Uploaded, Emptied, Packed, Compacting

\* Windows go.
LEMMA WindowsGo ==
  ASSUME DataInv, win' \subseteq win, UNCHANGED <<batch, obj, v1, gone>>
  PROVE  DataInv'
BY DEF DataInv, Types, RowsStored, WindowsHaveRows, MembersRefer, Stored

\* Minute objects go that no row refers to, or only the row of a batch that was given up.
LEMMA MinutesGo ==
  ASSUME DataInv, NEW X, obj' = obj \ {Minute(b) : b \in X},
         \A b \in X \ gone : batch[b].row => batch[b].block # 0,
         batch' \in [Batches -> Row],
         \A b \in Batches : batch'[b].row = batch[b].row /\ batch'[b].block = batch[b].block,
         UNCHANGED <<win, v1, gone>>
  PROVE  DataInv'
<1>1. Types' /\ WindowsHaveRows' /\ MembersRefer'
  <2>1. Types'
    BY DEF DataInv, Types
  <2>2. WindowsHaveRows'
    BY PairFacts DEF DataInv, Types, WindowsHaveRows
  <2>3. MembersRefer'
    <3> SUFFICES ASSUME NEW k \in V1Ids, v1[k].status = "active", NEW b \in v1[k].members \ gone
                 PROVE  batch'[b].row /\ batch'[b].block = k
      BY DEF MembersRefer
    <3>1. b \in Batches
      BY SMT DEF DataInv, Types, V1Block
    <3> QED
      BY <3>1 DEF DataInv, MembersRefer
  <2> QED
    BY <2>1, <2>2, <2>3
<1>2. RowsStored'
  <2> SUFFICES ASSUME NEW b \in Batches \ gone, batch[b].row PROVE Stored(b)'
    BY DEF RowsStored
  <2>1. Stored(b)
    BY DEF DataInv, RowsStored
  <2>2. CASE batch[b].block = 0
    <3>1. b \notin X /\ Minute(b) \in obj
      BY <2>1, <2>2 DEF Stored
    <3>2. Minute(b) \in obj'
      BY SMT, <3>1 DEF Minute
    <3> QED
      BY <2>2, <3>2 DEF Stored
  <2>3. CASE batch[b].block # 0
    <3>1. Block(batch[b].block) \in obj'
      BY SMT, <2>1, <2>3 DEF Stored, Minute, Block
    <3> QED
      BY <2>1, <2>3, <3>1 DEF Stored
  <2> QED
    BY <2>2, <2>3
<1> QED
  BY <1>1, <1>2 DEF DataInv

\* Rows go, and count as given up.
LEMMA RowsGo ==
  ASSUME DataInv, NEW B, DeleteRows(B), gone' = gone \cup B, UNCHANGED <<obj, v1>>
  PROVE  DataInv'
<1>1. Types'
  <2>1. NoRow \in Row
    BY SMT DEF NoRow, Row, Ids
  <2> QED
    BY <2>1 DEF DataInv, Types, DeleteRows
<1>2. \A b \in Batches \ B : batch'[b] = batch[b]
  BY DEF DeleteRows
<1>3. RowsStored'
  BY <1>2 DEF DataInv, RowsStored, Stored
<1>4. WindowsHaveRows'
  BY <1>2, PairFacts DEF DataInv, Types, WindowsHaveRows, DeleteRows
<1>5. MembersRefer'
  <2> SUFFICES ASSUME NEW k \in V1Ids, v1[k].status = "active", NEW b \in v1[k].members \ gone'
               PROVE  batch'[b].row /\ batch'[b].block = k
    BY DEF MembersRefer
  <2>1. b \in Batches
    BY SMT DEF DataInv, Types, V1Block
  <2> QED
    BY <2>1, <1>2 DEF DataInv, MembersRefer
<1> QED
  BY <1>1, <1>3, <1>4, <1>5 DEF DataInv

\* Nothing of the store changes but that objects are added.
LEMMA ObjectsCome ==
  ASSUME DataInv, obj \subseteq obj', UNCHANGED <<batch, win, v1, gone>>
  PROVE  DataInv'
<1>1. Types' /\ WindowsHaveRows' /\ MembersRefer'
  BY DEF DataInv, Types, WindowsHaveRows, MembersRefer
<1>2. RowsStored'
  BY DEF DataInv, RowsStored, Stored
<1> QED
  BY <1>1, <1>2 DEF DataInv

\* IngestContinuousBatch stores the payload of the row it inserts.
LEMMA IngestKeeps ==
  ASSUME DataInv, CompInv, NEW b \in Batches, Ingest(b)
  PROVE  DataInv' /\ CompInv'
<1>0. gone' = gone /\ comp' = comp /\ v1' = v1 /\ mode' = mode /\ obj \subseteq obj'
  BY DEF Ingest
<1>1. CASE UNCHANGED <<batch, win>>
  <2>1. DataInv'
    BY <1>0, <1>1, ObjectsCome
  <2>2. \A x \in Batches \ gone' : Steady(x)
    BY <1>1 DEF Steady
  <2> QED
    BY <1>0, <2>1, <2>2, CompKept
<1>2. CASE /\ ~batch[b].row /\ obj' = obj \cup {Minute(b)}
           /\ batch' = [batch EXCEPT ![b] = [row |-> TRUE, block |-> 0, src |-> FALSE, ontime |-> age = 0]]
           /\ win' = win \cup ({b} \X SignalsOf[b])
  <2>1. batch \in [Batches -> Row] /\ win \subseteq Pairs
    BY DEF DataInv, Types
  <2>2. [row |-> TRUE, block |-> 0, src |-> FALSE, ontime |-> age = 0] \in Row
    BY DEF Row, Ids
  <2>3. /\ batch'[b].row /\ batch'[b].block = 0
        /\ \A x \in Batches \ {b} : batch'[x] = batch[x]
    BY <1>2, <2>1, <2>2
  <2>4. Types'
    <3>1. {b} \X SignalsOf[b] \subseteq Pairs
      BY SMT DEF Pairs
    <3> QED
      BY <1>0, <1>2, <2>1, <2>2, <3>1 DEF DataInv, Types
  <2>5. \A x \in Batches \ gone' : Steady(x)
    <3> SUFFICES ASSUME NEW x \in Batches \ gone', batch[x].row PROVE Steady(x)
      BY DEF Steady
    <3>1. x # b
      BY <1>2
    <3>2. \A w \in win' : w[1] = x => w \in win
      BY SMT, <1>2, <3>1
    <3> QED
      BY <2>3, <3>1, <3>2 DEF Steady
  <2>6. RowsStored'
    <3> SUFFICES ASSUME NEW x \in Batches \ gone, batch'[x].row PROVE Stored(x)'
      BY <1>0 DEF RowsStored
    <3>1. CASE x = b
      BY <1>2, <2>3, <3>1 DEF Stored
    <3>2. CASE x # b
      BY <1>0, <2>3, <3>2 DEF DataInv, RowsStored, Stored
    <3> QED
      BY <3>1, <3>2
  <2>7. WindowsHaveRows'
    <3> SUFFICES ASSUME NEW w \in win' PROVE batch'[w[1]].row
      BY DEF WindowsHaveRows
    <3>1. CASE w[1] = b
      BY <2>3, <3>1
    <3>2. CASE w[1] # b
      <4>1. w \in win
        BY SMT, <1>2, <3>2
      <4> QED
        BY <2>1, <2>3, <3>2, <4>1, PairFacts DEF DataInv, WindowsHaveRows
    <3> QED
      BY <3>1, <3>2
  <2>8. MembersRefer'
    <3> SUFFICES ASSUME NEW k \in V1Ids, v1[k].status = "active", NEW x \in v1[k].members \ gone
                 PROVE  batch'[x].row /\ batch'[x].block = k
      BY <1>0 DEF MembersRefer
    <3>1. x \in Batches
      BY SMT DEF DataInv, Types, V1Block
    <3>2. batch[x].row /\ batch[x].block = k
      BY DEF DataInv, MembersRefer
    <3> QED
      BY <1>2, <2>3, <3>1, <3>2
  <2> QED
    BY <1>0, <2>4, <2>5, <2>6, <2>7, <2>8, CompKept DEF DataInv
<1> QED
  BY <1>1, <1>2 DEF Ingest

\* A block is uploaded under a new id.
LEMMA BlockCome ==
  ASSUME DataInv, NEW k \in V1Ids, v1[k].status = "none", NEW M, M \subseteq Batches,
         v1' = [v1 EXCEPT ![k] = [status |-> "unregistered", members |-> M]],
         obj' = obj \cup {Block(k)}, UNCHANGED <<batch, win, gone>>
  PROVE  DataInv'
<1>1. /\ v1'[k] = [status |-> "unregistered", members |-> M]
      /\ \A j \in V1Ids \ {k} : v1'[j] = v1[j]
  BY DEF DataInv, Types
<1>2. Types'
  <2>1. [status |-> "unregistered", members |-> M] \in V1Block
    BY SMT DEF V1Block
  <2> QED
    BY <2>1 DEF DataInv, Types
<1>3. RowsStored'
  <2> SUFFICES ASSUME NEW b \in Batches \ gone, batch[b].row PROVE Stored(b)'
    BY DEF RowsStored
  <2>1. Stored(b)
    BY DEF DataInv, RowsStored
  <2>2. CASE batch[b].block = 0
    BY <2>1, <2>2 DEF Stored
  <2>3. CASE batch[b].block # 0
    <3>1. batch[b].block \in V1Ids \ {k}
      BY SMT, <2>1, <2>3 DEF DataInv, Types, Row, Ids, Stored
    <3> QED
      BY <1>1, <2>1, <2>3, <3>1 DEF Stored
  <2> QED
    BY <2>2, <2>3
<1>4. MembersRefer'
  <2> SUFFICES ASSUME NEW j \in V1Ids, v1'[j].status = "active", NEW b \in v1'[j].members \ gone
               PROVE  batch[b].row /\ batch[b].block = j
    BY DEF MembersRefer
  <2>1. j # k
    BY SMT, <1>1
  <2> QED
    BY <1>1, <2>1 DEF DataInv, MembersRefer
<1> QED
  BY <1>2, <1>3, <1>4 DEF DataInv, WindowsHaveRows

\* A block that is not active is discarded with its object.
LEMMA BlockGoes ==
  ASSUME DataInv, NEW k \in V1Ids, v1[k].status # "active",
         v1' = [v1 EXCEPT ![k] = NoBlock], obj' = obj \ {Block(k)}, UNCHANGED <<batch, win, gone>>
  PROVE  DataInv'
<1>1. v1'[k] = NoBlock /\ \A j \in V1Ids \ {k} : v1'[j] = v1[j]
  BY DEF DataInv, Types
<1>2. NoBlock \in V1Block /\ NoBlock.status # "active"
  BY SMT DEF V1Block, NoBlock
<1>3. Types'
  BY <1>2 DEF DataInv, Types
<1>4. RowsStored'
  <2> SUFFICES ASSUME NEW b \in Batches \ gone, batch[b].row PROVE Stored(b)'
    BY DEF RowsStored
  <2>1. Stored(b)
    BY DEF DataInv, RowsStored
  <2>2. CASE batch[b].block = 0
    <3>1. Minute(b) \in obj'
      BY <2>1, <2>2, KeysApart DEF Stored
    <3> QED
      BY <2>2, <3>1 DEF Stored
  <2>3. CASE batch[b].block # 0
    <3>1. batch[b].block \in V1Ids \ {k}
      BY SMT, <2>1, <2>3 DEF DataInv, Types, Row, Ids, Stored
    <3>2. Block(batch[b].block) \in obj'
      BY <2>1, <2>3, <3>1, KeysApart DEF Stored
    <3> QED
      BY <1>1, <2>1, <2>3, <3>1, <3>2 DEF Stored
  <2> QED
    BY <2>2, <2>3
<1>5. MembersRefer'
  <2> SUFFICES ASSUME NEW j \in V1Ids, v1'[j].status = "active", NEW b \in v1'[j].members \ gone
               PROVE  batch[b].row /\ batch[b].block = j
    BY DEF MembersRefer
  <2>1. j # k
    BY <1>1, <1>2
  <2> QED
    BY <1>1, <2>1 DEF DataInv, MembersRefer
<1> QED
  BY <1>3, <1>4, <1>5 DEF DataInv, WindowsHaveRows

\* A block that is about to be deleted gives up its members.
LEMMA BlockGivenUp ==
  ASSUME DataInv, NEW k \in V1Ids, NEW B, DeleteBlock(k, B), B \subseteq gone', gone \subseteq gone',
         \A b \in Batches : batch[b].row /\ batch[b].block = k => b \in gone', UNCHANGED obj
  PROVE  DataInv'
<1>1. /\ v1' = [v1 EXCEPT ![k].status = "deleting"]
      /\ batch' = [b \in Batches |-> IF b \in B THEN NoRow ELSE batch[b]]
      /\ win' = {w \in win : w[1] \notin B}
  BY DEF DeleteBlock, DeleteRows
<1>2. /\ v1'[k].status = "deleting" /\ v1' \in [V1Ids -> V1Block]
      /\ \A j \in V1Ids \ {k} : v1'[j] = v1[j]
  BY SMT, <1>1 DEF DataInv, Types, V1Block
<1>3. \A b \in Batches \ gone' : batch'[b] = batch[b]
  BY <1>1
<1>4. Types'
  <2>1. NoRow \in Row
    BY SMT DEF NoRow, Row, Ids
  <2> QED
    BY <1>1, <1>2, <2>1 DEF DataInv, Types
<1>5. RowsStored'
  <2> SUFFICES ASSUME NEW b \in Batches \ gone', batch[b].row PROVE Stored(b)'
    BY <1>3 DEF RowsStored
  <2>1. Stored(b)
    BY DEF DataInv, RowsStored
  <2>2. CASE batch[b].block = 0
    BY <1>3, <2>1, <2>2 DEF Stored
  <2>3. CASE batch[b].block # 0
    <3>1. batch[b].block \in V1Ids \ {k}
      BY SMT, <2>3 DEF DataInv, Types, Row, Ids
    <3> QED
      BY <1>2, <1>3, <2>1, <2>3, <3>1 DEF Stored
  <2> QED
    BY <2>2, <2>3
<1>6. WindowsHaveRows'
  BY <1>1, PairFacts DEF DataInv, Types, WindowsHaveRows
<1>7. MembersRefer'
  <2> SUFFICES ASSUME NEW j \in V1Ids, v1'[j].status = "active", NEW b \in v1'[j].members \ gone'
               PROVE  batch'[b].row /\ batch'[b].block = j
    BY DEF MembersRefer
  <2>1. j # k
    BY <1>2
  <2>2. b \in v1[j].members \ gone /\ v1[j].status = "active" /\ b \in Batches
    BY SMT, <1>2, <2>1 DEF DataInv, Types, V1Block
  <2> QED
    BY <1>3, <2>2 DEF DataInv, MembersRefer
<1> QED
  BY <1>4, <1>5, <1>6, <1>7 DEF DataInv

-----------------------------------------------------------------------------
(* The compactor *)

\* Steps that leave the store and the compactor alone.
LEMMA StoreRests ==
  ASSUME DataInv, CompInv, UNCHANGED <<batch, win, obj, v1, gone, comp, mode>>
  PROVE  DataInv' /\ CompInv'
<1>1. DataInv'
  BY ObjectsCome
<1>2. CompInv'
  BY CompKept DEF Steady
<1> QED
  BY <1>1, <1>2

\* A compactor that does nothing is not disturbed.
LEMMA CompIdles ==
  ASSUME CompInv, comp.step = "idle", comp' = comp
  PROVE  CompInv'
BY DEF CompInv, Loaded, Uploaded, Emptied, Packed, Compacting

LEMMA ActiveFacts ==
  /\ ActiveId \in Ids
  /\ ActiveId # 0 => ActiveId \in V1Ids /\ v1[ActiveId].status = "active"
<1>1. CASE Active = {}
  BY <1>1 DEF ActiveId, Ids
<1>2. CASE Active # {}
  <2>1. ActiveId \in Active
    BY <1>2 DEF ActiveId
  <2> QED
    BY <2>1 DEF Active, Ids
<1> QED
  BY <1>1, <1>2

\* What is read under the lock.
LEMMA CompactReadKeeps ==
  ASSUME DataInv, CompInv, CompactRead
  PROVE  DataInv' /\ CompInv'
<1> DEFINE old == ActiveId
           keep == IF old = 0 THEN {}
                   ELSE {b \in v1[old].members :
                           /\ batch[b].row /\ batch[b].block = old
                           /\ b \notin expired \/ WindowsOf({b}) # {}}
           removed == IF old = 0 THEN {} ELSE v1[old].members \ keep
           fresh == {b \in Rows : batch[b].block = 0 /\ b \notin expired}
<1>1. /\ comp' = [CompIdle EXCEPT !.step = "load", !.old = old, !.keep = keep,
                                  !.removed = removed, !.fresh = fresh]
      /\ mode # "enforce" /\ UNCHANGED <<batch, win, obj, v1, gone, mode>>
  BY DEF CompactRead
<1>2. DataInv'
  BY <1>1, ObjectsCome
<1>3. old = 0 \/ v1[old].members \subseteq Batches
  BY SMT, ActiveFacts DEF DataInv, Types, V1Block
<1>4. keep \subseteq Batches /\ removed \subseteq Batches /\ fresh \subseteq Batches
  BY <1>3 DEF Rows
<1>5. /\ comp'.step = "load" /\ comp'.old = old /\ comp'.keep = keep
      /\ comp'.removed = removed /\ comp'.fresh = fresh /\ comp' \in Compaction
  <2> HIDE DEF old, keep, removed, fresh
  <2>1. old \in Ids
    BY ActiveFacts DEF old
  <2>2. CompIdle \in Compaction
    BY SMT DEF CompIdle, Compaction, Ids
  <2>3. comp' \in Compaction
    BY <1>1, <1>4, <2>1, <2>2 DEF Compaction
  <2> QED
    BY SMT, <1>1, <2>3 DEF CompIdle
<1>6. Loaded'
  <2>1. old # 0 => v1[old].status = "active" /\ v1[old].members = keep \cup removed
    BY ActiveFacts
  <2>2. old = 0 => keep = {} /\ removed = {}
    OBVIOUS
  <2>3. \A b \in removed \ gone : WindowsOf({b}) = {}
    <3> TAKE b \in removed \ gone
    <3>1. old # 0 /\ b \in v1[old].members \ gone
      OBVIOUS
    <3>2. batch[b].row /\ batch[b].block = old
      BY <3>1, ActiveFacts DEF DataInv, MembersRefer
    <3> QED
      BY <3>1, <3>2
  <2>4. \A b \in fresh : batch[b].row /\ batch[b].block = 0
    BY DEF Rows
  <2> HIDE DEF old, keep, removed, fresh
  <2> QED
    BY <1>1, <1>5, <2>1, <2>2, <2>3, <2>4 DEF Loaded, WindowsOf
<1> QED
  BY <1>1, <1>2, <1>5, <1>6 DEF CompInv, Uploaded, Emptied, Packed, Compacting

\* The upload of a new block, or the decision against it.
LEMMA CompactUploadKeeps ==
  ASSUME DataInv, CompInv, comp.step = "load", NEW L, L \subseteq comp.fresh, CompactUpload(L),
         UNCHANGED <<batch, win, gone, mode>>
  PROVE  DataInv' /\ CompInv'
<1>0. /\ comp \in Compaction
      /\ comp.keep \subseteq Batches /\ comp.removed \subseteq Batches
      /\ comp.fresh \subseteq Batches /\ comp.old \in Ids
  BY SMT DEF CompInv, Compaction
<1>1. CASE comp' = CompIdle /\ UNCHANGED <<obj, v1>>
  BY <1>1, ObjectsCome, CompRests
<1>2. CASE /\ comp.keep \cup L = {} /\ comp.old # 0
           /\ comp' = [comp EXCEPT !.step = "drop"] /\ UNCHANGED <<obj, v1>>
  <2>1. DataInv'
    BY <1>2, ObjectsCome
  <2>2. /\ comp' \in Compaction /\ comp'.step = "drop" /\ comp'.old = comp.old
        /\ comp'.keep = comp.keep /\ comp'.removed = comp.removed /\ comp'.fresh = comp.fresh
    BY SMT, <1>0, <1>2 DEF Compaction
  <2>3. Loaded'
    BY <1>2, <2>2 DEF CompInv, Loaded, WindowsOf
  <2> QED
    BY <1>2, <2>1, <2>2, <2>3 DEF CompInv, Uploaded, Emptied, Packed, Compacting
<1>3. ASSUME NEW k \in V1Ids, v1[k].status = "none", obj' = obj \cup {Block(k)},
             v1' = [v1 EXCEPT ![k] = [status |-> "unregistered", members |-> comp.keep \cup L]],
             comp' = [comp EXCEPT !.step = "register", !.new = k, !.fresh = L]
      PROVE  DataInv' /\ CompInv'
  <2>1. DataInv'
    BY <1>0, <1>3, BlockCome
  <2>2. /\ comp' \in Compaction /\ comp'.step = "register" /\ comp'.old = comp.old
        /\ comp'.keep = comp.keep /\ comp'.removed = comp.removed /\ comp'.fresh = L
        /\ comp'.new = k
    <3>1. L \subseteq Batches /\ k \in Ids
      BY <1>0, <1>3 DEF Ids
    <3>2. comp' \in Compaction
      BY <1>0, <1>3, <3>1 DEF Compaction
    <3> QED
      BY SMT, <1>0, <1>3, <3>2 DEF Compaction
  <2>3. /\ v1'[k] = [status |-> "unregistered", members |-> comp.keep \cup L]
        /\ \A j \in V1Ids \ {k} : v1'[j] = v1[j]
    BY <1>3 DEF DataInv, Types
  <2>4. Loaded'
    <3>1. comp.old # 0 => comp.old \in V1Ids \ {k} /\ v1'[comp.old] = v1[comp.old]
      BY SMT, <1>0, <1>3, <2>3 DEF CompInv, Loaded, Ids
    <3> QED
      BY <2>2, <3>1 DEF CompInv, Loaded, WindowsOf
  <2>5. Uploaded'
    <3>1. k # 0
      BY IdsAssumption
    <3>2. v1'[k].status = "unregistered" /\ v1'[k].members = comp.keep \cup L
      BY SMT, <2>3
    <3>3. Block(k) \in obj'
      BY <1>3
    <3> QED
      BY <2>2, <3>1, <3>2, <3>3 DEF Uploaded
  <2> QED
    BY <2>1, <2>2, <2>4, <2>5 DEF CompInv, Emptied, Packed, Compacting
<1> QED
  BY <1>1, <1>2, <1>3 DEF CompactUpload

LEMMA CompactBuildKeeps ==
  ASSUME DataInv, CompInv, CompactBuild
  PROVE  DataInv' /\ CompInv'
<1>0. comp.step = "load" /\ UNCHANGED <<batch, win, gone, mode>>
  BY DEF CompactBuild
<1>1. CASE \E L \in SUBSET comp.fresh : CompactUpload(L)
  BY <1>0, <1>1, CompactUploadKeeps
<1>2. CASE comp' = CompIdle /\ UNCHANGED <<obj, v1>>
  BY <1>0, <1>2, ObjectsCome, CompRests
<1>3. {b \in comp.fresh : Minute(b) \in obj} \in SUBSET comp.fresh
      /\ \A b : {c \in comp.fresh : Minute(c) \in obj} \ {b} \in SUBSET comp.fresh
  OBVIOUS
<1> QED
  BY <1>1, <1>2, <1>3 DEF CompactBuild

\* The transaction that puts the new block in the place of the old one.
Registers ==
  /\ v1' = [j \in V1Ids |-> IF j = comp.new THEN [v1[j] EXCEPT !.status = "active"]
                            ELSE IF j = comp.old THEN [v1[j] EXCEPT !.status = "superseded"]
                            ELSE v1[j]]
  /\ batch' = [b \in Batches |->
        IF b \in comp.removed THEN NoRow
        ELSE IF b \in {x \in comp.keep \cup comp.fresh : batch[x].row}
             THEN [batch[b] EXCEPT !.block = comp.new, !.src = @ \/ batch[b].block = 0]
        ELSE batch[b]]
  /\ win' = {w \in win : w[1] \notin comp.removed}
  /\ gone' = gone \cup comp.removed /\ obj' = obj

\* Its rows and those it moves to the new block are stored there, the others stay.
LEMMA RegisterMoves ==
  ASSUME DataInv, CompInv, comp.step = "register", Registers
  PROVE  /\ DataInv'
         /\ \A b \in comp.fresh \ gone' : batch'[b].row /\ batch'[b].block # 0
<1> DEFINE k == comp.new
           old == comp.old
           packed == comp.keep \cup comp.fresh
<1>0. /\ comp.keep \subseteq Batches /\ comp.removed \subseteq Batches
      /\ comp.fresh \subseteq Batches /\ old \in Ids /\ k \in Ids
  BY SMT DEF CompInv, Compaction
<1>1. /\ k # 0 /\ k \in V1Ids /\ v1[k].status = "unregistered"
      /\ v1[k].members = packed /\ Block(k) \in obj
  BY <1>0 DEF CompInv, Uploaded, Ids
<1>2. old # 0 => /\ old \in V1Ids /\ v1[old].status = "active" /\ old # k
                 /\ v1[old].members = comp.keep \cup comp.removed
  BY SMT, <1>0, <1>1 DEF CompInv, Loaded, Ids
<1>3. \A b \in comp.keep \ gone : old # 0 /\ batch[b].row /\ batch[b].block = old
  <2> TAKE b \in comp.keep \ gone
  <2>1. old # 0
    BY DEF CompInv, Loaded
  <2> QED
    BY <1>2, <2>1 DEF DataInv, MembersRefer
<1>4. \A b \in comp.fresh \ gone : batch[b].row /\ batch[b].block = 0
  BY DEF CompInv, Loaded
<1>5. /\ v1' \in [V1Ids -> V1Block]
      /\ v1'[k].status = "active" /\ v1'[k].members = packed
      /\ old # 0 => v1'[old].status = "superseded"
      /\ \A j \in V1Ids \ {k, old} : v1'[j] = v1[j]
  <2>1. \A r \in V1Block : /\ [r EXCEPT !.status = "active"] \in V1Block
                           /\ [r EXCEPT !.status = "superseded"] \in V1Block
    BY SMT DEF V1Block
  <2>2. v1 \in [V1Ids -> V1Block]
    BY DEF DataInv, Types
  <2>3. v1' \in [V1Ids -> V1Block]
    BY <2>1, <2>2 DEF Registers
  <2>4. v1'[k] = [v1[k] EXCEPT !.status = "active"]
    BY <1>1 DEF Registers
  <2>5. v1'[k].status = "active" /\ v1'[k].members = packed
    BY SMT, <1>1, <2>2, <2>4 DEF V1Block
  <2>6. old # 0 => v1'[old] = [v1[old] EXCEPT !.status = "superseded"]
    BY <1>2 DEF Registers
  <2>7. old # 0 => v1'[old].status = "superseded"
    BY SMT, <1>2, <2>2, <2>6 DEF V1Block
  <2> QED
    BY <2>3, <2>5, <2>7 DEF Registers
<1>6. batch' \in [Batches -> Row]
  <2>1. \A r \in Row : [r EXCEPT !.block = comp.new, !.src = @ \/ r.block = 0] \in Row
    BY <1>0 DEF Row
  <2>2. NoRow \in Row
    BY SMT DEF NoRow, Row, Ids
  <2> QED
    BY <2>1, <2>2 DEF DataInv, Types, Registers
<1>7. \A b \in Batches \ comp.removed :
        /\ b \in packed /\ batch[b].row => batch'[b].row /\ batch'[b].block = k
        /\ b \notin packed => batch'[b] = batch[b]
        /\ batch'[b].row => batch[b].row
  <2> TAKE b \in Batches \ comp.removed
  <2>1. batch[b] \in Row
    BY DEF DataInv, Types
  <2>2. CASE b \in packed /\ batch[b].row
    <3>1. batch'[b] = [batch[b] EXCEPT !.block = comp.new, !.src = @ \/ batch[b].block = 0]
      BY <2>2 DEF Registers
    <3>2. batch'[b].block = comp.new /\ batch'[b].row = batch[b].row
      BY SMT, <2>1, <3>1 DEF Row
    <3> QED
      BY <2>2, <3>2
  <2>3. CASE ~(b \in packed /\ batch[b].row)
    BY <2>3 DEF Registers
  <2> QED
    BY <2>2, <2>3
<1> HIDE DEF k, old, packed
<1>13. obj' = obj
  BY DEF Registers
<1>8. Types'
  BY <1>5, <1>6 DEF DataInv, Types, Registers
<1>9. RowsStored'
  <2> SUFFICES ASSUME NEW b \in Batches \ gone', batch'[b].row PROVE Stored(b)'
    BY DEF RowsStored
  <2>1. b \notin comp.removed /\ b \notin gone /\ batch[b].row
    BY <1>7 DEF Registers
  <2>2. CASE b \in packed
    <3>1. batch'[b].block = k /\ k # 0
      BY <1>1, <1>7, <2>1, <2>2
    <3>2. v1'[k].status = "active" /\ b \in v1'[k].members /\ Block(k) \in obj'
      BY <1>1, <1>5, <1>13, <2>2
    <3> QED
      BY <3>1, <3>2 DEF Stored
  <2>3. CASE b \notin packed
    <3>1. batch'[b] = batch[b] /\ Stored(b)
      BY <1>7, <2>1, <2>3 DEF DataInv, RowsStored
    <3>2. CASE batch[b].block = 0
      BY <3>1, <3>2 DEF Stored, Registers
    <3>3. CASE batch[b].block # 0
      <4>1. batch[b].block \in V1Ids \ {k, old}
        <5>1. batch[b].block \in V1Ids
          BY SMT, <3>3 DEF DataInv, Types, Row, Ids
        <5>2. batch[b].block # k
          BY SMT, <1>1, <3>1, <3>3 DEF Stored
        <5>3. batch[b].block # old
          BY <1>2, <2>1, <2>3, <3>1, <3>3 DEF Stored, packed
        <5> QED
          BY <5>1, <5>2, <5>3
      <4> QED
        BY <1>13, <1>5, <3>1, <3>3, <4>1 DEF Stored
    <3> QED
      BY <3>2, <3>3
  <2> QED
    BY <2>2, <2>3
<1>10. WindowsHaveRows'
  BY <1>7, PairFacts DEF DataInv, Types, WindowsHaveRows, Registers
<1>11. MembersRefer'
  <2> SUFFICES ASSUME NEW j \in V1Ids, v1'[j].status = "active", NEW b \in v1'[j].members \ gone'
               PROVE  batch'[b].row /\ batch'[b].block = j
    BY DEF MembersRefer
  <2>1. CASE j = k
    BY <1>0, <1>3, <1>4, <1>5, <1>7, <2>1 DEF packed, Registers
  <2>2. CASE j # k
    <3>1. j # old
      BY SMT, <1>5, IdsAssumption
    <3>2. v1[j].status = "active" /\ b \in v1[j].members \ gone /\ v1'[j] = v1[j]
      BY <1>5, <2>2, <3>1 DEF Registers
    <3>3. batch[b].row /\ batch[b].block = j
      BY <3>2 DEF DataInv, MembersRefer
    <3>4. b \in Batches
      BY SMT, <3>2 DEF DataInv, Types, V1Block
    <3>5. b \notin packed
      BY <1>3, <1>4, <3>1, <3>2, <3>3, IdsAssumption DEF packed
    <3> QED
      BY <1>7, <3>3, <3>4, <3>5 DEF Registers
  <2> QED
    BY <2>1, <2>2
<1>12. \A b \in comp.fresh \ gone' : batch'[b].row /\ batch'[b].block # 0
  BY <1>0, <1>1, <1>4, <1>7 DEF packed, Registers
<1> QED
  BY <1>8, <1>9, <1>10, <1>11, <1>12 DEF DataInv

LEMMA CompactRegisterKeeps ==
  ASSUME DataInv, CompInv, CompactRegister
  PROVE  DataInv' /\ CompInv'
<1>0. /\ comp.step = "register" /\ mode' = mode /\ comp.new \in V1Ids
      /\ v1[comp.new].status = "unregistered" /\ comp.new # 0 /\ comp.fresh \subseteq Batches
      /\ mode # "enforce"
  <2>1. comp.step = "register" /\ mode' = mode
    BY DEF CompactRegister
  <2>2. comp.new \in Ids /\ comp.fresh \subseteq Batches
    BY SMT DEF CompInv, Compaction
  <2>3. comp.step # "idle"
    BY <2>1
  <2> QED
    BY <2>1, <2>2, <2>3 DEF CompInv, Uploaded, Ids, Compacting
<1>1. CASE /\ obj' = obj \ {Block(comp.new)}
           /\ v1' = [v1 EXCEPT ![comp.new] = NoBlock]
           /\ comp' = CompIdle
           /\ UNCHANGED <<batch, win, gone>>
  <2>1. v1[comp.new].status # "active"
    BY <1>0
  <2> QED
    BY <1>0, <1>1, <2>1, BlockGoes, CompRests
<1>2. CASE /\ Registers
           /\ comp' = IF comp.fresh = {} THEN CompIdle
                      ELSE [CompIdle EXCEPT !.step = "sources", !.new = comp.new,
                                            !.todo = comp.fresh]
  <2>1. /\ DataInv' /\ \A b \in comp.fresh \ gone' : batch'[b].row /\ batch'[b].block # 0
    BY <1>0, <1>2, RegisterMoves
  <2>3. CASE comp.fresh = {}
    BY <1>2, <2>1, <2>3, CompRests
  <2>4. CASE comp.fresh # {}
    <3>0. comp' = [CompIdle EXCEPT !.step = "sources", !.new = comp.new, !.todo = comp.fresh]
      BY <1>2, <2>4
    <3>1. CompIdle \in Compaction
      BY SMT DEF CompIdle, Compaction, Ids
    <3>2. comp' \in Compaction
      BY <1>0, <3>0, <3>1 DEF Compaction, Ids
    <3>3. comp'.step = "sources" /\ comp'.new = comp.new /\ comp'.todo = comp.fresh
      BY SMT, <3>0 DEF CompIdle
    <3> QED
      BY <1>0, <2>1, <3>2, <3>3 DEF CompInv, Loaded, Uploaded, Emptied, Packed, Compacting
  <2> QED
    BY <2>3, <2>4
<1> QED
  BY <1>1, <1>2 DEF CompactRegister, Registers

\* A flag of a row that no property reads.
LEMMA SourceForgotten ==
  ASSUME DataInv, NEW b \in Batches
  PROVE  /\ [batch EXCEPT ![b].src = FALSE] \in [Batches -> Row]
         /\ \A x \in Batches : /\ [batch EXCEPT ![b].src = FALSE][x].row = batch[x].row
                               /\ [batch EXCEPT ![b].src = FALSE][x].block = batch[x].block
<1>1. batch \in [Batches -> Row]
  BY DEF DataInv, Types
<1>2. \A r \in Row : /\ [r EXCEPT !.src = FALSE] \in Row
                     /\ [r EXCEPT !.src = FALSE].row = r.row
                     /\ [r EXCEPT !.src = FALSE].block = r.block
  BY DEF Row
<1> QED
  BY <1>1, <1>2

\* One minute object.
LEMMA MinuteAlone ==
  ASSUME NEW b
  PROVE  obj \ {Minute(b)} = obj \ {Minute(x) : x \in {b}}
OBVIOUS

LEMMA CompactSourceKeeps ==
  ASSUME DataInv, CompInv, CompactSource
  PROVE  DataInv' /\ CompInv'
<1> PICK b \in comp.todo :
      /\ comp' = IF comp.todo = {b} THEN CompIdle ELSE [comp EXCEPT !.todo = @ \ {b}]
      /\ \/ /\ obj' = obj \ {Minute(b)}
            /\ batch' = IF batch[b].block = comp.new
                        THEN [batch EXCEPT ![b].src = FALSE] ELSE batch
         \/ UNCHANGED <<batch, obj>>
  BY DEF CompactSource
<1>0. comp.step = "sources" /\ UNCHANGED <<win, v1, gone, mode>> /\ comp.step # "idle"
  BY DEF CompactSource
<1>1. comp \in Compaction /\ comp.todo \subseteq Batches
  BY SMT DEF CompInv, Compaction
<1>2. /\ comp.new # 0
      /\ \A x \in comp.todo \ gone : batch[x].row /\ batch[x].block # 0
  BY <1>0 DEF CompInv, Packed
<1>3. /\ batch' \in [Batches -> Row]
      /\ \A x \in Batches : batch'[x].row = batch[x].row /\ batch'[x].block = batch[x].block
  <2>1. batch \in [Batches -> Row]
    BY DEF DataInv, Types
  <2>2. b \in Batches
    BY <1>1
  <2>3. batch' = batch \/ batch' = [batch EXCEPT ![b].src = FALSE]
    OBVIOUS
  <2> QED
    BY <2>1, <2>2, <2>3, SourceForgotten
<1>4. DataInv'
  <2>1. CASE obj' = obj \ {Minute(b)}
    <3>1. \A x \in {b} \ gone : batch[x].row => batch[x].block # 0
      BY <1>2
    <3> QED
      BY <1>0, <1>3, <2>1, <3>1, MinuteAlone, MinutesGo
  <2>2. CASE UNCHANGED <<batch, obj>>
    BY <1>0, <2>2, ObjectsCome
  <2> QED
    BY <2>1, <2>2
<1>5. CASE comp.todo = {b}
  BY <1>4, <1>5, CompRests
<1>6. CASE comp.todo # {b}
  <2>1. /\ comp' \in Compaction /\ comp'.step = "sources" /\ comp'.new = comp.new
        /\ comp'.todo = comp.todo \ {b}
    BY SMT, <1>0, <1>1, <1>6 DEF Compaction
  <2>2. Packed'
    BY <1>0, <1>1, <1>2, <1>3, <2>1 DEF Packed
  <2>3. Compacting'
    BY <1>0 DEF CompInv, Compacting
  <2> QED
    BY <1>4, <2>1, <2>2, <2>3 DEF CompInv, Loaded, Uploaded, Emptied
<1> QED
  BY <1>5, <1>6

LEMMA CompactDropKeeps ==
  ASSUME DataInv, CompInv, CompactDrop
  PROVE  DataInv' /\ CompInv'
<1>0. /\ comp.step = "drop" /\ DeleteBlock(comp.old, comp.removed)
      /\ gone' = gone \cup comp.removed /\ comp' = CompIdle /\ obj' = obj
  BY DEF CompactDrop
<1>1. comp.old \in V1Ids /\ comp.keep = {} /\ v1[comp.old].members = comp.keep \cup comp.removed
  <2>1. comp.old \in Ids
    BY SMT DEF CompInv, Compaction
  <2> QED
    BY <1>0, <2>1 DEF CompInv, Emptied, Loaded, Ids
<1>2. \A b \in Batches : batch[b].row /\ batch[b].block = comp.old => b \in gone'
  <2> SUFFICES ASSUME NEW b \in Batches \ gone, batch[b].row, batch[b].block = comp.old
               PROVE  b \in comp.removed
    BY <1>0
  <2>1. comp.old # 0
    BY <1>1, IdsAssumption
  <2> QED
    BY <1>1, <2>1 DEF DataInv, RowsStored, Stored
<1>3. DataInv'
  BY <1>0, <1>1, <1>2, BlockGivenUp
<1> QED
  BY <1>0, <1>3, CompRests

\* The sweep takes blocks and minute objects no row refers to.
LEMMA SweepKeeps ==
  ASSUME DataInv, CompInv, Sweep
  PROVE  DataInv' /\ CompInv'
<1>1. ASSUME NEW k \in V1Ids, RemoveBlock(k) PROVE DataInv' /\ CompInv'
  <2>1. comp.step = "idle" /\ comp' = comp /\ v1[k].status # "active"
    BY <1>1 DEF RemoveBlock
  <2> QED
    BY <1>1, <2>1, BlockGoes, CompIdles DEF RemoveBlock
<1>2. ASSUME NEW b \in Batches, SweepSource(b) PROVE DataInv' /\ CompInv'
  <2>1. comp.step = "idle" /\ comp' = comp /\ \A x \in {b} \ gone : batch[x].row => batch[x].block # 0
    BY <1>2 DEF SweepSource
  <2>2. /\ batch' \in [Batches -> Row]
        /\ \A x \in Batches : batch'[x].row = batch[x].row /\ batch'[x].block = batch[x].block
    BY <1>2, SourceForgotten DEF SweepSource
  <2>3. obj' = obj \ {Minute(b)} /\ UNCHANGED <<win, v1, gone>>
    BY <1>2 DEF SweepSource
  <2> QED
    BY <2>1, <2>2, <2>3, MinuteAlone, MinutesGo, CompIdles
<1> QED
  BY <1>1, <1>2 DEF Sweep

-----------------------------------------------------------------------------
(* Cleanup and GC leave the store and the compactor in order *)

\* Objects of batches that were given up.
LEMMA GivenUpGo ==
  ASSUME DataInv, CompInv, NEW X, X \subseteq gone, obj' = obj \ {Minute(b) : b \in X},
         UNCHANGED <<batch, win, v1, gone, comp, mode>>
  PROVE  DataInv' /\ CompInv'
<1>1. DataInv'
  <2>1. batch' \in [Batches -> Row]
    BY DEF DataInv, Types
  <2> QED
    BY <2>1, MinutesGo
<1>2. \A k \in V1Ids : Block(k) \in obj => Block(k) \in obj'
  BY SMT DEF Block, Minute
<1>3. CompInv'
  BY <1>2, CompKept DEF Steady
<1> QED
  BY <1>1, <1>3

\* Rows of batches that are given up now.
LEMMA RowsGivenUp ==
  ASSUME DataInv, CompInv, NEW B, DeleteRows(B), gone' = gone \cup B,
         UNCHANGED <<obj, v1, comp, mode>>
  PROVE  DataInv' /\ CompInv'
<1>1. DataInv'
  BY RowsGo
<1>2. \A b \in Batches \ gone' : Steady(b)
  BY DEF DeleteRows, Steady
<1>3. CompInv'
  BY <1>2, CompKept
<1> QED
  BY <1>1, <1>3

\* Windows that are deleted.
LEMMA WindowsDeleted ==
  ASSUME DataInv, CompInv, win' \subseteq win, UNCHANGED <<batch, obj, v1, gone, comp, mode>>
  PROVE  DataInv' /\ CompInv'
<1>1. DataInv'
  BY WindowsGo
<1>2. \A b \in Batches \ gone' : Steady(b)
  BY DEF Steady
<1>3. CompInv'
  BY <1>2, CompKept
<1> QED
  BY <1>1, <1>3

LEMMA CleanupKeepsStore ==
  ASSUME DataInv, CompInv, CleanInv, NEW c \in Cleaners, Cleanup(c)
  PROVE  DataInv' /\ CompInv'
<1>1. CASE CleanRead(c) \/ CleanDownsample(c)
  BY <1>1, StoreRests DEF CleanRead, CleanDownsample
<1>2. CASE CleanWindows(c)
  BY <1>2, WindowsDeleted DEF CleanWindows
<1>3. CASE CleanBatch(c)
  <2>1. UNCHANGED <<obj, v1, comp, mode>>
    BY <1>3 DEF CleanBatch
  <2>2. PICK b : \/ UNCHANGED <<batch, win, gone>>
                 \/ DeleteRows({b}) /\ gone' = gone \cup {b}
    BY <1>3 DEF CleanBatch
  <2> QED
    BY <2>1, <2>2, StoreRests, RowsGivenUp
<1>4. CASE CleanObject(c)
  <2>1. clean[c].read \subseteq gone
    BY <1>4 DEF CleanObject, CleanInv, CleanOK
  <2>2. \/ obj' = obj \ {Minute(b) : b \in clean[c].read}
        \/ obj' = obj
    BY <1>4 DEF CleanObject
  <2>3. UNCHANGED <<batch, win, v1, gone, comp, mode>>
    BY <1>4 DEF CleanObject
  <2> QED
    BY <2>1, <2>2, <2>3, GivenUpGo, StoreRests
<1> QED
  BY <1>1, <1>2, <1>3, <1>4 DEF Cleanup

LEMMA ReclaimKeepsStore ==
  ASSUME DataInv, CompInv, NEW k \in V1Ids, ReclaimV1(k)
  PROVE  DataInv' /\ CompInv'
<1>1. /\ mode = "enforce" /\ DeleteBlock(k, {}) /\ gone' = gone \cup MembersOf(k)
      /\ obj' = obj /\ comp' = comp
  BY DEF ReclaimV1
<1>2. comp.step = "idle"
  BY <1>1 DEF CompInv, Compacting
<1>3. \A b \in Batches : batch[b].row /\ batch[b].block = k => b \in gone'
  BY <1>1 DEF MembersOf, Rows
<1>4. DataInv'
  <2> DEFINE B == {}
  <2>1. B \subseteq gone' /\ gone \subseteq gone'
    BY <1>1
  <2>2. DeleteBlock(k, B) /\ obj' = obj
    BY <1>1
  <2> HIDE DEF B
  <2> QED
    BY <1>3, <2>1, <2>2, BlockGivenUp
<1> QED
  BY <1>1, <1>2, <1>4, CompIdles

LEMMA StoreKept ==
  ASSUME DataInv, CompInv, CleanInv, MigrationInv, Next
  PROVE  DataInv' /\ CompInv'
<1>1. CASE V1Step
  <2>1. CASE Age
    BY <2>1, StoreRests DEF Age
  <2>2. CASE \E b \in Batches : Expire(b)
    BY <2>2, StoreRests DEF Expire
  <2> QED
    BY <1>1, <2>1, <2>2, IngestKeeps, CleanupKeepsStore, CompactReadKeeps, CompactBuildKeeps,
       CompactRegisterKeeps, CompactSourceKeeps, CompactDropKeeps, SweepKeeps DEF V1Step, Compactor
<1>2. ASSUME NEW m, Restart(m) PROVE DataInv' /\ CompInv'
  BY <1>2, ObjectsCome, CompRests DEF Restart, V1Restart
<1>3. CASE Build
  <2>1. UNCHANGED <<batch, win, obj, v1, gone, comp, mode>>
    BY <1>3 DEF Build, BuildRead, BuildLoad, DownsampleRead, WriteBlock, RegisterBlock, v1vars
  <2> QED
    BY <2>1, StoreRests
<1>4. CASE Retire
  <2>1. UNCHANGED <<batch, win, obj, v1, gone, comp, mode>>
    BY <1>4 DEF Retire, DeleteLayer, Reclaim1h, Reconcile, SweepPq, ReclaimCoverage, v1vars
  <2> QED
    BY <2>1, StoreRests
<1>5. CASE GC
  <2>1. ASSUME NEW b \in Batches, GCCheck(b) \/ ReceiptGC(b) PROVE DataInv' /\ CompInv'
    BY <2>1, StoreRests DEF GCCheck, ReceiptGC, v1vars
  <2>2. CASE GCRemove
    <3>1. UNCHANGED <<obj, v1, comp, mode>>
      BY <2>2 DEF GCRemove
    <3>2. \/ UNCHANGED <<batch, win, gone>>
          \/ DeleteRows({work.b}) /\ gone' = gone \cup {work.b}
      BY <2>2 DEF GCRemove
    <3> QED
      BY <3>1, <3>2, StoreRests, RowsGivenUp
  <2>3. CASE GCObject
    <3>1. {work.b} \subseteq gone
      BY <2>3 DEF GCObject, MigrationInv
    <3>2. \/ obj' = obj \ {Minute(x) : x \in {work.b}}
          \/ obj' = obj
      BY <2>3, MinuteAlone DEF GCObject
    <3>3. UNCHANGED <<batch, win, v1, gone, comp, mode>>
      BY <2>3 DEF GCObject
    <3> QED
      BY <3>1, <3>2, <3>3, GivenUpGo, StoreRests
  <2> QED
    BY <1>5, <2>1, <2>2, <2>3, ReclaimKeepsStore DEF GC
<1>6. CASE Failures
  <2>1. ASSUME NEW w \in DOMAIN miss, RetryMissing(w) PROVE DataInv' /\ CompInv'
    BY <2>1, StoreRests DEF RetryMissing, v1vars
  <2>2. ASSUME NEW w \in DOMAIN miss, QuarantineMissing(w) PROVE DataInv' /\ CompInv'
    BY <2>2, WindowsDeleted DEF QuarantineMissing
  <2>3. ASSUME NEW b \in Batches, RetryDelete(b) PROVE DataInv' /\ CompInv'
    <3>1. {b} \subseteq gone /\ obj' = obj \ {Minute(b)}
      BY <2>3 DEF RetryDelete, MigrationInv
    <3>2. UNCHANGED <<batch, win, v1, gone, comp, mode>>
      BY <2>3 DEF RetryDelete
    <3>3. obj' = obj \ {Minute(x) : x \in {b}}
      BY <3>1, MinuteAlone
    <3> QED
      BY <3>1, <3>2, <3>3, GivenUpGo
  <2> QED
    BY <1>6, <2>1, <2>2, <2>3 DEF Failures
<1> QED
  BY <1>1, <1>2, <1>3, <1>4, <1>5, <1>6 DEF Next

-----------------------------------------------------------------------------
(* The cleanup *)

\* What a cleanup carries stays true as more expires, is summarised and is given up.
LEMMA CleanOKStays ==
  ASSUME CleanInv, NEW c \in Cleaners, expired \subseteq expired', gone \subseteq gone',
         mode' = mode, clean'[c] = clean[c],
         \A b \in Batches : summary[b] > 0 => summary'[b] > 0
  PROVE  CleanOK(clean[c])'
<1>1. CleanOK(clean[c])
  BY DEF CleanInv
<1> QED
  BY <1>1, PairFacts DEF CleanOK

LEMMA CleanKept ==
  ASSUME CleanInv, expired \subseteq expired', gone \subseteq gone',
         UNCHANGED <<mode, clean, summary>>
  PROVE  CleanInv'
<1>1. \A c \in Cleaners : CleanOK(clean[c])'
  BY CleanOKStays
<1> QED
  BY <1>1 DEF CleanInv

\* One cleanup makes a step.
LEMMA CleanerSteps ==
  ASSUME CleanInv, NEW c \in Cleaners, NEW x \in Cleaning, clean' = [clean EXCEPT ![c] = x],
         expired' = expired, gone \subseteq gone', mode' = mode,
         summary' \in [Batches -> Nat], \A b \in Batches : summary[b] > 0 => summary'[b] > 0,
         CleanOK(clean[c])'
  PROVE  CleanInv'
<1>1. clean' \in [Cleaners -> Cleaning] /\ \A d \in Cleaners \ {c} : clean'[d] = clean[d]
  BY DEF CleanInv
<1>2. \A d \in Cleaners : CleanOK(clean[d])'
  BY <1>1, CleanOKStays
<1> QED
  BY <1>1, <1>2 DEF CleanInv

LEMMA CleanerFields ==
  ASSUME CleanInv, NEW c \in Cleaners
  PROVE  /\ clean \in [Cleaners -> Cleaning] /\ clean[c] \in Cleaning
         /\ clean[c].todo \subseteq Batches /\ clean[c].todo \subseteq expired
         /\ << >> \in KeyMaps
<1>1. clean \in [Cleaners -> Cleaning] /\ clean[c] \in Cleaning
  BY DEF CleanInv
<1>2. clean[c].todo \subseteq Batches
  BY SMT, <1>1 DEF Cleaning
<1> QED
  BY <1>1, <1>2 DEF CleanInv, CleanOK, KeyMaps

\* A cleanup that is done.
LEMMA CleanerDone ==
  ASSUME CleanInv, NEW c \in Cleaners, clean' = [clean EXCEPT ![c] = CleanIdle],
         expired' = expired, gone \subseteq gone', mode' = mode, summary' = summary
  PROVE  CleanInv'
<1>1. CleanIdle \in Cleaning
  BY DEF CleanIdle, Cleaning, KeyMaps
<1>2. clean'[c] = CleanIdle
  BY DEF CleanInv
<1>3. CleanOK(clean[c])'
  <2>1. clean'[c].step = "idle" /\ clean'[c].todo = {}
    BY SMT, <1>2 DEF CleanIdle
  <2> QED
    BY <2>1 DEF CleanOK
<1>4. summary' \in [Batches -> Nat] /\ \A b \in Batches : summary[b] > 0 => summary'[b] > 0
  BY DEF CleanInv
<1> QED
  BY <1>1, <1>3, <1>4, CleanerSteps

\* A cleanup goes on with the next batch, or with the object of one that was given up.
LEMMA CleanerNext ==
  ASSUME CleanInv, NEW c \in Cleaners, NEW x \in Cleaning, clean' = [clean EXCEPT ![c] = x],
         x.step \in {"batches", "object"}, x.step = "object" => x.read \subseteq gone',
         x.todo \subseteq expired,
         expired' = expired, gone \subseteq gone', mode' = mode, summary' = summary
  PROVE  CleanInv'
<1>1. clean'[c] = x
  BY DEF CleanInv
<1>2. CleanOK(clean[c])'
  BY <1>1 DEF CleanOK
<1>3. summary' \in [Batches -> Nat] /\ \A b \in Batches : summary[b] > 0 => summary'[b] > 0
  BY DEF CleanInv
<1> QED
  BY <1>2, <1>3, CleanerSteps

LEMMA CleanReadKeeps ==
  ASSUME DataInv, CleanInv, NEW c \in Cleaners, CleanRead(c)
  PROVE  CleanInv'
<1> DEFINE K == [b \in Rows \cap expired |-> ObjectKey(b)]
           T == {b \in Rows \cap expired : batch[b].block = 0}
           x == [step |-> "downsample", read |-> WindowsOf(expired), key |-> K, todo |-> T]
<1>0. clean' = [clean EXCEPT ![c] = x] /\ UNCHANGED <<expired, gone, mode, summary>>
  BY DEF CleanRead
<1>1. \A b \in Batches : ObjectKey(b) \in ObjKeys
  <2> TAKE b \in Batches
  <2>1. batch[b].block \in Ids
    BY SMT DEF DataInv, Types, Row
  <2>2. Minute(b) \in ObjKeys /\ \A k \in V1Ids : Block(k) \in ObjKeys
    BY DEF ObjKeys
  <2> QED
    BY <2>1, <2>2 DEF ObjectKey, Ids
<1>2. K \in KeyMaps
  <2>1. K \in [Rows \cap expired -> ObjKeys]
    BY <1>1 DEF Rows
  <2>2. Rows \cap expired \in SUBSET Batches
    BY DEF Rows
  <2> QED
    BY <2>1, <2>2 DEF KeyMaps
<1>3. WindowsOf(expired) \subseteq Pairs /\ T \subseteq Batches /\ T \subseteq expired
  BY DEF WindowsOf, DataInv, Types, Rows
<1>4. WindowsOf(expired) \subseteq Pairs /\ \A w \in WindowsOf(expired) : w[1] \in expired
  BY <1>3 DEF WindowsOf
<1> HIDE DEF K, T
<1>5. x \in Cleaning
  BY <1>2, <1>3 DEF Cleaning
<1>6. clean'[c] = x
  BY <1>0 DEF CleanInv
<1>7. CleanOK(clean[c])'
  <2>1. /\ clean'[c].step = "downsample" /\ clean'[c].read = WindowsOf(expired)
        /\ clean'[c].todo = T
    BY SMT, <1>6
  <2> QED
    BY <1>0, <1>3, <1>4, <2>1 DEF CleanOK
<1>8. summary' \in [Batches -> Nat] /\ \A b \in Batches : summary[b] > 0 => summary'[b] > 0
  BY <1>0 DEF CleanInv
<1> HIDE DEF x
<1> QED
  BY <1>0, <1>5, <1>7, <1>8, CleanerSteps

\* The windows that stay in the cleanup's list were merged.
LEMMA DownsampleKeeps ==
  ASSUME CleanInv, NEW c \in Cleaners, CleanDownsample(c)
  PROVE  CleanInv'
<1> DEFINE cpu == {w \in clean[c].read : w[2] = "cpu"}
           bad == {w \in cpu : w[1] \notin Holds(clean[c].key[w[1]])}
           merged == {w[1] : w \in cpu \ bad}
           x == [clean[c] EXCEPT !.step = "windows", !.key = << >>]
           y == [clean[c] EXCEPT !.step = "windows", !.read = @ \ bad, !.key = << >>]
<1>0. UNCHANGED <<expired, gone, mode>> /\ clean[c].step = "downsample"
  BY DEF CleanDownsample
<1>1. /\ clean[c] \in Cleaning /\ clean \in [Cleaners -> Cleaning] /\ << >> \in KeyMaps
      /\ clean[c].read \subseteq Pairs /\ \A w \in clean[c].read : w[1] \in expired
      /\ clean[c].todo \subseteq expired /\ summary \in [Batches -> Nat]
  BY <1>0, CleanerFields DEF CleanInv, CleanOK
<1>2. CASE mode = "enforce" /\ clean' = [clean EXCEPT ![c].step = "windows", ![c].key = << >>]
           /\ summary' = summary
  <2>1. clean' = [clean EXCEPT ![c] = x]
    BY <1>1, <1>2
  <2>2. x \in Cleaning
    BY <1>1 DEF Cleaning
  <2>3. x.step = "windows" /\ x.read = clean[c].read /\ x.todo = clean[c].todo
    BY SMT, <1>1 DEF Cleaning
  <2> HIDE DEF x
  <2>4. clean'[c] = x
    BY <1>1, <2>1
  <2>5. CleanOK(clean[c])'
    BY <1>0, <1>1, <1>2, <2>3, <2>4 DEF CleanOK
  <2> QED
    BY <1>0, <1>1, <1>2, <2>1, <2>2, <2>5, CleanerSteps
<1>3. CASE /\ mode # "enforce"
           /\ summary' = [b \in Batches |-> IF b \in merged /\ summary[b] < 2
                                            THEN summary[b] + 1 ELSE summary[b]]
           /\ clean' = [clean EXCEPT ![c].step = "windows", ![c].read = @ \ bad, ![c].key = << >>]
  <2>1. clean' = [clean EXCEPT ![c] = y]
    BY <1>1, <1>3
  <2>2. y \in Cleaning
    <3> HIDE DEF bad
    <3> QED
      BY <1>1 DEF Cleaning
  <2>3. y.step = "windows" /\ y.read = clean[c].read \ bad /\ y.todo = clean[c].todo
    <3> HIDE DEF bad
    <3> QED
      BY SMT, <1>1 DEF Cleaning
  <2> HIDE DEF y
  <2>4. clean'[c] = y
    BY <1>1, <2>1
  <2>5. \A w \in clean[c].read \ bad : w[2] = "cpu" => w[1] \in merged
    OBVIOUS
  <2> HIDE DEF merged, bad, cpu
  <2>6. /\ summary' \in [Batches -> Nat]
        /\ \A b \in Batches : summary[b] > 0 \/ b \in merged => summary'[b] > 0
    BY SMT, <1>1, <1>3
  <2>7. \A w \in y.read : w[2] = "cpu" => summary'[w[1]] > 0
    BY <1>1, <2>3, <2>5, <2>6, PairFacts
  <2>8. CleanOK(clean[c])'
    BY <1>0, <1>1, <2>3, <2>4, <2>7 DEF CleanOK
  <2> QED
    BY <1>0, <1>1, <2>1, <2>2, <2>6, <2>8, CleanerSteps
<1>4. CASE clean' = [clean EXCEPT ![c] = CleanIdle] /\ summary' = summary
  BY <1>0, <1>4, CleanerDone
<1> QED
  BY <1>2, <1>3, <1>4 DEF CleanDownsample

LEMMA CleanWindowsKeeps ==
  ASSUME CleanInv, NEW c \in Cleaners, CleanWindows(c)
  PROVE  CleanInv'
<1> DEFINE x == [clean[c] EXCEPT !.step = "batches", !.read = {}]
<1>0. UNCHANGED <<expired, gone, mode, summary>>
  BY DEF CleanWindows
<1>1. clean' = [clean EXCEPT ![c] = CleanIdle] \/ clean' = [clean EXCEPT ![c] = x]
  BY CleanerFields DEF CleanWindows
<1>2. x \in Cleaning
  BY CleanerFields DEF Cleaning
<1>3. x.step = "batches" /\ x.todo = clean[c].todo
  BY SMT, CleanerFields DEF Cleaning
<1>4. x.todo \subseteq expired /\ x.step \in {"batches", "object"} /\ (x.step = "object" => x.read \subseteq gone')
  BY <1>3, CleanerFields
<1> HIDE DEF x
<1> QED
  BY <1>0, <1>1, <1>2, <1>4, CleanerDone, CleanerNext

LEMMA CleanBatchKeeps ==
  ASSUME CleanInv, NEW c \in Cleaners, CleanBatch(c)
  PROVE  CleanInv'
<1>0. UNCHANGED <<expired, mode, summary>> /\ gone \subseteq gone' /\ clean[c].step = "batches"
  BY DEF CleanBatch
<1> PICK b \in clean[c].todo :
      \/ clean' = [clean EXCEPT ![c] = CleanIdle]
      \/ clean' = [clean EXCEPT ![c] = [@ EXCEPT !.todo = clean[c].todo \ {b}]]
      \/ /\ gone' = gone \cup {b}
         /\ clean' = [clean EXCEPT ![c].step = "object", ![c].read = {b},
                                   ![c].todo = clean[c].todo \ {b}]
  BY DEF CleanBatch
<1> DEFINE x == [clean[c] EXCEPT !.todo = clean[c].todo \ {b}]
           y == [clean[c] EXCEPT !.step = "object", !.read = {b}, !.todo = clean[c].todo \ {b}]
<1>1. CASE clean' = [clean EXCEPT ![c] = CleanIdle]
  BY <1>0, <1>1, CleanerDone
<1>2. CASE clean' = [clean EXCEPT ![c] = [@ EXCEPT !.todo = clean[c].todo \ {b}]]
  <2>1. clean' = [clean EXCEPT ![c] = x]
    BY <1>2, CleanerFields
  <2>2. x \in Cleaning
    BY CleanerFields DEF Cleaning
  <2>3. x.step = "batches" /\ x.todo = clean[c].todo \ {b}
    BY SMT, <1>0, CleanerFields DEF Cleaning
  <2>4. x.todo \subseteq expired /\ x.step \in {"batches", "object"} /\ (x.step = "object" => x.read \subseteq gone')
    BY <2>3, CleanerFields
  <2> HIDE DEF x
  <2> QED
    BY <1>0, <2>1, <2>2, <2>4, CleanerNext
<1>3. CASE /\ gone' = gone \cup {b}
           /\ clean' = [clean EXCEPT ![c].step = "object", ![c].read = {b},
                                     ![c].todo = clean[c].todo \ {b}]
  <2>1. clean' = [clean EXCEPT ![c] = y]
    BY <1>3, CleanerFields
  <2>2. y \in Cleaning
    <3>1. {b} \subseteq Pairs \cup Batches
      BY CleanerFields
    <3> QED
      BY <3>1, CleanerFields DEF Cleaning
  <2>3. y.step = "object" /\ y.read = {b} /\ y.todo = clean[c].todo \ {b}
    BY SMT, <1>0, CleanerFields DEF Cleaning
  <2>4. y.todo \subseteq expired /\ y.step \in {"batches", "object"} /\ (y.step = "object" => y.read \subseteq gone')
    BY <1>3, <2>3, CleanerFields
  <2> HIDE DEF y
  <2> QED
    BY <1>0, <2>1, <2>2, <2>4, CleanerNext
<1> QED
  BY <1>1, <1>2, <1>3

LEMMA CleanObjectKeeps ==
  ASSUME CleanInv, NEW c \in Cleaners, CleanObject(c)
  PROVE  CleanInv'
<1> DEFINE x == [clean[c] EXCEPT !.step = "batches", !.read = {}]
<1>0. UNCHANGED <<expired, gone, mode, summary>>
  BY DEF CleanObject
<1>1. clean' = [clean EXCEPT ![c] = CleanIdle] \/ clean' = [clean EXCEPT ![c] = x]
  BY CleanerFields DEF CleanObject
<1>2. x \in Cleaning
  BY CleanerFields DEF Cleaning
<1>3. x.step = "batches" /\ x.todo = clean[c].todo
  BY SMT, CleanerFields DEF Cleaning
<1>4. x.todo \subseteq expired /\ x.step \in {"batches", "object"} /\ (x.step = "object" => x.read \subseteq gone')
  BY <1>3, CleanerFields
<1> HIDE DEF x
<1> QED
  BY <1>0, <1>1, <1>2, <1>4, CleanerDone, CleanerNext

LEMMA CleanupKept ==
  ASSUME DataInv, CleanInv, Next
  PROVE  CleanInv'
<1>1. CASE V1Step
  <2>1. CASE Age
    BY <2>1, CleanKept DEF Age
  <2>2. ASSUME NEW b \in Batches, Expire(b) \/ Ingest(b) PROVE CleanInv'
    <3>1. expired \subseteq expired' /\ gone \subseteq gone' /\ UNCHANGED <<mode, clean, summary>>
      BY <2>2 DEF Expire, Ingest
    <3> QED
      BY <3>1, CleanKept
  <2>3. ASSUME NEW c \in Cleaners, Cleanup(c) PROVE CleanInv'
    BY <2>3, CleanReadKeeps, DownsampleKeeps, CleanWindowsKeeps, CleanBatchKeeps, CleanObjectKeeps
       DEF Cleanup
  <2>4. CASE Compactor \/ Sweep
    <3>1. expired \subseteq expired' /\ gone \subseteq gone' /\ UNCHANGED <<mode, clean, summary>>
      BY <2>4 DEF Compactor, CompactRead, CompactBuild, CompactRegister, CompactSource, CompactDrop,
                  Sweep, RemoveBlock, SweepSource
    <3> QED
      BY <3>1, CleanKept
  <2> QED
    BY <1>1, <2>1, <2>2, <2>3, <2>4 DEF V1Step
<1>2. ASSUME NEW m, Restart(m) PROVE CleanInv'
  <2>1. clean' = [c \in Cleaners |-> CleanIdle] /\ summary' = summary
    BY <1>2 DEF Restart, V1Restart
  <2>2. CleanIdle \in Cleaning
    BY DEF CleanIdle, Cleaning, KeyMaps
  <2>3. \A c \in Cleaners : clean'[c].step = "idle" /\ clean'[c].todo = {}
    BY SMT, <2>1 DEF CleanIdle
  <2>4. \A c \in Cleaners : CleanOK(clean[c])'
    BY <2>3 DEF CleanOK
  <2> QED
    BY <2>1, <2>2, <2>4 DEF CleanInv
<1>3. CASE Build \/ Retire
  <2>1. expired \subseteq expired' /\ gone \subseteq gone' /\ UNCHANGED <<mode, clean, summary>>
    BY <1>3 DEF Build, BuildRead, BuildLoad, DownsampleRead, WriteBlock, RegisterBlock,
                Retire, DeleteLayer, Reclaim1h, Reconcile, SweepPq, ReclaimCoverage, v1vars
  <2> QED
    BY <2>1, CleanKept
<1>4. CASE GC \/ Failures
  <2>1. expired \subseteq expired' /\ gone \subseteq gone' /\ UNCHANGED <<mode, clean, summary>>
    BY <1>4 DEF GC, GCCheck, ReceiptGC, GCRemove, GCObject, ReclaimV1, Failures, RetryMissing,
                QuarantineMissing, RetryDelete, v1vars
  <2> QED
    BY <2>1, CleanKept
<1> QED
  BY <1>1, <1>2, <1>3, <1>4 DEF Next

-----------------------------------------------------------------------------
(* Migration and GC *)

\* The failure records have their type, and a quarantined one stays.
MissStays ==
  /\ miss' \in [Pairs -> Missing]
  /\ \A w \in Pairs : miss[w].st = "quarantined" => miss'[w].st = "quarantined"

LEMMA ObjectKeys ==
  ASSUME DataInv, NEW b \in Batches
  PROVE  ObjectKey(b) \in ObjKeys
<1>1. batch[b].block \in Ids
  BY SMT DEF DataInv, Types, Row
<1>2. Minute(b) \in ObjKeys /\ \A k \in V1Ids : Block(k) \in ObjKeys
  BY DEF ObjKeys
<1> QED
  BY <1>1, <1>2 DEF ObjectKey, Ids

LEMMA BuildLoadMisses ==
  ASSUME MigrationInv, LayerInv, BuildLoad
  PROVE  MissStays
<1> PICK W \in SUBSET DOMAIN work.key : miss' = Missed(W, work.key)
  <2>1. \A X : DOMAIN work.key \ X \in SUBSET DOMAIN work.key
    OBVIOUS
  <2> QED
    BY <2>1 DEF BuildLoad
<1>1. work.step = "load"
  BY DEF BuildLoad
<1>2. /\ work.key \in [DOMAIN work.key -> ObjKeys] /\ DOMAIN work.key \subseteq Pairs
      /\ miss \in [Pairs -> Missing]
  BY <1>1 DEF MigrationInv, LayerInv, Building
<1>3. miss' = [w \in Pairs |->
                 IF w \notin W THEN miss[w]
                 ELSE [st |-> IF miss[w].st = "quarantined" THEN "quarantined" ELSE "retrying",
                       n |-> IF miss[w].st = "none" THEN 0
                             ELSE IF miss[w].n < RetryLimit THEN miss[w].n + 1 ELSE miss[w].n,
                       key |-> work.key[w]]]
  BY <1>2 DEF Missed
<1>4. \A w \in Pairs : miss[w] \in Missing
  BY <1>2
<1>5. \A w \in Pairs : miss[w].n \in Nat
  BY SMT, <1>4 DEF Missing
<1>6. \A w \in W : work.key[w] \in ObjKeys
  BY <1>2
<1>7. \A w \in Pairs : w \in W =>
        [st |-> IF miss[w].st = "quarantined" THEN "quarantined" ELSE "retrying",
         n |-> IF miss[w].st = "none" THEN 0
               ELSE IF miss[w].n < RetryLimit THEN miss[w].n + 1 ELSE miss[w].n,
         key |-> work.key[w]] \in Missing
  <2> TAKE w \in Pairs
  <2> HAVE w \in W
  <2> DEFINE s == IF miss[w].st = "quarantined" THEN "quarantined" ELSE "retrying"
             n == IF miss[w].st = "none" THEN 0
                  ELSE IF miss[w].n < RetryLimit THEN miss[w].n + 1 ELSE miss[w].n
  <2>1. n \in Nat
    BY SMT, <1>5
  <2>2. s \in {"quarantined", "retrying"}
    OBVIOUS
  <2> HIDE DEF s, n
  <2>3. [st |-> s, n |-> n, key |-> work.key[w]] \in Missing
    BY <1>6, <2>1, <2>2 DEF Missing
  <2> QED
    BY <2>3 DEF s, n
<1>8. miss' \in [Pairs -> Missing]
  BY <1>3, <1>4, <1>7
<1>9. \A w \in Pairs : miss[w].st = "quarantined" => miss'[w].st = "quarantined"
  <2> TAKE w \in Pairs
  <2> HAVE miss[w].st = "quarantined"
  <2>1. CASE w \in W
    BY SMT, <1>3, <2>1
  <2>2. CASE w \notin W
    BY <1>3, <2>2
  <2> QED
    BY <2>1, <2>2
<1> QED
  BY <1>8, <1>9 DEF MissStays

LEMMA RetryMisses ==
  ASSUME MigrationInv, NEW w \in DOMAIN miss, RetryMissing(w)
  PROVE  MissStays
<1>1. miss \in [Pairs -> Missing] /\ w \in Pairs /\ miss[w].st = "retrying"
  BY DEF MigrationInv, RetryMissing
<1>2. miss[w] \in Missing /\ miss[w].n + 1 \in Nat
  BY SMT, <1>1 DEF Missing
<1> DEFINE s == IF miss[w].key \in obj THEN "resolved" ELSE miss[w].st
           x == [miss[w] EXCEPT !.st = s, !.n = miss[w].n + 1]
<1>3. miss' = [miss EXCEPT ![w] = x]
  BY <1>1, <1>2 DEF RetryMissing
<1>4. s \in {"resolved", "retrying"}
  BY <1>1
<1> HIDE DEF s
<1>5. x \in Missing
  BY <1>2, <1>4 DEF Missing
<1> HIDE DEF x
<1> QED
  BY <1>1, <1>3, <1>5 DEF MissStays

LEMMA QuarantineMisses ==
  ASSUME MigrationInv, NEW w \in DOMAIN miss, QuarantineMissing(w)
  PROVE  /\ MissStays
         /\ w \in Pairs /\ miss'[w].st = "quarantined"
<1>1. miss \in [Pairs -> Missing] /\ w \in Pairs /\ miss[w] \in Missing
  BY DEF MigrationInv
<1> DEFINE x == [miss[w] EXCEPT !.st = "quarantined"]
<1>2. miss' = [miss EXCEPT ![w] = x]
  BY <1>1 DEF QuarantineMissing
<1>3. x \in Missing /\ x.st = "quarantined"
  BY SMT, <1>1 DEF Missing
<1> HIDE DEF x
<1> QED
  BY <1>1, <1>2, <1>3 DEF MissStays

\* Windows and rows come together, and a window goes with its row, its retention or its
\* quarantine.
LEMMA CompleteKept ==
  ASSUME Complete, MissStays, expired \subseteq expired',
         \A b \in Batches \ expired : batch'[b].row =>
           /\ batch[b].row
           /\ \A s \in SignalsOf[b] : <<b, s>> \in win =>
                <<b, s>> \in win' \/ miss'[<<b, s>>].st = "quarantined"
  PROVE  Complete'
BY IsPair DEF Complete, MissStays

LEMMA MigrationKept ==
  ASSUME MigrationInv, Complete', MissStays, work' = work, receipts' = receipts \/ work = Idle,
         mode' = mode, gone \subseteq gone', expired \subseteq expired', delfail' \subseteq gone'
  PROVE  MigrationInv'
<1>1. CASE work = Idle
  BY <1>1 DEF MigrationInv, MissStays, Idle
<1>2. CASE receipts' = receipts
  <2>1. \A b \in Batches : Migrated(b) => Migrated(b)'
    BY <1>2, IsPair DEF Migrated, MissStays
  <2> QED
    BY <1>2, <2>1 DEF MigrationInv, MissStays
<1> QED
  BY <1>1, <1>2

LEMMA MissRests ==
  ASSUME MigrationInv, miss' = miss
  PROVE  MissStays
BY DEF MigrationInv, MissStays

\* Steps that leave rows, windows, failure records and the worker alone.
LEMMA MigrationRests ==
  ASSUME MigrationInv, UNCHANGED <<batch, win, miss, receipts, delfail, work, mode>>,
         gone \subseteq gone', expired \subseteq expired'
  PROVE  MigrationInv'
<1>1. MissStays
  BY MissRests
<1>2. Complete
  BY DEF MigrationInv
<1>3. Complete'
  BY <1>1, <1>2, CompleteKept
<1>4. delfail' \subseteq gone'
  BY DEF MigrationInv
<1> QED
  BY <1>1, <1>3, <1>4, MigrationKept

\* Rows that are changed keep their windows, windows that go are expired or go with
\* their row.
LEMMA MigrationRows ==
  ASSUME MigrationInv, UNCHANGED <<miss, receipts, delfail, work, mode>>,
         gone \subseteq gone', expired' = expired,
         \A b \in Batches \ expired : batch'[b].row =>
           batch[b].row /\ \A s \in SignalsOf[b] : <<b, s>> \in win => <<b, s>> \in win'
  PROVE  MigrationInv'
<1>1. MissStays
  BY MissRests
<1>2. Complete
  BY DEF MigrationInv
<1>3. Complete'
  BY <1>1, <1>2, CompleteKept
<1>4. delfail' \subseteq gone'
  BY DEF MigrationInv
<1> QED
  BY <1>1, <1>3, <1>4, MigrationKept

LEMMA DeletionComplete ==
  ASSUME NEW B, DeleteRows(B), NEW b \in Batches, batch'[b].row
  PROVE  batch[b].row /\ \A s \in SignalsOf[b] : <<b, s>> \in win => <<b, s>> \in win'
<1>1. b \notin B
  <2>1. ~NoRow.row
    BY SMT DEF NoRow
  <2> QED
    BY <2>1 DEF DeleteRows
<1>2. batch'[b] = batch[b]
  BY <1>1 DEF DeleteRows
<1>3. \A s : <<b, s>>[1] = b
  OBVIOUS
<1> QED
  BY <1>1, <1>2, <1>3 DEF DeleteRows

LEMMA StoreStepMigration ==
  ASSUME DataInv, CompInv, CleanInv, MigrationInv, V1Step, UNCHANGED pqvars
  PROVE  MigrationInv'
<1>0. UNCHANGED <<miss, receipts, delfail, work>>
  BY DEF pqvars
<1>1. CASE Age
  BY <1>0, <1>1, MigrationRests DEF Age
<1>2. ASSUME NEW b \in Batches, Expire(b) PROVE MigrationInv'
  <2>1. UNCHANGED <<batch, win, mode>> /\ gone \subseteq gone' /\ expired \subseteq expired'
    BY <1>2 DEF Expire
  <2> QED
    BY <1>0, <2>1, MigrationRests
<1>3. ASSUME NEW b \in Batches, Ingest(b) PROVE MigrationInv'
  <2>0. UNCHANGED <<mode, gone, expired>>
    BY <1>3 DEF Ingest
  <2>1. CASE UNCHANGED <<batch, win>>
    BY <1>0, <2>0, <2>1, MigrationRests
  <2>2. CASE /\ batch' = [batch EXCEPT ![b] =
                            [row |-> TRUE, block |-> 0, src |-> FALSE, ontime |-> age = 0]]
             /\ win' = win \cup ({b} \X SignalsOf[b])
    <3>1. \A x \in Batches \ {b} : batch'[x] = batch[x]
      BY <2>2 DEF DataInv, Types
    <3>2. \A s \in SignalsOf[b] : <<b, s>> \in win'
      BY <2>2
    <3>3. win \subseteq win' /\ Complete
      BY <2>2 DEF MigrationInv
    <3>4. Complete'
      BY <1>0, <2>0, <3>1, <3>2, <3>3 DEF Complete
    <3>5. delfail' \subseteq gone'
      BY <1>0, <2>0 DEF MigrationInv
    <3> QED
      BY <1>0, <2>0, <3>4, <3>5, MissRests, MigrationKept
  <2> QED
    BY <1>3, <2>1, <2>2 DEF Ingest
<1>4. ASSUME NEW c \in Cleaners, Cleanup(c) PROVE MigrationInv'
  <2>1. CASE CleanRead(c) \/ CleanDownsample(c) \/ CleanObject(c)
    <3>1. UNCHANGED <<batch, win, mode, gone, expired>>
      BY <2>1 DEF CleanRead, CleanDownsample, CleanObject
    <3> QED
      BY <1>0, <3>1, MigrationRests
  <2>2. CASE CleanWindows(c)
    <3>1. UNCHANGED <<batch, mode, gone, expired>> /\ win' = win \ clean[c].read
          /\ clean[c].step = "windows"
      BY <2>2 DEF CleanWindows
    <3>2. \A w \in clean[c].read : w[1] \in expired
      BY <3>1 DEF CleanInv, CleanOK
    <3>3. \A b, s : <<b, s>>[1] = b
      OBVIOUS
    <3> QED
      BY <1>0, <3>1, <3>2, <3>3, MigrationRows
  <2>3. CASE CleanBatch(c)
    <3>1. UNCHANGED <<mode, expired>>
      BY <2>3 DEF CleanBatch
    <3>2. PICK b : \/ UNCHANGED <<batch, win, gone>>
                   \/ DeleteRows({b}) /\ gone' = gone \cup {b}
      BY <2>3 DEF CleanBatch
    <3>3. gone \subseteq gone'
      BY <3>2
    <3> QED
      BY <1>0, <3>1, <3>2, <3>3, MigrationRests, MigrationRows, DeletionComplete
  <2> QED
    BY <1>4, <2>1, <2>2, <2>3 DEF Cleanup
<1>5. CASE CompactRead \/ CompactBuild
  <2>1. UNCHANGED <<batch, win, mode, gone, expired>>
    BY <1>5 DEF CompactRead, CompactBuild
  <2> QED
    BY <1>0, <2>1, MigrationRests
<1>6. CASE CompactRegister
  <2>0. UNCHANGED <<mode, expired>> /\ gone \subseteq gone'
    BY <1>6 DEF CompactRegister
  <2>1. CASE UNCHANGED <<batch, win>>
    BY <1>0, <2>0, <2>1, MigrationRests
  <2>2. CASE Registers
    <3>1. \A b \in Batches : batch'[b].row => batch[b].row /\ b \notin comp.removed
      <4> TAKE b \in Batches
      <4>1. ~NoRow.row
        BY SMT DEF NoRow
      <4> QED
        BY <2>2, <4>1 DEF Registers
    <3>2. \A b, s : <<b, s>>[1] = b
      OBVIOUS
    <3>3. win' = {w \in win : w[1] \notin comp.removed}
      BY <2>2 DEF Registers
    <3> QED
      BY <1>0, <2>0, <3>1, <3>2, <3>3, MigrationRows
  <2> QED
    BY <1>6, <2>1, <2>2 DEF CompactRegister, Registers
<1>7. CASE CompactDrop
  <2>1. /\ UNCHANGED <<mode, expired>> /\ gone \subseteq gone'
        /\ DeleteRows(comp.removed)
    BY <1>7 DEF CompactDrop, DeleteBlock
  <2> QED
    BY <1>0, <2>1, MigrationRows, DeletionComplete
<1>8. CASE CompactSource \/ \E b \in Batches : SweepSource(b)
  <2>1. UNCHANGED <<mode, expired, gone, win>>
    BY <1>8 DEF CompactSource, SweepSource
  <2>2. PICK b \in Batches : batch' = batch \/ batch' = [batch EXCEPT ![b].src = FALSE]
    <3>1. comp.todo \subseteq Batches
      BY SMT DEF CompInv, Compaction
    <3> QED
      BY <1>8, <3>1 DEF CompactSource, SweepSource
  <2>3. \A x \in Batches : batch'[x].row = batch[x].row
    BY <2>2, SourceForgotten
  <2> QED
    BY <1>0, <2>1, <2>3, MigrationRows
<1>9. ASSUME NEW k \in V1Ids, RemoveBlock(k) PROVE MigrationInv'
  BY <1>0, <1>9, MigrationRests DEF RemoveBlock
<1> QED
  BY <1>1, <1>2, <1>3, <1>4, <1>5, <1>6, <1>7, <1>8, <1>9 DEF V1Step, Compactor, Sweep

\* What the Parquet worker checks before it collects a batch.
LEMMA CoveredIsMigrated ==
  ASSUME DataInv, MigrationInv, NEW b \in Batches \ expired, batch[b].row, Covered(b)
  PROVE  Migrated(b)
<1> DEFINE sigs == {w[2] : w \in WindowsOf({b})}
<1>1. \A s \in SignalsOf[b] : <<b, s>> \in win \/ miss[<<b, s>>].st = "quarantined"
  BY DEF MigrationInv, Complete
<1>2. \A s \in SignalsOf[b] : <<b, s>> \in win => s \in sigs
  <2> TAKE s \in SignalsOf[b]
  <2> HAVE <<b, s>> \in win
  <2>1. <<b, s>> \in WindowsOf({b}) /\ <<b, s>>[2] = s
    BY DEF WindowsOf
  <2> QED
    BY <2>1
<1>3. sigs # {} => \A s \in sigs : \E r \in receipts : r[1] = b /\ r[2] = s
  BY DEF Covered
<1> HIDE DEF sigs
<1> QED
  BY <1>1, <1>2, <1>3 DEF Migrated

\* A worker that is between two tasks carries nothing.
LEMMA WorkerDone ==
  ASSUME MigrationInv, Complete', MissStays, work' = Idle, delfail' \subseteq gone'
  PROVE  MigrationInv'
BY DEF MigrationInv, MissStays, Idle

LEMMA BuildMigration ==
  ASSUME DataInv, MigrationInv, LayerInv, Build
  PROVE  MigrationInv'
<1>0. UNCHANGED <<batch, win, delfail, mode, gone, expired>>
  BY DEF Build, BuildRead, BuildLoad, DownsampleRead, WriteBlock, RegisterBlock, v1vars
<1>1. MissStays
  BY BuildLoadMisses, MissRests
     DEF Build, BuildRead, DownsampleRead, WriteBlock, RegisterBlock
<1>2. Complete' /\ delfail' \subseteq gone'
  BY <1>0, <1>1, CompleteKept DEF MigrationInv
<1>3. CASE BuildRead
  <2>1. work' = [step |-> "load", key |-> [w \in win |-> ObjectKey(w[1])]]
    BY <1>3 DEF BuildRead
  <2>2. \A w \in win : ObjectKey(w[1]) \in ObjKeys
    BY PairFacts, ObjectKeys DEF DataInv, Types
  <2>3. work'.step = "load" /\ work'.key = [w \in win |-> ObjectKey(w[1])]
    BY <2>1
  <2>4. work'.key \in [DOMAIN work'.key -> ObjKeys]
    BY <2>2, <2>3
  <2> QED
    BY <1>1, <1>2, <2>3, <2>4 DEF MigrationInv, MissStays
<1>4. CASE work'.step \in {"idle", "block", "register"}
  BY <1>1, <1>2, <1>4 DEF MigrationInv, MissStays
<1>5. CASE BuildLoad \/ WriteBlock \/ RegisterBlock \/ \E k \in PqIds : DownsampleRead(k)
  <2>1. Idle.step = "idle"
    BY DEF Idle
  <2>2. ASSUME BuildLoad PROVE work'.step \in {"idle", "block", "register"}
    <3>1. work' = Idle \/ \E R : work' = [step |-> "block", rows |-> R, res |-> "raw", src |-> 0]
      BY <2>2 DEF BuildLoad
    <3> QED
      BY SMT, <2>1, <3>1
  <2>3. ASSUME WriteBlock PROVE work'.step \in {"idle", "block", "register"}
    <3>1. \E k, R : work' = [step |-> "register", blk |-> k, src |-> work.src, res |-> work.res,
                            rows |-> R]
      BY <2>3 DEF WriteBlock
    <3> QED
      BY SMT, <3>1
  <2>4. ASSUME RegisterBlock PROVE work'.step \in {"idle", "block", "register"}
    <3>1. work' = Idle \/ work' = [step |-> "block", rows |-> work.rows, res |-> work.res,
                                  src |-> work.src]
      BY <2>4 DEF RegisterBlock
    <3> QED
      BY SMT, <2>1, <3>1
  <2>5. ASSUME NEW k \in PqIds, DownsampleRead(k) PROVE work'.step = "block"
    <3>1. \E R, r : work' = [step |-> "block", rows |-> R, res |-> r, src |-> k]
      BY <2>5 DEF DownsampleRead
    <3> QED
      BY SMT, <3>1
  <2>6. work'.step \in {"idle", "block", "register"}
    BY <1>5, <2>2, <2>3, <2>4, <2>5
  <2> QED
    BY <1>4, <2>6
<1> QED
  BY <1>3, <1>5 DEF Build

LEMMA WorkerMigration ==
  ASSUME DataInv, MigrationInv, Retire \/ GC \/ Failures
  PROVE  MigrationInv'
<1>1. CASE Retire
  <2>1. /\ UNCHANGED <<batch, win, miss, delfail, mode, gone, expired, work>>
        /\ receipts' = receipts \/ work = Idle
    BY <1>1 DEF Retire, DeleteLayer, Reclaim1h, Reconcile, SweepPq, ReclaimCoverage, v1vars
  <2>2. Complete' /\ delfail' \subseteq gone' /\ MissStays
    BY <2>1, MissRests, CompleteKept DEF MigrationInv
  <2> QED
    BY <2>1, <2>2, MigrationKept
<1>2. ASSUME NEW b \in Batches, GCCheck(b) PROVE MigrationInv'
  <2>1. /\ UNCHANGED <<batch, win, miss, delfail, mode, gone, expired, receipts>>
        /\ mode = "enforce" /\ batch[b].row /\ Covered(b) /\ work' = [step |-> "gc", b |-> b]
    BY <1>2 DEF GCCheck, v1vars
  <2>2. Complete' /\ delfail' \subseteq gone' /\ MissStays
    BY <2>1, MissRests, CompleteKept DEF MigrationInv
  <2>3. work'.step = "gc" /\ work'.b = b
    BY <2>1
  <2>4. b \notin expired => Migrated(b)
    BY <2>1, CoveredIsMigrated
  <2>5. b \notin expired' => Migrated(b)'
    BY <2>1, <2>4 DEF Migrated
  <2> QED
    BY <2>1, <2>2, <2>3, <2>5 DEF MigrationInv, MissStays, Migrated
<1>3. ASSUME NEW b \in Batches, ReceiptGC(b) PROVE MigrationInv'
  <2>1. /\ UNCHANGED <<batch, win, miss, delfail, mode, gone, expired, work>> /\ work = Idle
    BY <1>3 DEF ReceiptGC, v1vars
  <2>2. Complete' /\ delfail' \subseteq gone' /\ MissStays
    BY <2>1, MissRests, CompleteKept DEF MigrationInv
  <2> QED
    BY <2>1, <2>2, MigrationKept
<1>4. CASE GCRemove
  <2>1. /\ UNCHANGED <<miss, delfail, expired>> /\ gone \subseteq gone'
        /\ \/ UNCHANGED <<batch, win>>
           \/ DeleteRows({work.b})
    BY <1>4 DEF GCRemove
  <2>2. \/ work' = Idle
        \/ work' = [step |-> "gcobject", b |-> work.b] /\ work.b \in gone'
    BY <1>4 DEF GCRemove
  <2>3. MissStays /\ Complete
    BY <2>1, MissRests DEF MigrationInv
  <2>4. Complete'
    BY <2>1, <2>3, CompleteKept, DeletionComplete
  <2>5. delfail' \subseteq gone'
    BY <2>1 DEF MigrationInv
  <2>6. CASE work' = [step |-> "gcobject", b |-> work.b] /\ work.b \in gone'
    <3>1. work'.step = "gcobject" /\ work'.b \in gone'
      BY <2>6
    <3> QED
      BY <2>3, <2>4, <2>5, <3>1 DEF MigrationInv, MissStays
  <2> QED
    BY <2>2, <2>3, <2>4, <2>5, <2>6, WorkerDone
<1>5. CASE GCObject
  <2>1. /\ UNCHANGED <<batch, win, miss, gone, expired>> /\ work' = Idle
        /\ delfail' \subseteq delfail \cup {work.b} /\ work.step = "gcobject"
    BY <1>5 DEF GCObject
  <2>2. MissStays /\ Complete /\ delfail' \subseteq gone'
    BY <2>1, MissRests DEF MigrationInv
  <2>3. Complete'
    BY <2>1, <2>2, CompleteKept
  <2> QED
    BY <2>1, <2>2, <2>3, WorkerDone
<1>6. ASSUME NEW k \in V1Ids, ReclaimV1(k) PROVE MigrationInv'
  <2>1. /\ UNCHANGED <<miss, receipts, delfail, work, mode, expired>> /\ gone \subseteq gone'
        /\ DeleteRows({})
    BY <1>6 DEF ReclaimV1, DeleteBlock, pqvars
  <2> DEFINE B == {}
  <2>2. DeleteRows(B)
    BY <2>1
  <2> HIDE DEF B
  <2> QED
    BY <2>1, <2>2, MigrationRows, DeletionComplete
<1>7. ASSUME NEW w \in DOMAIN miss, RetryMissing(w) PROVE MigrationInv'
  <2>1. UNCHANGED <<batch, win, receipts, delfail, work, mode, gone, expired>>
    BY <1>7 DEF RetryMissing, v1vars
  <2>2. MissStays
    BY <1>7, RetryMisses
  <2>3. Complete' /\ delfail' \subseteq gone'
    BY <2>1, <2>2, CompleteKept DEF MigrationInv
  <2> QED
    BY <2>1, <2>2, <2>3, MigrationKept
<1>8. ASSUME NEW w \in DOMAIN miss, QuarantineMissing(w) PROVE MigrationInv'
  <2>1. UNCHANGED <<batch, receipts, delfail, work, mode, gone, expired>> /\ win' = win \ {w}
    BY <1>8 DEF QuarantineMissing
  <2>2. MissStays /\ miss'[w].st = "quarantined"
    BY <1>8, QuarantineMisses
  <2>3. \A b, s : <<b, s>> \in win => <<b, s>> \in win' \/ miss'[<<b, s>>].st = "quarantined"
    BY <2>1, <2>2
  <2>4. Complete' /\ delfail' \subseteq gone'
    BY <2>1, <2>2, <2>3, CompleteKept DEF MigrationInv
  <2> QED
    BY <2>1, <2>2, <2>4, MigrationKept
<1>9. ASSUME NEW b \in Batches, RetryDelete(b) PROVE MigrationInv'
  <2>1. /\ UNCHANGED <<batch, win, miss, receipts, work, mode, gone, expired>>
        /\ delfail' \subseteq delfail
    BY <1>9 DEF RetryDelete
  <2>2. MissStays /\ Complete' /\ delfail' \subseteq gone'
    BY <2>1, MissRests, CompleteKept DEF MigrationInv
  <2> QED
    BY <2>1, <2>2, MigrationKept
<1> QED
  BY <1>1, <1>2, <1>3, <1>4, <1>5, <1>6, <1>7, <1>8, <1>9 DEF GC, Failures

LEMMA MigrationStays ==
  ASSUME DataInv, CompInv, CleanInv, MigrationInv, LayerInv, Next
  PROVE  MigrationInv'
<1>1. ASSUME NEW m, Restart(m) PROVE MigrationInv'
  <2>1. UNCHANGED <<batch, win, miss, delfail, gone, expired>> /\ work' = Idle
    BY <1>1 DEF Restart, V1Restart
  <2>2. MissStays /\ Complete' /\ delfail' \subseteq gone'
    BY <2>1, MissRests, CompleteKept DEF MigrationInv
  <2> QED
    BY <2>1, <2>2, WorkerDone
<1> QED
  BY <1>1, StoreStepMigration, BuildMigration, WorkerMigration DEF Next

-----------------------------------------------------------------------------
(* Layers *)

LEMMA ActivePqFacts ==
  ASSUME NEW s, NEW r, ActivePq(s, r) # 0
  PROVE  /\ ActivePq(s, r) \in PqIds /\ pq[ActivePq(s, r)].status = "active"
         /\ pq[ActivePq(s, r)].sig = s /\ pq[ActivePq(s, r)].res = r
<1> DEFINE found == {k \in PqIds : pq[k].status = "active" /\ pq[k].sig = s /\ pq[k].res = r}
<1>1. ActivePq(s, r) = IF found = {} THEN 0 ELSE CHOOSE k \in found : TRUE
  BY DEF ActivePq
<1>2. ActivePq(s, r) \in found
  BY <1>1
<1> QED
  BY <1>2

LEMMA PqFields ==
  ASSUME LayerInv, NEW k \in PqIds
  PROVE  /\ pq \in [PqIds -> PqBlock] /\ pq[k] \in PqBlock
         /\ pq[k].rows \subseteq Batches /\ pq[k].sig \in Names /\ pq[k].src \in PqIds \cup {0}
<1>1. pq \in [PqIds -> PqBlock] /\ pq[k] \in PqBlock
  BY DEF LayerInv
<1>2. \A x \in PqBlock : x.rows \subseteq Batches /\ x.sig \in Names /\ x.src \in PqIds \cup {0}
  BY DEF PqBlock
<1> QED
  BY <1>1, <1>2

LEMMA PairsAreNamed == Pairs \subseteq Batches \X Names
<1> SUFFICES ASSUME NEW w \in Pairs PROVE w \in Batches \X Names
  OBVIOUS
<1>1. w[1] \in Batches /\ w[2] \in SignalsOf[w[1]] /\ w = <<w[1], w[2]>>
  BY PairFacts
<1>2. w[2] \in Names
  BY <1>1 DEF Names, Signals
<1> QED
  BY <1>1, <1>2

\* A block that only changes its status, and stays what others were built from.
StatusOnly(k) ==
  /\ pq'[k].src = pq[k].src /\ pq'[k].rows = pq[k].rows /\ pq'[k].sig = pq[k].sig
  /\ pq[k].status \in {"active", "superseded"} => pq'[k].status \in {"active", "superseded"}
  /\ pq[k].status = "deleted" => pq'[k].status = "deleted"

LEMMA StatusKeepsDerived ==
  ASSUME LayerInv, \A k \in PqIds : StatusOnly(k)
  PROVE  \A j \in PqIds : Derived(j)'
<1> TAKE j \in PqIds
<1>1. Derived(j)
  BY DEF LayerInv
<1>2. SUFFICES ASSUME pq'[j].src # 0 PROVE Derived(j)'
  BY DEF Derived
<1>3. pq[j].src \in PqIds /\ pq'[j].src = pq[j].src /\ pq[j].src # 0
  BY <1>2, PqFields DEF StatusOnly
<1> DEFINE k == pq[j].src
<1>4. /\ pq[k].status \in {"active", "superseded", "deleted"}
      /\ pq[k].status # "deleted" => pq[j].rows = pq[k].rows /\ pq[j].sig = pq[k].sig
  BY <1>1, <1>3 DEF Derived
<1>5. /\ pq'[k].status \in {"active", "superseded", "deleted"}
      /\ pq'[k].status # "deleted" => pq[k].status # "deleted"
      /\ pq'[k].rows = pq[k].rows /\ pq'[k].sig = pq[k].sig
      /\ pq'[j].rows = pq[j].rows /\ pq'[j].sig = pq[j].sig
  BY <1>3, <1>4 DEF StatusOnly
<1> QED
  BY <1>3, <1>4, <1>5 DEF Derived

\* One block is retired, by a worker that is between two tasks.
LEMMA OneRetired ==
  ASSUME LayerInv, NEW k \in PqIds, pq[k].status = "active",
         pq' = [pq EXCEPT ![k].status = "superseded"]
  PROVE  /\ pq' \in [PqIds -> PqBlock] /\ \A j \in PqIds : Derived(j)'
         /\ \A j \in PqIds \ {k} : pq'[j] = pq[j]
<1>1. pq \in [PqIds -> PqBlock] /\ pq[k] \in PqBlock
  BY PqFields
<1> DEFINE x == [pq[k] EXCEPT !.status = "superseded"]
<1>2. pq' = [pq EXCEPT ![k] = x]
  BY <1>1
<1>3. x \in PqBlock
  BY <1>1 DEF PqBlock, PqStatus
<1>4. x.src = pq[k].src /\ x.rows = pq[k].rows /\ x.sig = pq[k].sig /\ x.status = "superseded"
  <2>1. pq[k] \in PqBlock
    BY <1>1
  <2> QED
    BY <2>1 DEF PqBlock
<1> HIDE DEF x
<1>5. pq'[k] = x /\ \A j \in PqIds \ {k} : pq'[j] = pq[j]
  BY <1>1, <1>2
<1>6. \A j \in PqIds : StatusOnly(j)
  BY <1>4, <1>5 DEF StatusOnly
<1> QED
  BY <1>1, <1>2, <1>3, <1>5, <1>6, StatusKeepsDerived

LEMMA IdleBuilds ==
  ASSUME work' = Idle
  PROVE  Building'
<1>1. work'.step = "idle"
  BY DEF Idle
<1> QED
  BY <1>1 DEF Building

LEMMA LayerRests ==
  ASSUME LayerInv, UNCHANGED <<pq, work>>
  PROVE  LayerInv'
BY DEF LayerInv, Derived, Building

\* A worker that takes up something else than a block.
LEMMA LayerIdles ==
  ASSUME LayerInv, pq' = pq, work'.step \notin {"load", "block", "register"}
  PROVE  LayerInv'
BY DEF LayerInv, Derived, Building

LEMMA RetireLayers ==
  ASSUME LayerInv, Retire
  PROVE  LayerInv'
<1>1. CASE ReclaimCoverage
  BY <1>1, LayerRests DEF ReclaimCoverage
<1>2. ASSUME NEW k \in PqIds, DeleteLayer(k) \/ Reclaim1h(k) \/ Reconcile(k) PROVE LayerInv'
  <2>1. /\ pq[k].status = "active" /\ pq' = [pq EXCEPT ![k].status = "superseded"]
        /\ work' = Idle
    BY <1>2 DEF DeleteLayer, Reclaim1h, Reconcile
  <2> QED
    BY <2>1, OneRetired, IdleBuilds DEF LayerInv
<1>3. ASSUME NEW k \in PqIds, SweepPq(k) PROVE LayerInv'
  <2> DEFINE x == IF pq[k].status = "superseded" THEN [NoPq EXCEPT !.status = "deleted"] ELSE NoPq
  <2>1. /\ pq[k].status \in {"superseded", "failed", "building"} /\ work' = Idle
        /\ pq' = [pq EXCEPT ![k] = x]
    BY <1>3 DEF SweepPq
  <2>2. NoPq \in PqBlock /\ [NoPq EXCEPT !.status = "deleted"] \in PqBlock
    BY DEF NoPq, PqBlock, PqStatus, Names
  <2>3. NoPq.src = 0 /\ [NoPq EXCEPT !.status = "deleted"].src = 0
        /\ [NoPq EXCEPT !.status = "deleted"].status = "deleted"
    BY SMT DEF NoPq
  <2>4. x \in PqBlock /\ x.src = 0 /\ (pq[k].status = "superseded" => x.status = "deleted")
    BY <2>2, <2>3
  <2> HIDE DEF x
  <2>5. /\ pq' \in [PqIds -> PqBlock] /\ pq'[k] = x
        /\ \A j \in PqIds \ {k} : pq'[j] = pq[j]
    BY <2>1, <2>4, PqFields
  <2>6. \A j \in PqIds : Derived(j)'
    <3> TAKE j \in PqIds
    <3>1. SUFFICES ASSUME pq'[j].src # 0 PROVE Derived(j)'
      BY DEF Derived
    <3>2. j # k /\ pq'[j] = pq[j] /\ Derived(j)
      BY <2>4, <2>5, <3>1 DEF LayerInv
    <3>3. CASE pq[j].src # k
      BY <2>5, <3>1, <3>2, <3>3, PqFields DEF Derived
    <3>4. CASE pq[j].src = k
      <4>1. pq[k].status = "superseded"
        BY <2>1, <3>1, <3>2, <3>4 DEF Derived
      <4> QED
        BY <2>4, <2>5, <3>1, <3>2, <3>4, <4>1 DEF Derived
    <3> QED
      BY <3>3, <3>4
  <2> QED
    BY <2>1, <2>5, <2>6, IdleBuilds DEF LayerInv
<1> QED
  BY <1>1, <1>2, <1>3 DEF Retire

\* The blocks a worker registers.
LEMMA WriteBlockLayers ==
  ASSUME LayerInv, WriteBlock
  PROVE  LayerInv'
<1> DEFINE Of(s) == {w[1] : w \in {x \in work.rows : x[2] = s}}
           Others(s) == {w \in work.rows : w[2] # s}
<1>1. PICK s \in {w[2] : w \in work.rows}, k \in {j \in PqIds : pq[j].status = "none"} :
        /\ pq' = [pq EXCEPT ![k] =
                    [status |-> "building", sig |-> s, res |-> work.res, src |-> work.src,
                     rows |-> Of(s),
                     seen |-> IF work.res = "raw" THEN {b \in Batches : <<b, s>> \in win} ELSE {}]]
        /\ work' = [step |-> "register", blk |-> k, src |-> work.src, res |-> work.res,
                    rows |-> Others(s)]
  BY DEF WriteBlock
<1> DEFINE S == IF work.res = "raw" THEN {b \in Batches : <<b, s>> \in win} ELSE {}
<1>2. S \in SUBSET Batches
  OBVIOUS
<1> HIDE DEF S
<1>3. /\ k \in PqIds /\ pq[k].status = "none" /\ work.step = "block"
      /\ work.rows \subseteq Batches \X Names
      /\ work.res \in {"raw", "5m", "1h"} /\ work.src \in PqIds \cup {0}
      /\ work.src # 0 => /\ pq[work.src].status = "active"
                         /\ work.rows = pq[work.src].rows \X {pq[work.src].sig}
  BY DEF LayerInv, Building, WriteBlock
<1>4. s \in Names /\ Of(s) \subseteq Batches /\ Others(s) \subseteq Batches \X Names
  BY SMT, <1>3
<1>5. work.src # 0 => /\ s = pq[work.src].sig /\ Of(s) = pq[work.src].rows /\ Others(s) = {}
  <2> SUFFICES ASSUME work.src # 0
               PROVE  s = pq[work.src].sig /\ Of(s) = pq[work.src].rows /\ Others(s) = {}
    OBVIOUS
  <2>1. work.rows = pq[work.src].rows \X {pq[work.src].sig}
    BY <1>3
  <2>2. s = pq[work.src].sig
    BY SMT, <2>1
  <2>3. Others(s) = {}
    BY SMT, <2>1, <2>2
  <2>4. \A a \in pq[work.src].rows : /\ <<a, s>> \in work.rows /\ <<a, s>>[1] = a
                                     /\ <<a, s>>[2] = s
    BY SMT, <2>1, <2>2
  <2>5. \A w \in work.rows : w[1] \in pq[work.src].rows
    BY SMT, <2>1
  <2>6. Of(s) \subseteq pq[work.src].rows
    BY <2>5
  <2>7. pq[work.src].rows \subseteq Of(s)
    <3> SUFFICES ASSUME NEW a \in pq[work.src].rows PROVE a \in Of(s)
      OBVIOUS
    <3>1. <<a, s>> \in {x \in work.rows : x[2] = s} /\ a = <<a, s>>[1]
      BY <2>4
    <3> QED
      BY <3>1
  <2> QED
    BY <2>2, <2>3, <2>6, <2>7
<1> DEFINE O == Of(s)
           R == Others(s)
           x == [status |-> "building", sig |-> s, res |-> work.res, src |-> work.src,
                 rows |-> O, seen |-> S]
<1> HIDE DEF O, R, Of, Others
<1>6. x \in PqBlock
  BY <1>2, <1>3, <1>4 DEF PqBlock, PqStatus, O
<1>7. x.status = "building" /\ x.sig = s /\ x.res = work.res /\ x.src = work.src /\ x.rows = O
  OBVIOUS
<1>8. pq' = [pq EXCEPT ![k] = x]
  BY <1>1 DEF O, S, Of
<1> HIDE DEF x
<1>9. /\ pq' \in [PqIds -> PqBlock] /\ pq'[k] = x
      /\ \A j \in PqIds \ {k} : pq'[j] = pq[j]
  BY <1>3, <1>6, <1>8, PqFields
<1>10. \A j \in PqIds : Derived(j)'
  <2> TAKE j \in PqIds
  <2>1. SUFFICES ASSUME pq'[j].src # 0 PROVE Derived(j)'
    BY DEF Derived
  <2>2. CASE j = k
    <3>1. work.src \in PqIds \ {k} /\ pq[work.src].status = "active" /\ pq'[j].src = work.src
      BY <1>3, <1>7, <1>9, <2>1, <2>2
    <3>2. pq'[work.src] = pq[work.src] /\ pq'[j].rows = pq[work.src].rows
          /\ pq'[j].sig = pq[work.src].sig
      BY <1>5, <1>7, <1>9, <2>1, <2>2, <3>1 DEF O
    <3> QED
      BY <3>1, <3>2 DEF Derived
  <2>3. CASE j # k
    <3>1. pq'[j] = pq[j] /\ Derived(j) /\ pq[j].src # 0 /\ pq[j].src \in PqIds
      BY <1>9, <2>1, <2>3, PqFields DEF LayerInv
    <3>2. pq[j].src # k
      BY <1>3, <3>1 DEF Derived
    <3>3. pq'[pq[j].src] = pq[pq[j].src]
      BY <1>9, <3>1, <3>2
    <3> QED
      BY <3>1, <3>3 DEF Derived
  <2> QED
    BY <2>2, <2>3
<1>11. Building'
  <2>1. work' = [step |-> "register", blk |-> k, src |-> work.src, res |-> work.res, rows |-> R]
    BY <1>1 DEF R, Others
  <2>2. /\ work'.step = "register" /\ work'.blk = k /\ work'.src = work.src
        /\ work'.res = work.res /\ work'.rows = R
    BY SMT, <2>1
  <2>3. R \subseteq Batches \X Names /\ (work.src # 0 => R = {})
    BY <1>4, <1>5 DEF R
  <2> QED
    BY <1>3, <1>7, <1>9, <2>2, <2>3 DEF Building
<1> QED
  BY <1>9, <1>10, <1>11 DEF LayerInv

\* The transaction that makes a block the active one of its partition.
RegistersPq(old) ==
  pq' = [j \in PqIds |-> IF j = work.blk THEN [pq[j] EXCEPT !.status = "active"]
                         ELSE IF j = old THEN [pq[j] EXCEPT !.status = "superseded"]
                         ELSE pq[j]]

WithStatus(x, st) == [x EXCEPT !.status = st]

LEMMA PqUpdates ==
  ASSUME NEW x \in PqBlock, NEW st \in PqStatus
  PROVE  /\ WithStatus(x, st) \in PqBlock /\ WithStatus(x, st).status = st
         /\ WithStatus(x, st).src = x.src /\ WithStatus(x, st).rows = x.rows
         /\ WithStatus(x, st).sig = x.sig /\ WithStatus(x, st).res = x.res
BY DEF PqBlock, WithStatus

LEMMA RegisterBlockLayers ==
  ASSUME LayerInv, RegisterBlock
  PROVE  LayerInv'
<1> DEFINE k == work.blk
           old == ActivePq(pq[k].sig, work.res)
<1>0. /\ work.step = "register" /\ k \in PqIds /\ pq[k].status = "building"
      /\ work.res \in {"raw", "5m", "1h"} /\ work.src \in PqIds \cup {0}
      /\ work.rows \subseteq Batches \X Names /\ (work.src # 0 => work.rows = {})
  <2>1. work.step = "register"
    BY DEF RegisterBlock
  <2> QED
    BY <2>1 DEF LayerInv, Building
<1>1. /\ RegistersPq(old) \/ pq' = [pq EXCEPT ![k].status = "failed"]
      /\ work' = IF work.rows = {} THEN Idle
                 ELSE [step |-> "block", rows |-> work.rows, res |-> work.res, src |-> work.src]
  BY DEF RegisterBlock, RegistersPq
<1>2. \A j \in PqIds : pq[j] \in PqBlock
  BY PqFields
<1>3. pq' \in [PqIds -> PqBlock] /\ \A j \in PqIds : StatusOnly(j)
  <2>1. CASE RegistersPq(old)
    <3> HIDE DEF old, k
    <3>1. \A j \in PqIds : pq'[j] = IF j = k THEN WithStatus(pq[j], "active")
                                    ELSE IF j = old THEN WithStatus(pq[j], "superseded")
                                    ELSE pq[j]
      BY <2>1 DEF RegistersPq, k, WithStatus
    <3>2. old \in PqIds => pq[old].status = "active"
      <4>1. old \in PqIds => old # 0
        BY IdsAssumption
      <4>2. old # 0 => pq[old].status = "active"
        <5> SUFFICES ASSUME old # 0 PROVE pq[old].status = "active"
          OBVIOUS
        <5>1. PICK s, r : s = pq[k].sig /\ r = work.res
          OBVIOUS
        <5>2. old = ActivePq(s, r)
          BY <5>1 DEF old
        <5> QED
          BY <5>2, ActivePqFacts
      <4> QED
        BY <4>1, <4>2
    <3>3. "active" \in PqStatus /\ "superseded" \in PqStatus
      BY DEF PqStatus
    <3>4. \A j \in PqIds : pq'[j] \in PqBlock
      BY <1>2, <3>1, <3>3, PqUpdates
    <3>5. pq' \in [PqIds -> PqBlock]
      BY <2>1, <3>1, <3>4 DEF RegistersPq
    <3>6. \A j \in PqIds : StatusOnly(j)
      <4> TAKE j \in PqIds
      <4>1. CASE j = k
        <5>1. pq'[j] = WithStatus(pq[j], "active") /\ pq[j].status = "building"
          BY <1>0, <3>1, <4>1
        <5>2. PICK y : y = WithStatus(pq[j], "active")
          OBVIOUS
        <5>3. y.status = "active" /\ y.src = pq[j].src /\ y.rows = pq[j].rows /\ y.sig = pq[j].sig
          BY <1>2, <3>3, <5>2, PqUpdates
        <5>4. pq'[j] = y
          BY <5>1, <5>2
        <5> QED
          BY <5>1, <5>3, <5>4 DEF StatusOnly
      <4>2. CASE j # k /\ j = old
        <5>1. pq'[j] = WithStatus(pq[j], "superseded") /\ pq[j].status = "active"
          BY <3>1, <3>2, <4>2
        <5>2. PICK y : y = WithStatus(pq[j], "superseded")
          OBVIOUS
        <5>3. y.status = "superseded" /\ y.src = pq[j].src /\ y.rows = pq[j].rows /\ y.sig = pq[j].sig
          BY <1>2, <3>3, <5>2, PqUpdates
        <5>4. pq'[j] = y
          BY <5>1, <5>2
        <5> QED
          BY <5>1, <5>3, <5>4 DEF StatusOnly
      <4>3. CASE j # k /\ j # old
        BY <3>1, <4>3 DEF StatusOnly
      <4> QED
        BY <4>1, <4>2, <4>3
    <3> QED
      BY <3>5, <3>6
  <2>2. CASE pq' = [pq EXCEPT ![k].status = "failed"]
    <3> DEFINE x == WithStatus(pq[k], "failed")
    <3>1. pq' = [pq EXCEPT ![k] = x]
      BY <1>0, <2>2, PqFields DEF WithStatus
    <3>2. "failed" \in PqStatus
      BY DEF PqStatus
    <3>3. x \in PqBlock /\ x.src = pq[k].src /\ x.rows = pq[k].rows /\ x.sig = pq[k].sig
      BY <1>0, <1>2, <3>2, PqUpdates
    <3> HIDE DEF x
    <3>4. pq' \in [PqIds -> PqBlock] /\ pq'[k] = x /\ \A j \in PqIds \ {k} : pq'[j] = pq[j]
      BY <1>0, <3>1, <3>3, PqFields
    <3> QED
      BY <1>0, <3>3, <3>4 DEF StatusOnly
  <2> QED
    BY <1>1, <2>1, <2>2
<1>4. \A j \in PqIds : Derived(j)'
  BY <1>3, StatusKeepsDerived
<1>5. Building'
  <2>1. CASE work.rows = {}
    BY <1>1, <2>1, IdleBuilds
  <2>2. CASE work.rows # {}
    <3>1. work' = [step |-> "block", rows |-> work.rows, res |-> work.res, src |-> work.src]
      BY <1>1, <2>2
    <3>2. /\ work'.step = "block" /\ work'.rows = work.rows /\ work'.res = work.res
          /\ work'.src = work.src /\ work.src = 0
      BY SMT, <1>0, <2>2, <3>1
    <3> QED
      BY <1>0, <3>2 DEF Building
  <2> QED
    BY <2>1, <2>2
<1> QED
  BY <1>3, <1>4, <1>5 DEF LayerInv

LEMMA BuildLayers ==
  ASSUME DataInv, LayerInv, Build
  PROVE  LayerInv'
<1>1. CASE BuildRead
  <2>1. pq' = pq /\ work' = [step |-> "load", key |-> [w \in win |-> ObjectKey(w[1])]]
    BY <1>1 DEF BuildRead
  <2>2. work'.step = "load" /\ DOMAIN work'.key = win
    BY <2>1
  <2> QED
    BY <2>1, <2>2 DEF LayerInv, Derived, Building, DataInv, Types
<1>2. CASE BuildLoad
  <2>1. pq' = pq /\ work.step = "load" /\ DOMAIN work.key \subseteq Pairs
    BY <1>2 DEF BuildLoad, LayerInv, Building
  <2>2. \/ work' = Idle
        \/ \E R \in SUBSET DOMAIN work.key :
             work' = [step |-> "block", rows |-> R, res |-> "raw", src |-> 0]
    <3>1. \A B : {w \in DOMAIN work.key \ B : w[1] \in Holds(work.key[w])} \in SUBSET DOMAIN work.key
      OBVIOUS
    <3> QED
      BY <1>2, <3>1 DEF BuildLoad
  <2>3. CASE work' = Idle
    BY <2>1, <2>3, IdleBuilds DEF LayerInv, Derived
  <2>4. ASSUME NEW R \in SUBSET DOMAIN work.key,
               work' = [step |-> "block", rows |-> R, res |-> "raw", src |-> 0]
        PROVE  LayerInv'
    <3>1. work'.step = "block" /\ work'.rows = R /\ work'.res = "raw" /\ work'.src = 0
      BY SMT, <2>4
    <3>2. R \subseteq Batches \X Names
      BY <2>1, PairsAreNamed
    <3> QED
      BY <2>1, <3>1, <3>2 DEF LayerInv, Derived, Building
  <2> QED
    BY <2>2, <2>3, <2>4
<1>3. ASSUME NEW k \in PqIds, DownsampleRead(k) PROVE LayerInv'
  <2>1. PICK r \in {"5m", "1h"} :
          /\ pq' = pq /\ pq[k].status = "active"
          /\ work' = [step |-> "block", rows |-> pq[k].rows \X {pq[k].sig}, res |-> r, src |-> k]
    BY <1>3 DEF DownsampleRead
  <2>2. /\ work'.step = "block" /\ work'.rows = pq[k].rows \X {pq[k].sig} /\ work'.res = r
        /\ work'.src = k
    BY SMT, <2>1
  <2>3. pq[k].rows \X {pq[k].sig} \subseteq Batches \X Names
    BY SMT, PqFields
  <2> QED
    BY <2>1, <2>2, <2>3 DEF LayerInv, Derived, Building
<1> QED
  BY <1>1, <1>2, <1>3, WriteBlockLayers, RegisterBlockLayers DEF Build

LEMMA LayersStay ==
  ASSUME DataInv, LayerInv, Next
  PROVE  LayerInv'
<1>1. CASE UNCHANGED pqvars
  BY <1>1, LayerRests DEF pqvars
<1>2. ASSUME NEW m, Restart(m) PROVE LayerInv'
  BY <1>2, IdleBuilds DEF Restart, LayerInv, Derived
<1>3. CASE GC
  <2>1. ASSUME NEW b \in Batches, GCCheck(b) PROVE LayerInv'
    <3>1. pq' = pq /\ work' = [step |-> "gc", b |-> b]
      BY <2>1 DEF GCCheck
    <3>2. work'.step = "gc"
      BY SMT, <3>1
    <3> QED
      BY <3>1, <3>2, LayerIdles
  <2>2. CASE GCRemove \/ GCObject
    <3>1. pq' = pq /\ (work' = Idle \/ work' = [step |-> "gcobject", b |-> work.b])
      BY <2>2 DEF GCRemove, GCObject
    <3>2. work'.step \in {"idle", "gcobject"}
      BY SMT, <3>1 DEF Idle
    <3>3. work'.step \notin {"load", "block", "register"}
      BY <3>2
    <3> QED
      BY <3>1, <3>3, LayerIdles
  <2>3. ASSUME NEW b \in Batches, ReceiptGC(b) PROVE LayerInv'
    BY <2>3, LayerRests DEF ReceiptGC
  <2>4. ASSUME NEW k \in V1Ids, ReclaimV1(k) PROVE LayerInv'
    BY <2>4, LayerRests DEF ReclaimV1, pqvars
  <2> QED
    BY <1>3, <2>1, <2>2, <2>3, <2>4 DEF GC
<1>4. CASE Failures
  <2>1. UNCHANGED <<pq, work>>
    BY <1>4 DEF Failures, RetryMissing, QuarantineMissing, RetryDelete
  <2> QED
    BY <2>1, LayerRests
<1> QED
  BY <1>1, <1>2, <1>3, <1>4, BuildLayers, RetireLayers DEF Next

-----------------------------------------------------------------------------
(* The invariant *)

LEMMA InitHolds == Init => Inv
<1> SUFFICES ASSUME Init PROVE Inv
  OBVIOUS
<1>1. DataInv
  <2>1. NoRow \in Row /\ ~NoRow.row /\ NoBlock \in V1Block /\ NoBlock.status # "active"
    BY SMT DEF NoRow, Row, Ids, NoBlock, V1Block
  <2>2. Types
    BY <2>1 DEF Init, V1Init, Types
  <2>3. /\ \A b \in Batches : ~batch[b].row
        /\ \A k \in V1Ids : v1[k].status # "active"
        /\ win = {}
    BY <2>1 DEF Init, V1Init
  <2> QED
    BY <2>2, <2>3 DEF DataInv, RowsStored, WindowsHaveRows, MembersRefer
<1>2. CompInv
  <2>1. comp \in Compaction /\ comp.step = "idle"
    BY SMT DEF Init, V1Init, CompIdle, Compaction, Ids
  <2> QED
    BY <2>1 DEF CompInv, Loaded, Uploaded, Emptied, Packed, Compacting
<1>3. CleanInv
  <2>1. CleanIdle \in Cleaning
    BY DEF CleanIdle, Cleaning, KeyMaps
  <2>2. clean = [c \in Cleaners |-> CleanIdle] /\ summary = [b \in Batches |-> 0]
    BY DEF Init, V1Init
  <2>3. summary \in [Batches -> Nat]
    BY SMT, <2>2
  <2>4. \A c \in Cleaners : clean[c].step = "idle" /\ clean[c].todo = {}
    BY SMT, <2>2 DEF CleanIdle
  <2>5. \A c \in Cleaners : CleanOK(clean[c])
    BY <2>4 DEF CleanOK
  <2> QED
    BY <2>1, <2>2, <2>3, <2>5 DEF CleanInv
<1>4. work.step = "idle"
  BY SMT DEF Init, Idle
<1>5. MigrationInv
  <2>1. miss = [w \in Pairs |-> NoMiss] /\ delfail = {}
    BY DEF Init, Pairs
  <2>2. NoMiss \in Missing
    <3>1. 0 \in Nat
      BY SMT
    <3> QED
      BY <3>1 DEF NoMiss, Missing, ObjKeys
  <2>3. Complete
    <3>1. ~NoRow.row
      BY SMT DEF NoRow
    <3> QED
      BY <3>1 DEF Complete, Init, V1Init
  <2> QED
    BY <1>4, <2>1, <2>2, <2>3 DEF MigrationInv
<1>6. LayerInv
  <2>1. NoPq \in PqBlock /\ NoPq.src = 0
    BY DEF NoPq, PqBlock, PqStatus, Names
  <2>2. pq = [k \in PqIds |-> NoPq]
    BY DEF Init
  <2>3. \A k \in PqIds : Derived(k)
    BY <2>1, <2>2 DEF Derived
  <2> QED
    BY <1>4, <2>1, <2>2, <2>3 DEF LayerInv, Building
<1> QED
  BY <1>1, <1>2, <1>3, <1>5, <1>6 DEF Inv

LEMMA InvKept ==
  ASSUME Inv, [Next]_vars
  PROVE  Inv'
<1>1. CASE Next
  BY <1>1, StoreKept, CleanupKept, MigrationStays, LayersStay DEF Inv
<1>2. CASE UNCHANGED vars
  <2>1. /\ UNCHANGED <<batch, win, obj, v1, gone, comp, mode, expired, summary, clean>>
        /\ UNCHANGED <<pq, receipts, miss, delfail, work>>
    BY <1>2 DEF vars, v1vars, pqvars
  <2>2. DataInv' /\ CompInv'
    BY <2>1, StoreRests DEF Inv
  <2>3. CleanInv'
    BY <2>1, CleanKept DEF Inv
  <2>4. MigrationInv'
    BY <2>1, MigrationRests DEF Inv
  <2>5. LayerInv'
    BY <2>1, LayerRests DEF Inv
  <2> QED
    BY <2>2, <2>3, <2>4, <2>5 DEF Inv
<1> QED
  BY <1>1, <1>2

\* The invariant the properties below follow from: every row that was never given up is
\* stored where its object_key says, what the compactor, the cleanups and the Parquet
\* worker carry between their calls is still true of such rows, and a derived block has
\* the rows of its source.
THEOREM LedgerInvariant == Spec => []Inv
<1>1. Init => Inv
  BY InitHolds
<1>2. Inv /\ [Next]_vars => Inv'
  BY InvKept
<1> QED
  BY <1>1, <1>2, PTL DEF Spec

-----------------------------------------------------------------------------
(* The properties *)

\* A row that was never given up can be read where its object_key says.
LEMMA StoredIsHeld ==
  ASSUME DataInv, NEW w \in win, w[1] \notin gone
  PROVE  w[1] \in Holds(ObjectKey(w[1])) /\ ObjectKey(w[1]) \in obj
<1> DEFINE b == w[1]
<1>1. b \in Batches /\ batch[b].row
  BY PairFacts DEF DataInv, Types, WindowsHaveRows
<1>2. Stored(b)
  BY <1>1 DEF DataInv, RowsStored
<1>3. CASE batch[b].block = 0
  <2>1. ObjectKey(b) = Minute(b) /\ Minute(b) \in obj
    BY <1>2, <1>3 DEF ObjectKey, Stored
  <2>2. Minute(b)[1] = "minute" /\ Minute(b)[2] = b
    BY SMT DEF Minute
  <2>3. Holds(Minute(b)) = {b}
    BY <2>1, <2>2 DEF Holds
  <2> QED
    BY <2>1, <2>3
<1>4. CASE batch[b].block # 0
  <2> DEFINE k == batch[b].block
  <2>1. ObjectKey(b) = Block(k) /\ Block(k) \in obj /\ b \in v1[k].members
    BY <1>2, <1>4 DEF ObjectKey, Stored
  <2>2. Block(k)[1] = "block" /\ Block(k)[2] = k
    BY SMT DEF Block
  <2>3. Holds(Block(k)) = v1[k].members
    BY <2>1, <2>2 DEF Holds
  <2> QED
    BY <2>1, <2>3
<1> QED
  BY <1>3, <1>4

LEMMA InvReadable == Inv => QueryableIsReadable
<1> SUFFICES ASSUME Inv PROVE QueryableIsReadable
  OBVIOUS
<1>0. DataInv
  BY DEF Inv
<1>1. \A w \in win : w[1] \notin gone => w[1] \in Holds(ObjectKey(w[1]))
  BY <1>0, StoredIsHeld
<1>2. ASSUME WindowsOf(gone) = {}, NEW s \in Signals PROVE Query(s, TRUE).ok
  <2>1. \A w \in win : w[1] \notin gone
    BY <1>2 DEF WindowsOf
  <2>2. \A B : Answer(B).ok
    BY SMT DEF Answer
  <2>3. V1Answer(s).ok
    <3>1. ~\E w \in Hot(s) : ObjectKey(w[1]) \notin obj
      BY <1>0, <2>1, StoredIsHeld DEF Hot
    <3> QED
      BY <2>2, <3>1 DEF V1Answer
  <2>4. CPUAnswer(s, TRUE).ok /\ MetricsAnswer(s, TRUE).ok /\ HistogramAnswer(s, TRUE).ok
    BY <2>2, <2>3 DEF CPUAnswer, MetricsAnswer, HistogramAnswer
  <2> QED
    BY <2>3, <2>4 DEF Query
<1> QED
  BY <1>1, <1>2 DEF QueryableIsReadable

\* Every window row whose batch was never given up can be read, whatever the ingestion,
\* cleanups, compaction, sweep, GC, failures and restarts do in between, and no query fails
\* while no other batch has windows.
THEOREM WindowsStayReadable == Spec => []QueryableIsReadable
BY LedgerInvariant, InvReadable, PTL

LEMMA SummaryStep ==
  ASSUME Inv, [Next]_vars, mode # "enforce", NEW w \in win \ win', w[2] = "cpu", w[1] \notin gone
  PROVE  summary'[w[1]] > 0 \/ miss'[w].st = "quarantined"
<1>0. Next /\ w \in Pairs /\ w[1] \in Batches
  <2>1. ~UNCHANGED vars
    BY DEF vars, v1vars
  <2> QED
    BY <2>1, PairFacts DEF Inv, DataInv, Types
<1>1. ASSUME NEW c \in Cleaners, CleanWindows(c) PROVE summary'[w[1]] > 0
  <2>1. w \in clean[c].read /\ clean[c].step = "windows" /\ summary' = summary
    BY <1>1 DEF CleanWindows
  <2> QED
    BY <2>1 DEF Inv, CleanInv, CleanOK
<1>2. ASSUME NEW c \in Cleaners, CleanBatch(c) PROVE FALSE
  <2>1. PICK b : WindowsOf({b}) = {} /\ DeleteRows({b})
    BY <1>2 DEF CleanBatch
  <2> QED
    BY <2>1 DEF DeleteRows, WindowsOf
<1>3. CASE CompactRegister \/ CompactDrop
  <2>1. comp.step \in {"load", "register", "drop"} /\ win' = {x \in win : x[1] \notin comp.removed}
    BY <1>3 DEF CompactRegister, CompactDrop, DeleteBlock, DeleteRows
  <2>2. w[1] \in comp.removed \ gone
    BY <2>1
  <2>3. WindowsOf({w[1]}) = {}
    BY <2>1, <2>2 DEF Inv, CompInv, Loaded
  <2> QED
    BY <2>3 DEF WindowsOf
<1>4. CASE GCRemove
  BY <1>4 DEF GCRemove, Inv, MigrationInv
<1>5. ASSUME NEW x \in DOMAIN miss, QuarantineMissing(x) PROVE miss'[w].st = "quarantined"
  <2>1. w = x
    BY <1>5 DEF QuarantineMissing
  <2> QED
    BY <1>5, <2>1, QuarantineMisses DEF Inv
<1>6. ASSUME NEW k \in V1Ids, ReclaimV1(k) PROVE FALSE
  BY <1>6 DEF ReclaimV1
<1>7. ASSUME NEW b \in Batches, Ingest(b) PROVE FALSE
  BY <1>7 DEF Ingest
<1>8. CASE V1Step
  <2>1. CASE \/ Age \/ (\E b \in Batches : Expire(b))
             \/ (\E c \in Cleaners : CleanRead(c) \/ CleanDownsample(c) \/ CleanObject(c))
    BY <2>1 DEF Age, Expire, CleanRead, CleanDownsample, CleanObject
  <2>2. CASE CompactRead \/ CompactBuild \/ CompactSource \/ Sweep
    BY <2>2 DEF CompactRead, CompactBuild, CompactSource, Sweep, RemoveBlock, SweepSource
  <2> QED
    BY <1>1, <1>2, <1>3, <1>7, <1>8, <2>1, <2>2 DEF V1Step, Cleanup, Compactor
<1>9. CASE Build \/ Retire \/ \E m \in scene.modes : Restart(m)
  BY <1>9 DEF Build, BuildRead, BuildLoad, DownsampleRead, WriteBlock, RegisterBlock,
              Retire, DeleteLayer, Reclaim1h, Reconcile, SweepPq, ReclaimCoverage, v1vars,
              Restart, V1Restart
<1>10. CASE GC \/ Failures
  <2>1. ASSUME NEW b \in Batches, GCCheck(b) \/ ReceiptGC(b) \/ RetryDelete(b) PROVE FALSE
    BY <2>1 DEF GCCheck, ReceiptGC, RetryDelete, v1vars
  <2>2. ASSUME NEW x \in DOMAIN miss, RetryMissing(x) PROVE FALSE
    BY <2>2 DEF RetryMissing, v1vars
  <2>3. CASE GCObject
    BY <2>3 DEF GCObject
  <2> QED
    BY <1>4, <1>5, <1>6, <1>10, <2>1, <2>2, <2>3 DEF GC, Failures
<1> QED
  BY <1>0, <1>8, <1>9, <1>10 DEF Next

\* Outside enforce mode a cpu window that was never given up goes after its samples are in
\* a summary, or as quarantined, whichever of the cleanups, the compactor, the worker and
\* the failure processing removes it.
THEOREM WindowsAreSummarised == Spec => SummarisedBeforeRemoval
<1>1. Inv /\ [Next]_vars =>
        (mode # "enforce" => \A w \in win \ win' :
           w[2] = "cpu" /\ w[1] \notin gone => summary'[w[1]] > 0 \/ miss'[w].st = "quarantined")
  BY SummaryStep
<1> QED
  BY <1>1, LedgerInvariant, PTL DEF Spec, SummarisedBeforeRemoval

LEMMA RemovalStep ==
  ASSUME Inv, [Next]_vars, mode = "enforce", NEW b \in Batches \ expired, batch[b].row, ~batch'[b].row
  PROVE  Migrated(b)
<1>0. Next
  BY DEF vars, v1vars
<1>1. comp.step = "idle"
  BY DEF Inv, CompInv, Compacting
<1>2. ASSUME NEW B, DeleteRows(B) PROVE b \in B
  BY <1>2 DEF DeleteRows
<1>3. ASSUME NEW c \in Cleaners, CleanBatch(c) PROVE FALSE
  <2>1. PICK x \in clean[c].todo : UNCHANGED batch \/ DeleteRows({x})
    BY <1>3 DEF CleanBatch
  <2>2. clean[c].todo \subseteq expired
    BY CleanerFields DEF Inv
  <2> QED
    BY <1>2, <2>1, <2>2
<1>4. CASE GCRemove
  <2>1. work.step = "gc" /\ (UNCHANGED batch \/ DeleteRows({work.b}))
    BY <1>4 DEF GCRemove
  <2>2. b = work.b
    BY <1>2, <2>1
  <2> QED
    BY <2>1, <2>2 DEF Inv, MigrationInv
<1>5. ASSUME NEW k \in V1Ids, ReclaimV1(k) PROVE FALSE
  <2> DEFINE B == {}
  <2>1. DeleteRows(B)
    BY <1>5 DEF ReclaimV1, DeleteBlock
  <2>2. b \notin B
    OBVIOUS
  <2> HIDE DEF B
  <2> QED
    BY <1>2, <2>1, <2>2
<1>6. ASSUME NEW x \in Batches, Ingest(x) PROVE FALSE
  <2>1. batch \in [Batches -> Row]
    BY DEF Inv, DataInv, Types
  <2>2. batch' = batch \/ batch' = [batch EXCEPT ![x] =
                            [row |-> TRUE, block |-> 0, src |-> FALSE, ontime |-> age = 0]]
    BY <1>6 DEF Ingest
  <2>3. batch'[b] = batch[b]
        \/ batch'[b] = [row |-> TRUE, block |-> 0, src |-> FALSE, ontime |-> age = 0]
    BY <2>1, <2>2
  <2>4. CASE batch'[b] = [row |-> TRUE, block |-> 0, src |-> FALSE, ontime |-> age = 0]
    <3>1. PICK t : batch'[b] = [row |-> TRUE, block |-> 0, src |-> FALSE, ontime |-> t]
      BY <2>4
    <3>2. batch'[b].row
      BY SMT, <3>1
    <3> QED
      BY <3>2
  <2>5. CASE batch'[b] = batch[b]
    BY <2>5
  <2> QED
    BY <2>3, <2>4, <2>5
<1>7. ASSUME NEW x \in Batches, SweepSource(x) PROVE FALSE
  BY <1>7, SourceForgotten DEF SweepSource, Inv
<1>8. CASE V1Step
  <2>1. CASE \/ Age \/ (\E x \in Batches : Expire(x))
             \/ (\E c \in Cleaners : CleanRead(c) \/ CleanDownsample(c) \/ CleanWindows(c)
                                     \/ CleanObject(c))
             \/ CompactRead \/ CompactBuild \/ (\E k \in V1Ids : RemoveBlock(k))
    BY <2>1 DEF Age, Expire, CleanRead, CleanDownsample, CleanWindows, CleanObject, CompactRead,
                CompactBuild, RemoveBlock
  <2>2. ~(CompactRegister \/ CompactSource \/ CompactDrop)
    BY <1>1 DEF CompactRegister, CompactSource, CompactDrop
  <2> QED
    BY <1>3, <1>6, <1>7, <1>8, <2>1, <2>2 DEF V1Step, Cleanup, Compactor, Sweep
<1>9. CASE Build \/ Retire \/ Failures \/ \E m \in scene.modes : Restart(m)
  BY <1>9 DEF Build, BuildRead, BuildLoad, DownsampleRead, WriteBlock, RegisterBlock,
              Retire, DeleteLayer, Reclaim1h, Reconcile, SweepPq, ReclaimCoverage, v1vars,
              Failures, RetryMissing, QuarantineMissing, RetryDelete, Restart, V1Restart
<1>10. CASE GC
  <2>1. ASSUME NEW x \in Batches, GCCheck(x) \/ ReceiptGC(x) PROVE FALSE
    BY <2>1 DEF GCCheck, ReceiptGC, v1vars
  <2>2. CASE GCObject
    BY <2>2 DEF GCObject
  <2> QED
    BY <1>4, <1>5, <1>10, <2>1, <2>2 DEF GC
<1> QED
  BY <1>0, <1>8, <1>9, <1>10 DEF Next

\* In enforce mode the row of an unexpired batch goes only when every signal of the batch
\* has a receipt or was quarantined, though the coverage was checked in an earlier step and
\* from the windows that were left.
THEOREM CollectedIsMigrated == Spec => GCRemovesOnlyMigrated
<1>1. Inv /\ [Next]_vars =>
        (mode = "enforce" => \A b \in Batches \ expired :
           batch[b].row /\ ~batch'[b].row =>
             \A s \in SignalsOf[b] : \/ \E r \in receipts : r[1] = b /\ r[2] = s
                                     \/ miss[<<b, s>>].st = "quarantined")
  BY RemovalStep DEF Migrated
<1> QED
  BY <1>1, LedgerInvariant, PTL DEF Spec, GCRemovesOnlyMigrated

\* What takes the place of a block that is retired.
HandsOver(k) ==
  \/ \E j \in PqIds : /\ pq'[j].status = "active" /\ pq'[j].sig = pq[k].sig
                      /\ pq'[j].res = pq[k].res \/ pq[k].rows \subseteq pq'[j].rows
  \/ \A r \in receipts' : r[3] # k

LEMMA LayerStep ==
  ASSUME Inv, [Next]_vars, NEW k \in PqIds, pq[k].status = "active", pq[k].res # "1h",
         pq'[k].status # "active"
  PROVE  HandsOver(k)
<1>0. Next /\ pq' # pq /\ LayerInv
  BY DEF vars, pqvars, Inv
<1>1. CASE WriteBlock
  <2>1. PICK j \in PqIds : pq[j].status = "none" /\ \E x : pq' = [pq EXCEPT ![j] = x]
    BY <1>1 DEF WriteBlock
  <2>2. j = k
    BY <1>0, <2>1, PqFields
  <2> QED
    BY <2>1, <2>2
<1>2. CASE RegisterBlock
  <2> DEFINE n == work.blk
  <2>0. work.step = "register"
    BY <1>2 DEF RegisterBlock
  <2>1. n \in PqIds /\ pq[n].status = "building" /\ pq[n].res = work.res
    BY <1>0, <2>0 DEF LayerInv, Building
  <2>2. PICK s, r : s = pq[n].sig /\ r = work.res
    OBVIOUS
  <2> DEFINE old == ActivePq(s, r)
  <2>3. RegistersPq(old) \/ pq' = [pq EXCEPT ![n].status = "failed"]
    BY <1>2, <2>2 DEF RegisterBlock, RegistersPq
  <2>4. k # n
    BY <2>1
  <2>5. ~(pq' = [pq EXCEPT ![n].status = "failed"])
    BY <1>0, <2>4, PqFields
  <2>6. \A j \in PqIds : pq'[j] = IF j = n THEN WithStatus(pq[j], "active")
                                  ELSE IF j = old THEN WithStatus(pq[j], "superseded")
                                  ELSE pq[j]
    BY <2>3, <2>5 DEF RegistersPq, WithStatus
  <2> HIDE DEF old
  <2>7. k = old /\ old # 0
    BY <2>4, <2>6, IdsAssumption
  <2>8. pq[k].sig = s /\ pq[k].res = r
    <3>1. ActivePq(s, r) # 0
      BY <2>7 DEF old
    <3>2. pq[ActivePq(s, r)].sig = s /\ pq[ActivePq(s, r)].res = r
      BY SMT, <3>1, ActivePqFacts
    <3> QED
      BY <2>7, <3>2 DEF old
  <2>9. PICK y : y = WithStatus(pq[n], "active")
    OBVIOUS
  <2>10. y.status = "active" /\ y.sig = pq[n].sig /\ y.res = pq[n].res
    <3>1. pq[n] \in PqBlock
      BY <1>0, <2>1, PqFields
    <3>2. "active" \in PqStatus
      BY DEF PqStatus
    <3> QED
      BY <2>9, <3>1, <3>2, PqUpdates
  <2>11. pq'[n] = y
    BY <2>1, <2>6, <2>9
  <2>12. pq'[n].status = "active" /\ pq'[n].sig = pq[k].sig /\ pq'[n].res = pq[k].res
    BY <2>1, <2>2, <2>8, <2>10, <2>11
  <2> QED
    BY <2>1, <2>12 DEF HandsOver
<1>3. ASSUME NEW j \in PqIds, DeleteLayer(j) PROVE HandsOver(k)
  <2> DEFINE s == pq[j].sig
  <2>1. PICK r \in {"5m", "1h"} :
          /\ pq[j].status = "active" /\ pq[j].res = Finer[r]
          /\ ActivePq(s, r) # 0 /\ pq[ActivePq(s, r)].src = j
          /\ pq' = [pq EXCEPT ![j].status = "superseded"]
    BY <1>3 DEF DeleteLayer
  <2>2. \A i \in PqIds \ {j} : pq'[i] = pq[i]
    BY <1>0, <2>1, OneRetired
  <2>3. k = j
    BY <2>2
  <2>4. PICK t : t = ActivePq(s, r)
    OBVIOUS
  <2>5. t \in PqIds /\ pq[t].status = "active" /\ pq[t].sig = s /\ pq[t].res = r /\ pq[t].src = j
    <3>1. /\ ActivePq(s, r) \in PqIds /\ pq[ActivePq(s, r)].status = "active"
          /\ pq[ActivePq(s, r)].sig = s /\ pq[ActivePq(s, r)].res = r
      BY SMT, <2>1, ActivePqFacts
    <3> QED
      BY <2>1, <2>4, <3>1
  <2>6. t # j
    <3>1. Finer[r] # r
      BY SMT DEF Finer
    <3> QED
      BY <2>1, <2>5, <3>1
  <2>7. j # 0
    BY IdsAssumption
  <2>8. pq[t].rows = pq[j].rows
    <3>1. Derived(t)
      BY <1>0, <2>5 DEF LayerInv
    <3> QED
      BY <2>1, <2>5, <2>7, <3>1 DEF Derived
  <2>9. pq'[t] = pq[t]
    BY <2>2, <2>5, <2>6
  <2>10. pq'[t].status = "active" /\ pq'[t].sig = pq[k].sig /\ pq[k].rows \subseteq pq'[t].rows
    BY <2>1, <2>3, <2>5, <2>8, <2>9
  <2> QED
    BY <2>5, <2>10 DEF HandsOver
<1>4. ASSUME NEW j \in PqIds, Reclaim1h(j) PROVE FALSE
  <2>1. pq[j].status = "active" /\ pq[j].res = "1h" /\ pq' = [pq EXCEPT ![j].status = "superseded"]
    BY <1>4 DEF Reclaim1h
  <2> QED
    BY <1>0, <2>1, OneRetired
<1>5. ASSUME NEW j \in PqIds, Reconcile(j) PROVE HandsOver(k)
  <2>1. /\ pq[j].status = "active" /\ pq' = [pq EXCEPT ![j].status = "superseded"]
        /\ receipts' = {r \in receipts : r[3] # j}
    BY <1>5 DEF Reconcile
  <2>2. k = j
    BY <1>0, <2>1, OneRetired
  <2> QED
    BY <2>1, <2>2 DEF HandsOver
<1>6. ASSUME NEW j \in PqIds, SweepPq(j) PROVE FALSE
  <2>1. pq[j].status # "active" /\ \E x : pq' = [pq EXCEPT ![j] = x]
    BY <1>6 DEF SweepPq
  <2> QED
    BY <1>0, <2>1, PqFields
<1>7. UNCHANGED pq \/ WriteBlock \/ RegisterBlock
      \/ \E j \in PqIds : DeleteLayer(j) \/ Reclaim1h(j) \/ Reconcile(j) \/ SweepPq(j)
  <2>1. CASE UNCHANGED pqvars
    BY <2>1 DEF pqvars
  <2>2. CASE Build
    BY <2>2 DEF Build, BuildRead, BuildLoad, DownsampleRead
  <2>3. CASE Retire
    BY <2>3 DEF Retire, ReclaimCoverage
  <2>4. CASE GC \/ Failures \/ \E m \in scene.modes : Restart(m)
    BY <2>4 DEF GC, GCCheck, ReceiptGC, GCRemove, GCObject, ReclaimV1, Failures, RetryMissing,
                QuarantineMissing, RetryDelete, Restart, pqvars
  <2> QED
    BY <1>0, <2>1, <2>2, <2>3, <2>4 DEF Next
<1> QED
  BY <1>0, <1>1, <1>2, <1>3, <1>4, <1>5, <1>6, <1>7

\* A raw or 5m block is retired only for a new block of its partition, for an active
\* coarser one with all of its rows, or with its receipts revoked: the lineage that
\* pqDeleteLayerAfterGrace checks by id stands for the rows themselves.
THEOREM RetiredIsHandedOver == Spec => LayersHandOver
<1>1. Inv /\ [Next]_vars =>
        \A k \in PqIds :
          pq[k].status = "active" /\ pq[k].res # "1h" /\ pq'[k].status # "active" =>
            \/ \E j \in PqIds : /\ pq'[j].status = "active" /\ pq'[j].sig = pq[k].sig
                                /\ pq'[j].res = pq[k].res \/ pq[k].rows \subseteq pq'[j].rows
            \/ \A r \in receipts' : r[3] # k
  BY LayerStep DEF HandsOver
<1> QED
  BY <1>1, LedgerInvariant, PTL DEF Spec, LayersHandOver

=============================================================================
