--------------------------- MODULE ContinuousStore ---------------------------
(***************************************************************************)
(* Continuous profiling data of one session and one hour: the batches the  *)
(* agent uploads (profile_batches, profile_windows and the minute object   *)
(* of each), the retention cleanup that turns expired windows into         *)
(* summaries, and the compactor that packs the minute objects of a sealed  *)
(* hour into one block (apiserver/server/continuous.go and                 *)
(* continuous_block.go).                                                   *)
(*                                                                         *)
(* Every handler or worker that makes several database or object-store     *)
(* calls is split at those calls: the record it carries between them holds *)
(* the values it has read.  A window row's object_key always equals the    *)
(* object_key of its batch, which ObjectKey derives from block_id.         *)
(***************************************************************************)
EXTENDS Naturals, FiniteSets

CONSTANTS
  Batches,    \* batch ids whose windows lie in the modelled hour
  SignalsOf,  \* the signals a batch has windows for
  V1Ids,      \* ids of hour blocks
  Cleaners,   \* goroutines that run the retention cleanup: per ingest, ticker
  Scenes      \* the instances explored: the Parquet modes deployed one after the
              \* other, the batches sent and how often, how far the hour ages,
              \* and a bound on failed calls and crashes

VARIABLES
  scene,
  mode,     \* CONTINUOUS_PARQUET_MODE of the running server
  age,      \* 0 hour open, 1 sealed, 2 past 24 h, 3 past 7 d, 4 past 30 d
  expired,  \* batches whose end_time is before the retention cutoff
  batch,    \* profile_batches: row present, block_id, source_object_key kept
  win,      \* profile_windows rows <<batch, signal>>
  obj,      \* objects present in the store
  v1,       \* continuous_profile_blocks, with the members of the block object
  summary,  \* how often the samples of a batch were merged into summaries
  sends,    \* uploads made of each batch
  clean,    \* what each running cleanup has read
  comp,     \* what the compactor has read
  fails,    \* failures so far
  gone      \* batches that lost their row or their hour block once, for the properties

v1vars == <<scene, mode, age, expired, batch, win, obj, v1, summary, sends, clean, comp,
            fails, gone>>

Signals == UNION {SignalsOf[b] : b \in Batches}

Minute(b) == <<"minute", b>>
Block(k) == <<"block", k>>

\* object_key of a batch row and of its windows.
ObjectKey(b) == IF batch[b].block = 0 THEN Minute(b) ELSE Block(batch[b].block)

\* The batches an object holds the payload of (loadContinuousBatches reads
\* both minute objects and hour blocks).
Holds(o) == IF o \notin obj THEN {}
            ELSE IF o[1] = "minute" THEN {o[2]} ELSE v1[o[2]].members

WindowsOf(B) == {w \in win : w[1] \in B}
Rows == {b \in Batches : batch[b].row}

NoRow == [row |-> FALSE, block |-> 0, src |-> FALSE, ontime |-> FALSE]
NoBlock == [status |-> "none", members |-> {}]
CleanIdle == [step |-> "idle", read |-> {}, key |-> << >>, todo |-> {}]
CompIdle == [step |-> "idle", old |-> 0, new |-> 0, keep |-> {}, removed |-> {},
             fresh |-> {}, todo |-> {}]

Fail == fails < scene.fails /\ fails' = fails + 1

\* The effect of deleting profile_batches rows: the foreign key cascades to
\* the windows.
DeleteRows(B) ==
  /\ batch' = [b \in Batches |-> IF b \in B THEN NoRow ELSE batch[b]]
  /\ win' = {w \in win : w[1] \notin B}

-----------------------------------------------------------------------------
(* Time *)

Age == /\ age < scene.age
       /\ age' = age + 1
       /\ UNCHANGED <<scene, mode, expired, batch, win, obj, v1, summary, sends, clean, comp,
                      fails, gone>>

\* The end of a batch falls behind the session's retention cutoff (24 h).
Expire(b) == /\ age >= 2 /\ b \in scene.sent \ expired
             /\ expired' = expired \cup {b}
             /\ UNCHANGED <<scene, mode, age, batch, win, obj, v1, summary, sends, clean, comp,
                            fails, gone>>

-----------------------------------------------------------------------------
(* IngestContinuousBatch *)

\* A known batch id is acknowledged as a duplicate.  Otherwise one
\* transaction inserts the batch row, stores the payload object and inserts
\* one window row per signal.
Ingest(b) ==
  /\ b \in scene.sent /\ sends[b] < scene.sends
  /\ sends' = [sends EXCEPT ![b] = @ + 1]
  /\ \/ /\ batch[b].row
        /\ UNCHANGED <<batch, win, obj, fails>>
     \/ /\ ~batch[b].row
        /\ obj' = obj \cup {Minute(b)}
        /\ batch' = [batch EXCEPT ![b] =
                       [row |-> TRUE, block |-> 0, src |-> FALSE, ontime |-> age = 0]]
        /\ win' = win \cup ({b} \X SignalsOf[b])
        /\ UNCHANGED fails
     \/ \* the payload is stored, then the transaction rolls back
        /\ ~batch[b].row /\ Fail
        /\ obj' = obj \cup {Minute(b)}
        /\ UNCHANGED <<batch, win>>
  /\ UNCHANGED <<scene, mode, age, expired, v1, summary, clean, comp, gone>>

-----------------------------------------------------------------------------
(* cleanupContinuousRetention, run after an ingest and by a ticker *)

\* The expired batches and windows are read; nothing is done when no window
\* is expired.  Batches already packed into a block are left to the compactor.
CleanRead(c) ==
  /\ clean[c].step = "idle"
  /\ WindowsOf(expired) # {}
  /\ clean' = [clean EXCEPT ![c] =
       [step |-> "downsample",
        read |-> WindowsOf(expired),
        key |-> [b \in Rows \cap expired |-> ObjectKey(b)],
        todo |-> {b \in Rows \cap expired : batch[b].block = 0}]]
  /\ UNCHANGED <<scene, mode, age, expired, batch, win, obj, v1, summary, sends, comp, fails,
                 gone>>

\* downsampleContinuousWindows: the cpu windows whose object can be loaded
\* are merged into the summary; in enforce mode nothing is.  A window whose
\* object could not be read stays; an error while merging ends the cleanup.
CleanDownsample(c) ==
  LET cpu == {w \in clean[c].read : w[2] = "cpu"}
      bad == {w \in cpu : w[1] \notin Holds(clean[c].key[w[1]])}
      merged == {w[1] : w \in cpu \ bad}
  IN /\ clean[c].step = "downsample"
     /\ \/ /\ mode = "enforce"
           /\ clean' = [clean EXCEPT ![c].step = "windows", ![c].key = << >>]
           /\ UNCHANGED <<summary, fails>>
        \/ /\ mode # "enforce"
           /\ summary' = [b \in Batches |-> IF b \in merged /\ summary[b] < 2
                                            THEN summary[b] + 1 ELSE summary[b]]
           /\ clean' = [clean EXCEPT ![c].step = "windows", ![c].read = @ \ bad,
                                     ![c].key = << >>]
           /\ UNCHANGED fails
        \/ /\ mode # "enforce" /\ Fail
           /\ clean' = [clean EXCEPT ![c] = CleanIdle]
           /\ UNCHANGED summary
     /\ UNCHANGED <<scene, mode, age, expired, batch, win, obj, v1, sends, comp, gone>>

\* The windows that were read and summarised are deleted by id.
CleanWindows(c) ==
  /\ clean[c].step = "windows"
  /\ win' = win \ clean[c].read
  /\ clean' = [clean EXCEPT ![c] = IF @.read = {} \/ @.todo = {} THEN CleanIdle
                                   ELSE [@ EXCEPT !.step = "batches", !.read = {}]]
  /\ UNCHANGED <<scene, mode, age, expired, batch, obj, v1, summary, sends, comp, fails, gone>>

\* An expired batch that was unblocked when it was read and has no window
\* left loses its row and then its object.
CleanBatch(c) ==
  /\ clean[c].step = "batches"
  /\ \E b \in clean[c].todo :
       LET rest == clean[c].todo \ {b}
       IN IF WindowsOf({b}) # {}
          THEN /\ clean' = [clean EXCEPT ![c] = IF rest = {} THEN CleanIdle
                                                ELSE [@ EXCEPT !.todo = rest]]
               /\ UNCHANGED <<batch, win, gone>>
          ELSE /\ DeleteRows({b}) /\ gone' = gone \cup {b}
               /\ clean' = [clean EXCEPT ![c].step = "object", ![c].read = {b},
                                         ![c].todo = rest]
  /\ UNCHANGED <<scene, mode, age, expired, obj, v1, summary, sends, comp, fails>>

\* A failed delete is only logged: the object stays.
CleanObject(c) ==
  /\ clean[c].step = "object"
  /\ clean' = [clean EXCEPT ![c] = IF @.todo = {} THEN CleanIdle
                                   ELSE [@ EXCEPT !.step = "batches", !.read = {}]]
  /\ \/ obj' = obj \ {Minute(b) : b \in clean[c].read} /\ UNCHANGED fails
     \/ Fail /\ UNCHANGED obj
  /\ UNCHANGED <<scene, mode, age, expired, batch, win, v1, summary, sends, comp, gone>>

-----------------------------------------------------------------------------
(* The block compactor *)

Active == {k \in V1Ids : v1[k].status = "active"}
ActiveId == IF Active = {} THEN 0 ELSE CHOOSE k \in Active : TRUE
MembersOf(k) == {b \in Rows : batch[b].block = k}

\* A sealed hour with unblocked, unexpired batches, an active block with an
\* expired member that has no window, or an active block without any row.
Candidate ==
  \/ \E b \in Rows : batch[b].block = 0 /\ b \notin expired
  \/ \E k \in Active : \/ MembersOf(k) = {}
                       \/ \E b \in MembersOf(k) : b \in expired /\ WindowsOf({b}) = {}

\* Mutant: an expired member is dropped though it has windows left.
CompactExpired ==
  LET old == ActiveId
      keep == IF old = 0 THEN {}
              ELSE {b \in v1[old].members : batch[b].row /\ batch[b].block = old /\ b \notin expired}
  IN /\ comp.step = "idle"
     /\ mode # "enforce" /\ age >= 1 /\ Candidate
     /\ old # 0 => Block(old) \in obj
     /\ comp' = [CompIdle EXCEPT
                   !.step = "load", !.old = old, !.keep = keep,
                   !.removed = IF old = 0 THEN {} ELSE v1[old].members \ keep,
                   !.fresh = {b \in Rows : batch[b].block = 0 /\ b \notin expired}]
     /\ UNCHANGED <<scene, mode, age, expired, batch, win, obj, v1, summary, sends, clean,
                    fails, gone>>

\* Under the bucket's advisory lock the active block, the unblocked batches
\* and the members' rows and window counts are read again.
CompactRead ==
  LET old == ActiveId
      keep == IF old = 0 THEN {}
              ELSE {b \in v1[old].members :
                      /\ batch[b].row /\ batch[b].block = old
                      /\ b \notin expired \/ WindowsOf({b}) # {}}
  IN /\ comp.step = "idle"
     /\ mode # "enforce" /\ age >= 1 /\ Candidate
     /\ old # 0 => Block(old) \in obj
     /\ comp' = [CompIdle EXCEPT
                   !.step = "load", !.old = old, !.keep = keep,
                   !.removed = IF old = 0 THEN {} ELSE v1[old].members \ keep,
                   !.fresh = {b \in Rows : batch[b].block = 0 /\ b \notin expired}]
     /\ UNCHANGED <<scene, mode, age, expired, batch, win, obj, v1, summary, sends, clean, fails,
                    gone>>

\* Mutant: a batch that could not be loaded still counts as packed.
CompactUnloaded(loaded) ==
  \E k \in V1Ids :
    /\ v1[k].status = "none" /\ \A j \in V1Ids : v1[j].status = "none" => k <= j
    /\ obj' = obj \cup {Block(k)}
    /\ v1' = [v1 EXCEPT ![k] = [status |-> "unregistered", members |-> comp.keep \cup loaded]]
    /\ comp' = [comp EXCEPT !.step = "register", !.new = k]

\* The fresh payloads are loaded (a batch whose object cannot be read is
\* left for the next round) and the new block is uploaded and read back.
CompactUpload(loaded) ==
  LET members == comp.keep \cup loaded
      free == {k \in V1Ids : v1[k].status = "none"}
  IN \/ /\ members = {} \/ (loaded = {} /\ comp.removed = {})
        /\ comp' = IF members = {} /\ comp.old # 0
                   THEN [comp EXCEPT !.step = "drop"] ELSE CompIdle
        /\ UNCHANGED <<obj, v1>>
     \/ /\ members # {} /\ (loaded # {} \/ comp.removed # {})
        /\ \E k \in free :
             /\ \A j \in free : k <= j
             /\ obj' = obj \cup {Block(k)}
             /\ v1' = [v1 EXCEPT ![k] = [status |-> "unregistered", members |-> members]]
             /\ comp' = [comp EXCEPT !.step = "register", !.new = k, !.fresh = loaded]

CompactBuild ==
  LET present == {b \in comp.fresh : Minute(b) \in obj}
  IN /\ comp.step = "load"
     /\ \/ CompactUpload(present) /\ UNCHANGED fails
        \/ Fail /\ \E b \in present : CompactUpload(present \ {b})
        \/ \* low disk, a failed upload or a failed verification
           Fail /\ comp' = CompIdle /\ UNCHANGED <<obj, v1>>
     /\ UNCHANGED <<scene, mode, age, expired, batch, win, summary, sends, clean, gone>>

\* One transaction retires the old block, registers the new one, points the
\* rows that still exist and their windows at it and deletes the removed
\* rows.  If it fails the uploaded object is deleted.
CompactRegister ==
  LET k == comp.new
      moved == {b \in comp.keep \cup comp.fresh : batch[b].row}
  IN /\ comp.step = "register"
     /\ \/ /\ comp.old # 0 => v1[comp.old].status = "active"
           /\ v1' = [j \in V1Ids |-> IF j = k THEN [v1[j] EXCEPT !.status = "active"]
                                     ELSE IF j = comp.old THEN [v1[j] EXCEPT !.status = "superseded"]
                                     ELSE v1[j]]
           /\ batch' = [b \in Batches |->
                IF b \in comp.removed THEN NoRow
                ELSE IF b \in moved THEN [batch[b] EXCEPT !.block = k,
                                                         !.src = @ \/ batch[b].block = 0]
                ELSE batch[b]]
           /\ win' = {w \in win : w[1] \notin comp.removed}
           /\ gone' = gone \cup comp.removed
           /\ comp' = IF comp.fresh = {} THEN CompIdle
                      ELSE [CompIdle EXCEPT !.step = "sources", !.new = k, !.todo = comp.fresh]
           /\ UNCHANGED <<obj, fails>>
        \/ /\ Fail
           /\ obj' = obj \ {Block(k)}
           /\ v1' = [v1 EXCEPT ![k] = NoBlock]
           /\ comp' = CompIdle
           /\ UNCHANGED <<batch, win, gone>>
     /\ UNCHANGED <<scene, mode, age, expired, summary, sends, clean>>

\* The minute objects of the batches just packed are deleted one by one; a
\* failure leaves source_object_key for the sweep.
CompactSource ==
  /\ comp.step = "sources"
  /\ \E b \in comp.todo :
          /\ comp' = IF comp.todo = {b} THEN CompIdle ELSE [comp EXCEPT !.todo = @ \ {b}]
          /\ \/ /\ obj' = obj \ {Minute(b)}
                /\ batch' = IF batch[b].block = comp.new
                            THEN [batch EXCEPT ![b].src = FALSE] ELSE batch
                /\ UNCHANGED fails
             \/ Fail /\ UNCHANGED <<batch, obj>>
  /\ UNCHANGED <<scene, mode, age, expired, win, v1, summary, sends, clean, gone>>

\* deleteContinuousBlock's transaction: rows without windows go and the
\* block is marked deleting, if it is still active.
DeleteBlock(k, removed) ==
  /\ v1[k].status = "active"
  /\ v1' = [v1 EXCEPT ![k].status = "deleting"]
  /\ DeleteRows(removed)

CompactDrop ==
  /\ comp.step = "drop"
  /\ DeleteBlock(comp.old, comp.removed)
  /\ gone' = gone \cup comp.removed
  /\ comp' = CompIdle
  /\ UNCHANGED <<scene, mode, age, expired, obj, summary, sends, clean, fails>>

\* The object and the row of a deleting or superseded block, or of a block
\* object that was never registered, are removed (at once, or by the sweep).
RemoveBlock(k) ==
  /\ comp.step = "idle"
  /\ v1[k].status \in {"deleting", "superseded", "unregistered"}
  /\ obj' = obj \ {Block(k)}
  /\ v1' = [v1 EXCEPT ![k] = NoBlock]
  /\ UNCHANGED <<scene, mode, age, expired, batch, win, summary, sends, clean, comp, fails,
                 gone>>

SweepSource(b) ==
  /\ comp.step = "idle"
  /\ batch[b].row /\ batch[b].src /\ batch[b].block # 0
  /\ obj' = obj \ {Minute(b)}
  /\ batch' = [batch EXCEPT ![b].src = FALSE]
  /\ UNCHANGED <<scene, mode, age, expired, win, v1, summary, sends, clean, comp, fails, gone>>

\* A restart of the server loses what its goroutines were doing and may
\* deploy another Parquet mode.
V1Restart(m) ==
  /\ Fail
  /\ mode' = m
  /\ clean' = [c \in Cleaners |-> CleanIdle]
  /\ comp' = CompIdle
  /\ UNCHANGED <<scene, age, expired, batch, win, obj, v1, summary, sends, gone>>

-----------------------------------------------------------------------------
V1Init ==
  /\ scene \in Scenes /\ mode = scene.first
  /\ age = 0 /\ expired = {} /\ fails = 0
  /\ batch = [b \in Batches |-> NoRow]
  /\ win = {} /\ obj = {} /\ gone = {}
  /\ v1 = [k \in V1Ids |-> NoBlock]
  /\ summary = [b \in Batches |-> 0]
  /\ sends = [b \in Batches |-> 0]
  /\ clean = [c \in Cleaners |-> CleanIdle]
  /\ comp = CompIdle

Cleanup(c) == CleanRead(c) \/ CleanDownsample(c) \/ CleanWindows(c) \/ CleanBatch(c)
              \/ CleanObject(c)

Compactor == CompactRead \/ CompactBuild \/ CompactRegister \/ CompactSource \/ CompactDrop

Sweep == (\E k \in V1Ids : RemoveBlock(k)) \/ (\E b \in Batches : SweepSource(b))

V1Step == \/ Age
          \/ \E b \in Batches : Expire(b) \/ Ingest(b)
          \/ \E c \in Cleaners : Cleanup(c)
          \/ Compactor
          \/ Sweep

V1Next == V1Step \/ \E m \in scene.modes : V1Restart(m)

V1Spec == V1Init /\ [][V1Next]_v1vars
=============================================================================
