----------------------------- MODULE Retention -----------------------------
(***************************************************************************)
(* When an artifact may be deleted.  The reconciler gives every row a      *)
(* class, a time of expiry and a time before which it is not deleted, and  *)
(* does so again whenever the policy of a restarted server or the state of *)
(* the task differs from what the row was computed from.  It reads rows,   *)
(* tasks and jobs first and writes row by row later; the analysis daemon   *)
(* may supersede the generation of a row in between.                       *)
(***************************************************************************)
EXTENDS Integers

CONSTANTS
    Policies,       \* retention times of the classes, as a server is configured
    Guard,          \* notBeforeProtection
    Superseded,     \* the daemon's SUPERSEDED_RESULT_HOURS
    Kinds,
    MaxTime         \* bound on the clock

Never == -1

\* A policy has a time for every class that Classify can give.
Classes == (Kinds \ {"log"}) \cup {"manifest", "superseded", "diagnostic"}
RetentionConstants ==
    /\ \A p \in Policies : \A c \in Classes : p.time[c] \in Nat
    /\ Guard \in Nat /\ Superseded \in Nat /\ MaxTime \in Nat
    /\ "superseded" \notin Kinds
ASSUME RetentionAssumption == RetentionConstants

Max2(x, y) == IF x > y THEN x ELSE y

VARIABLES
    now,
    policy,         \* of the running server
    status, ended,  \* of the task
    kind, created,  \* of the artifact
    row,            \* what the reconciler keeps in the row, and its status
    superseded,     \* superseded_at of the generation
    read            \* what the reconciler has read

retentionvars == <<now, policy, status, ended, kind, created, row, superseded, read>>

Nothing == [pending |-> FALSE]
Blank == [class |-> "none", exp |-> Never, notBefore |-> Never, version |-> Never,
          state |-> "none", st |-> "ready"]

RetentionTypeOK ==
    /\ now \in 0..MaxTime /\ policy \in Policies
    /\ status \in {"active", "done", "failed"} /\ ended \in {Never} \cup 0..MaxTime
    /\ kind \in Kinds /\ created \in 0..MaxTime
    /\ superseded \in {Never} \cup 0..MaxTime
    /\ row.st \in {"ready", "deleting"} /\ row.exp \in Int /\ row.notBefore \in Int

RetentionInit ==
    /\ now = 0 /\ policy \in Policies
    /\ status = "active" /\ ended = Never
    /\ kind \in Kinds /\ created = 0
    /\ row = Blank
    /\ superseded = Never
    /\ read = Nothing

-----------------------------------------------------------------------------
\* classifyArtifactRetentionFull; the two kinds of raw files are kinds here.
Classify(k, s, sup) ==
    IF k = "manifest" THEN "manifest"
    ELSE IF k \in {"result", "intermediate"} /\ sup THEN "superseded"
    ELSE IF k = "log" \/ (s = "failed" /\ k # "result") THEN "diagnostic"
    ELSE k

\* Mutant: a shorter retention takes effect at once.
ExpiryWithoutNotice(r, s, sup) ==
    LET class == Classify(kind, s, sup # Never)
        base == Max2(IF sup # Never THEN sup ELSE created, ended) + policy.time[class]
        exp == IF class = "manifest" \/ s = "active" THEN Never ELSE base
    IN [r EXCEPT !.class = class, !.version = policy.version, !.state = s, !.exp = exp]

\* lifecycleComputeExpiry, on the row r as it was read.
ComputeExpiry(r, s, sup) ==
    LET class == Classify(kind, s, sup # Never)
        start == Max2(IF sup # Never THEN sup ELSE created, ended)
        base == start + policy.time[class]
        guard == now + Guard
        shortened == r.exp # Never /\ base < r.exp /\ base < guard
        result == [r EXCEPT !.class = class, !.version = policy.version, !.state = s]
    IN
    IF class = "manifest" \/ s = "active" THEN [result EXCEPT !.exp = Never]
    ELSE IF class = "superseded" THEN [result EXCEPT !.exp = base]
    ELSE IF r.version = Never /\ r.notBefore = Never
         THEN [result EXCEPT !.exp = base, !.notBefore = guard]
    ELSE IF shortened
         THEN [result EXCEPT !.exp = guard, !.notBefore = Max2(r.notBefore, guard)]
    ELSE [result EXCEPT !.exp = base]

\* Mutant: only a new policy makes a row stale.
StaleByPolicy == row.st = "ready" /\ row.version # policy.version

Stale == row.st = "ready" /\ (row.version # policy.version \/ row.state # status)

ReconcileRead ==
    /\ ~read.pending /\ Stale
    /\ read' = [pending |-> TRUE, row |-> row, status |-> status, superseded |-> superseded]
    /\ UNCHANGED <<now, policy, status, ended, kind, created, row, superseded>>

\* The write names the row only by its id.
ReconcileWrite ==
    /\ read.pending
    /\ row' = [ComputeExpiry(read.row, read.status, read.superseded) EXCEPT !.st = row.st]
    /\ read' = Nothing
    /\ UNCHANGED <<now, policy, status, ended, kind, created, superseded>>

\* lifecycleCandidateIDs and the claim.
ClaimExpired ==
    /\ ~read.pending /\ row.st = "ready"
    /\ row.exp # Never /\ row.exp <= now /\ row.notBefore <= now
    /\ row' = [row EXCEPT !.st = "deleting"]
    /\ UNCHANGED <<now, policy, status, ended, kind, created, superseded, read>>

\* _switch_active_job_tx of the analysis daemon.
Supersede ==
    /\ status = "done" /\ superseded = Never /\ kind \in {"result", "intermediate"}
    /\ superseded' = now
    /\ row' = IF row.st # "ready" THEN row
              ELSE [row EXCEPT !.class = "superseded", !.exp = now + Superseded, !.state = "done"]
    /\ UNCHANGED <<now, policy, status, ended, kind, created, read>>

\* A failed task may still be found done by a late callback.
Finish(s) ==
    /\ status = "active" \/ (status = "failed" /\ s = "done")
    /\ status' = s /\ ended' = now
    /\ UNCHANGED <<now, policy, kind, created, row, superseded, read>>

RestartWithPolicy(p) ==
    /\ p # policy
    /\ policy' = p /\ read' = Nothing
    /\ UNCHANGED <<now, status, ended, kind, created, row, superseded>>

\* A cycle is over long before the next hour of the clock.
HourPasses ==
    /\ now < MaxTime /\ ~read.pending
    /\ now' = now + 1
    /\ UNCHANGED <<policy, status, ended, kind, created, row, superseded, read>>

RetentionNext ==
    \/ ReconcileRead \/ ReconcileWrite \/ ClaimExpired \/ Supersede \/ HourPasses
    \/ \E s \in {"done", "failed"} : Finish(s)
    \/ \E p \in Policies : RestartWithPolicy(p)

RetentionSpec == RetentionInit /\ [][RetentionNext]_retentionvars
-----------------------------------------------------------------------------
Deadline(r) == IF r.exp = Never THEN MaxTime + Guard ELSE Max2(r.exp, r.notBefore)

\* When the deadline of an artifact is brought forward, whether by a shorter
\* policy, another state of the task or a class computed from stale rows, its
\* owner still has the whole protection period, unless a newer generation
\* replaced the artifact.
ShortenedWithNotice ==
    [][ row.exp # Never /\ row'.exp # Never /\ Deadline(row') < Deadline(row)
          => \/ Deadline(row') >= now + Guard
             \/ superseded # Never \/ superseded' # Never ]_retentionvars

\* A row that the reconciler takes for up to date has a deadline once its task
\* has ended: no artifact but a manifest is kept forever by a row computed
\* while the task was running.
SettledHasDeadline ==
    status # "active" /\ ~Stale /\ kind # "manifest" => row.exp # Never
=============================================================================
