--------------------------- MODULE CollectionProofs ---------------------------
(***************************************************************************)
(* For any tasks, attempts and bounds: drop_server and an agent together   *)
(* are a behaviour of DropServer, an attempt is sampled once and is        *)
(* accounted for, and what is reported as completed was delivered.         *)
(***************************************************************************)
EXTENDS Collection, TLAPS

\* Most leaves are first-order: Zenon finds them, and SMT is cited where it is needed.
USE Zenon


-----------------------------------------------------------------------------
(* Sequences *)

Keyed(s) == {s[i].key : i \in DOMAIN s}
Distinct(s) == \A i, j \in DOMAIN s : s[i] = s[j] => i = j
DistinctKeys(s) == \A i, j \in DOMAIN s : s[i].key = s[j].key => i = j
AtMostOne(S) == \A x, y \in S : x = y

\* A sequence is a function on the first numbers.
LEMMA LenProperties ==
  ASSUME NEW S, NEW s \in Seq(S)
  PROVE  /\ Len(s) \in Nat /\ DOMAIN s = 1..Len(s) /\ s \in [1..Len(s) -> S]
  BY SMT

\* A function on the first numbers is a sequence.
LEMMA SeqDef ==
  ASSUME NEW S, NEW n \in Nat, NEW s \in [1..n -> S]
  PROVE  s \in Seq(S)
  BY SMT

\* The elements of a sequence.
LEMMA ElementOfSeq ==
  ASSUME NEW S, NEW s \in Seq(S), NEW n \in 1..Len(s)
  PROVE  s[n] \in S
  BY SMT

\* The element of a singleton.
LEMMA OneElement ==
  ASSUME NEW S, NEW s \in Seq(S), Len(s) = 1
  PROVE  s[1] \in S
  BY SMT

\* Only the empty sequence has no element.
LEMMA EmptySeq ==
  ASSUME NEW S
  PROVE  /\ <<>> \in Seq(S) /\ Len(<<>>) = 0
         /\ \A s \in Seq(S) : s # <<>> => Len(s) > 0
  BY SMT

\* What push_back leaves.
LEMMA AppendProperties ==
  ASSUME NEW S, NEW s \in Seq(S), NEW x \in S
  PROVE  /\ Append(s, x) \in Seq(S) /\ Append(s, x) # <<>> /\ Len(Append(s, x)) = Len(s) + 1
         /\ \A i \in 1..Len(s) : Append(s, x)[i] = s[i]
         /\ Append(s, x)[Len(s) + 1] = x
  BY SMT

\* What pop_front takes and leaves.
LEMMA HeadTailProperties ==
  ASSUME NEW S, NEW s \in Seq(S), s # <<>>
  PROVE  /\ Head(s) \in S /\ Tail(s) \in Seq(S) /\ Len(Tail(s)) = Len(s) - 1
         /\ Head(s) = s[1]
         /\ \A i \in 1..Len(Tail(s)) : Tail(s)[i] = s[i + 1]
  BY SMT

\* The elements of a sequence, as a set.
LEMMA RangeOfSeq ==
  ASSUME NEW S, NEW s \in Seq(S)
  PROVE  Range(s) \subseteq S
  BY SMT DEF Range

\* TaskQueue::Push and UploadQueue::Push add one element at the end.
LEMMA AppendFacts ==
  ASSUME NEW S, NEW s \in Seq(S), NEW x \in S
  PROVE  /\ Append(s, x) \in Seq(S)
         /\ Range(Append(s, x)) = Range(s) \cup {x}
         /\ Distinct(s) /\ x \notin Range(s) => Distinct(Append(s, x))
         /\ Keyed(Append(s, x)) = Keyed(s) \cup {x.key}
         /\ DistinctKeys(s) /\ x.key \notin Keyed(s) => DistinctKeys(Append(s, x))
<1> DEFINE r == Append(s, x)
           n == Len(s)
<1>1. /\ r \in Seq(S) /\ n \in Nat /\ DOMAIN s = 1..n /\ DOMAIN r = 1..n + 1
      /\ \A i \in 1..n : r[i] = s[i]
      /\ r[n + 1] = x
  BY SMT, AppendProperties, LenProperties
<1> HIDE DEF r, n
<1>2. n + 1 \in DOMAIN r /\ DOMAIN r = DOMAIN s \cup {n + 1} /\ n + 1 \notin DOMAIN s
  BY SMT, <1>1
<1>3. \A i \in DOMAIN s : r[i] = s[i]
  BY <1>1
<1>4. Range(r) = Range(s) \cup {x} /\ Keyed(r) = Keyed(s) \cup {x.key}
  BY SMT, <1>1, <1>2, <1>3 DEF Range, Keyed
<1>5. Distinct(s) /\ x \notin Range(s) => Distinct(r)
  BY <1>1, <1>2, <1>3 DEF Distinct, Range
<1>6. DistinctKeys(s) /\ x.key \notin Keyed(s) => DistinctKeys(r)
  BY SMT, <1>1, <1>2, <1>3 DEF DistinctKeys, Keyed
<1> QED
  BY <1>1, <1>4, <1>5, <1>6 DEF r

\* WaitPop of either queue takes the first element.
LEMMA TailFacts ==
  ASSUME NEW S, NEW s \in Seq(S), s # <<>>
  PROVE  /\ Tail(s) \in Seq(S) /\ Head(s) \in S /\ Len(Tail(s)) = Len(s) - 1
         /\ Head(s) = s[1] /\ 1 \in DOMAIN s
         /\ Range(s) = Range(Tail(s)) \cup {Head(s)}
         /\ Distinct(s) => Distinct(Tail(s)) /\ Head(s) \notin Range(Tail(s))
         /\ Keyed(s) = Keyed(Tail(s)) \cup {Head(s).key}
         /\ DistinctKeys(s) => DistinctKeys(Tail(s)) /\ Head(s).key \notin Keyed(Tail(s))
<1> DEFINE r == Tail(s)
           n == Len(s)
<1>1. /\ r \in Seq(S) /\ n \in Nat /\ n > 0 /\ DOMAIN s = 1..n /\ DOMAIN r = 1..n - 1
      /\ Len(r) = n - 1
      /\ \A i \in 1..n - 1 : r[i] = s[i + 1]
      /\ Head(s) = s[1] /\ Head(s) \in S
  BY HeadTailProperties, LenProperties, EmptySeq, ElementOfSeq
<1> HIDE DEF r, n
<1>2. 1 \in DOMAIN s /\ \A i \in DOMAIN r : i + 1 \in DOMAIN s /\ i + 1 # 1 /\ r[i] = s[i + 1]
  BY SMT, <1>1
<1>3. \A i \in DOMAIN s : i # 1 => i - 1 \in DOMAIN r /\ r[i - 1] = s[i]
  BY SMT, <1>1
<1>4. Range(s) = Range(r) \cup {Head(s)} /\ Keyed(s) = Keyed(r) \cup {Head(s).key}
  <2>1. \A i \in DOMAIN s : i = 1 \/ \E j \in DOMAIN r : s[i] = r[j]
    BY <1>3
  <2>2. \A j \in DOMAIN r : \E i \in DOMAIN s : s[i] = r[j]
    BY <1>2
  <2>3. Range(s) = Range(r) \cup {Head(s)}
    <3>1. Range(s) \subseteq Range(r) \cup {Head(s)}
      BY SMT, <1>1, <2>1 DEF Range
    <3>2. Range(r) \subseteq Range(s)
      BY <2>2 DEF Range
    <3>3. Head(s) \in Range(s)
      BY <1>1, <1>2 DEF Range
    <3> QED
      BY <3>1, <3>2, <3>3
  <2>4. Keyed(s) = Keyed(r) \cup {Head(s).key}
    <3>1. Keyed(s) \subseteq Keyed(r) \cup {Head(s).key}
      BY SMT, <1>1, <2>1 DEF Keyed
    <3>2. Keyed(r) \subseteq Keyed(s)
      BY <2>2 DEF Keyed
    <3>3. Head(s).key \in Keyed(s)
      BY <1>1, <1>2 DEF Keyed
    <3> QED
      BY <3>1, <3>2, <3>3
  <2> QED
    BY <2>3, <2>4
<1>5. \A i, j \in DOMAIN r : i + 1 = j + 1 => i = j
  BY SMT, <1>1
<1>6. Distinct(s) => Distinct(r) /\ Head(s) \notin Range(r)
  BY SMT, <1>1, <1>2, <1>5 DEF Distinct, Range
<1>7. DistinctKeys(s) => DistinctKeys(r) /\ Head(s).key \notin Keyed(r)
  BY SMT, <1>1, <1>2, <1>5 DEF DistinctKeys, Keyed
<1> QED
  BY <1>1, <1>2, <1>4, <1>6, <1>7 DEF r, n

\* TaskQueue::CancelQueued takes out one element.
LEMMA RemoveFacts ==
  ASSUME NEW S, NEW s \in Seq(S), NEW k \in Range(s)
  PROVE  /\ Agent!WithoutFirst(s, k) \in Seq(S)
         /\ Range(Agent!WithoutFirst(s, k)) \subseteq Range(s)
         /\ Distinct(s) => /\ Range(Agent!WithoutFirst(s, k)) = Range(s) \ {k}
                           /\ Distinct(Agent!WithoutFirst(s, k))
<1> DEFINE n == Len(s)
           p == CHOOSE i \in DOMAIN s : s[i] = k /\ \A j \in 1..i - 1 : s[j] # k
           r == [i \in 1..n - 1 |-> IF i < p THEN s[i] ELSE s[i + 1]]
<1>1. n \in Nat /\ DOMAIN s = 1..n /\ \A i \in 1..n : s[i] \in S
  BY LenProperties, ElementOfSeq
<1>2. PICK x \in 1..n : s[x] = k
  BY <1>1 DEF Range
<1>3. Agent!WithoutFirst(s, k) = r
  BY DEF Agent!WithoutFirst
<1>4. Distinct(s) => p \in 1..n /\ s[p] = k
  <2> SUFFICES ASSUME Distinct(s) PROVE p \in 1..n /\ s[p] = k
    OBVIOUS
  <2>1. \A j \in 1..x - 1 : s[j] # k
    BY SMT, <1>1, <1>2 DEF Distinct
  <2>2. \E i \in DOMAIN s : s[i] = k /\ \A j \in 1..i - 1 : s[j] # k
    BY <1>1, <1>2, <2>1
  <2> QED
    BY <1>1, <2>2
<1> HIDE DEF n, p
<1>5. n - 1 \in Nat /\ \A i \in 1..n - 1 : i \in 1..n /\ i + 1 \in 1..n
  BY SMT, <1>1, <1>2
<1>6. /\ DOMAIN r = 1..n - 1
      /\ \A i \in 1..n - 1 : r[i] = IF i < p THEN s[i] ELSE s[i + 1]
  OBVIOUS
<1>7. r \in Seq(S)
  <2>1. r \in [1..n - 1 -> S]
    BY <1>1, <1>5
  <2> QED
    BY <1>5, <2>1, SeqDef
<1> HIDE DEF r
<1>8. Range(r) \subseteq Range(s)
  BY <1>1, <1>5, <1>6 DEF Range
<1>9. ASSUME Distinct(s)
      PROVE  Range(r) = Range(s) \ {k} /\ Distinct(r)
  <2>1. p \in 1..n /\ s[p] = k
    BY <1>4, <1>9
  <2>2. \A i \in 1..n - 1 : r[i] # k
    <3> TAKE i \in 1..n - 1
    <3>1. CASE i < p
      <4>1. r[i] = s[i] /\ i # p /\ i \in 1..n
        BY SMT, <1>5, <1>6, <2>1, <3>1
      <4> QED
        BY <1>1, <1>9, <2>1, <4>1 DEF Distinct
    <3>2. CASE ~(i < p)
      <4>1. r[i] = s[i + 1] /\ i + 1 # p /\ i + 1 \in 1..n
        BY SMT, <1>5, <1>6, <2>1, <3>2
      <4> QED
        BY <1>1, <1>9, <2>1, <4>1 DEF Distinct
    <3> QED
      BY <3>1, <3>2
  <2>3. \A j \in 1..n : s[j] # k => \E i \in 1..n - 1 : r[i] = s[j]
    <3> SUFFICES ASSUME NEW j \in 1..n, s[j] # k
                 PROVE  \E i \in 1..n - 1 : r[i] = s[j]
      OBVIOUS
    <3>1. CASE j < p
      <4>1. j \in 1..n - 1
        BY SMT, <1>1, <2>1, <3>1
      <4> QED
        BY <1>6, <3>1, <4>1
    <3>2. CASE j > p
      <4>1. j - 1 \in 1..n - 1 /\ ~(j - 1 < p) /\ j - 1 + 1 = j
        BY SMT, <1>1, <2>1, <3>2
      <4>2. r[j - 1] = s[j]
        BY <1>6, <4>1
      <4> QED
        BY <4>1, <4>2
    <3> QED
      BY SMT, <1>1, <2>1, <3>1, <3>2
  <2>4. Range(r) = Range(s) \ {k}
    <3>1. Range(s) = {s[j] : j \in 1..n} /\ Range(r) = {r[j] : j \in 1..n - 1}
      BY <1>1, <1>6 DEF Range
    <3>2. Range(r) \subseteq Range(s) \ {k}
      BY <1>8, <2>2, <3>1
    <3>3. Range(s) \ {k} \subseteq Range(r)
      BY <2>3, <3>1
    <3> QED
      BY <3>2, <3>3
  <2>5. \A i, j \in 1..n - 1 : i < j => r[i] # r[j]
    <3> SUFFICES ASSUME NEW i \in 1..n - 1, NEW j \in 1..n - 1, i < j
                 PROVE  r[i] # r[j]
      OBVIOUS
    <3> DEFINE u == IF i < p THEN i ELSE i + 1
               v == IF j < p THEN j ELSE j + 1
    <3>1. u \in 1..n /\ v \in 1..n
      BY <1>5
    <3>2. r[i] = s[u] /\ r[j] = s[v]
      BY <1>6
    <3>3. u # v
      BY SMT, <1>1, <2>1
    <3> HIDE DEF u, v
    <3> QED
      BY <1>1, <1>9, <3>1, <3>2, <3>3 DEF Distinct
  <2>6. Distinct(r)
    <3> SUFFICES ASSUME NEW i \in 1..n - 1, NEW j \in 1..n - 1, r[i] = r[j]
                 PROVE  i = j
      BY <1>6 DEF Distinct
    <3> QED
      BY SMT, <1>1, <2>5
  <2> QED
    BY <2>4, <2>6
<1> QED
  BY <1>3, <1>7, <1>8, <1>9


-----------------------------------------------------------------------------
(* The inductive invariant *)

\* The places of an attempt, from the server's queue to the upload worker.
InTasks == Keyed(tasks[Me])
InReply == IF hb.pc = "replied" THEN hb.task ELSE {}
InAgentQueue == Range(queue)
InUploads == Keyed(uploads)
InUploader == Keyed(uploader.job)
InAgent == InAgentQueue \cup worker \cup InUploads \cup InUploader

\* The agent has its attempts and cancellations from the server.
Known ==
  /\ InAgent \cup running \cup hb.task \subseteq dispatched
  /\ cancels[Me] \cup hb.cancels \subseteq relayed
  /\ Range(finished) \cup hb.done \subseteq dispatched \cup relayed

Shape ==
  /\ AtMostOne(worker) /\ AtMostOne(hb.task)
  /\ uploader.pc = "idle" <=> uploader.job = <<>>
  /\ Len(uploader.job) <= 1

\* The places are apart ...
Apart ==
  /\ Distinct(queue) /\ DistinctKeys(uploads)
  /\ InReply \cap InAgent = {}
  /\ InAgentQueue \cap (worker \cup InUploads \cup InUploader) = {}
  /\ worker \cap (InUploads \cup InUploader) = {}
  /\ InUploads \cap InUploader = {}

\* ... an attempt is sampled once ...
Sampled ==
  \A k \in Server!Keys :
    /\ started[k] <= 1
    /\ started[k] > 0 => k \in dispatched \ (InReply \cup InAgentQueue)

\* ... and the tracker knows what the agent has.
Tracked ==
  /\ InAgent \subseteq running
  /\ (InReply \cup InAgent) \cap Range(finished) = {}
  /\ hb.pc = "sent" => Range(finished) \subseteq hb.done \cup dispatched
  /\ uploader.pc = "served" => InUploader \subseteq received
  /\ \A k \in Server!Keys : started[k] > 0 =>
       /\ k \in running \cup received \cup gone
       /\ k \in Range(finished) => k \in received \cup gone

\* An attempt is dropped only if its task was canceled, or if it has ended.
Excused(k) == k[1] \in asked \/ k \in received

Covered ==
  /\ \A k \in relayed : k[1] \in asked
  /\ \A k \in completed \cup Range(finished) \cup hb.done : Excused(k)
  /\ \A i \in DOMAIN tasks[Me] : tasks[Me][i].canceled => tasks[Me][i].key[1] \in asked
  /\ \A k \in accepted : \/ Excused(k)
                         \/ k \in InTasks \cup InReply \cup InAgent \cup gone \cup undelivered

\* Agent!TypeOK
HbType == [pc : Agent!HeartbeatPc, done : SUBSET Server!Keys, task : SUBSET Server!Keys,
           cancels : SUBSET Server!Keys, cur : SUBSET Server!Keys]
UploaderType == [pc : {"idle", "sending", "served"}, job : Seq(Agent!UploadJob),
                 tries : 0..MaxNotify]

AgentType ==
  /\ hb \in HbType /\ uploader \in UploaderType
  /\ queue \in Seq(Server!Keys) /\ running \subseteq Server!Keys
  /\ finished \in Seq(Server!Keys) /\ Len(finished) <= MaxCompleted
  /\ cancelRequested \subseteq Server!Keys /\ worker \subseteq Server!Keys
  /\ uploads \in Seq(Agent!UploadJob)
  /\ failures \in 0..MaxFailures /\ started \in [Server!Keys -> Nat]

HistoryType ==
  accepted \cup received \cup gone \cup undelivered \subseteq Server!Attempts

\* A restored snapshot may hand an attempt out again: until then.
Whole == restarts = 0 => Apart /\ Sampled /\ Tracked /\ Covered

\* What the server keeps of its own, as far as the agent depends on it.
ServerOK ==
  /\ tasks \in [{Me} -> Seq(Server!Item)] /\ tasks[Me] \in Seq(Server!Item)
  /\ cancels \in [{Me} -> SUBSET Server!Keys] /\ cancels[Me] \subseteq Server!Keys
  /\ completed \subseteq Server!Keys /\ relayed \subseteq Server!Keys
  /\ sent \subseteq Server!Attempts /\ dispatched \subseteq sent
  /\ now \in 0..0 /\ restarts \in Nat
  /\ DistinctKeys(tasks[Me]) /\ InTasks \subseteq sent
  /\ restarts = 0 => InTasks \cap dispatched = {} /\ unread[Me] = <<>>

AgentInv == AgentType /\ HistoryType /\ Known /\ Shape /\ Whole

\* What can be enqueued can be named.
LEMMA AttemptsAreKeys == Server!Attempts \subseteq Server!Keys
BY DEF Server!Attempts, Server!Keys


-----------------------------------------------------------------------------
(* The steps of the agent *)

\* Range means the same in the agent.
LEMMA AgentRange == \A s : Agent!Range(s) = Range(s)
BY DEF Agent!Range, Range

\* AttemptTracker::MarkCompleted adds the attempt and perhaps forgets an old one.
LEMMA RecordFacts ==
  ASSUME AgentType, NEW k \in Server!Keys
  PROVE  /\ Agent!Recorded(k) \in Seq(Server!Keys) /\ Len(Agent!Recorded(k)) <= MaxCompleted
         /\ Range(Agent!Recorded(k)) \subseteq Range(finished) \cup {k}
<1> DEFINE all == IF k \in Range(finished) THEN finished ELSE Append(finished, k)
<1>1. finished \in Seq(Server!Keys) /\ Len(finished) \in Nat /\ Len(finished) <= MaxCompleted
  BY LenProperties DEF AgentType
<1>2. all \in Seq(Server!Keys) /\ Range(all) \subseteq Range(finished) \cup {k}
  BY SMT, <1>1, AppendFacts
<1>3. Len(all) \in Nat /\ Len(all) <= MaxCompleted + 1
  BY SMT, <1>1, AppendProperties, CollectionAssumption
<1>4. Agent!Recorded(k) = IF Len(all) > MaxCompleted THEN Tail(all) ELSE all
  BY AgentRange DEF Agent!Recorded
<1> HIDE DEF all
<1>5. CASE Len(all) > MaxCompleted
  <2>1. all # <<>>
    BY SMT, <1>3, <1>5, CollectionAssumption, EmptySeq
  <2>2. /\ Tail(all) \in Seq(Server!Keys) /\ Len(Tail(all)) = Len(all) - 1
        /\ Range(Tail(all)) \subseteq Range(all)
    BY SMT, <1>2, <2>1, TailFacts
  <2>3. Len(all) - 1 <= MaxCompleted
    BY SMT, <1>3, CollectionAssumption
  <2> QED
    BY <1>2, <1>4, <1>5, <2>2, <2>3
<1>6. CASE ~(Len(all) > MaxCompleted)
  <2>1. Len(all) <= MaxCompleted
    BY SMT, <1>3, <1>6, CollectionAssumption
  <2> QED
    BY <1>2, <1>4, <1>6, <2>1
<1> QED
  BY <1>5, <1>6

\* Covered when the server does not move: what leaves the agent is excused or noted.
LEMMA CoveredStep ==
  ASSUME Covered, UNCHANGED <<tasks, completed, relayed, asked, accepted>>,
         received \subseteq received', gone \subseteq gone', undelivered \subseteq undelivered',
         \A k \in Range(finished') \cup hb'.done :
           k \in Range(finished) \cup hb.done \/ k[1] \in asked \/ k \in received,
         \A k \in InReply \cup InAgent :
           \/ k \in InReply' \cup InAgent' \cup gone' \cup undelivered'
           \/ k[1] \in asked \/ k \in received
  PROVE  Covered'
<1>1. \A k : Excused(k) => Excused(k)'
  BY DEF Excused
<1>2. InTasks' = InTasks
  BY DEF InTasks
<1>3. \A k \in completed' \cup Range(finished') \cup hb'.done : Excused(k)'
  BY <1>1 DEF Covered, Excused
<1>4. \A k \in accepted' : \/ Excused(k)'
                           \/ k \in InTasks' \cup InReply' \cup InAgent' \cup gone' \cup undelivered'
  BY <1>1, <1>2 DEF Covered, Excused
<1> QED
  BY <1>3, <1>4 DEF Covered

\* What the agent holds stays known to the server when it gains nothing.
LEMMA KnownStep ==
  ASSUME Known, UNCHANGED <<cancels, dispatched, relayed>>,
         InAgent' \cup running' \cup hb'.task \subseteq InAgent \cup running \cup hb.task,
         hb'.cancels \subseteq hb.cancels,
         Range(finished') \cup hb'.done
           \subseteq Range(finished) \cup hb.done \cup InAgent \cup hb.cancels
  PROVE  Known'
BY DEF Known

\* No counter moves, and nothing new waits to be sampled.
LEMMA SampledStep ==
  ASSUME Sampled, UNCHANGED <<started, dispatched>>,
         InReply' \cup InAgentQueue' \subseteq InReply \cup InAgentQueue
  PROVE  Sampled'
BY DEF Sampled

\* AttemptTracker::MarkCompleted
LEMMA MarkedFacts ==
  ASSUME AgentType, NEW k \in Server!Keys, Agent!MarkCompleted(k)
  PROVE  /\ running' = running \ {k}
         /\ finished' \in Seq(Server!Keys) /\ Len(finished') <= MaxCompleted
         /\ Range(finished') \subseteq Range(finished) \cup {k}
         /\ cancelRequested' \subseteq cancelRequested
BY RecordFacts DEF Agent!MarkCompleted

\* A step of the agent alone.
LEMMA AgentStep ==
  ASSUME AgentInv, UNCHANGED serverVars, AgentType', HistoryType', Known', Shape',
         restarts = 0 /\ Apart /\ Sampled /\ Tracked /\ Covered
           => Apart' /\ Sampled' /\ Tracked' /\ Covered'
  PROVE  AgentInv'
<1>1. restarts' = restarts
  BY DEF serverVars
<1> QED
  BY <1>1 DEF AgentInv, Whole

\* Steps of the heartbeat thread that only concern the request and the list of cancellations.
LEMMA QuietStep ==
  ASSUME AgentInv, AgentType',
         UNCHANGED <<serverVars, history>>,
         UNCHANGED <<queue, running, finished, worker, uploads, uploader, started>>,
         hb.pc # "replied", hb'.pc # "replied", hb'.task \subseteq hb.task,
         hb'.cancels \subseteq hb.cancels, hb'.done \subseteq hb.done \cup Range(finished),
         hb'.pc = "sent" => Range(finished) \subseteq hb'.done
  PROVE  AgentInv'
<1>1. /\ UNCHANGED <<InReply, InAgentQueue, InUploads, InUploader, InAgent>>
      /\ UNCHANGED <<restarts, dispatched, relayed, cancels, received, gone, undelivered, accepted,
                     tasks, completed, asked>>
  BY DEF InReply, InAgentQueue, InUploads, InUploader, InAgent, serverVars, history
<1>2. HistoryType' /\ Shape'
  BY <1>1 DEF AgentInv, HistoryType, Shape, AtMostOne
<1>3. Known'
  BY <1>1, KnownStep DEF AgentInv
<1>4. ASSUME Apart, Sampled, Tracked, Covered
      PROVE  Apart' /\ Sampled' /\ Tracked' /\ Covered'
  <2>1. Apart'
    BY <1>1, <1>4 DEF Apart
  <2>2. Sampled'
    BY <1>1, <1>4, SampledStep
  <2>3. Tracked'
    BY <1>1, <1>4 DEF Tracked
  <2>4. Covered'
    BY <1>1, <1>4, CoveredStep
  <2> QED
    BY <2>1, <2>2, <2>3, <2>4
<1> QED
  BY <1>2, <1>3, <1>4, AgentStep

\* The steps of the heartbeat thread that only turn its own pages.
LEMMA QuietSteps ==
  ASSUME AgentInv, UNCHANGED <<serverVars, history>>,
         \/ Agent!HeartbeatSend \/ Agent!RequestCancel \/ Agent!HeartbeatDone
         \/ \E k \in hb.cancels : Agent!CancelSeesRunning(k)
  PROVE  AgentInv'
<1>1. UNCHANGED <<queue, running, finished, worker, uploads, uploader, started, failures>>
  BY DEF Agent!HeartbeatSend, Agent!RequestCancel, Agent!HeartbeatDone, Agent!CancelSeesRunning
<1>2. /\ hb \in HbType
      /\ Range(finished) \subseteq Server!Keys /\ cancelRequested \subseteq Server!Keys
  BY RangeOfSeq DEF AgentInv, AgentType
<1>3. CASE Agent!HeartbeatSend
  <2>1. /\ hb.pc = "idle" /\ cancelRequested' = cancelRequested
        /\ hb' = [pc |-> "sent", done |-> Range(finished), task |-> {}, cancels |-> {}, cur |-> {}]
    BY <1>3, AgentRange DEF Agent!HeartbeatSend, Agent!IdleHb
  <2>2. AgentType'
    BY <1>1, <1>2, <2>1 DEF AgentInv, AgentType, HbType, Agent!HeartbeatPc
  <2> QED
    BY <1>1, <2>1, <2>2, QuietStep
<1>4. CASE Agent!RequestCancel
  <2>1. /\ hb.pc = "marking" /\ hb' = [hb EXCEPT !.pc = "cancels", !.cur = {}]
        /\ cancelRequested' = cancelRequested \cup hb.cur
    BY <1>4 DEF Agent!RequestCancel
  <2>2. /\ hb'.pc = "cancels" /\ hb'.task = hb.task /\ hb'.cancels = hb.cancels
        /\ hb'.done = hb.done
        /\ hb' \in HbType
    BY <1>2, <2>1 DEF HbType, Agent!HeartbeatPc
  <2>3. AgentType'
    <3>1. cancelRequested' \subseteq Server!Keys
      BY <1>2, <2>1 DEF HbType
    <3> QED
      BY <1>1, <2>2, <3>1 DEF AgentInv, AgentType
  <2> QED
    BY <1>1, <2>1, <2>2, <2>3, QuietStep
<1>5. CASE Agent!HeartbeatDone
  <2>1. /\ hb.pc = "cancels" /\ cancelRequested' = cancelRequested
        /\ hb' = [pc |-> "idle", done |-> {}, task |-> {}, cancels |-> {}, cur |-> {}]
    BY <1>5 DEF Agent!HeartbeatDone, Agent!IdleHb
  <2>2. AgentType'
    BY <1>1, <1>2, <2>1 DEF AgentInv, AgentType, HbType, Agent!HeartbeatPc
  <2> QED
    BY <1>1, <2>1, <2>2, QuietStep
<1>6. ASSUME NEW k \in hb.cancels, Agent!CancelSeesRunning(k)
      PROVE  AgentInv'
  <2>1. /\ hb.pc = "cancels" /\ cancelRequested' = cancelRequested
        /\ hb' = [hb EXCEPT !.pc = "marking", !.cancels = @ \ {k}, !.cur = {k}]
    BY <1>6 DEF Agent!CancelSeesRunning
  <2>2. /\ hb'.pc = "marking" /\ hb'.task = hb.task /\ hb'.cancels \subseteq hb.cancels
        /\ hb'.done = hb.done
        /\ hb' \in HbType
    BY <1>2, <2>1 DEF HbType, Agent!HeartbeatPc
  <2>3. AgentType'
    <3>1. cancelRequested' \subseteq Server!Keys
      BY <1>2, <2>1 DEF HbType
    <3> QED
      BY <1>1, <2>2, <3>1 DEF AgentInv, AgentType
  <2> QED
    BY <1>1, <2>1, <2>2, <2>3, QuietStep
<1> QED
  BY <1>3, <1>4, <1>5, <1>6

\* TaskQueue::Push and MarkRunning of the attempt in the reply.
LEMMA ReceiveStep ==
  ASSUME AgentInv, UNCHANGED <<serverVars, history>>, Agent!HeartbeatReceive
  PROVE  AgentInv'
<1>1. /\ UNCHANGED <<finished, cancelRequested, worker, uploads, uploader, failures, started>>
      /\ UNCHANGED <<restarts, dispatched, relayed, cancels, received, gone, undelivered, accepted,
                     tasks, completed, asked>>
      /\ hb.pc = "replied" /\ hb' = [hb EXCEPT !.pc = "cancels"]
  BY DEF Agent!HeartbeatReceive, serverVars, history
<1>2. /\ hb'.pc = "cancels" /\ hb'.task = hb.task /\ hb'.cancels = hb.cancels /\ hb'.done = hb.done
      /\ hb' \in HbType /\ hb.task \subseteq Server!Keys
  BY <1>1 DEF AgentInv, AgentType, HbType, Agent!HeartbeatPc
<1>3. /\ UNCHANGED <<InUploads, InUploader>> /\ InReply = hb.task /\ InReply' = {}
  BY <1>1, <1>2 DEF InUploads, InUploader, InReply
<1>4. HistoryType' /\ Shape'
  BY <1>1, <1>2 DEF AgentInv, HistoryType, Shape, AtMostOne
<1>5. CASE hb.task = {} /\ UNCHANGED <<queue, running>>
  <2>1. AgentType'
    BY <1>1, <1>2, <1>5 DEF AgentInv, AgentType
  <2>2. UNCHANGED <<InReply, InAgentQueue, InAgent>>
    BY <1>1, <1>3, <1>5 DEF InAgentQueue, InAgent
  <2>3. Known'
    BY <1>1, <1>2, <1>5, <2>2, KnownStep DEF AgentInv
  <2>4. ASSUME Apart, Sampled, Tracked, Covered
        PROVE  Apart' /\ Sampled' /\ Tracked' /\ Covered'
    <3>1. Apart'
      BY <1>1, <1>3, <1>5, <2>2, <2>4 DEF Apart
    <3>2. Sampled'
      BY <1>1, <2>2, <2>4, SampledStep
    <3>3. Tracked'
      BY <1>1, <1>2, <1>3, <1>5, <2>2, <2>4 DEF Tracked
    <3>4. Covered'
      BY <1>1, <1>2, <2>2, <2>4, CoveredStep
    <3> QED
      BY <3>1, <3>2, <3>3, <3>4
  <2> QED
    BY <1>4, <2>1, <2>3, <2>4, AgentStep
<1>6. ASSUME NEW k \in hb.task, queue' = Append(queue, k), Agent!MarkRunning(k)
      PROVE  AgentInv'
  <2>1. hb.task = {k} /\ k \in Server!Keys
    BY <1>2 DEF AgentInv, Shape, AtMostOne
  <2>2. running' = IF k \in running \cup Range(finished) THEN running ELSE running \cup {k}
    BY <1>6, AgentRange DEF Agent!MarkRunning
  <2>3. /\ queue' \in Seq(Server!Keys) /\ InAgentQueue' = InAgentQueue \cup {k}
        /\ Distinct(queue) /\ k \notin InAgentQueue => Distinct(queue')
    BY SMT, <1>6, <2>1, AppendFacts DEF AgentInv, AgentType, InAgentQueue
  <2>4. AgentType'
    BY <1>1, <1>2, <2>1, <2>2, <2>3 DEF AgentInv, AgentType
  <2>5. InAgent' = InAgent \cup {k}
    BY <1>1, <1>3, <2>3 DEF InAgent
  <2>6. Known'
    BY <1>1, <1>2, <2>1, <2>2, <2>5, KnownStep DEF AgentInv
  <2>7. ASSUME Apart, Sampled, Tracked, Covered
        PROVE  Apart' /\ Sampled' /\ Tracked' /\ Covered'
    <3>0. k \notin InAgent /\ k \notin Range(finished)
      BY <1>3, <2>1, <2>7 DEF Apart, Tracked
    <3>1. Apart'
      BY <1>1, <1>3, <2>1, <2>3, <2>5, <2>7, <3>0 DEF Apart, InAgent
    <3>2. Sampled'
      BY <1>1, <1>3, <2>1, <2>3, <2>7, SampledStep
    <3>3. running' = running \cup {k}
      BY <2>2, <3>0
    <3>4. Tracked'
      BY <1>1, <1>2, <1>3, <2>1, <2>5, <2>7, <3>0, <3>3 DEF Tracked
    <3>5. Covered'
      BY <1>1, <1>2, <1>3, <2>1, <2>5, <2>7, CoveredStep
    <3> QED
      BY <3>1, <3>2, <3>4, <3>5
  <2> QED
    BY <1>4, <2>4, <2>6, <2>7, AgentStep
<1> QED
  BY <1>5, <1>6 DEF Agent!HeartbeatReceive

\* TaskQueue::CancelQueued and MarkCompleted.
LEMMA CancelQueuedStep ==
  ASSUME AgentInv, UNCHANGED <<serverVars, history>>, NEW k \in hb.cancels, Agent!CancelQueued(k)
  PROVE  AgentInv'
<1>1. /\ UNCHANGED <<worker, uploads, uploader, failures, started>>
      /\ UNCHANGED <<restarts, dispatched, relayed, cancels, received, gone, undelivered, accepted,
                     tasks, completed, asked>>
      /\ hb.pc = "cancels" /\ hb' = [hb EXCEPT !.cancels = @ \ {k}]
      /\ k \in InAgentQueue /\ queue' = Agent!WithoutFirst(queue, k) /\ Agent!MarkCompleted(k)
  BY AgentRange DEF Agent!CancelQueued, serverVars, history, InAgentQueue
<1>2. /\ hb'.pc = "cancels" /\ hb'.task = hb.task /\ hb'.cancels \subseteq hb.cancels
      /\ hb'.done = hb.done /\ hb' \in HbType /\ k \in Server!Keys
  BY <1>1 DEF AgentInv, AgentType, HbType
<1>3. /\ UNCHANGED <<InUploads, InUploader>> /\ InReply = {} /\ InReply' = {}
  BY <1>1, <1>2 DEF InUploads, InUploader, InReply
<1>4. HistoryType' /\ Shape'
  BY <1>1, <1>2 DEF AgentInv, HistoryType, Shape, AtMostOne
<1>5. /\ running' = running \ {k}
      /\ finished' \in Seq(Server!Keys) /\ Len(finished') <= MaxCompleted
      /\ Range(finished') \subseteq Range(finished) \cup {k}
      /\ cancelRequested' \subseteq cancelRequested
  BY <1>1, <1>2, MarkedFacts DEF AgentInv
<1>6. /\ queue' \in Seq(Server!Keys) /\ InAgentQueue' \subseteq InAgentQueue
      /\ Distinct(queue) => InAgentQueue' = InAgentQueue \ {k} /\ Distinct(queue')
  BY <1>1, RemoveFacts DEF AgentInv, AgentType, InAgentQueue
<1>7. AgentType'
  BY <1>1, <1>2, <1>5, <1>6 DEF AgentInv, AgentType
<1>8. InAgent' \subseteq InAgent /\ k \in InAgent
  BY <1>1, <1>3, <1>6 DEF InAgent
<1>9. Known'
  BY <1>1, <1>2, <1>5, <1>8, KnownStep DEF AgentInv
<1>10. ASSUME Apart, Sampled, Tracked, Covered
       PROVE  Apart' /\ Sampled' /\ Tracked' /\ Covered'
  <2>1. InAgent' = InAgent \ {k}
    BY <1>1, <1>3, <1>6, <1>10 DEF Apart, InAgent
  <2>2. Apart'
    BY <1>1, <1>3, <1>6, <1>10, <2>1 DEF Apart
  <2>3. Sampled'
    BY <1>1, <1>3, <1>6, <1>10, SampledStep
  <2>4. ~(started[k] > 0)
    BY <1>1, <1>2, <1>10 DEF Sampled
  <2>5. Tracked'
    BY <1>1, <1>2, <1>3, <1>5, <1>10, <2>1, <2>4 DEF Tracked
  <2>6. k[1] \in asked
    BY <1>10 DEF AgentInv, Known, Covered
  <2>7. Covered'
    BY <1>1, <1>2, <1>3, <1>5, <1>10, <2>1, <2>6, CoveredStep
  <2> QED
    BY <2>2, <2>3, <2>5, <2>7
<1> QED
  BY <1>4, <1>7, <1>9, <1>10, AgentStep

\* MarkCompleted of an attempt the agent does not have.
LEMMA CancelUnknownStep ==
  ASSUME AgentInv, UNCHANGED <<serverVars, history>>, NEW k \in hb.cancels, Agent!CancelUnknown(k)
  PROVE  AgentInv'
<1>1. /\ UNCHANGED <<queue, worker, uploads, uploader, failures, started>>
      /\ UNCHANGED <<restarts, dispatched, relayed, cancels, received, gone, undelivered, accepted,
                     tasks, completed, asked>>
      /\ hb.pc = "cancels" /\ hb' = [hb EXCEPT !.cancels = @ \ {k}]
      /\ k \notin running /\ Agent!MarkCompleted(k)
  BY DEF Agent!CancelUnknown, serverVars, history
<1>2. /\ hb'.pc = "cancels" /\ hb'.task = hb.task /\ hb'.cancels \subseteq hb.cancels
      /\ hb'.done = hb.done /\ hb' \in HbType /\ k \in Server!Keys
  BY <1>1 DEF AgentInv, AgentType, HbType
<1>3. /\ UNCHANGED <<InAgentQueue, InUploads, InUploader, InAgent>> /\ InReply = {} /\ InReply' = {}
  BY <1>1, <1>2 DEF InAgentQueue, InUploads, InUploader, InAgent, InReply
<1>4. HistoryType' /\ Shape'
  BY <1>1, <1>2 DEF AgentInv, HistoryType, Shape, AtMostOne
<1>5. /\ running' = running \ {k}
      /\ finished' \in Seq(Server!Keys) /\ Len(finished') <= MaxCompleted
      /\ Range(finished') \subseteq Range(finished) \cup {k}
      /\ cancelRequested' \subseteq cancelRequested
  BY <1>1, <1>2, MarkedFacts DEF AgentInv
<1>6. AgentType'
  BY <1>1, <1>2, <1>5 DEF AgentInv, AgentType
<1>7. Known'
  BY <1>1, <1>2, <1>3, <1>5, KnownStep DEF AgentInv
<1>8. ASSUME Apart, Sampled, Tracked, Covered
      PROVE  Apart' /\ Sampled' /\ Tracked' /\ Covered'
  <2>1. running' = running /\ k \notin InAgent
    BY <1>1, <1>5, <1>8 DEF Tracked
  <2>2. Apart'
    BY <1>1, <1>3, <1>8 DEF Apart
  <2>3. Sampled'
    BY <1>1, <1>3, <1>8, SampledStep
  <2>4. started[k] > 0 => k \in received \cup gone
    BY <1>1, <1>2, <1>8 DEF Tracked
  <2>5. Tracked'
    BY <1>1, <1>2, <1>3, <1>5, <1>8, <2>1, <2>4 DEF Tracked
  <2>6. k[1] \in asked
    BY <1>8 DEF AgentInv, Known, Covered
  <2>7. Covered'
    BY <1>1, <1>2, <1>3, <1>5, <1>8, <2>6, CoveredStep
  <2> QED
    BY <2>2, <2>3, <2>5, <2>7
<1> QED
  BY <1>4, <1>6, <1>7, <1>8, AgentStep

\* WorkerThread: TaskQueue::WaitPop, and the runner is started.
LEMMA TakeStep ==
  ASSUME AgentInv, UNCHANGED <<serverVars, history>>, Agent!WorkerTake
  PROVE  AgentInv'
<1> DEFINE k == Head(queue)
<1>1. /\ UNCHANGED <<hb, running, finished, cancelRequested, uploads, uploader, failures>>
      /\ UNCHANGED <<restarts, dispatched, relayed, cancels, received, gone, undelivered, accepted,
                     tasks, completed, asked>>
      /\ worker = {} /\ queue # <<>> /\ worker' = {k} /\ queue' = Tail(queue)
      /\ started' = [started EXCEPT ![k] = @ + 1]
  BY DEF Agent!WorkerTake, serverVars, history
<1>2. /\ queue' \in Seq(Server!Keys) /\ k \in Server!Keys
      /\ InAgentQueue = InAgentQueue' \cup {k}
      /\ Distinct(queue) => Distinct(queue') /\ k \notin InAgentQueue'
  BY <1>1, TailFacts DEF AgentInv, AgentType, InAgentQueue
<1> HIDE DEF k
<1>3. /\ started' \in [Server!Keys -> Nat] /\ started'[k] = started[k] + 1 /\ started[k] \in Nat
      /\ \A x \in Server!Keys : x # k => started'[x] = started[x]
  BY SMT, <1>1, <1>2 DEF AgentInv, AgentType
<1>4. UNCHANGED <<InUploads, InUploader, InReply>>
  BY <1>1 DEF InUploads, InUploader, InReply
<1>5. InAgent' = InAgent
  BY <1>1, <1>2, <1>4 DEF InAgent
<1>6. AgentType'
  BY <1>1, <1>2, <1>3 DEF AgentInv, AgentType
<1>7. HistoryType' /\ Shape'
  BY <1>1 DEF AgentInv, HistoryType, Shape, AtMostOne
<1>8. Known'
  BY <1>1, <1>5, KnownStep DEF AgentInv
<1>9. ASSUME Apart, Sampled, Tracked, Covered
      PROVE  Apart' /\ Sampled' /\ Tracked' /\ Covered'
  <2>1. k \in InAgentQueue /\ k \in InAgent /\ k \in dispatched /\ k \notin InReply
    BY <1>2, <1>9 DEF InAgent, Apart, AgentInv, Known
  <2>2. Apart'
    BY <1>1, <1>2, <1>4, <1>5, <1>9, <2>1 DEF Apart
  <2>3. started[k] = 0
    BY SMT, <1>2, <1>3, <1>9, <2>1 DEF Sampled
  <2>4. Sampled'
    <3> SUFFICES ASSUME NEW x \in Server!Keys
                 PROVE  /\ started'[x] <= 1
                        /\ started'[x] > 0 => x \in dispatched \ (InReply \cup InAgentQueue')
      BY <1>1, <1>4 DEF Sampled
    <3>1. CASE x = k
      BY SMT, <1>2, <1>3, <1>9, <2>1, <2>3, <3>1 DEF Apart
    <3>2. CASE x # k
      BY <1>2, <1>3, <1>9, <3>2 DEF Sampled
    <3> QED
      BY <3>1, <3>2
  <2>5. k \in running /\ k \notin Range(finished)
    BY <1>9, <2>1 DEF Tracked
  <2>6. \A x \in Server!Keys : started'[x] > 0 =>
          /\ x \in running \cup received \cup gone
          /\ x \in Range(finished) => x \in received \cup gone
    <3> SUFFICES ASSUME NEW x \in Server!Keys, started'[x] > 0
                 PROVE  /\ x \in running \cup received \cup gone
                        /\ x \in Range(finished) => x \in received \cup gone
      OBVIOUS
    <3>1. CASE x = k
      BY <2>5, <3>1
    <3>2. CASE x # k
      BY <1>3, <1>9, <3>2 DEF Tracked
    <3> QED
      BY <3>1, <3>2
  <2>7. Tracked'
    BY <1>1, <1>4, <1>5, <1>9, <2>6 DEF Tracked
  <2>8. Covered'
    BY <1>1, <1>4, <1>5, <1>9, CoveredStep
  <2> QED
    BY <2>2, <2>4, <2>7, <2>8
<1> QED
  BY <1>6, <1>7, <1>8, <1>9, AgentStep

\* UploadQueue::Push when the runner has ended or was stopped.
LEMMA EndStep ==
  ASSUME AgentInv, UNCHANGED <<serverVars, history>>, Agent!WorkerFinish \/ Agent!WorkerCancel
  PROVE  AgentInv'
<1>1. /\ UNCHANGED <<hb, queue, running, finished, cancelRequested, uploader, failures, started>>
      /\ UNCHANGED <<restarts, dispatched, relayed, cancels, received, gone, undelivered, accepted,
                     tasks, completed, asked>>
      /\ worker' = {}
  BY DEF Agent!WorkerFinish, Agent!WorkerCancel, serverVars, history
<1>2. PICK k \in worker, result \in Agent!Results :
        uploads' = Append(uploads, [key |-> k, result |-> result])
  BY DEF Agent!WorkerFinish, Agent!WorkerCancel, Agent!Results
<1> DEFINE job == [key |-> k, result |-> result]
<1>3. worker = {k} /\ k \in Server!Keys /\ job \in Agent!UploadJob /\ job.key = k
  BY DEF AgentInv, AgentType, Shape, AtMostOne, Agent!UploadJob
<1> HIDE DEF job
<1>4. /\ uploads' \in Seq(Agent!UploadJob) /\ InUploads' = InUploads \cup {k}
      /\ DistinctKeys(uploads) /\ k \notin InUploads => DistinctKeys(uploads')
  <2>1. uploads' = Append(uploads, job)
    BY <1>2 DEF job
  <2> QED
    BY SMT, <1>3, <2>1, AppendFacts DEF AgentInv, AgentType, InUploads
<1>5. UNCHANGED <<InAgentQueue, InUploader, InReply>>
  BY <1>1 DEF InAgentQueue, InUploader, InReply
<1>6. InAgent' = InAgent
  BY <1>1, <1>3, <1>4, <1>5 DEF InAgent
<1>7. AgentType'
  BY <1>1, <1>4 DEF AgentInv, AgentType
<1>8. HistoryType' /\ Shape'
  BY <1>1 DEF AgentInv, HistoryType, Shape, AtMostOne
<1>9. Known'
  BY <1>1, <1>6, KnownStep DEF AgentInv
<1>10. ASSUME Apart, Sampled, Tracked, Covered
       PROVE  Apart' /\ Sampled' /\ Tracked' /\ Covered'
  <2>1. Apart'
    BY <1>1, <1>3, <1>4, <1>5, <1>6, <1>10 DEF Apart
  <2>2. Sampled'
    BY <1>1, <1>5, <1>10, SampledStep
  <2>3. Tracked'
    BY <1>1, <1>5, <1>6, <1>10 DEF Tracked
  <2>4. Covered'
    BY <1>1, <1>5, <1>6, <1>10, CoveredStep
  <2> QED
    BY <2>1, <2>2, <2>3, <2>4
<1> QED
  BY <1>7, <1>8, <1>9, <1>10, AgentStep

\* The upload worker has a job exactly while it is not idle.
LEMMA JobFacts ==
  ASSUME AgentType, Shape
  PROVE  /\ uploader.pc = "idle" => InUploader = {}
         /\ uploader.pc # "idle" => /\ InUploader = {uploader.job[1].key}
                                    /\ uploader.job[1].key \in Server!Keys
<1> DEFINE s == uploader.job
<1>1. s \in Seq(Agent!UploadJob) /\ Len(s) \in Nat /\ DOMAIN s = 1..Len(s) /\ Len(s) <= 1
  BY LenProperties DEF AgentType, UploaderType, Shape
<1>2. uploader.pc = "idle" <=> s = <<>>
  BY DEF Shape
<1>3. InUploader = {s[i].key : i \in DOMAIN s}
  BY DEF InUploader, Keyed
<1> HIDE DEF s
<1>4. CASE uploader.pc = "idle"
  <2>1. Len(s) = 0
    BY <1>1, <1>2, <1>4, EmptySeq
  <2> QED
    BY SMT, <1>1, <1>3, <1>4, <2>1
<1>5. CASE uploader.pc # "idle"
  <2>1. Len(s) = 1
    BY SMT, <1>1, <1>2, <1>5, EmptySeq
  <2>2. DOMAIN s = 1..1
    BY <1>1, <2>1
  <2>3. DOMAIN s = {1}
    BY SMT, <2>2
  <2>4. s[1] \in Agent!UploadJob
    BY <1>1, <2>1, OneElement
  <2>5. InUploader = {s[1].key} /\ s[1].key \in Server!Keys
    BY <1>3, <2>3, <2>4 DEF Agent!UploadJob
  <2> QED
    BY <1>5, <2>5 DEF s
<1> QED
  BY <1>4, <1>5

\* The uploader after its job.
LEMMA IdleUploaderFacts ==
  ASSUME uploader' = Agent!IdleUploader
  PROVE  /\ uploader' \in UploaderType /\ uploader'.pc = "idle" /\ uploader'.job = <<>>
         /\ InUploader' = {} /\ Len(uploader'.job) <= 1
<1>1. uploader' = [pc |-> "idle", job |-> <<>>, tries |-> 0]
  BY DEF Agent!IdleUploader
<1>2. DOMAIN <<>> = {} /\ Len(<<>>) = 0 /\ \A S : <<>> \in Seq(S)
  BY SMT, EmptySeq, LenProperties
<1>3. uploader'.pc = "idle" /\ uploader'.job = <<>> /\ uploader' \in UploaderType
  BY SMT, <1>1, <1>2, CollectionAssumption DEF UploaderType
<1> QED
  BY SMT, <1>2, <1>3 DEF InUploader, Keyed

\* UploadQueue::WaitPop
LEMMA UploadStep ==
  ASSUME AgentInv, UNCHANGED <<serverVars, history>>, Agent!UploaderTake
  PROVE  AgentInv'
<1> DEFINE job == Head(uploads)
<1>1. /\ UNCHANGED <<hb, queue, running, finished, cancelRequested, worker, failures, started>>
      /\ UNCHANGED <<restarts, dispatched, relayed, cancels, received, gone, undelivered, accepted,
                     tasks, completed, asked>>
      /\ uploader.pc = "idle" /\ uploads # <<>> /\ uploads' = Tail(uploads)
      /\ uploader' = [pc |-> "sending", job |-> <<job>>, tries |-> 0]
  BY DEF Agent!UploaderTake, serverVars, history
<1>2. /\ uploads' \in Seq(Agent!UploadJob) /\ job \in Agent!UploadJob
      /\ InUploads = InUploads' \cup {job.key}
      /\ DistinctKeys(uploads) => DistinctKeys(uploads') /\ job.key \notin InUploads'
  BY <1>1, TailFacts DEF AgentInv, AgentType, InUploads
<1> HIDE DEF job
<1>3. /\ uploader'.pc = "sending" /\ uploader'.job = <<job>> /\ uploader' \in UploaderType
  <2>1. <<job>> \in Seq(Agent!UploadJob)
    BY SMT, <1>2
  <2> QED
    BY SMT, <1>1, <2>1, CollectionAssumption DEF UploaderType
<1>4. InUploader = {} /\ InUploader' = {job.key}
  <2>1. InUploader = {}
    BY <1>1, JobFacts DEF AgentInv
  <2>2. DOMAIN <<job>> = {1} /\ <<job>>[1] = job
    BY SMT
  <2> QED
    BY SMT, <1>3, <2>1, <2>2 DEF InUploader, Keyed
<1>5. UNCHANGED <<InAgentQueue, InReply>>
  BY <1>1 DEF InAgentQueue, InReply
<1>6. InAgent' = InAgent
  BY <1>1, <1>2, <1>4, <1>5 DEF InAgent
<1>7. AgentType'
  BY <1>1, <1>2, <1>3 DEF AgentInv, AgentType
<1>8. HistoryType' /\ Shape'
  <2>1. Len(<<job>>) = 1 /\ <<job>> # <<>>
    OBVIOUS
  <2> QED
    BY SMT, <1>1, <1>3, <2>1 DEF AgentInv, HistoryType, Shape, AtMostOne
<1>9. Known'
  BY <1>1, <1>6, KnownStep DEF AgentInv
<1>10. ASSUME Apart, Sampled, Tracked, Covered
       PROVE  Apart' /\ Sampled' /\ Tracked' /\ Covered'
  <2>1. Apart'
    BY <1>1, <1>2, <1>4, <1>5, <1>6, <1>10 DEF Apart
  <2>2. Sampled'
    BY <1>1, <1>5, <1>10, SampledStep
  <2>3. Tracked'
    BY <1>1, <1>3, <1>5, <1>6, <1>10 DEF Tracked
  <2>4. Covered'
    BY <1>1, <1>5, <1>6, <1>10, CoveredStep
  <2> QED
    BY <2>1, <2>2, <2>3, <2>4
<1> QED
  BY <1>7, <1>8, <1>9, <1>10, AgentStep

\* DeliverResultAndMarkCompleted, when NotifyResult has been answered.
LEMMA AcknowledgedStep ==
  ASSUME AgentInv, UNCHANGED <<serverVars, history>>, Agent!UploaderAcknowledged
  PROVE  AgentInv'
<1> DEFINE k == uploader.job[1].key
<1>1. /\ UNCHANGED <<hb, queue, worker, uploads, failures, started>>
      /\ UNCHANGED <<restarts, dispatched, relayed, cancels, received, gone, undelivered, accepted,
                     tasks, completed, asked>>
      /\ uploader.pc = "served" /\ uploader' = Agent!IdleUploader /\ Agent!MarkCompleted(k)
  BY DEF Agent!UploaderAcknowledged, serverVars, history
<1>2. InUploader = {k} /\ k \in Server!Keys
  BY <1>1, JobFacts DEF AgentInv
<1> HIDE DEF k
<1>3. /\ uploader' \in UploaderType /\ uploader'.pc = "idle" /\ uploader'.job = <<>>
      /\ InUploader' = {} /\ Len(uploader'.job) <= 1
  BY <1>1, IdleUploaderFacts
<1>4. /\ running' = running \ {k}
      /\ finished' \in Seq(Server!Keys) /\ Len(finished') <= MaxCompleted
      /\ Range(finished') \subseteq Range(finished) \cup {k}
      /\ cancelRequested' \subseteq cancelRequested
  BY <1>1, <1>2, MarkedFacts DEF AgentInv
<1>5. UNCHANGED <<InAgentQueue, InUploads, InReply>>
  BY <1>1 DEF InAgentQueue, InUploads, InReply
<1>6. InAgent' \subseteq InAgent /\ k \in InAgent /\ InAgent \subseteq InAgent' \cup {k}
  BY <1>1, <1>2, <1>3, <1>5 DEF InAgent
<1>7. AgentType'
  BY <1>1, <1>3, <1>4 DEF AgentInv, AgentType
<1>8. HistoryType' /\ Shape'
  BY <1>1, <1>3 DEF AgentInv, HistoryType, Shape, AtMostOne
<1>9. Known'
  BY <1>1, <1>4, <1>6, KnownStep DEF AgentInv
<1>10. ASSUME Apart, Sampled, Tracked, Covered
       PROVE  Apart' /\ Sampled' /\ Tracked' /\ Covered'
  <2>1. k \notin InAgent' /\ k \notin InReply
    BY <1>1, <1>2, <1>3, <1>5, <1>6, <1>10 DEF Apart, InAgent
  <2>2. Apart'
    BY <1>1, <1>2, <1>3, <1>5, <1>6, <1>10 DEF Apart
  <2>3. Sampled'
    BY <1>1, <1>5, <1>10, SampledStep
  <2>4. k \in received /\ k \in dispatched
    BY <1>1, <1>2, <1>6, <1>10 DEF Tracked, AgentInv, Known
  <2>5. Tracked'
    BY <1>1, <1>3, <1>4, <1>5, <1>6, <1>10, <2>1, <2>4 DEF Tracked
  <2>6. Covered'
    BY <1>1, <1>4, <1>5, <1>6, <1>10, <2>4, CoveredStep
  <2> QED
    BY <2>2, <2>3, <2>5, <2>6
<1> QED
  BY <1>7, <1>8, <1>9, <1>10, AgentStep

\* A failed NotifyResult: it is tried again, or given up.
LEMMA NotifyFailStep ==
  ASSUME AgentInv, NotifyFail, ServerOK
  PROVE  AgentInv'
<1> DEFINE k == uploader.job[1].key
<1>1. /\ UNCHANGED <<hb, queue, running, finished, cancelRequested, worker, uploads, started>>
      /\ UNCHANGED <<restarts, dispatched, relayed, cancels, received, gone, accepted,
                     tasks, completed, asked, serverVars>>
      /\ uploader.pc \in {"sending", "served"} /\ failures' \in 0..MaxFailures
      /\ undelivered' = IF uploader'.pc = "idle" THEN undelivered \cup {k} ELSE undelivered
  <2>1. failures \in 0..MaxFailures
    BY DEF AgentInv, AgentType
  <2> QED
    BY SMT, <2>1, CollectionAssumption DEF NotifyFail, Agent!UploaderFail, serverVars
<1>2. InUploader = {k} /\ k \in Server!Keys
  BY <1>1, JobFacts DEF AgentInv
<1>3. k \in Server!Attempts
  BY <1>2 DEF ServerOK, AgentInv, Known, InAgent
<1> HIDE DEF k
<1>4. /\ uploader' \in UploaderType
      /\ uploader'.pc = "idle" <=> uploader'.job = <<>>
      /\ Len(uploader'.job) <= 1
      /\ \/ uploader'.pc = "sending" /\ InUploader' = InUploader
         \/ uploader'.pc = "idle" /\ InUploader' = {}
  <2>1. CASE uploader' = Agent!IdleUploader
    BY <2>1, IdleUploaderFacts
  <2>2. CASE /\ uploader' = [uploader EXCEPT !.pc = "sending", !.tries = @ + 1]
             /\ uploader.tries + 1 < MaxNotify
    <3>1. uploader \in UploaderType
      BY DEF AgentInv, AgentType
    <3>2. uploader.tries + 1 \in 0..MaxNotify
      BY SMT, <2>2, <3>1, CollectionAssumption DEF UploaderType
    <3>3. uploader' \in UploaderType /\ uploader'.pc = "sending" /\ uploader'.job = uploader.job
      BY <2>2, <3>1, <3>2 DEF UploaderType
    <3>4. InUploader' = InUploader
      BY <3>3 DEF InUploader
    <3> QED
      BY <1>1, <3>3, <3>4 DEF AgentInv, Shape
  <2> QED
    BY <2>1, <2>2 DEF NotifyFail, Agent!UploaderFail
<1>5. UNCHANGED <<InAgentQueue, InUploads, InReply>>
  BY <1>1 DEF InAgentQueue, InUploads, InReply
<1>6. InAgent' \subseteq InAgent /\ InAgent \subseteq InAgent' \cup undelivered'
  BY <1>1, <1>2, <1>4, <1>5 DEF InAgent
<1>7. AgentType'
  BY <1>1, <1>4 DEF AgentInv, AgentType
<1>8. HistoryType' /\ Shape'
  BY <1>1, <1>3, <1>4 DEF AgentInv, HistoryType, Shape, AtMostOne
<1>9. Known'
  BY <1>1, <1>6, KnownStep DEF AgentInv
<1>10. ASSUME Apart, Sampled, Tracked, Covered
       PROVE  Apart' /\ Sampled' /\ Tracked' /\ Covered'
  <2>1. Apart'
    BY <1>1, <1>4, <1>5, <1>6, <1>10 DEF Apart
  <2>2. Sampled'
    BY <1>1, <1>5, <1>10, SampledStep
  <2>3. Tracked'
    BY <1>1, <1>4, <1>5, <1>6, <1>10 DEF Tracked
  <2>4. undelivered \subseteq undelivered'
    BY <1>1
  <2>5. Covered'
    BY <1>1, <1>5, <1>6, <1>10, <2>4, CoveredStep
  <2> QED
    BY <2>1, <2>2, <2>3, <2>5
<1> QED
  BY <1>1, <1>7, <1>8, <1>9, <1>10, AgentStep

\* The heartbeat thread between two rounds.
LEMMA IdleHbFacts ==
  ASSUME hb' = Agent!IdleHb
  PROVE  /\ hb' \in HbType /\ hb'.pc = "idle" /\ InReply' = {}
         /\ hb'.task = {} /\ hb'.cancels = {} /\ hb'.done = {}
<1>1. hb' = [pc |-> "idle", done |-> {}, task |-> {}, cancels |-> {}, cur |-> {}]
  BY DEF Agent!IdleHb
<1>2. hb'.pc = "idle" /\ hb'.task = {} /\ hb'.cancels = {} /\ hb'.done = {} /\ hb' \in HbType
  BY SMT, <1>1 DEF HbType, Agent!HeartbeatPc
<1> QED
  BY <1>2 DEF InReply

\* A heartbeat fails, with or without the server's knowledge; the reply is lost.
LEMMA HeartbeatFailStep ==
  ASSUME AgentInv, HeartbeatFail, ServerOK
  PROVE  AgentInv'
<1>1. /\ UNCHANGED <<queue, running, finished, cancelRequested, worker, uploads, uploader, started>>
      /\ UNCHANGED <<restarts, dispatched, relayed, cancels, received, undelivered, accepted,
                     tasks, completed, asked, serverVars>>
      /\ hb' = Agent!IdleHb /\ gone' = gone \cup hb.task /\ failures' \in 0..MaxFailures
  <2>1. failures \in 0..MaxFailures
    BY DEF AgentInv, AgentType
  <2> QED
    BY SMT, <2>1, CollectionAssumption DEF HeartbeatFail, Agent!HeartbeatFail, serverVars
<1>2. /\ hb' \in HbType /\ hb'.pc = "idle" /\ InReply' = {}
      /\ hb'.task = {} /\ hb'.cancels = {} /\ hb'.done = {}
  BY <1>1, IdleHbFacts
<1>3. UNCHANGED <<InAgentQueue, InUploads, InUploader, InAgent>>
  BY <1>1 DEF InAgentQueue, InUploads, InUploader, InAgent
<1>4. hb.task \subseteq Server!Attempts /\ InReply \subseteq hb.task
  BY DEF ServerOK, AgentInv, Known, InReply
<1>5. AgentType'
  BY <1>1, <1>2 DEF AgentInv, AgentType
<1>6. HistoryType' /\ Shape'
  BY <1>1, <1>2, <1>4 DEF AgentInv, HistoryType, Shape, AtMostOne
<1>7. Known'
  BY <1>1, <1>2, <1>3, KnownStep DEF AgentInv
<1>8. ASSUME Apart, Sampled, Tracked, Covered
      PROVE  Apart' /\ Sampled' /\ Tracked' /\ Covered'
  <2>1. Apart'
    BY <1>1, <1>2, <1>3, <1>8 DEF Apart
  <2>2. Sampled'
    BY <1>1, <1>2, <1>3, <1>8, SampledStep
  <2>3. Tracked'
    BY <1>1, <1>2, <1>3, <1>8 DEF Tracked
  <2>4. Covered'
    BY <1>1, <1>2, <1>3, <1>4, <1>8, CoveredStep
  <2> QED
    BY <2>1, <2>2, <2>3, <2>4
<1> QED
  BY <1>1, <1>5, <1>6, <1>7, <1>8, AgentStep

\* The agent's process dies and comes back.
LEMMA RestartStep ==
  ASSUME AgentInv, AgentRestart, ServerOK
  PROVE  AgentInv'
<1>1. /\ queue' = <<>> /\ running' = {} /\ finished' = <<>> /\ cancelRequested' = {}
      /\ worker' = {} /\ uploads' = <<>> /\ uploader' = Agent!IdleUploader /\ started' = started
      /\ UNCHANGED <<restarts, dispatched, relayed, cancels, received, undelivered, accepted,
                     tasks, completed, asked, serverVars>>
      /\ hb' = Agent!IdleHb /\ failures' \in 0..MaxFailures
      /\ gone' = gone \cup hb.task \cup (running \cap Server!Attempts)
  <2>1. failures \in 0..MaxFailures
    BY DEF AgentInv, AgentType
  <2> QED
    BY SMT, <2>1, CollectionAssumption DEF AgentRestart, Agent!AgentRestart, serverVars
<1>2. /\ hb' \in HbType /\ hb'.pc = "idle" /\ InReply' = {}
      /\ hb'.task = {} /\ hb'.cancels = {} /\ hb'.done = {}
  BY <1>1, IdleHbFacts
<1>3. /\ uploader' \in UploaderType /\ uploader'.pc = "idle" /\ uploader'.job = <<>>
      /\ InUploader' = {} /\ Len(uploader'.job) <= 1
  BY <1>1, IdleUploaderFacts
<1>4. /\ DOMAIN <<>> = {} /\ Len(<<>>) = 0 /\ \A S : <<>> \in Seq(S)
      /\ Range(<<>>) = {} /\ Keyed(<<>>) = {} /\ Distinct(<<>>) /\ DistinctKeys(<<>>)
  BY SMT, EmptySeq, LenProperties DEF Range, Keyed, Distinct, DistinctKeys
<1>5. InAgentQueue' = {} /\ InUploads' = {} /\ Range(finished') = {} /\ InAgent' = {}
  BY <1>1, <1>3, <1>4 DEF InAgentQueue, InUploads, InAgent
<1>6. /\ hb.task \cup (running \cap Server!Attempts) \subseteq Server!Attempts
      /\ InReply \subseteq hb.task /\ InAgent \subseteq Server!Attempts
  BY DEF ServerOK, AgentInv, Known, InReply
<1>7. AgentType'
  BY SMT, <1>1, <1>2, <1>3, <1>4, CollectionAssumption DEF AgentInv, AgentType
<1>8. HistoryType' /\ Shape'
  BY <1>1, <1>2, <1>3, <1>6 DEF AgentInv, HistoryType, Shape, AtMostOne
<1>9. Known'
  BY <1>1, <1>2, <1>5, KnownStep DEF AgentInv
<1>10. ASSUME Apart, Sampled, Tracked, Covered
       PROVE  Apart' /\ Sampled' /\ Tracked' /\ Covered'
  <2>1. Apart'
    BY <1>1, <1>2, <1>3, <1>4, <1>5 DEF Apart
  <2>2. Sampled'
    BY <1>1, <1>2, <1>5, <1>10, SampledStep
  <2>3. Tracked'
    <3>1. \A k \in Server!Keys : started[k] > 0 => k \in received \cup gone'
      <4> SUFFICES ASSUME NEW k \in Server!Keys, started[k] > 0
                   PROVE  k \in received \cup gone'
        OBVIOUS
      <4>1. k \in running \cup received \cup gone
        BY <1>10 DEF Tracked
      <4>2. k \in Server!Attempts
        BY <1>10 DEF Sampled, ServerOK
      <4> QED
        BY <1>1, <4>1, <4>2
    <3> QED
      BY <1>1, <1>2, <1>3, <1>5, <3>1 DEF Tracked
  <2>4. InReply \cup InAgent \subseteq gone'
    BY <1>1, <1>6, <1>10 DEF Tracked
  <2>5. Covered'
    BY <1>1, <1>2, <1>5, <1>10, <2>4, CoveredStep
  <2> QED
    BY <2>1, <2>2, <2>3, <2>5
<1> QED
  BY <1>1, <1>7, <1>8, <1>9, <1>10, AgentStep

\* The steps of the agent's threads that need no answer.
LEMMA LocalSteps ==
  ASSUME AgentInv, AgentLocal
  PROVE  AgentInv'
<1>1. UNCHANGED <<serverVars, history>> /\ Agent!LocalStep
  BY DEF AgentLocal
<1>2. CASE \/ Agent!HeartbeatSend \/ Agent!RequestCancel \/ Agent!HeartbeatDone
           \/ \E k \in hb.cancels : Agent!CancelSeesRunning(k)
  BY <1>1, <1>2, QuietSteps
<1>3. ASSUME NEW k \in hb.cancels, Agent!CancelQueued(k) \/ Agent!CancelUnknown(k)
      PROVE  AgentInv'
  BY <1>1, <1>3, CancelQueuedStep, CancelUnknownStep
<1>4. CASE Agent!HeartbeatReceive
  BY <1>1, <1>4, ReceiveStep
<1>5. CASE Agent!WorkerTake
  BY <1>1, <1>5, TakeStep
<1>6. CASE Agent!WorkerFinish \/ Agent!WorkerCancel
  BY <1>1, <1>6, EndStep
<1>7. CASE Agent!UploaderTake
  BY <1>1, <1>7, UploadStep
<1>8. CASE Agent!UploaderAcknowledged
  BY <1>1, <1>8, AcknowledgedStep
<1> QED
  BY <1>1, <1>2, <1>3, <1>4, <1>5, <1>6, <1>7, <1>8 DEF Agent!LocalStep


-----------------------------------------------------------------------------
(* The steps of the server *)

Contents(q) == {q[i] : i \in DOMAIN q}

\* What the operations of TaskQueue.cpp do to what is in the queue: the pop of a heartbeat drops
\* only what is canceled or has ended.
PopOK(done) ==
  /\ Server!Popped(tasks[Me], done) \subseteq InTasks \ done
  /\ AtMostOne(Server!Popped(tasks[Me], done))
  /\ Contents(Server!Rest(tasks[Me], done)) \subseteq Contents(tasks[Me])
  /\ \A x \in Contents(tasks[Me]) : \/ x \in Contents(Server!Rest(tasks[Me], done))
                                    \/ x.key \in Server!Popped(tasks[Me], done)
                                    \/ x.canceled
                                    \/ x.key \in done

InsertOK(item) == Contents(Server!InsertSorted(tasks[Me], item)) = Contents(tasks[Me]) \cup {item}

MarkOK(q, tid) ==
  /\ \A x \in Contents(q) : \E y \in Contents(tasks[Me]) :
       x.key = y.key /\ (x.canceled => y.canceled \/ y.key[1] = tid)
  /\ \A y \in Contents(tasks[Me]) : \E x \in Contents(q) : x.key = y.key

QueueOK ==
  /\ \A done : PopOK(done)
  /\ \A item \in Server!Item : InsertOK(item)
  /\ \A tid, att : MarkOK(Server!MarkCanceled(tasks[Me], tid, att), tid)

\* Nothing expires here, and the one queue is the target of every attempt.
LEMMA NoDeadlines ==
  ASSUME NEW k \in Server!Keys
  PROVE  ~Server!Expired(k) /\ [t \in Tids |-> Me][k[1]] = Me
BY SMT DEF Server!Expired, Server!Keys

\* The keys of the items of a queue.
LEMMA InContents ==
  ASSUME NEW q
  PROVE  /\ \A x \in Contents(q) : x.key \in Keyed(q)
         /\ \A k \in Keyed(q) : \E x \in Contents(q) : x.key = k
BY DEF Contents, Keyed

\* What is canceled in the queue was asked for.
CanceledAsked == \A x \in Contents(tasks[Me]) : x.canceled => x.key[1] \in asked

\* CanceledAsked, by positions.
LEMMA CoveredCanceled ==
  CanceledAsked <=>
      \A i \in DOMAIN tasks[Me] : tasks[Me][i].canceled => tasks[Me][i].key[1] \in asked
BY DEF CanceledAsked, Contents

\* A step after which the agent is where it was.
LEMMA AgentStill ==
  ASSUME UNCHANGED agentVars
  PROVE  /\ UNCHANGED <<InReply, InAgentQueue, InUploads, InUploader, InAgent, AgentType, Shape>>
         /\ UNCHANGED <<hb, queue, running, finished, worker, uploads, uploader, started>>
<1>1. UNCHANGED <<hb, queue, running, finished, cancelRequested, worker, uploads, uploader,
                  failures, started>>
  BY DEF agentVars
<1>2. UNCHANGED <<InReply, InAgentQueue, InUploads, InUploader>>
  BY <1>1 DEF InReply, InAgentQueue, InUploads, InUploader
<1>3. InAgent' = InAgent
  BY <1>1, <1>2 DEF InAgent
<1>4. AgentType' = AgentType
  BY <1>1 DEF AgentType
<1>5. Shape' = Shape
  BY <1>1 DEF Shape, AtMostOne
<1> QED
  BY <1>1, <1>2, <1>3, <1>4, <1>5

\* Snapshots, the end of a process and its start.
LEMMA ServerSteps ==
  ASSUME ServerOK, AgentInv, ServerStep
  PROVE  AgentInv'
<1>1. /\ UNCHANGED agentVars /\ UNCHANGED <<accepted, received, gone, undelivered>>
      /\ Server!ServerStep
  BY DEF ServerStep, history
<1>2. restarts \in Nat /\ (restarts = 0 => unread[Me] = <<>>)
  BY DEF ServerOK
<1>3. /\ UNCHANGED <<dispatched, relayed, asked>>
      /\ cancels'[Me] \subseteq cancels[Me]
      /\ restarts' = 0 => UNCHANGED <<restarts, tasks, completed>>
  <2>1. CASE Server!Start
    <3>1. restarts' = restarts + 1 /\ UNCHANGED <<dispatched, relayed, asked>>
          /\ cancels' = Server!NoCancels
      BY <2>1 DEF Server!Start
    <3>2. restarts' # 0
      BY SMT, <1>2, <3>1
    <3> QED
      BY <3>1, <3>2 DEF Server!NoCancels
  <2>2. ASSUME NEW ip \in {Me}, Server!RestoreRecord(ip)
        PROVE  restarts # 0 /\ UNCHANGED <<dispatched, relayed, asked, restarts, cancels>>
    BY <1>2, <2>2 DEF Server!RestoreRecord
  <2>3. CASE \/ Server!SnapshotWrite \/ Server!SnapshotRename \/ Server!FinalSnapshot
             \/ Server!Shutdown \/ Server!Crash
             \/ Server!Serve
    BY <2>3 DEF Server!SnapshotWrite, Server!SnapshotRename, Server!FinalSnapshot,
                Server!Shutdown, Server!Crash, Server!Serve
  <2> QED
    BY <1>1, <2>1, <2>2, <2>3 DEF Server!ServerStep
<1>4. /\ UNCHANGED <<InReply, InAgentQueue, InUploads, InUploader, InAgent, AgentType, Shape>>
      /\ UNCHANGED <<hb, queue, running, finished, worker, uploads, uploader, started>>
  BY <1>1, AgentStill
<1>5. AgentType' /\ Shape' /\ HistoryType'
  BY <1>1, <1>4 DEF AgentInv, HistoryType
<1>6. Known'
  BY <1>3, <1>4 DEF AgentInv, Known
<1>7. ASSUME restarts' = 0
      PROVE  Apart' /\ Sampled' /\ Tracked' /\ Covered'
  <2>1. Apart /\ Sampled /\ Tracked /\ Covered
    BY <1>3, <1>7 DEF AgentInv, Whole
  <2>2. UNCHANGED <<tasks, completed>>
    BY <1>3, <1>7
  <2>3. Apart'
    BY <1>4, <2>1 DEF Apart
  <2>4. Sampled'
    BY <1>3, <1>4, <2>1, SampledStep
  <2>5. Tracked'
    BY <1>1, <1>3, <1>4, <2>1 DEF Tracked
  <2>6. Covered'
    BY <1>1, <1>3, <1>4, <2>1, <2>2, CoveredStep
  <2> QED
    BY <2>3, <2>4, <2>5, <2>6
<1> QED
  BY <1>5, <1>6, <1>7 DEF AgentInv, Whole

\* HealthCheckService::Do: the attempt that is popped has been nowhere else, and what is
\* dropped on the way was canceled or has ended.
LEMMA ServeHeartbeatStep ==
  ASSUME ServerOK, QueueOK, AgentInv, ServeHeartbeat
  PROVE  AgentInv'
<1> DEFINE done == completed \cup hb.done
           q == tasks[Me]
           pop == Server!Popped(q, done)
           rest == Server!Rest(q, done)
<1>0. AgentType /\ HistoryType /\ Known /\ Shape
  BY DEF AgentInv
<1>1. /\ hb.pc = "sent" /\ completed' = done
      /\ tasks' = [tasks EXCEPT ![Me] = rest]
      /\ cancels' = [ip \in {Me} |-> cancels[ip] \ hb.done]
      /\ dispatched' = dispatched \cup pop
      /\ hb' = [hb EXCEPT !.pc = "replied", !.task = pop, !.cancels = cancels'[Me]]
      /\ UNCHANGED <<restarts, relayed, asked, sent>>
      /\ UNCHANGED <<queue, running, finished, cancelRequested, worker, uploads, uploader,
                     failures, started, accepted, received, gone, undelivered>>
  <2>1. Server!HealthCheckDo(Me, hb.done)
    BY DEF ServeHeartbeat
  <2>2. completed' = done /\ tasks' = [tasks EXCEPT ![Me] = rest]
        /\ cancels' = [ip \in {Me} |-> cancels[ip] \ hb.done] /\ dispatched' = dispatched \cup pop
        /\ UNCHANGED <<restarts, relayed, asked, sent>>
    BY <2>1 DEF Server!HealthCheckDo, Server!MarkCompleted
  <2>3. Server!Popped(q, completed') = pop
    BY <2>2
  <2>4. /\ hb.pc = "sent"
        /\ hb' = [hb EXCEPT !.pc = "replied", !.task = Server!Popped(q, completed'),
                            !.cancels = cancels'[Me]]
        /\ UNCHANGED <<queue, running, finished, cancelRequested, worker, uploads, uploader,
                       failures, started, accepted, received, gone, undelivered>>
    BY DEF ServeHeartbeat, Agent!HeartbeatServed, history
  <2> QED
    BY <2>2, <2>3, <2>4
<1>2. /\ pop \subseteq InTasks \ done /\ AtMostOne(pop)
      /\ Contents(rest) \subseteq Contents(q)
      /\ \A x \in Contents(q) : \/ x \in Contents(rest) \/ x.key \in pop
                                  \/ x.canceled \/ x.key \in done
  <2>1. PopOK(done)
    BY DEF QueueOK
  <2> QED
    BY <2>1 DEF PopOK
<1>3. tasks'[Me] = rest /\ cancels'[Me] = cancels[Me] \ hb.done
  BY <1>1 DEF ServerOK
<1>4. q = tasks[Me]
  OBVIOUS
<1> HIDE DEF done, q, pop, rest
<1>5. pop \subseteq Server!Keys /\ cancels'[Me] \subseteq Server!Keys
  BY <1>2, <1>3, AttemptsAreKeys DEF ServerOK
<1>6. /\ hb'.pc = "replied" /\ hb'.task = pop /\ hb'.cancels = cancels'[Me] /\ hb'.done = hb.done
      /\ hb' \in HbType
  <2>1. hb \in HbType
    BY <1>0 DEF AgentType
  <2> QED
    BY <1>1, <1>5, <2>1 DEF HbType, Agent!HeartbeatPc
<1>7. AgentType' /\ HistoryType'
  BY <1>0, <1>1, <1>6 DEF AgentType, HistoryType
<1>8. /\ UNCHANGED <<InAgentQueue, InUploads, InUploader, InAgent>>
      /\ InReply = {} /\ InReply' = pop
  BY <1>1, <1>6 DEF InAgentQueue, InUploads, InUploader, InAgent, InReply
<1>9. Known'
  BY <1>0, <1>1, <1>3, <1>6, <1>8 DEF Known
<1>10. Shape'
  BY <1>0, <1>1, <1>2, <1>6 DEF Shape, AtMostOne
<1>11. ASSUME restarts = 0
       PROVE  Apart' /\ Sampled' /\ Tracked' /\ Covered'
  <2>1. Apart /\ Sampled /\ Tracked /\ Covered
    BY <1>11 DEF AgentInv, Whole
  <2>2. pop \cap dispatched = {} /\ InAgent \subseteq dispatched
    BY <1>0, <1>2, <1>11 DEF ServerOK, Known
  <2>3. pop \cap InAgent = {}
    BY <2>2
  <2>4. Apart'
    BY <1>1, <1>8, <2>1, <2>3 DEF Apart
  <2>5. Sampled'
    BY <1>1, <1>8, <2>1, <2>2 DEF Sampled
  <2>6. pop \cap Range(finished) = {}
    BY <1>1, <1>2, <2>1, <2>2 DEF Tracked, done
  <2>7. Tracked'
    BY <1>1, <1>6, <1>8, <2>1, <2>6 DEF Tracked
  <2>8. \A k \in done : Excused(k)
    BY <2>1 DEF Covered, done
  <2>9. \A k : Excused(k)' = Excused(k)
    BY <1>1 DEF Excused
  <2>10. CanceledAsked
    BY <2>1, CoveredCanceled DEF Covered
  <2>11. CanceledAsked'
    BY <1>1, <1>2, <1>3, <1>4, <2>10 DEF CanceledAsked
  <2>12. ASSUME NEW k \in InTasks
         PROVE  Excused(k) \/ k \in InTasks' \cup InReply'
    <3>1. PICK x \in Contents(q) : x.key = k
      BY <1>4, InContents DEF InTasks
    <3>2. CASE x \in Contents(rest)
      BY <1>3, <3>1, <3>2, InContents DEF InTasks
    <3>3. CASE x.canceled
      BY <1>4, <2>10, <3>1, <3>3 DEF CanceledAsked, Excused
    <3> QED
      BY <1>2, <1>8, <2>8, <3>1, <3>2, <3>3
  <2>13. \A k \in accepted' : \/ Excused(k)'
                  \/ k \in InTasks' \cup InReply' \cup InAgent' \cup gone' \cup undelivered'
    <3>1. \A k \in accepted : Excused(k) \/ k \in InTasks \cup InAgent \cup gone \cup undelivered
      BY <1>8, <2>1 DEF Covered
    <3> QED
      BY <1>1, <1>8, <2>9, <2>12, <3>1
  <2>14. \A k \in completed' \cup Range(finished') \cup hb'.done : Excused(k)'
    BY <1>1, <1>6, <2>1, <2>8, <2>9 DEF Covered
  <2>15. \A k \in relayed' : k[1] \in asked'
    BY <1>1, <2>1 DEF Covered
  <2>16. Covered'
    <3>1. \A i \in DOMAIN tasks'[Me] : tasks'[Me][i].canceled => tasks'[Me][i].key[1] \in asked'
      BY <2>11 DEF CanceledAsked, Contents
    <3> QED
      BY <2>13, <2>14, <2>15, <3>1 DEF Covered
  <2> QED
    BY <2>4, <2>5, <2>7, <2>16
<1> QED
  BY <1>1, <1>7, <1>9, <1>10, <1>11 DEF AgentInv, Whole

\* HotmethodService::NotifyResult: the result that ends an attempt is noted as received.
LEMMA ServeNotifyStep ==
  ASSUME ServerOK, AgentInv, ServeNotify
  PROVE  AgentInv' /\ uploader.job[1].key \in dispatched
<1> DEFINE k == uploader.job[1].key
<1>0. AgentType /\ HistoryType /\ Known /\ Shape
  BY DEF AgentInv
<1>1. /\ uploader.pc = "sending" /\ uploader' = [uploader EXCEPT !.pc = "served"]
      /\ UNCHANGED <<hb, queue, running, finished, cancelRequested, worker, uploads, failures,
                     started, accepted, gone, undelivered>>
      /\ received' = received \cup {k}
  BY DEF ServeNotify, Agent!UploaderServed
<1>2. /\ completed' = completed \cup {k} /\ cancels' = [ip \in {Me} |-> cancels[ip] \ {k}]
      /\ UNCHANGED <<tasks, restarts, relayed, asked, sent, dispatched>>
  <2>1. Server!NotifyResult(k)
    BY DEF ServeNotify
  <2> QED
    BY <2>1 DEF Server!NotifyResult, Server!MarkCompleted
<1>3. InUploader = {k}
  BY <1>0, <1>1, JobFacts
<1>4. k \in dispatched /\ k \in Server!Attempts
  BY <1>0, <1>3 DEF Known, InAgent, ServerOK
<1>5. uploader'.pc = "served" /\ uploader'.job = uploader.job /\ uploader' \in UploaderType
  <2>1. uploader \in UploaderType
    BY <1>0 DEF AgentType
  <2> QED
    BY <1>1, <2>1 DEF UploaderType
<1> HIDE DEF k
<1>6. AgentType'
  BY <1>0, <1>1, <1>5 DEF AgentType
<1>7. HistoryType'
  BY <1>0, <1>1, <1>4 DEF HistoryType
<1>8. UNCHANGED <<InReply, InAgentQueue, InUploads, InUploader, InTasks>>
  BY <1>1, <1>2, <1>5 DEF InReply, InAgentQueue, InUploads, InUploader, InTasks
<1>9. InAgent' = InAgent
  BY <1>1, <1>8 DEF InAgent
<1>10. cancels'[Me] \subseteq cancels[Me]
  BY <1>2
<1>11. Known'
  BY <1>0, <1>1, <1>2, <1>9, <1>10 DEF Known
<1>12. Shape'
  BY <1>0, <1>1, <1>5 DEF Shape, AtMostOne
<1>13. ASSUME restarts = 0
       PROVE  Apart' /\ Sampled' /\ Tracked' /\ Covered'
  <2>1. Apart /\ Sampled /\ Tracked /\ Covered
    BY <1>13 DEF AgentInv, Whole
  <2>2. Apart'
    BY <1>1, <1>8, <1>9, <2>1 DEF Apart
  <2>3. Sampled'
    BY <1>1, <1>2, <1>8, <2>1, SampledStep
  <2>4. Tracked'
    BY <1>1, <1>2, <1>3, <1>8, <1>9, <2>1 DEF Tracked
  <2>5. \A j : Excused(j) \/ j = k => Excused(j)'
    BY <1>1, <1>2 DEF Excused
  <2>6. \A j \in completed' \cup Range(finished') \cup hb'.done : Excused(j)'
    BY <1>1, <1>2, <2>1, <2>5 DEF Covered
  <2>7. \A j \in accepted' : \/ Excused(j)'
                 \/ j \in InTasks' \cup InReply' \cup InAgent' \cup gone' \cup undelivered'
    BY <1>1, <1>8, <1>9, <2>1, <2>5 DEF Covered
  <2>8. Covered'
    BY <1>2, <2>1, <2>6, <2>7 DEF Covered
  <2> QED
    BY <2>2, <2>3, <2>4, <2>8
<1> QED
  BY <1>2, <1>4, <1>6, <1>7, <1>11, <1>12, <1>13 DEF AgentInv, Whole, k

\* A request of the apiserver: what it changes in the queue and in the list of cancellations.
LEMMA ApiStep ==
  ASSUME ServerOK, AgentInv, UNCHANGED agentVars, UNCHANGED <<received, gone, undelivered>>,
         UNCHANGED <<restarts, dispatched, completed>>,
         accepted' \subseteq Server!Attempts, asked \subseteq asked',
         cancels'[Me] \subseteq relayed', relayed \subseteq relayed',
         InTasks \subseteq InTasks', \A k \in accepted' \ accepted : k \in InTasks',
         \A k \in relayed' \ relayed : k[1] \in asked',
         CanceledAsked => CanceledAsked'
  PROVE  AgentInv'
<1>0. AgentType /\ HistoryType /\ Known /\ Shape
  BY DEF AgentInv
<1>1. /\ UNCHANGED <<InReply, InAgentQueue, InUploads, InUploader, InAgent, AgentType, Shape>>
      /\ UNCHANGED <<hb, queue, running, finished, worker, uploads, uploader, started>>
  BY AgentStill
<1>2. AgentType' /\ Shape' /\ HistoryType'
  BY <1>0, <1>1 DEF HistoryType
<1>3. Known'
  BY <1>0, <1>1 DEF Known
<1>4. ASSUME restarts = 0
      PROVE  Apart' /\ Sampled' /\ Tracked' /\ Covered'
  <2>1. Apart /\ Sampled /\ Tracked /\ Covered
    BY <1>4 DEF AgentInv, Whole
  <2>2. Apart'
    BY <1>1, <2>1 DEF Apart
  <2>3. Sampled'
    BY <1>1, <2>1, SampledStep
  <2>4. Tracked'
    BY <1>1, <2>1 DEF Tracked
  <2>5. \A j : Excused(j) => Excused(j)'
    BY DEF Excused
  <2>6. \A j \in completed' \cup Range(finished') \cup hb'.done : Excused(j)'
    BY <1>1, <2>1, <2>5 DEF Covered
  <2>7. \A j \in accepted' : \/ Excused(j)'
                 \/ j \in InTasks' \cup InReply' \cup InAgent' \cup gone' \cup undelivered'
    BY <1>1, <2>1, <2>5 DEF Covered
  <2>8. \A j \in relayed' : j[1] \in asked'
    BY <2>1 DEF Covered
  <2>9. \A i \in DOMAIN tasks'[Me] : tasks'[Me][i].canceled => tasks'[Me][i].key[1] \in asked'
    <3>1. CanceledAsked'
      BY <2>1, CoveredCanceled DEF Covered
    <3> QED
      BY <3>1 DEF CanceledAsked, Contents
  <2>10. Covered'
    BY <2>6, <2>7, <2>8, <2>9 DEF Covered
  <2> QED
    BY <2>2, <2>3, <2>4, <2>10
<1> QED
  BY <1>2, <1>3, <1>4 DEF AgentInv, Whole

\* TaskCreate and TaskCancel do not reach into the agent.
LEMMA ApiSteps ==
  ASSUME ServerOK, QueueOK, AgentInv, Api
  PROVE  AgentInv'
<1> DEFINE q == tasks[Me]
<1>0. /\ ServerOK /\ q \in Seq(Server!Item) /\ tasks \in [{Me} -> Seq(Server!Item)]
      /\ accepted \subseteq Server!Attempts /\ cancels[Me] \subseteq relayed /\ now \in 0..0
  BY DEF ServerOK, AgentInv, HistoryType, Known
<1>1. UNCHANGED agentVars /\ UNCHANGED <<received, gone, undelivered>>
  BY DEF Api
<1>2. ASSUME NEW k \in Server!Attempts, Server!CreateTask(k),
             accepted' = IF Server!EnqueueAnswer(k) = "queued" THEN accepted \cup {k} ELSE accepted
      PROVE  AgentInv'
  <2> DEFINE item == [key |-> k, enqueued |-> now, canceled |-> FALSE]
  <2>1. /\ UNCHANGED <<restarts, dispatched, completed, cancels, relayed, asked>>
        /\ tasks' = Server!Enqueued(k)
    BY <1>2 DEF Server!CreateTask
  <2>2. CASE Server!EnqueueAnswer(k) = "queued"
    <3>1. [t \in Tids |-> Me][k[1]] = Me
      BY AttemptsAreKeys, NoDeadlines
    <3>2. tasks' = [tasks EXCEPT ![Me] = Server!InsertSorted(q, item)]
      BY <2>1, <2>2, <3>1 DEF Server!Enqueued
    <3>3. tasks'[Me] = Server!InsertSorted(q, item)
      BY <1>0, <3>2
    <3>4. item \in Server!Item
      BY SMT, <1>0 DEF Server!Item
    <3>5. Contents(tasks'[Me]) = Contents(q) \cup {item}
      BY <3>3, <3>4 DEF QueueOK, InsertOK
    <3>6. item.key = k /\ item.canceled = FALSE
      OBVIOUS
    <3> HIDE DEF item, q
    <3>7. q = tasks[Me]
      BY DEF q
    <3>8. InTasks \subseteq InTasks' /\ k \in InTasks'
      <4>1. InTasks = Keyed(q) /\ InTasks' = Keyed(tasks'[Me])
        BY <3>7 DEF InTasks
      <4>2. k \in Keyed(tasks'[Me])
        BY <3>5, <3>6, InContents
      <4>3. ASSUME NEW j \in Keyed(q)
            PROVE  j \in Keyed(tasks'[Me])
        BY SMT, <3>5, <4>3, InContents
      <4> QED
        BY <4>1, <4>2, <4>3
    <3>9. CanceledAsked => CanceledAsked'
      BY <2>1, <3>5, <3>6, <3>7 DEF CanceledAsked
    <3>10. accepted' = accepted \cup {k}
      BY <1>2, <2>2
    <3> QED
      BY <1>0, <1>1, <2>1, <3>8, <3>9, <3>10, ApiStep
  <2>3. CASE Server!EnqueueAnswer(k) # "queued"
    <3>1. tasks' = tasks /\ accepted' = accepted
      BY <1>2, <2>1, <2>3 DEF Server!Enqueued
    <3>2. InTasks' = InTasks /\ CanceledAsked' = CanceledAsked
      BY <2>1, <3>1 DEF InTasks, CanceledAsked
    <3> QED
      BY <1>0, <1>1, <2>1, <3>1, <3>2, ApiStep
  <2> QED
    BY <2>2, <2>3
<1>3. ASSUME NEW k \in Server!Keys, Server!CancelTask(k[1], k[2]), UNCHANGED accepted
      PROVE  AgentInv'
  <2>1. [t \in Tids |-> Me][k[1]] = Me /\ <<k[1], k[2]>> = k
    BY SMT, NoDeadlines DEF Server!Keys
  <2>2. /\ UNCHANGED <<restarts, dispatched, completed>> /\ asked' = asked \cup {k[1]}
        /\ tasks' = [tasks EXCEPT ![Me] = Server!MarkCanceled(q, k[1], k[2])]
        /\ \/ UNCHANGED <<cancels, relayed>>
           \/ /\ cancels' = [cancels EXCEPT ![Me] = @ \cup {k}]
              /\ relayed' = relayed \cup {k}
    BY <1>3, <2>1 DEF Server!CancelTask
  <2>3. cancels'[Me] \subseteq relayed' /\ relayed \subseteq relayed'
        /\ \A j \in relayed' \ relayed : j[1] \in asked'
    <3>1. cancels \in [{Me} -> SUBSET Server!Keys]
      BY <1>0 DEF ServerOK
    <3> QED
      BY <1>0, <2>2, <3>1
  <2>4. tasks'[Me] = Server!MarkCanceled(q, k[1], k[2])
    BY <1>0, <2>2
  <2>5. /\ \A x \in Contents(tasks'[Me]) : \E y \in Contents(q) :
             x.key = y.key /\ (x.canceled => y.canceled \/ y.key[1] = k[1])
        /\ \A y \in Contents(q) : \E x \in Contents(tasks'[Me]) : x.key = y.key
    BY SMT, <2>4 DEF QueueOK, MarkOK
  <2>6. InTasks \subseteq InTasks'
    <3> SUFFICES ASSUME NEW j \in InTasks PROVE j \in InTasks'
      OBVIOUS
    <3>1. PICK y \in Contents(q) : y.key = j
      BY InContents DEF InTasks
    <3>2. PICK x \in Contents(tasks'[Me]) : x.key = y.key
      BY <2>5
    <3> QED
      BY <3>1, <3>2, InContents DEF InTasks
  <2>7. CanceledAsked => CanceledAsked'
    <3> SUFFICES ASSUME CanceledAsked, NEW x \in Contents(tasks'[Me]), x.canceled
                 PROVE  x.key[1] \in asked'
      BY DEF CanceledAsked
    <3>1. PICK y \in Contents(q) : x.key = y.key /\ (x.canceled => y.canceled \/ y.key[1] = k[1])
      BY <2>5
    <3> QED
      BY <2>2, <3>1 DEF CanceledAsked
  <2> QED
    BY <1>0, <1>1, <1>3, <2>2, <2>3, <2>6, <2>7, ApiStep
<1>4. CASE \E k \in Server!Attempts :
             /\ Server!CreateTask(k)
             /\ accepted' = IF Server!EnqueueAnswer(k) = "queued" THEN accepted \cup {k}
                                                                   ELSE accepted
  BY <1>2, <1>4
<1>5. CASE (\E k \in Server!Keys : Server!CancelTask(k[1], k[2])) /\ UNCHANGED accepted
  BY <1>3, <1>5
<1> QED
  BY <1>4, <1>5 DEF Api

-----------------------------------------------------------------------------
(* Places *)

\* An attempt in one container, once.
LEMMA OnePlace ==
  ASSUME NEW w, NEW T, AtMostOne(T), T # {}, NEW k, Places(k) = {w} \X T
  PROVE  InOnePlace(k)
<1>1. PICK x : x \in T
  OBVIOUS
<1>2. T = {x}
  BY <1>1 DEF AtMostOne
<1>3. {w} \X T = {<<w, x>>}
  BY SMT, <1>2
<1>4. Places(k) = {<<w, x>>}
  BY <1>3
<1> QED
  BY <1>4 DEF InOnePlace

\* An attempt is in one place, or in none.
LEMMA PlacesIs ==
  ASSUME ServerOK, AgentType, Shape, Known, Apart, restarts = 0, NEW k
  PROVE  /\ Places(k) = {} \/ InOnePlace(k)
         /\ k \in InTasks \cup InReply \cup InAgent => InOnePlace(k)
<1> DEFINE A == {i \in DOMAIN tasks[Me] : tasks[Me][i].key = k}
           B == {t \in hb.task : hb.pc = "replied" /\ t = k}
           C == {i \in DOMAIN queue : queue[i] = k}
           D == {t \in worker : t = k}
           E == {i \in DOMAIN uploads : uploads[i].key = k}
           F == {i \in DOMAIN uploader.job : uploader.job[i].key = k}
<1>1. /\ A # {} <=> k \in InTasks
      /\ B # {} <=> k \in InReply
      /\ C # {} <=> k \in InAgentQueue
  BY DEF InTasks, InReply, InAgentQueue, Keyed, Range
<1>2. /\ D # {} <=> k \in worker
      /\ E # {} <=> k \in InUploads
      /\ F # {} <=> k \in InUploader
  BY DEF InUploads, InUploader, Keyed
<1>3. AtMostOne(A) /\ AtMostOne(B) /\ AtMostOne(C)
  BY DEF AtMostOne, ServerOK, DistinctKeys, Apart, Distinct
<1>4. AtMostOne(D) /\ AtMostOne(E)
  BY DEF AtMostOne, DistinctKeys, Apart
<1>5. AtMostOne(F)
  <2>1. /\ uploader.job \in Seq(Agent!UploadJob) /\ Len(uploader.job) <= 1
    BY DEF AgentType, UploaderType, Shape
  <2>2. DOMAIN uploader.job = 1..Len(uploader.job) /\ Len(uploader.job) \in Nat
    BY <2>1, LenProperties
  <2>3. F \subseteq 1..1
    BY SMT, <2>1, <2>2
  <2> QED
    BY SMT, <2>3 DEF AtMostOne
<1>6. Places(k) = {"server"} \X A \cup {"reply"} \X B \cup {"queue"} \X C \cup {"worker"} \X D
                  \cup {"uploads"} \X E \cup {"uploader"} \X F
  BY DEF Places
<1>7. InReply \cup InAgent \subseteq dispatched /\ InTasks \cap dispatched = {}
  BY DEF Known, ServerOK, InReply
<1>8. k \in InAgent <=> k \in InAgentQueue \/ k \in worker \/ k \in InUploads \/ k \in InUploader
  BY DEF InAgent
<1>9. /\ A # {} => B = {} /\ C = {} /\ D = {} /\ E = {} /\ F = {}
      /\ B # {} => C = {} /\ D = {} /\ E = {} /\ F = {}
  BY <1>1, <1>2, <1>7, <1>8 DEF Apart
<1>10. /\ C # {} => D = {} /\ E = {} /\ F = {}
       /\ D # {} => E = {} /\ F = {}
       /\ E # {} => F = {}
  BY <1>1, <1>2 DEF Apart
<1> HIDE DEF A, B, C, D, E, F
<1>11. \A w : {w} \X {} = {}
  OBVIOUS
<1>12. CASE A # {}
  <2>1. Places(k) = {"server"} \X A
    BY <1>6, <1>9, <1>11, <1>12
  <2> QED
    BY <1>3, <1>12, <2>1, OnePlace
<1>13. CASE A = {} /\ B # {}
  <2>1. Places(k) = {"reply"} \X B
    BY <1>6, <1>9, <1>11, <1>13
  <2> QED
    BY <1>3, <1>13, <2>1, OnePlace
<1>14. CASE A = {} /\ B = {} /\ C # {}
  <2>1. Places(k) = {"queue"} \X C
    BY <1>6, <1>10, <1>11, <1>14
  <2> QED
    BY <1>3, <1>14, <2>1, OnePlace
<1>15. CASE A = {} /\ B = {} /\ C = {} /\ D # {}
  <2>1. Places(k) = {"worker"} \X D
    BY <1>6, <1>10, <1>11, <1>15
  <2> QED
    BY <1>4, <1>15, <2>1, OnePlace
<1>16. CASE A = {} /\ B = {} /\ C = {} /\ D = {} /\ E # {}
  <2>1. Places(k) = {"uploads"} \X E
    BY <1>6, <1>10, <1>11, <1>16
  <2> QED
    BY <1>4, <1>16, <2>1, OnePlace
<1>17. CASE A = {} /\ B = {} /\ C = {} /\ D = {} /\ E = {} /\ F # {}
  <2>1. Places(k) = {"uploader"} \X F
    BY <1>6, <1>11, <1>17
  <2> QED
    BY <1>5, <1>17, <2>1, OnePlace
<1>18. CASE A = {} /\ B = {} /\ C = {} /\ D = {} /\ E = {} /\ F = {}
  <2>1. Places(k) = {}
    BY <1>6, <1>11, <1>18
  <2> QED
    BY <1>1, <1>2, <1>8, <1>18, <2>1
<1> QED
  BY <1>12, <1>13, <1>14, <1>15, <1>16, <1>17, <1>18

\* Nothing has been enqueued and the agent is idle.
LEMMA AgentInit == Init => AgentInv
<1> SUFFICES ASSUME Init PROVE AgentInv
  OBVIOUS
<1>1. /\ hb = [pc |-> "idle", done |-> {}, task |-> {}, cancels |-> {}, cur |-> {}]
      /\ queue = <<>> /\ running = {} /\ finished = <<>> /\ cancelRequested = {} /\ worker = {}
      /\ uploads = <<>> /\ uploader = [pc |-> "idle", job |-> <<>>, tries |-> 0]
      /\ failures = 0 /\ started = [k \in Server!Keys |-> 0]
      /\ accepted = {} /\ received = {} /\ gone = {} /\ undelivered = {}
      /\ completed = {} /\ relayed = {} /\ cancels[Me] = {} /\ tasks[Me] = <<>>
  <2>1. Server!Init /\ Agent!Init /\ accepted = {} /\ received = {} /\ gone = {} /\ undelivered = {}
    BY DEF Init
  <2>2. completed = {} /\ relayed = {} /\ cancels[Me] = {} /\ tasks[Me] = <<>>
    BY <2>1 DEF Server!Init, Server!NoCancels, Server!EmptyQueues
  <2> QED
    BY <2>1, <2>2 DEF Agent!Init, Agent!IdleHb, Agent!IdleUploader
<1>2. DOMAIN <<>> = {} /\ Len(<<>>) = 0 /\ \A S : <<>> \in Seq(S)
  BY SMT, EmptySeq, LenProperties
<1>3. hb \in HbType /\ uploader \in UploaderType
  BY SMT, <1>1, <1>2, CollectionAssumption DEF HbType, UploaderType, Agent!HeartbeatPc
<1>4. AgentType
  BY SMT, <1>1, <1>2, <1>3, CollectionAssumption DEF AgentType
<1>5. /\ InTasks = {} /\ InReply = {} /\ InAgentQueue = {} /\ InUploads = {} /\ InUploader = {}
      /\ Range(finished) = {} /\ hb.task = {} /\ hb.cancels = {} /\ hb.done = {}
      /\ hb.pc = "idle" /\ uploader.pc = "idle" /\ uploader.job = <<>>
  BY <1>1, <1>2 DEF InTasks, InReply, InAgentQueue, InUploads, InUploader, Range, Keyed
<1>6. InAgent = {}
  BY <1>1, <1>5 DEF InAgent
<1>7. HistoryType /\ Known
  BY <1>1, <1>5, <1>6 DEF HistoryType, Known
<1>8. Shape
  BY SMT, <1>1, <1>2, <1>5 DEF Shape, AtMostOne
<1>9. Apart
  BY <1>1, <1>2, <1>5, <1>6 DEF Apart, Distinct, DistinctKeys
<1>10. Sampled /\ Tracked
  BY SMT, <1>1, <1>5, <1>6 DEF Sampled, Tracked
<1>11. Covered
  BY <1>1, <1>2, <1>5 DEF Covered
<1> QED
  BY <1>4, <1>7, <1>8, <1>9, <1>10, <1>11 DEF AgentInv, Whole

\* Only WorkerTake begins an attempt, and the tracker knows what is in the queue.
LEMMA KeepsStep ==
  ASSUME AgentInv, [Next]_vars, NEW k \in Range(finished), restarts' = 0, started[k] = 0
  PROVE  started'[k] = 0
<1>1. CASE started' = started
  BY <1>1
<1>2. CASE Agent!WorkerTake /\ UNCHANGED <<serverVars, history>>
  <2>1. queue # <<>> /\ started' = [started EXCEPT ![Head(queue)] = @ + 1] /\ restarts = 0
    BY <1>2 DEF Agent!WorkerTake, serverVars
  <2>2. queue \in Seq(Server!Keys) /\ started \in [Server!Keys -> Nat] /\ Tracked
    BY <2>1 DEF AgentInv, AgentType, Whole
  <2>3. Head(queue) \in Range(queue)
    BY SMT, <2>1, <2>2, TailFacts
  <2>4. Head(queue) # k
    BY <2>2, <2>3 DEF Tracked, InAgent, InAgentQueue
  <2> QED
    BY SMT, <2>1, <2>2, <2>4
<1>3. CASE AgentLocal /\ ~Agent!WorkerTake
  <2>1. CASE \/ Agent!HeartbeatSend \/ Agent!HeartbeatReceive
             \/ Agent!RequestCancel \/ Agent!HeartbeatDone
    BY <1>1, <2>1 DEF Agent!HeartbeatSend, Agent!HeartbeatReceive, Agent!RequestCancel,
                      Agent!HeartbeatDone
  <2>2. CASE \E c \in hb.cancels : \/ Agent!CancelQueued(c) \/ Agent!CancelSeesRunning(c)
                                   \/ Agent!CancelUnknown(c)
    BY <1>1, <2>2 DEF Agent!CancelQueued, Agent!CancelSeesRunning, Agent!CancelUnknown
  <2>3. CASE \/ Agent!WorkerFinish \/ Agent!WorkerCancel
             \/ Agent!UploaderTake \/ Agent!UploaderAcknowledged
    BY <1>1, <2>3 DEF Agent!WorkerFinish, Agent!WorkerCancel, Agent!UploaderTake,
                      Agent!UploaderAcknowledged
  <2> QED
    BY <1>3, <2>1, <2>2, <2>3 DEF AgentLocal, Agent!LocalStep
<1>4. CASE Api \/ ServerStep \/ UNCHANGED vars
  BY <1>1, <1>4 DEF Api, ServerStep, agentVars, vars
<1>5. CASE ServeHeartbeat \/ HeartbeatFail
  BY <1>1, <1>5 DEF ServeHeartbeat, HeartbeatFail, Agent!HeartbeatServed, Agent!HeartbeatFail
<1>6. CASE ServeNotify \/ NotifyFail
  BY <1>1, <1>6 DEF ServeNotify, NotifyFail, Agent!UploaderServed, Agent!UploaderFail
<1>7. CASE AgentRestart
  BY <1>1, <1>7 DEF AgentRestart, Agent!AgentRestart
<1> QED
  BY <1>2, <1>3, <1>4, <1>5, <1>6, <1>7 DEF Next, AgentLocal

\* Every step of the two together is a step of the server or leaves it alone: the agent reports
\* what it has been sent, and the results of what it was handed.
LEMMA ServerRefined ==
  ASSUME ServerOK, AgentInv, [Next]_vars
  PROVE  [Server!Next]_(Server!serverVars)
<1>1. ServerOK /\ AgentType /\ Shape /\ Known
  BY DEF AgentInv
<1>2. CASE Api
  <2>1. \/ \E k \in Server!Attempts : Server!CreateTask(k)
        \/ \E k \in Server!Keys : Server!CancelTask(k[1], k[2])
    BY <1>2 DEF Api
  <2> QED
    BY <2>1 DEF Server!Next
<1>3. CASE ServeHeartbeat
  <2>1. Server!HealthCheckDo(Me, hb.done)
    BY <1>3 DEF ServeHeartbeat
  <2>2. hb.done \subseteq Server!Reportable(Me)
    <3> SUFFICES ASSUME NEW k \in hb.done PROVE k \in Server!Reportable(Me)
      OBVIOUS
    <3>1. k \in dispatched \cup relayed
      BY <1>1 DEF Known
    <3>2. k \in Server!Keys
      BY <1>1, <3>1, AttemptsAreKeys DEF ServerOK
    <3> QED
      BY <3>1, <3>2, NoDeadlines DEF Server!Reportable
  <2> QED
    BY <2>1, <2>2 DEF Server!Next
<1>4. CASE ServeNotify
  <2>1. Server!NotifyResult(uploader.job[1].key)
    BY <1>4 DEF ServeNotify
  <2>2. uploader.job[1].key \in dispatched
    BY <1>1, <1>4, ServeNotifyStep
  <2> QED
    BY <2>1, <2>2 DEF Server!Next
<1>5. CASE ServerStep
  <2>1. Server!ServerStep
    BY <1>5 DEF ServerStep
  <2> QED
    BY <2>1 DEF Server!Next
<1>6. CASE HeartbeatFail \/ NotifyFail \/ AgentLocal \/ AgentRestart \/ UNCHANGED vars
  <2>1. UNCHANGED serverVars
    BY <1>6 DEF HeartbeatFail, NotifyFail, AgentLocal, AgentRestart, vars
  <2> QED
    BY <2>1 DEF serverVars, Server!serverVars
<1> QED
  BY <1>2, <1>3, <1>4, <1>5, <1>6 DEF Next

\* Every step of the two processes keeps the invariant of the agent.
LEMMA AgentNext ==
  ASSUME ServerOK, QueueOK, AgentInv, [Next]_vars
  PROVE  AgentInv'
<1>1. CASE Api
  BY <1>1, ApiSteps
<1>2. CASE ServeHeartbeat
  BY <1>2, ServeHeartbeatStep
<1>3. CASE HeartbeatFail
  BY <1>3, HeartbeatFailStep
<1>4. CASE ServeNotify
  BY <1>4, ServeNotifyStep
<1>5. CASE NotifyFail
  BY <1>5, NotifyFailStep
<1>6. CASE AgentLocal
  BY <1>6, LocalSteps
<1>7. CASE AgentRestart
  BY <1>7, RestartStep
<1>8. CASE ServerStep
  BY <1>8, ServerSteps
<1>9. CASE UNCHANGED vars
  <2>1. UNCHANGED agentVars /\ UNCHANGED <<accepted, received, gone, undelivered>>
        /\ UNCHANGED <<restarts, dispatched, completed, asked, relayed, tasks, cancels>>
    BY <1>9 DEF vars, serverVars, history
  <2>2. InTasks' = InTasks /\ CanceledAsked' = CanceledAsked
    BY <2>1 DEF InTasks, CanceledAsked
  <2>3. accepted' \subseteq Server!Attempts /\ cancels'[Me] \subseteq relayed'
    BY <2>1 DEF AgentInv, HistoryType, Known
  <2> QED
    BY <2>1, <2>2, <2>3, ApiStep
<1> QED
  BY <1>1, <1>2, <1>3, <1>4, <1>5, <1>6, <1>7, <1>8, <1>9 DEF Next

\* The server with what is proved of it.
P == INSTANCE DropServerProofs WITH
    IPs <- {Me},
    Target <- [t \in Tids |-> Me],
    Priority <- [t \in Tids |-> 0],
    Deadline <- [t \in Tids |-> 0],
    MaxTime <- 0

-----------------------------------------------------------------------------
(* Server and P are instances of the same specification. *)

\* The constants of Collection are constants of the server.
LEMMA ServerConstants == P!ConstantsAssumption
BY SMT, CollectionAssumption DEF P!ConstantsAssumption

\* The server composed here and the server proved about hold the same data,
LEMMA SameData ==
  /\ Server!Keys = P!Keys /\ Server!Attempts = P!Attempts
  /\ Server!Item = P!Item /\ Server!serverVars = P!serverVars /\ Server!TypeOK = P!TypeOK
  /\ Server!EmptyQueues = P!EmptyQueues
  /\ Server!Init = P!Init
<1>1. /\ Server!Keys = P!Keys /\ Server!Attempts = P!Attempts
      /\ Server!EmptyQueues = P!EmptyQueues /\ Server!NoCancels = P!NoCancels
  BY DEF Server!Keys, P!Keys, Server!Attempts, P!Attempts, Server!EmptyQueues, P!EmptyQueues,
         Server!NoCancels, P!NoCancels
<1>2. Server!Item = P!Item
  BY <1>1 DEF Server!Item, P!Item
<1>3. Server!TypeOK = P!TypeOK
  BY <1>1, <1>2 DEF Server!TypeOK, P!TypeOK
<1>4. Server!Init = P!Init
  BY <1>1 DEF Server!Init, P!Init
<1>5. Server!serverVars = P!serverVars
  BY DEF Server!serverVars, P!serverVars
<1> QED
  BY <1>1, <1>2, <1>3, <1>4, <1>5

\* use the same queue,
LEMMA SameQueues ==
  /\ \A q, k : Server!InQueue(q, k) = P!InQueue(q, k)
  /\ \A k : Server!EnqueueAnswer(k) = P!EnqueueAnswer(k)
  /\ \A k : Server!Enqueued(k) = P!Enqueued(k)
  /\ \A q, t, a : Server!MarkCanceled(q, t, a) = P!MarkCanceled(q, t, a)
  /\ \A q, d : Server!Popped(q, d) = P!Popped(q, d) /\ Server!Rest(q, d) = P!Rest(q, d)
  /\ \A ip, x : Server!Restored(ip, x) = P!Restored(ip, x)
  /\ \A a, b : Server!InsertSorted(a, b) = P!InsertSorted(a, b)
<1>1. \A a, b : Server!Before(a, b) = P!Before(a, b)
  BY DEF Server!Before, P!Before
<1>2. \A a, b : Server!Position(a, b) = P!Position(a, b)
  BY <1>1 DEF Server!Position, P!Position
<1>3. \A a, b : Server!InsertSorted(a, b) = P!InsertSorted(a, b)
  BY <1>2 DEF Server!InsertSorted, P!InsertSorted
<1>4. \A a, b : Server!InQueue(a, b) = P!InQueue(a, b)
  BY DEF Server!InQueue, P!InQueue
<1>5. \A k : Server!Expired(k) = P!Expired(k)
  BY DEF Server!Expired, P!Expired
<1>6. \A k : Server!EnqueueAnswer(k) = P!EnqueueAnswer(k)
  BY DEF Server!EnqueueAnswer, P!EnqueueAnswer, Server!Expired, P!Expired, Server!InQueue, P!InQueue
<1>7. \A k : Server!Enqueued(k) = P!Enqueued(k)
  <2> TAKE k
  <2> DEFINE q == tasks[[t \in Tids |-> Me][k[1]]]
             item == [key |-> k, enqueued |-> now, canceled |-> FALSE]
  <2>1. Server!InsertSorted(q, item) = P!InsertSorted(q, item)
    BY <1>3
  <2>2. Server!EnqueueAnswer(k) = P!EnqueueAnswer(k)
    BY <1>6
  <2>3. [tasks EXCEPT ![[t \in Tids |-> Me][k[1]]] = Server!InsertSorted(q, item)]
          = [tasks EXCEPT ![[t \in Tids |-> Me][k[1]]] = P!InsertSorted(q, item)]
    BY <2>1
  <2> QED
    BY <2>2, <2>3 DEF Server!Enqueued, P!Enqueued
<1>8. \A a, b, c : Server!MarkCanceled(a, b, c) = P!MarkCanceled(a, b, c)
  BY DEF Server!MarkCanceled, P!MarkCanceled, Server!Matches, P!Matches
<1>9. \A a, b : Server!FirstDispatchable(a, b) = P!FirstDispatchable(a, b)
  BY <1>5 DEF Server!FirstDispatchable, P!FirstDispatchable, Server!Dispatchable, P!Dispatchable
<1>10. \A a, b : Server!Popped(a, b) = P!Popped(a, b) /\ Server!Rest(a, b) = P!Rest(a, b)
  BY <1>9 DEF Server!Popped, P!Popped, Server!Rest, P!Rest
<1>11. \A a, b : Server!Restored(a, b) = P!Restored(a, b)
  BY <1>3, <1>4 DEF Server!Restored, P!Restored
<1> QED
  BY <1>3, <1>4, <1>6, <1>7, <1>8, <1>10, <1>11

\* and take the same steps.
LEMMA SameNext == Server!Next = P!Next
<1>0. Server!Serving = P!Serving
  BY DEF Server!Serving, P!Serving
<1>1. \A k : Server!CreateTask(k) = P!CreateTask(k)
  BY <1>0, SameQueues DEF Server!CreateTask, P!CreateTask
<1>2. \A t, a : Server!CancelTask(t, a) = P!CancelTask(t, a)
  BY SMT, <1>0, SameQueues DEF Server!CancelTask, P!CancelTask, Server!Matches, P!Matches
<1>3. \A d : Server!MarkCompleted(d) = P!MarkCompleted(d)
  BY DEF Server!MarkCompleted, P!MarkCompleted
<1>4. \A ip, d : Server!HealthCheckDo(ip, d) = P!HealthCheckDo(ip, d)
  BY <1>0, <1>3, SameQueues DEF Server!HealthCheckDo, P!HealthCheckDo
<1>5. \A k : Server!NotifyResult(k) = P!NotifyResult(k)
  BY <1>0, <1>3 DEF Server!NotifyResult, P!NotifyResult
<1>6. /\ Server!SnapshotWrite = P!SnapshotWrite /\ Server!SnapshotRename = P!SnapshotRename
      /\ Server!FinalSnapshot = P!FinalSnapshot /\ Server!Shutdown = P!Shutdown
      /\ Server!Crash = P!Crash
  BY DEF Server!SnapshotWrite, P!SnapshotWrite, Server!SnapshotRename, P!SnapshotRename,
         Server!FinalSnapshot, P!FinalSnapshot, Server!Shutdown, P!Shutdown, Server!Crash, P!Crash
<1>7. Server!Start = P!Start /\ Server!Serve = P!Serve
  BY SameData DEF Server!Start, P!Start, Server!Serve, P!Serve, Server!NoCancels, P!NoCancels
<1>8. \A ip : Server!RestoreRecord(ip) = P!RestoreRecord(ip)
  BY SameQueues DEF Server!RestoreRecord, P!RestoreRecord
<1>9. Server!ServerStep = P!ServerStep
  BY <1>6, <1>7, <1>8 DEF Server!ServerStep, P!ServerStep
<1>10. Server!Tick = P!Tick /\ \A ip : Server!Reportable(ip) = P!Reportable(ip)
  BY DEF Server!Tick, P!Tick, Server!Reportable, P!Reportable
<1> QED
  BY <1>1, <1>2, <1>4, <1>5, <1>9, <1>10, SameData DEF Server!Next, P!Next

\* The types of the composition are those of its parts.
LEMMA SameTypes == TypeOK <=> P!TypeOK /\ AgentType /\ HistoryType
BY SameData DEF TypeOK, Agent!TypeOK, AgentType, HbType, UploaderType, HistoryType

\* What P!Inv says of the one queue.
LEMMA ServerFacts == P!Inv => ServerOK
<1> SUFFICES ASSUME P!Inv PROVE ServerOK
  OBVIOUS
<1>1. P!TypeOK /\ P!QueuesOK /\ P!Phases /\ P!Handed
  BY DEF P!Inv
<1>2. DistinctKeys(tasks[Me]) /\ P!Placed(Me, tasks[Me])
  BY <1>1 DEF P!QueuesOK, P!Unique, DistinctKeys
<1>3. InTasks \subseteq sent
  BY <1>2 DEF P!Placed, InTasks, Keyed
<1>4. restarts = 0 => unread[Me] = <<>>
  BY <1>1, P!EmptyFacts, ServerConstants DEF P!Phases
<1>5. restarts = 0 => InTasks \cap dispatched = {}
  <2> SUFFICES ASSUME restarts = 0, NEW k \in dispatched, k \in InTasks
               PROVE  FALSE
    OBVIOUS
  <2>1. k[1] \in Tids
    BY <1>1 DEF P!TypeOK, P!Attempts
  <2>2. ~P!InQueue(tasks[Me], k)
    BY <1>1, <2>1 DEF P!Handed, P!DispatchedOnce
  <2> QED
    BY <2>2 DEF InTasks, Keyed, P!InQueue
<1>6. dispatched \subseteq sent
  BY <1>1 DEF P!Handed
<1>7. now \in 0..0 /\ restarts \in Nat
  <2>1. now \in 0..0 /\ restarts \in 0..MaxRestarts
    BY <1>1 DEF P!TypeOK
  <2> QED
    BY SMT, <2>1, CollectionAssumption
<1> QED
  BY <1>1, <1>2, <1>3, <1>4, <1>5, <1>6, <1>7, SameData DEF P!TypeOK, ServerOK

\* The server's lemmas about its queue, for the agent's queue.
LEMMA QueueFacts == ServerOK => QueueOK
<1> SUFFICES ASSUME ServerOK PROVE QueueOK
  OBVIOUS
<1> DEFINE q == tasks[Me]
<1>1. q \in Seq(P!Item)
  BY SameData DEF ServerOK
<1>2. P!Contents(q) \subseteq P!Item
  BY SMT, <1>1, LenProperties DEF P!Contents
<1>3. InTasks = Keyed(q) /\ q = tasks[Me]
  BY DEF InTasks
<1>4. \A s : Contents(s) = P!Contents(s)
  BY DEF Contents, P!Contents
<1> HIDE DEF q
<1>5. ASSUME NEW done
      PROVE  PopOK(done)
  <2>1. /\ P!Contents(P!Rest(q, done)) \subseteq P!Contents(q)
        /\ \A x \in P!Contents(q) : \/ x \in P!Contents(P!Rest(q, done))
                                    \/ x.key \in P!Popped(q, done)
                                    \/ ~P!Dispatchable(x, done)
        /\ \A k, l \in P!Popped(q, done) : k = l
        /\ P!Popped(q, done) \cap done = {}
    BY <1>1, P!RestContents, ServerConstants
  <2>2. P!Popped(q, done) \subseteq Keyed(q)
    BY SMT, <1>1, P!RestFacts, ServerConstants DEF Keyed
  <2>3. \A x \in P!Contents(q) : ~P!Dispatchable(x, done) => x.canceled \/ x.key \in done
    <3> SUFFICES ASSUME NEW x \in P!Contents(q), ~P!Dispatchable(x, done)
                 PROVE  x.canceled \/ x.key \in done
      OBVIOUS
    <3>1. x.key \in Server!Keys
      BY <1>2, SameData, AttemptsAreKeys DEF P!Item
    <3>2. ~P!Expired(x.key)
      BY SMT, <3>1 DEF P!Expired, Server!Keys
    <3> QED
      BY <3>2 DEF P!Dispatchable
  <2>4. Server!Popped(q, done) = P!Popped(q, done) /\ Server!Rest(q, done) = P!Rest(q, done)
    BY SameQueues
  <2> QED
    BY <1>3, <1>4, <2>1, <2>2, <2>3, <2>4 DEF AtMostOne, PopOK
<1>6. ASSUME NEW item \in Server!Item
      PROVE  InsertOK(item)
  <2>1. P!Contents(P!InsertSorted(q, item)) = P!Contents(q) \cup {item}
    BY <1>1, SameData, P!InsertContents, ServerConstants
  <2>2. Server!InsertSorted(q, item) = P!InsertSorted(q, item)
    BY SameQueues
  <2> QED
    BY <1>3, <1>4, <2>1, <2>2 DEF InsertOK
<1>7. ASSUME NEW tid, NEW att
      PROVE  MarkOK(Server!MarkCanceled(q, tid, att), tid)
  <2> DEFINE r == P!MarkCanceled(q, tid, att)
  <2>1. /\ \A x \in P!Contents(r) : \E y \in P!Contents(q) :
             x.key = y.key /\ (x.canceled => y.canceled \/ y.key[1] = tid)
        /\ \A y \in P!Contents(q) : \E x \in P!Contents(r) : x.key = y.key
    BY SMT, <1>1, P!MarkContents, ServerConstants
  <2>2. Server!MarkCanceled(q, tid, att) = r
    BY SameQueues
  <2> HIDE DEF r
  <2>3. MarkOK(r, tid)
    BY <1>3, <1>4, <2>1 DEF MarkOK
  <2> QED
    BY <2>2, <2>3
<1> QED
  BY <1>3, <1>5, <1>6, <1>7 DEF QueueOK

-----------------------------------------------------------------------------
(* The whole *)

Inv == P!Inv /\ AgentInv

\* The invariant of the composition holds at the start,
LEMMA InvInit == Init => Inv
<1> SUFFICES ASSUME Init PROVE Inv
  OBVIOUS
<1>1. P!Init
  BY SameData DEF Init
<1>2. P!Inv
  BY <1>1, P!InvInit, ServerConstants
<1> QED
  BY <1>2, AgentInit DEF Inv

\* every step keeps it,
LEMMA InvStep == Inv /\ [Next]_vars => Inv'
<1> SUFFICES ASSUME Inv, [Next]_vars PROVE Inv'
  OBVIOUS
<1>1. P!Inv /\ AgentInv /\ ServerOK
  BY ServerFacts DEF Inv
<1>2. [P!Next]_(P!serverVars)
  <2>1. [Server!Next]_(Server!serverVars)
    BY <1>1, ServerRefined
  <2> QED
    BY <2>1, SameNext DEF P!serverVars, Server!serverVars
<1>3. P!Inv'
  BY <1>1, <1>2, P!InvStep, ServerConstants
<1>4. AgentInv'
  BY <1>1, QueueFacts, AgentNext
<1> QED
  BY <1>3, <1>4 DEF Inv

\* and so it always holds.
LEMMA InvAlways == Spec => []Inv
<1>1. Init => Inv
  BY InvInit
<1>2. Inv /\ [Next]_vars => Inv'
  BY InvStep
<1> QED
  BY <1>1, <1>2, PTL DEF Spec

-----------------------------------------------------------------------------
(* Theorems *)

\* Of drop_server and its agent, of any size: every variable keeps its type.
THEOREM CollectionTypes == Spec => []TypeOK
<1>1. Inv => TypeOK
  BY SameTypes DEF Inv, AgentInv, P!Inv
<1> QED
  BY <1>1, InvAlways, PTL

\* TaskQueue, AttemptTracker and the pop of HealthCheckService::Do: without a restart of
\* drop_server an attempt is in one place, and is sampled at most once, whatever RPCs fail and
\* however often the agent restarts.
THEOREM AttemptIsSampledOnce == Spec => []SampledOnce
<1>1. Inv => SampledOnce
  <2> SUFFICES ASSUME Inv, restarts = 0, NEW k \in Server!Attempts
               PROVE  (Places(k) = {} \/ InOnePlace(k)) /\ started[k] <= 1
    BY DEF SampledOnce
  <2>1. Places(k) = {} \/ InOnePlace(k)
    BY ServerFacts, PlacesIs DEF Inv, AgentInv, Whole
  <2>2. started[k] <= 1
    BY AttemptsAreKeys DEF Inv, AgentInv, Whole, Sampled
  <2> QED
    BY <2>1, <2>2
<1> QED
  BY <1>1, InvAlways, PTL

\* From TaskQueue::Enqueue to NotifyResult: an attempt that was queued and not canceled is in its
\* place, has been received, or went with a lost reply, an undeliverable result or a dead agent.
THEOREM NothingDisappears == Spec => []AcceptedIsSomewhere
<1>1. Inv => AcceptedIsSomewhere
  <2> SUFFICES ASSUME Inv, restarts = 0, NEW k \in accepted
               PROVE  \/ k[1] \in asked \/ InOnePlace(k)
                      \/ k \in received \/ k \in gone \cup undelivered
    BY DEF AcceptedIsSomewhere
  <2>1. \/ Excused(k)
        \/ k \in InTasks \cup InReply \cup InAgent \cup gone \cup undelivered
    BY DEF Inv, AgentInv, Whole, Covered
  <2>2. k \in InTasks \cup InReply \cup InAgent => InOnePlace(k)
    BY ServerFacts, PlacesIs DEF Inv, AgentInv, Whole
  <2> QED
    BY <2>1, <2>2 DEF Excused
<1> QED
  BY <1>1, InvAlways, PTL

\* AttemptTracker::MarkCompleted after NotifyResult: an attempt that was sampled is reported as
\* completed only once the server has its result, or an earlier process of the agent had begun it.
THEOREM CompletionFollowsDelivery == Spec => []CompletedMeansDelivered
<1>1. Inv => CompletedMeansDelivered
  <2> SUFFICES ASSUME Inv, restarts = 0, NEW k \in Range(finished), started[k] > 0
               PROVE  k \in received \cup gone
    BY DEF CompletedMeansDelivered
  <2>1. k \in Server!Keys
    BY SMT, LenProperties DEF Inv, AgentInv, AgentType, Range
  <2> QED
    BY <2>1 DEF Inv, AgentInv, Whole, Tracked
<1> QED
  BY <1>1, InvAlways, PTL

\* AttemptTracker::TryBegin and TaskQueue::CancelQueued: an attempt whose cancellation the agent
\* has confirmed before it began is not begun while completed_ remembers it.
THEOREM ConfirmedCancelIsKept == Spec => ConfirmedCancelKeeps
<1> DEFINE Keeps == \A k \in Range(finished) :
                      restarts' = 0 /\ started[k] = 0 => started'[k] = 0
<1>1. Inv /\ [Next]_vars => [Keeps]_vars
  BY KeepsStep DEF Inv
<1> QED
  BY <1>1, InvAlways, PTL DEF Spec, ConfirmedCancelKeeps

\* HealthCheckService::Do and NotifyResult as the agent calls them: the two together implement the
\* specification of drop_server alone, so that what is proved of the server holds here.
THEOREM CollectionImplementsServer == Spec => Server!Spec
<1>1. Init => Server!Init
  BY DEF Init
<1>2. Inv /\ [Next]_vars => [Server!Next]_(Server!serverVars)
  BY ServerFacts, ServerRefined DEF Inv
<1> QED
  BY <1>1, <1>2, InvAlways, PTL DEF Spec, Server!Spec
=============================================================================
