--------------------------- MODULE DropServerProofs ---------------------------
(***************************************************************************)
(* For any agents, tasks, bounds and number of restarts: the queues stay   *)
(* well formed, a cancellation on disk survives a restart, an attempt is   *)
(* handed out once, and a relayed cancellation is kept until confirmed.    *)
(***************************************************************************)
EXTENDS DropServer, SequenceTheorems, WellFoundedInduction, TLAPS

\* A nonempty set of numbers has a least element.
LEMMA Smallest ==
  ASSUME NEW T, T \subseteq Nat, T # {}
  PROVE  \E x \in T : \A y \in T : x <= y
<1> DEFINE R == {ss \in Nat \X Nat : ss[1] < ss[2]}
<1>1. IsWellFoundedOn(R, Nat)
  BY NatLessThanWellFounded DEF OpToRel
<1>2. PICK x \in T : \A y \in T : ~(<<y, x>> \in R)
  BY <1>1, WFMin
<1>3. \A y \in T : x <= y
  <2> TAKE y \in T
  <2>1. ~(y < x)
    BY <1>2
  <2> QED
    BY <2>1
<1> QED
  BY <1>3

-----------------------------------------------------------------------------
(* Queues *)

Unique(q) == \A i, j \in DOMAIN q : q[i].key = q[j].key => i = j
Sorted(q) == \A i, j \in DOMAIN q : i < j => ~Before(q[j], q[i])

\* The items of q2 are new or come from q1, at most more canceled than before.
Derived(q2, q1, new) ==
  \A i \in DOMAIN q2 :
    \/ q2[i] \in new
    \/ \E j \in DOMAIN q1 : q2[i].key = q1[j].key /\ (q1[j].canceled => q2[i].canceled)

\* What an item of the queue is made of.
LEMMA ItemType ==
  ASSUME NEW a \in Item
  PROVE  /\ a.key \in Attempts /\ a.key[1] \in Tids /\ a.enqueued \in Nat
         /\ Priority[a.key[1]] \in Int /\ Deadline[a.key[1]] \in Nat
BY ConstantsAssumption DEF Item, Attempts

\* The order of the queue is asymmetric and transitive.
LEMMA BeforeOrder ==
  ASSUME NEW a \in Item, NEW b \in Item, NEW c \in Item
  PROVE  /\ Before(a, b) => ~Before(b, a)
         /\ Before(a, b) /\ Before(b, c) => Before(a, c)
<1>1. /\ Priority[a.key[1]] \in Int /\ Deadline[a.key[1]] \in Nat /\ a.enqueued \in Nat
      /\ Priority[b.key[1]] \in Int /\ Deadline[b.key[1]] \in Nat /\ b.enqueued \in Nat
      /\ Priority[c.key[1]] \in Int /\ Deadline[c.key[1]] \in Nat /\ c.enqueued \in Nat
  BY ItemType
<1> QED
  BY <1>1 DEF Before

\* The stable sort of an insertion puts the item before the first one it precedes.
LEMMA PositionIs ==
  ASSUME NEW q \in Seq(Item), NEW item
  PROVE  /\ Position(q, item) \in 1..Len(q) + 1
         /\ \A i \in 1..Position(q, item) - 1 : ~Before(item, q[i])
         /\ Position(q, item) <= Len(q) => Before(item, q[Position(q, item)])
<1> DEFINE T == {p \in 1..Len(q) + 1 : p <= Len(q) => Before(item, q[p])}
<1>0. Len(q) \in Nat
  BY LenProperties
<1>1. T \subseteq Nat /\ Len(q) + 1 \in T
  BY <1>0
<1>2. PICK p \in T : \A y \in T : p <= y
  BY <1>1, Smallest
<1>3. \A i \in 1..p - 1 : ~Before(item, q[i])
  <2> TAKE i \in 1..p - 1
  <2>1. i \in 1..Len(q) + 1 /\ i <= Len(q) /\ ~(p <= i)
    BY <1>0
  <2>2. i \notin T
    BY <2>1, <1>2
  <2> QED
    BY <2>1, <2>2
<1>4. \E x \in 1..Len(q) + 1 : /\ \A i \in 1..x - 1 : ~Before(item, q[i])
                               /\ x <= Len(q) => Before(item, q[x])
  BY <1>3
<1> QED
  BY <1>4 DEF Position

\* The scan of pop_next_dispatchable_task_locked stops at the first item it may hand out.
LEMMA FirstIs ==
  ASSUME NEW q \in Seq(Item), NEW done
  PROVE  /\ FirstDispatchable(q, done) \in 1..Len(q) + 1
         /\ \A i \in 1..FirstDispatchable(q, done) - 1 : ~Dispatchable(q[i], done)
         /\ FirstDispatchable(q, done) <= Len(q)
              => Dispatchable(q[FirstDispatchable(q, done)], done)
<1> DEFINE T == {p \in 1..Len(q) + 1 : p <= Len(q) => Dispatchable(q[p], done)}
<1>0. Len(q) \in Nat
  BY LenProperties
<1>1. T \subseteq Nat /\ Len(q) + 1 \in T
  BY <1>0
<1>2. PICK p \in T : \A y \in T : p <= y
  BY <1>1, Smallest
<1>3. \A i \in 1..p - 1 : ~Dispatchable(q[i], done)
  <2> TAKE i \in 1..p - 1
  <2>1. i \in 1..Len(q) + 1 /\ i <= Len(q) /\ ~(p <= i)
    BY <1>0
  <2>2. i \notin T
    BY <2>1, <1>2
  <2> QED
    BY <2>1, <2>2
<1>4. \E x \in 1..Len(q) + 1 : /\ \A i \in 1..x - 1 : ~Dispatchable(q[i], done)
                               /\ x <= Len(q) => Dispatchable(q[x], done)
  BY <1>3
<1> QED
  BY <1>4 DEF FirstDispatchable

\* What a sorted insertion does to a queue.
LEMMA InsertFacts ==
  ASSUME NEW q \in Seq(Item), NEW item \in Item
  PROVE  /\ InsertSorted(q, item) \in Seq(Item)
         /\ Len(InsertSorted(q, item)) = Len(q) + 1
         /\ Derived(InsertSorted(q, item), q, {item})
         /\ Unique(q) /\ ~InQueue(q, item.key) => Unique(InsertSorted(q, item))
         /\ Sorted(q) => Sorted(InsertSorted(q, item))
<1> DEFINE n == Len(q)
           p == Position(q, item)
           e(i) == IF i < p THEN q[i] ELSE IF i = p THEN item ELSE q[i - 1]
           r == [i \in 1..n + 1 |-> e(i)]
<1>0. n \in Nat /\ DOMAIN q = 1..n /\ \A i \in 1..n : q[i] \in Item
  BY LenProperties
<1>1. /\ p \in 1..n + 1 /\ \A i \in 1..p - 1 : ~Before(item, q[i])
      /\ p <= n => Before(item, q[p])
  BY PositionIs
<1>2. InsertSorted(q, item) = r
  BY DEF InsertSorted
<1> HIDE DEF n, p
<1>3. \A i \in 1..n + 1 : /\ i < p => i \in 1..n /\ r[i] = q[i]
                          /\ i = p => r[i] = item
                          /\ i > p => i - 1 \in 1..n /\ i - 1 >= p /\ r[i] = q[i - 1]
  BY <1>0, <1>1
<1>4. \A i \in 1..n + 1 : r[i] \in Item
  BY <1>0, <1>1, <1>3
<1>5. r \in Seq(Item) /\ Len(r) = n + 1 /\ DOMAIN r = 1..n + 1
  <2>1. r \in [1..n + 1 -> Item]
    BY <1>4
  <2>2. n + 1 \in Nat
    BY <1>0
  <2> HIDE DEF r
  <2>3. r \in Seq(Item)
    BY <2>1, <2>2, SeqDef
  <2>4. DOMAIN r = 1..n + 1
    BY <2>1
  <2>5. DOMAIN r = 1..Len(r) /\ Len(r) \in Nat
    BY <2>3, LenProperties
  <2>6. Len(r) = n + 1
    BY <2>2, <2>4, <2>5
  <2> QED
    BY <2>3, <2>4, <2>6
<1> HIDE DEF r
<1>6. Derived(r, q, {item})
  <2> SUFFICES ASSUME NEW i \in 1..n + 1
               PROVE  r[i] = item \/ \E j \in 1..n : r[i] = q[j]
    BY <1>0, <1>5 DEF Derived
  <2> QED
    BY <1>0, <1>1, <1>3
<1>7. ASSUME Unique(q), ~InQueue(q, item.key)
      PROVE  Unique(r)
  <2> SUFFICES ASSUME NEW i \in 1..n + 1, NEW j \in 1..n + 1, r[i].key = r[j].key, i < j
               PROVE  FALSE
    BY <1>0, <1>5 DEF Unique
  <2>1. \A k \in 1..n : q[k].key # item.key
    BY <1>7, <1>0 DEF InQueue
  <2>2. \A k, l \in 1..n : q[k].key = q[l].key => k = l
    BY <1>7, <1>0 DEF Unique
  <2> QED
    BY <2>1, <2>2, <1>0, <1>1, <1>3
<1>8. ASSUME Sorted(q)
      PROVE  Sorted(r)
  <2> SUFFICES ASSUME NEW i \in 1..n + 1, NEW j \in 1..n + 1, i < j
               PROVE  ~Before(r[j], r[i])
    BY <1>5 DEF Sorted
  <2>1. \A k, l \in 1..n : k < l => ~Before(q[l], q[k])
    BY <1>8, <1>0 DEF Sorted
  <2>2. CASE i # p /\ j # p
    BY <2>1, <2>2, <1>0, <1>1, <1>3
  <2>3. CASE j = p
    <3>1. i \in 1..p - 1 /\ r[i] = q[i] /\ r[j] = item
      BY <2>3, <1>0, <1>1, <1>3
    <3> QED
      BY <3>1, <1>1
  <2>4. CASE i = p
    <3>1. j - 1 \in 1..n /\ p \in 1..n /\ j - 1 >= p /\ r[j] = q[j - 1] /\ r[i] = item
      BY <2>4, <1>0, <1>1, <1>3
    <3>2. q[j - 1] \in Item /\ q[p] \in Item /\ Before(item, q[p])
      BY <3>1, <1>0, <1>1
    <3>3. CASE j - 1 = p
      BY <3>1, <3>2, <3>3, BeforeOrder
    <3>4. CASE j - 1 # p
      <4>1. ~Before(q[j - 1], q[p])
        BY <2>1, <3>1, <3>4, <1>0
      <4> QED
        BY <3>1, <3>2, <4>1, BeforeOrder
    <3> QED
      BY <3>3, <3>4
  <2> QED
    BY <2>2, <2>3, <2>4
<1> QED
  BY <1>2, <1>5, <1>6, <1>7, <1>8 DEF n

\* What handing out the next task does to a queue.
LEMMA RestFacts ==
  ASSUME NEW q \in Seq(Item), NEW done
  PROVE  /\ Rest(q, done) \in Seq(Item)
         /\ Len(Rest(q, done)) <= Len(q)
         /\ Derived(Rest(q, done), q, {})
         /\ Unique(q) => Unique(Rest(q, done))
         /\ Sorted(q) => Sorted(Rest(q, done))
         /\ \A k \in Popped(q, done) : \E i \in DOMAIN q : k = q[i].key
         /\ Unique(q) => \A k \in Popped(q, done) : ~InQueue(Rest(q, done), k)
<1> DEFINE n == Len(q)
           f == FirstDispatchable(q, done)
           r == SubSeq(q, f + 1, n)
<1>0. n \in Nat /\ DOMAIN q = 1..n /\ \A i \in 1..n : q[i] \in Item
  BY LenProperties
<1>1. f \in 1..n + 1
  BY FirstIs
<1>2. Rest(q, done) = r /\ Popped(q, done) = IF f <= n THEN {q[f].key} ELSE {}
  BY DEF Rest, Popped
<1> HIDE DEF n, f
<1>3. /\ r \in Seq(Item) /\ Len(r) = IF f + 1 <= n THEN n - (f + 1) + 1 ELSE 0
      /\ \A i \in 1..n - (f + 1) + 1 : r[i] = q[f + 1 + i - 1]
  <2>1. f + 1 \in Int /\ n \in Int /\ \A i \in f + 1..n : q[i] \in Item
    BY <1>0, <1>1
  <2> QED
    BY <2>1, SubSeqProperties
<1> HIDE DEF r
<1>4. Len(r) <= n /\ Len(r) \in Nat /\ DOMAIN r = 1..Len(r)
  BY <1>0, <1>1, <1>3, LenProperties
<1>5. \A i \in DOMAIN r : f + i \in 1..n /\ r[i] = q[f + i]
  BY <1>0, <1>1, <1>3, <1>4
<1>6. Derived(r, q, {})
  BY <1>0, <1>5 DEF Derived
<1>7. Unique(q) => Unique(r)
  BY <1>0, <1>1, <1>4, <1>5 DEF Unique
<1>8. Sorted(q) => Sorted(r)
  BY <1>0, <1>1, <1>4, <1>5 DEF Sorted
<1>9. \A k \in Popped(q, done) : f \in DOMAIN q /\ k = q[f].key
  BY <1>0, <1>1, <1>2
<1>10. Unique(q) => \A k \in Popped(q, done) : ~InQueue(r, k)
  BY <1>0, <1>1, <1>4, <1>5, <1>9 DEF Unique, InQueue
<1> QED
  BY <1>2, <1>3, <1>4, <1>6, <1>7, <1>8, <1>9, <1>10 DEF n

\* What a cancellation does to a queue.
LEMMA MarkFacts ==
  ASSUME NEW q \in Seq(Item), NEW tid, NEW att
  PROVE  /\ MarkCanceled(q, tid, att) \in Seq(Item)
         /\ Len(MarkCanceled(q, tid, att)) = Len(q)
         /\ Derived(MarkCanceled(q, tid, att), q, {})
         /\ Unique(q) => Unique(MarkCanceled(q, tid, att))
         /\ Sorted(q) => Sorted(MarkCanceled(q, tid, att))
<1> DEFINE n == Len(q)
           r == MarkCanceled(q, tid, att)
<1>0. n \in Nat /\ DOMAIN q = 1..n /\ \A i \in 1..n : q[i] \in Item
  BY LenProperties
<1>1. \A i \in 1..n : /\ r[i] \in Item /\ r[i].key = q[i].key /\ r[i].enqueued = q[i].enqueued
                      /\ q[i].canceled => r[i].canceled
  BY <1>0 DEF MarkCanceled, Item
<1>2. DOMAIN r = 1..n /\ r = [i \in 1..n |-> r[i]]
  BY <1>0 DEF MarkCanceled
<1> HIDE DEF r, n
<1>3. r \in [1..n -> Item]
  BY <1>1, <1>2
<1>4. r \in Seq(Item)
  BY <1>0, <1>3, SeqDef
<1>5. Len(r) = n
  BY <1>0, <1>2, <1>4, LenProperties
<1>6. Derived(r, q, {})
  BY <1>0, <1>1, <1>2 DEF Derived
<1>7. Unique(q) => Unique(r)
  BY <1>0, <1>1, <1>2 DEF Unique
<1>8. Sorted(q) => Sorted(r)
  BY <1>0, <1>1, <1>2 DEF Sorted, Before
<1> QED
  BY <1>4, <1>5, <1>6, <1>7, <1>8 DEF r, n

\* The same three, seen as sets of items.
Contents(q) == {q[i] : i \in DOMAIN q}

\* Enqueue adds the item and loses none.
LEMMA InsertContents ==
  ASSUME NEW q \in Seq(Item), NEW item \in Item
  PROVE  Contents(InsertSorted(q, item)) = Contents(q) \cup {item}
<1> DEFINE n == Len(q)
           p == Position(q, item)
           r == [i \in 1..n + 1 |-> IF i < p THEN q[i] ELSE IF i = p THEN item ELSE q[i - 1]]
<1>1. n \in Nat /\ DOMAIN q = 1..n /\ p \in 1..n + 1
  BY LenProperties, PositionIs
<1>2. InsertSorted(q, item) = r
  BY DEF InsertSorted
<1> HIDE DEF n, p
<1>3. DOMAIN r = 1..n + 1 /\ p \in DOMAIN r /\ r[p] = item
  BY <1>1
<1>4. \A i \in 1..n + 1 : r[i] = item \/ \E j \in 1..n : r[i] = q[j]
  <2> TAKE i \in 1..n + 1
  <2>1. CASE i < p
    BY <1>1, <2>1
  <2>2. CASE i = p
    BY <1>1, <2>2
  <2>3. CASE i > p
    <3>1. i - 1 \in 1..n /\ r[i] = q[i - 1]
      BY <1>1, <2>3
    <3> QED
      BY <3>1
  <2> QED
    BY <1>1, <2>1, <2>2, <2>3
<1>5. \A j \in 1..n : \E i \in 1..n + 1 : r[i] = q[j]
  <2> TAKE j \in 1..n
  <2>1. CASE j < p
    BY <1>1, <2>1
  <2>2. CASE j >= p
    <3>1. j + 1 \in 1..n + 1 /\ r[j + 1] = q[j]
      BY <1>1, <2>2
    <3> QED
      BY <3>1
  <2> QED
    BY <1>1, <2>1, <2>2
<1> HIDE DEF r
<1>6. Contents(r) \subseteq Contents(q) \cup {item}
  BY <1>1, <1>3, <1>4 DEF Contents
<1>7. Contents(q) \subseteq Contents(r) /\ item \in Contents(r)
  BY <1>1, <1>3, <1>5 DEF Contents
<1> QED
  BY <1>2, <1>6, <1>7

\* pop_next_dispatchable_task_locked takes at most one attempt, and drops only what may not be
\* handed out.
LEMMA RestContents ==
  ASSUME NEW q \in Seq(Item), NEW done
  PROVE  /\ Contents(Rest(q, done)) \subseteq Contents(q)
         /\ \A x \in Contents(q) : \/ x \in Contents(Rest(q, done))
                                   \/ x.key \in Popped(q, done)
                                   \/ ~Dispatchable(x, done)
         /\ \A k, l \in Popped(q, done) : k = l
         /\ Popped(q, done) \cap done = {}
<1> DEFINE n == Len(q)
           f == FirstDispatchable(q, done)
           r == SubSeq(q, f + 1, n)
<1>1. n \in Nat /\ DOMAIN q = 1..n /\ \A i \in 1..n : q[i] \in Item
  BY LenProperties
<1>2. /\ f \in 1..n + 1 /\ \A i \in 1..f - 1 : ~Dispatchable(q[i], done)
      /\ f <= n => Dispatchable(q[f], done)
  BY FirstIs
<1>3. Rest(q, done) = r /\ Popped(q, done) = IF f <= n THEN {q[f].key} ELSE {}
  BY DEF Rest, Popped
<1> HIDE DEF n, f
<1>4. DOMAIN r = 1..n - f /\ \A i \in 1..n - f : f + i \in 1..n /\ r[i] = q[f + i]
  <2>1. f + 1 \in Int /\ n \in Int /\ \A i \in f + 1..n : q[i] \in Item
    BY <1>1, <1>2
  <2>2. /\ r \in Seq(Item) /\ Len(r) = IF f + 1 <= n THEN n - (f + 1) + 1 ELSE 0
        /\ \A i \in 1..n - (f + 1) + 1 : r[i] = q[f + 1 + i - 1]
    BY <2>1, SubSeqProperties
  <2> HIDE DEF r
  <2>3. DOMAIN r = 1..Len(r)
    BY <2>2, LenProperties
  <2> QED
    BY <1>1, <1>2, <2>2, <2>3
<1> HIDE DEF r
<1>5. Contents(r) \subseteq Contents(q)
  BY <1>1, <1>4 DEF Contents
<1>6. \A j \in 1..n : \/ j \in 1..f - 1
                      \/ j = f /\ f <= n
                      \/ j - f \in 1..n - f /\ r[j - f] = q[j]
  <2> TAKE j \in 1..n
  <2>0. n \in Nat /\ f \in Nat /\ j \in Nat /\ 1 <= j /\ j <= n
    BY <1>1, <1>2
  <2>1. CASE j < f
    <3>1. j \in 1..f - 1
      BY <2>0, <2>1
    <3> QED
      BY <3>1
  <2>3. CASE j = f
    BY <2>0, <2>3
  <2>2. CASE j > f
    <3>1. j - f \in 1..n - f /\ f + (j - f) = j
      BY <1>1, <1>2, <2>2
    <3> QED
      BY <1>4, <3>1
  <2> QED
    BY <2>0, <2>1, <2>2, <2>3
<1>7. ASSUME NEW x \in Contents(q)
      PROVE  x \in Contents(r) \/ x.key \in Popped(q, done) \/ ~Dispatchable(x, done)
  <2>1. PICK j \in 1..n : x = q[j]
    BY <1>1 DEF Contents
  <2> QED
    BY <1>2, <1>3, <1>4, <1>6, <2>1 DEF Contents
<1>8. \A k, l \in Popped(q, done) : k = l
  BY <1>3
<1>9. Popped(q, done) \cap done = {}
  BY <1>2, <1>3 DEF Dispatchable
<1> QED
  BY <1>3, <1>5, <1>7, <1>8, <1>9

\* CancelTask marks items of the task and loses none.
LEMMA MarkContents ==
  ASSUME NEW q \in Seq(Item), NEW tid, NEW att
  PROVE  /\ \A x \in Contents(MarkCanceled(q, tid, att)) : \E y \in Contents(q) :
              x.key = y.key /\ (x.canceled => y.canceled \/ y.key[1] = tid)
         /\ \A y \in Contents(q) : \E x \in Contents(MarkCanceled(q, tid, att)) : x.key = y.key
<1> DEFINE r == MarkCanceled(q, tid, att)
<1>1. \A i \in DOMAIN q : q[i] \in Item
  BY LenProperties
<1>2. DOMAIN r = DOMAIN q
  BY DEF MarkCanceled
<1>3. \A i \in DOMAIN q : /\ r[i].key = q[i].key
                          /\ r[i].canceled => q[i].canceled \/ q[i].key[1] = tid
  BY <1>1 DEF MarkCanceled, Matches, Item
<1> HIDE DEF r
<1>4. \A x \in Contents(r) : \E y \in Contents(q) :
         x.key = y.key /\ (x.canceled => y.canceled \/ y.key[1] = tid)
  BY <1>2, <1>3 DEF Contents
<1>5. \A y \in Contents(q) : \E x \in Contents(r) : x.key = y.key
  BY <1>2, <1>3 DEF Contents
<1> QED
  BY <1>4, <1>5 DEF r

-----------------------------------------------------------------------------
(* The inductive invariant *)

Placed(ip, q) == \A i \in DOMAIN q : q[i].key \in sent /\ Target[q[i].key[1]] = ip

\* What is canceled in the file is canceled in the queue.
Heeds(q, file) ==
  \A r \in DOMAIN file, i \in DOMAIN q :
    file[r].key = q[i].key /\ file[r].canceled => q[i].canceled

QueuesOK ==
  \A ip \in IPs : /\ Unique(tasks[ip]) /\ Sorted(tasks[ip]) /\ Len(tasks[ip]) <= MaxQueue
                  /\ Placed(ip, tasks[ip])

FilesOK ==
  \A ip \in IPs : /\ Unique(snapshot[ip]) /\ Placed(ip, snapshot[ip]) /\ Placed(ip, unread[ip])
                  /\ \A file \in tmpSnap : Unique(file[ip]) /\ Placed(ip, file[ip])

QueuesHeed ==
  \A ip \in IPs : /\ Heeds(tasks[ip], snapshot[ip])
                  /\ \A file \in tmpSnap : Heeds(tasks[ip], file[ip])

UnreadHeeds == \A ip \in IPs : Heeds(unread[ip], snapshot[ip])

\* Nothing is left to restore once RPCs are served, nor before the first restart, and no
\* snapshot is half written while one is restored.
Phases ==
  /\ Serving \/ restarts = 0 => unread = EmptyQueues
  /\ phase = "restoring" => tmpSnap = {}

Handed == dispatched \subseteq sent /\ DispatchedOnce

Inv == TypeOK /\ QueuesOK /\ FilesOK /\ QueuesHeed /\ UnreadHeeds /\ Phases /\ Handed

\* The queues of a fresh process.
LEMMA EmptyFacts ==
  /\ EmptyQueues \in [IPs -> Seq(Item)]
  /\ \A ip \in IPs : /\ EmptyQueues[ip] = <<>> /\ DOMAIN EmptyQueues[ip] = {}
                     /\ Len(EmptyQueues[ip]) = 0
<1>1. <<>> \in Seq(Item) /\ Len(<<>>) = 0 /\ DOMAIN <<>> = {}
  BY EmptySeq, LenProperties
<1> QED
  BY <1>1 DEF EmptyQueues

\* The invariant holds at the start.
LEMMA InvInit == Init => Inv
<1> SUFFICES ASSUME Init PROVE Inv
  OBVIOUS
<1>1. TypeOK
  BY EmptyFacts, ConstantsAssumption DEF Init, TypeOK, NoCancels
<1>2. QueuesOK /\ FilesOK /\ QueuesHeed /\ UnreadHeeds
  BY EmptyFacts, ConstantsAssumption
     DEF Init, QueuesOK, FilesOK, QueuesHeed, UnreadHeeds, Unique, Sorted, Placed, Heeds
<1>3. Phases /\ Handed
  BY DEF Init, Phases, Handed, Serving, DispatchedOnce
<1> QED
  BY <1>1, <1>2, <1>3 DEF Inv

\* New items were sent to the agent of the queue, and what is on disk does not contradict them.
NotOnDisk(ip, new) ==
  \A x \in new :
    /\ x.key \in sent' /\ Target[x.key[1]] = ip
    /\ \A r \in DOMAIN snapshot[ip] :
         snapshot[ip][r].key = x.key /\ snapshot[ip][r].canceled => x.canceled
    /\ \A file \in tmpSnap : \A r \in DOMAIN file[ip] : file[ip][r].key # x.key

\* A change of one queue.
LEMMA QueueStep ==
  ASSUME Inv, NEW ip \in IPs, NEW q \in Seq(Item), NEW new,
         tasks' = [tasks EXCEPT ![ip] = q], tmpSnap' = tmpSnap, snapshot' = snapshot, sent \subseteq sent',
         Unique(q), Sorted(q), Len(q) <= MaxQueue, Derived(q, tasks[ip], new),
         NotOnDisk(ip, new)
  PROVE  tasks' \in [IPs -> Seq(Item)] /\ QueuesOK' /\ QueuesHeed'
<1>1. /\ tasks' \in [IPs -> Seq(Item)] /\ tasks'[ip] = q
      /\ \A j \in IPs \ {ip} : tasks'[j] = tasks[j]
  BY DEF Inv, TypeOK
<1>2. Placed(ip, q)'
  BY DEF Inv, QueuesOK, Placed, Derived, NotOnDisk
<1>3. Heeds(q, snapshot[ip]) /\ \A file \in tmpSnap : Heeds(q, file[ip])
  BY DEF Inv, QueuesHeed, Heeds, Derived, NotOnDisk
<1>4. QueuesOK'
  BY <1>1, <1>2 DEF Inv, QueuesOK, Placed
<1>5. QueuesHeed'
  BY <1>1, <1>3 DEF Inv, QueuesHeed
<1> QED
  BY <1>1, <1>4, <1>5

\* Files that stay, or lose records, are in order when more attempts are sent.
LEMMA FileStep ==
  ASSUME Inv, UNCHANGED <<tmpSnap, snapshot, unread>>, sent \subseteq sent'
  PROVE  FilesOK' /\ UnreadHeeds'
BY DEF Inv, FilesOK, UnreadHeeds, Placed

-----------------------------------------------------------------------------
(* Every step preserves it *)

\* An attempt was handed to an agent of the instance.
LEMMA InIPs ==
  ASSUME Inv, NEW d \in dispatched
  PROVE  Target[d[1]] \in IPs
BY ConstantsAssumption DEF Inv, TypeOK, Attempts

\* TaskCreate keeps the invariant.
LEMMA CreateStep ==
  ASSUME Inv, NEW k \in Attempts, CreateTask(k)
  PROVE  Inv'
<1> DEFINE ip == Target[k[1]]
           item == [key |-> k, enqueued |-> now, canceled |-> FALSE]
<1>0. ip \in IPs /\ item \in Item /\ tasks[ip] \in Seq(Item) /\ k \in Keys
  <2>1. k[1] \in Tids /\ now \in Nat
    BY ConstantsAssumption DEF Attempts, Inv, TypeOK
  <2>2. ip \in IPs /\ item \in Item
    BY <2>1, ConstantsAssumption DEF Item
  <2> QED
    BY <2>2 DEF Inv, TypeOK, Keys, Attempts
<1>1. /\ UNCHANGED <<now, phase, completed, cancels, tmpSnap, snapshot, unread, restarts, asked, relayed,
                     dispatched>>
      /\ Serving /\ k \notin sent /\ sent' = sent \cup {k} /\ tasks' = Enqueued(k)
  BY DEF CreateTask
<1>2. FilesOK' /\ UnreadHeeds' /\ Phases'
  BY <1>1, FileStep DEF Inv, Phases, Serving
<1>3. CASE EnqueueAnswer(k) # "queued"
  <2>1. tasks' = tasks
    BY <1>1, <1>3 DEF Enqueued
  <2>2. TypeOK' /\ QueuesOK' /\ QueuesHeed' /\ Handed'
    BY <1>1, <2>1
       DEF Inv, TypeOK, QueuesOK, QueuesHeed, Placed, Handed, DispatchedOnce
  <2> QED
    BY <1>2, <2>2 DEF Inv
<1>4. CASE EnqueueAnswer(k) = "queued"
  <2> DEFINE q == InsertSorted(tasks[ip], item)
  <2>1. tasks' = [tasks EXCEPT ![ip] = q]
    BY <1>1, <1>4 DEF Enqueued
  <2>2. ~InQueue(tasks[ip], k) /\ ~(Len(tasks[ip]) >= MaxQueue)
    BY <1>4 DEF EnqueueAnswer
  <2>3. /\ q \in Seq(Item) /\ Len(q) = Len(tasks[ip]) + 1 /\ Derived(q, tasks[ip], {item})
        /\ Unique(q) /\ Sorted(q)
    BY <1>0, <2>2, InsertFacts DEF Inv, QueuesOK
  <2>4. Len(q) <= MaxQueue
    BY <1>0, <2>2, <2>3, LenProperties, ConstantsAssumption
  <2>5. \A file \in tmpSnap \cup {snapshot} : \A r \in DOMAIN file[ip] : file[ip][r].key # k
    <3>1. Placed(ip, snapshot[ip]) /\ \A file \in tmpSnap : Placed(ip, file[ip])
      BY <1>0 DEF Inv, FilesOK
    <3> QED
      BY <1>1, <3>1 DEF Placed
  <2> HIDE DEF q
  <2>6. tasks' \in [IPs -> Seq(Item)] /\ QueuesOK' /\ QueuesHeed'
    <3>1. NotOnDisk(ip, {item})
      BY <1>1, <2>5 DEF NotOnDisk
    <3> QED
      BY <1>0, <1>1, <2>1, <2>3, <2>4, <3>1, QueueStep
  <2>7. TypeOK'
    BY <1>1, <2>6 DEF Inv, TypeOK
  <2>8. Handed'
    <3> SUFFICES ASSUME restarts = 0, NEW d \in dispatched, InQueue(tasks'[Target[d[1]]], d)
                 PROVE  FALSE
      BY <1>1 DEF Inv, Handed, DispatchedOnce
    <3>1. d \in sent /\ d # k /\ ~InQueue(tasks[Target[d[1]]], d) /\ d[1] \in Tids
      BY <1>1 DEF Inv, Handed, DispatchedOnce, TypeOK, Attempts
    <3>2. CASE Target[d[1]] = ip
      <4>1. tasks'[ip] = q
        BY <1>0, <2>1 DEF Inv, TypeOK
      <4>2. PICK i \in DOMAIN q : q[i].key = d
        BY <3>2, <4>1 DEF InQueue
      <4>3. q[i].key = k \/ \E j \in DOMAIN tasks[ip] : q[i].key = tasks[ip][j].key
        BY <2>3 DEF Derived
      <4> QED
        BY <3>1, <3>2, <4>2, <4>3 DEF InQueue
    <3>3. CASE Target[d[1]] # ip
      BY <1>0, <2>1, <3>1, <3>3, ConstantsAssumption DEF Inv, TypeOK
    <3> QED
      BY <3>2, <3>3
  <2> QED
    BY <1>2, <2>6, <2>7, <2>8 DEF Inv
<1> QED
  BY <1>3, <1>4

\* TaskCancel keeps the invariant.
LEMMA CancelStep ==
  ASSUME Inv, NEW k \in Keys, CancelTask(k[1], k[2])
  PROVE  Inv'
<1> DEFINE ip == Target[k[1]]
           q == MarkCanceled(tasks[ip], k[1], k[2])
<1>0. /\ k[1] \in Tids /\ ip \in IPs /\ tasks[ip] \in Seq(Item) /\ <<k[1], k[2]>> \in Keys
  BY ConstantsAssumption DEF Inv, TypeOK, Keys
<1>1. /\ UNCHANGED <<now, phase, completed, tmpSnap, snapshot, unread, restarts, sent, dispatched>>
      /\ asked' = asked \cup {k[1]} /\ tasks' = [tasks EXCEPT ![ip] = q]
      /\ cancels' = cancels \/ cancels' = [cancels EXCEPT ![ip] = @ \cup {<<k[1], k[2]>>}]
      /\ relayed' \subseteq relayed \cup {<<k[1], k[2]>>}
  BY DEF CancelTask
<1>2. FilesOK' /\ UnreadHeeds' /\ Phases'
  BY <1>1, FileStep DEF Inv, Phases, Serving
<1>3. /\ q \in Seq(Item) /\ Len(q) = Len(tasks[ip]) /\ Derived(q, tasks[ip], {})
      /\ Unique(q) /\ Sorted(q)
  BY <1>0, MarkFacts DEF Inv, QueuesOK
<1> HIDE DEF q
<1>4. Len(q) <= MaxQueue
  BY <1>0, <1>3 DEF Inv, QueuesOK
<1>5. tasks' \in [IPs -> Seq(Item)] /\ QueuesOK' /\ QueuesHeed'
  <2>1. NotOnDisk(ip, {})
    BY DEF NotOnDisk
  <2> QED
    BY <1>0, <1>1, <1>3, <1>4, <2>1, QueueStep
<1>6. cancels' \in [IPs -> SUBSET Keys]
  <2>1. cancels \in [IPs -> SUBSET Keys]
    BY DEF Inv, TypeOK
  <2>2. cancels[ip] \cup {<<k[1], k[2]>>} \in SUBSET Keys
    BY <1>0, <2>1
  <2> QED
    BY <1>0, <1>1, <2>1, <2>2
<1>7. TypeOK'
  BY <1>0, <1>1, <1>5, <1>6 DEF Inv, TypeOK
<1>8. Handed'
  <2> SUFFICES ASSUME restarts = 0, NEW d \in dispatched, InQueue(tasks'[Target[d[1]]], d)
               PROVE  FALSE
    BY <1>1 DEF Inv, Handed, DispatchedOnce
  <2>1. ~InQueue(tasks[Target[d[1]]], d)
    BY DEF Inv, Handed, DispatchedOnce
  <2>2. CASE Target[d[1]] = ip
    <3>1. tasks'[ip] = q
      BY <1>0, <1>1 DEF Inv, TypeOK
    <3>2. InQueue(q, d)
      BY <2>2, <3>1
    <3>3. PICK i \in DOMAIN q : q[i].key = d
      BY <3>2 DEF InQueue
    <3>4. InQueue(tasks[ip], d)
      BY <1>3, <3>3 DEF InQueue, Derived
    <3> QED
      BY <2>1, <2>2, <3>4
  <2>3. CASE Target[d[1]] # ip
    BY <1>1, <2>1, <2>3, InIPs DEF Inv, TypeOK
  <2> QED
    BY <2>2, <2>3
<1> QED
  BY <1>2, <1>5, <1>7, <1>8 DEF Inv

\* What an agent reports names attempts.
LEMMA ReportableKeys ==
  ASSUME Inv, NEW ip \in IPs
  PROVE  Reportable(ip) \subseteq Keys
BY DEF Inv, TypeOK, Reportable, Keys, Attempts

\* HealthCheck keeps the invariant.
LEMMA HealthCheckStep ==
  ASSUME Inv, NEW ip \in IPs, NEW done \in SUBSET Reportable(ip), HealthCheckDo(ip, done)
  PROVE  Inv'
<1> DEFINE q == Rest(tasks[ip], completed')
           popped == Popped(tasks[ip], completed')
<1>0. tasks[ip] \in Seq(Item) /\ Unique(tasks[ip]) /\ Sorted(tasks[ip]) /\ done \subseteq Keys
  BY ReportableKeys DEF Inv, TypeOK, QueuesOK
<1>1. /\ UNCHANGED <<now, phase, tmpSnap, snapshot, unread, restarts, sent, asked, relayed>>
      /\ completed' = completed \cup done /\ cancels' = [j \in IPs |-> cancels[j] \ done]
      /\ dispatched' = dispatched \cup popped /\ tasks' = [tasks EXCEPT ![ip] = q]
  BY DEF HealthCheckDo, MarkCompleted
<1>2. FilesOK' /\ UnreadHeeds' /\ Phases'
  BY <1>1, FileStep DEF Inv, Phases, Serving
<1>3. /\ q \in Seq(Item) /\ Len(q) <= Len(tasks[ip]) /\ Derived(q, tasks[ip], {})
      /\ Unique(q) /\ Sorted(q)
      /\ \A k \in popped : \E i \in DOMAIN tasks[ip] : k = tasks[ip][i].key
      /\ \A k \in popped : ~InQueue(q, k)
  BY <1>0, RestFacts
<1> HIDE DEF q, popped
<1>4. Len(q) <= MaxQueue
  BY <1>0, <1>3, LenProperties, ConstantsAssumption DEF Inv, QueuesOK
<1>5. tasks' \in [IPs -> Seq(Item)] /\ QueuesOK' /\ QueuesHeed'
  <2>1. NotOnDisk(ip, {})
    BY DEF NotOnDisk
  <2> QED
    BY <1>0, <1>1, <1>3, <1>4, <2>1, QueueStep
<1>6. \A k \in popped : k \in sent /\ Target[k[1]] = ip
  BY <1>3 DEF Inv, QueuesOK, Placed
<1>7. TypeOK'
  BY <1>0, <1>1, <1>5, <1>6 DEF Inv, TypeOK
<1>8. Handed'
  <2>1. dispatched' \subseteq sent'
    BY <1>1, <1>6 DEF Inv, Handed
  <2>2. ASSUME restarts = 0, NEW d \in dispatched', InQueue(tasks'[Target[d[1]]], d)
        PROVE  FALSE
    <3>1. CASE d \in popped
      BY <1>1, <1>3, <1>6, <2>2, <3>1 DEF Inv, TypeOK
    <3>2. CASE d \in dispatched
      <4>1. ~InQueue(tasks[Target[d[1]]], d)
        BY <2>2, <3>2 DEF Inv, Handed, DispatchedOnce
      <4>2. CASE Target[d[1]] = ip
        <5>1. tasks'[ip] = q
          BY <1>0, <1>1 DEF Inv, TypeOK
        <5>2. InQueue(q, d)
          BY <2>2, <4>2, <5>1
        <5>3. PICK i \in DOMAIN q : q[i].key = d
          BY <5>2 DEF InQueue
        <5>4. InQueue(tasks[ip], d)
          BY <1>3, <5>3 DEF InQueue, Derived
        <5> QED
          BY <4>1, <4>2, <5>4
      <4>3. CASE Target[d[1]] # ip
        BY <1>1, <2>2, <3>2, <4>1, <4>3, InIPs DEF Inv, TypeOK
      <4> QED
        BY <4>2, <4>3
    <3> QED
      BY <1>1, <3>1, <3>2
  <2> QED
    BY <1>1, <2>1, <2>2 DEF Handed, DispatchedOnce
<1> QED
  BY <1>2, <1>5, <1>7, <1>8 DEF Inv

\* A step that leaves the queues and the files alone.
LEMMA StillStep ==
  ASSUME Inv, UNCHANGED <<tasks, tmpSnap, snapshot, unread, restarts, sent, dispatched>>
  PROVE  QueuesOK' /\ FilesOK' /\ QueuesHeed' /\ UnreadHeeds' /\ Handed'
<1>1. QueuesOK' /\ QueuesHeed'
  BY DEF Inv, QueuesOK, QueuesHeed, Placed
<1>2. FilesOK' /\ UnreadHeeds'
  BY FileStep
<1>3. Handed'
  BY DEF Inv, Handed, DispatchedOnce
<1> QED
  BY <1>1, <1>2, <1>3

\* NotifyResult keeps the invariant.
LEMMA NotifyStep ==
  ASSUME Inv, NEW k \in dispatched, NotifyResult(k)
  PROVE  Inv'
<1>1. /\ UNCHANGED <<now, phase, tasks, tmpSnap, snapshot, unread, restarts, sent, asked, relayed, dispatched>>
      /\ completed' = completed \cup {k} /\ cancels' = [j \in IPs |-> cancels[j] \ {k}]
  BY DEF NotifyResult, MarkCompleted
<1>2. k \in Keys
  BY DEF Inv, TypeOK, Keys, Attempts
<1>3. TypeOK'
  BY <1>1, <1>2 DEF Inv, TypeOK
<1> QED
  <2>1. QueuesOK' /\ FilesOK' /\ QueuesHeed' /\ UnreadHeeds' /\ Handed'
    BY <1>1, StillStep
  <2>2. Phases'
    BY <1>1 DEF Inv, Phases, Serving
  <2> QED
    BY <1>3, <2>1, <2>2 DEF Inv

\* A queue heeds a copy of itself.
LEMMA HeedsItself ==
  ASSUME NEW q, Unique(q)
  PROVE  Heeds(q, q)
BY DEF Unique, Heeds

\* Writing the temporary file keeps the invariant.
LEMMA SnapshotWriteStep ==
  ASSUME Inv, SnapshotWrite
  PROVE  Inv'
<1>1. /\ UNCHANGED <<now, phase, tasks, completed, cancels, snapshot, unread, restarts, sent, asked, relayed,
                     dispatched>>
      /\ phase = "serving" /\ tmpSnap' = {tasks}
  BY DEF SnapshotWrite
<1>2. TypeOK' /\ QueuesOK' /\ UnreadHeeds' /\ Phases' /\ Handed'
  BY <1>1 DEF Inv, TypeOK, QueuesOK, Placed, UnreadHeeds, Phases, Serving, Handed, DispatchedOnce
<1>3. FilesOK'
  <2> SUFFICES ASSUME NEW j \in IPs
               PROVE  /\ Unique(snapshot[j]) /\ Placed(j, snapshot[j]) /\ Placed(j, unread[j])
                      /\ Unique(tasks[j]) /\ Placed(j, tasks[j])
    BY <1>1 DEF FilesOK, Placed
  <2> QED
    BY DEF Inv, FilesOK, QueuesOK
<1>4. QueuesHeed'
  BY <1>1, HeedsItself DEF Inv, QueuesHeed, QueuesOK
<1> QED
  BY <1>2, <1>3, <1>4 DEF Inv

\* Renaming it keeps the invariant.
LEMMA SnapshotRenameStep ==
  ASSUME Inv, SnapshotRename
  PROVE  Inv'
<1>1. /\ UNCHANGED <<now, phase, tasks, completed, cancels, unread, restarts, sent, asked, relayed, dispatched>>
      /\ phase = "serving" /\ tmpSnap' = {} /\ snapshot' \in tmpSnap \cup {snapshot}
  BY DEF SnapshotRename
<1>2. TypeOK' /\ QueuesOK' /\ Phases' /\ Handed'
  BY <1>1 DEF Inv, TypeOK, QueuesOK, Placed, Phases, Serving, Handed, DispatchedOnce
<1>3. FilesOK' /\ QueuesHeed'
  BY <1>1 DEF Inv, FilesOK, QueuesHeed, Placed
<1>4. UnreadHeeds'
  BY <1>1, EmptyFacts DEF Inv, Phases, Serving, UnreadHeeds, Heeds
<1> QED
  BY <1>2, <1>3, <1>4 DEF Inv

\* The last snapshot keeps the invariant.
LEMMA FinalSnapshotStep ==
  ASSUME Inv, FinalSnapshot
  PROVE  Inv'
<1>1. /\ UNCHANGED <<now, tasks, completed, cancels, tmpSnap, unread, restarts, sent, asked, relayed, dispatched>>
      /\ phase = "serving" /\ phase' = "draining" /\ tmpSnap = {} /\ snapshot' = tasks
  BY DEF FinalSnapshot
<1>2. TypeOK' /\ QueuesOK' /\ Phases' /\ Handed'
  BY <1>1 DEF Inv, TypeOK, QueuesOK, Placed, Phases, Serving, Handed, DispatchedOnce
<1>3. FilesOK'
  BY <1>1 DEF Inv, FilesOK, QueuesOK, Placed
<1>4. QueuesHeed'
  BY <1>1, HeedsItself DEF Inv, QueuesHeed, QueuesOK
<1>5. UnreadHeeds'
  BY <1>1, EmptyFacts DEF Inv, Phases, Serving, UnreadHeeds, Heeds
<1> QED
  BY <1>2, <1>3, <1>4, <1>5 DEF Inv

\* The steps that only move the process or the clock.
LEMMA PhaseStep ==
  ASSUME Inv, Shutdown \/ Crash \/ Serve \/ Tick \/ UNCHANGED serverVars
  PROVE  Inv'
<1>1. /\ UNCHANGED <<tasks, completed, cancels, tmpSnap, snapshot, unread, restarts, sent, asked, relayed,
                     dispatched>>
      /\ now' \in 0..MaxTime
      /\ phase' \in {"restoring", "serving", "draining", "down"}
  BY ConstantsAssumption DEF Inv, TypeOK, Shutdown, Crash, Serve, Tick, serverVars
<1>2. Phases'
  BY DEF Inv, Phases, Serving, Shutdown, Crash, Serve, Tick, serverVars
<1>3. TypeOK'
  BY <1>1 DEF Inv, TypeOK
<1>4. QueuesOK' /\ FilesOK' /\ QueuesHeed' /\ UnreadHeeds' /\ Handed'
  BY <1>1, StillStep
<1> QED
  BY <1>2, <1>3, <1>4 DEF Inv

\* A start with empty memory keeps the invariant.
LEMMA StartStep ==
  ASSUME Inv, Start
  PROVE  Inv'
<1>1. /\ UNCHANGED <<now, snapshot, sent, asked, relayed, dispatched>>
      /\ restarts' = restarts + 1 /\ restarts' # 0 /\ restarts' \in 0..MaxRestarts
      /\ phase' = "restoring" /\ tasks' = EmptyQueues /\ completed' = {} /\ cancels' = NoCancels
      /\ tmpSnap' = {} /\ unread' = snapshot
  BY ConstantsAssumption DEF Start, Inv, TypeOK
<1>2. TypeOK'
  BY <1>1, EmptyFacts DEF Inv, TypeOK, NoCancels
<1>3. QueuesOK' /\ QueuesHeed'
  BY <1>1, EmptyFacts, ConstantsAssumption DEF QueuesOK, QueuesHeed, Unique, Sorted, Placed, Heeds
<1>4. FilesOK'
  BY <1>1 DEF Inv, FilesOK, Placed
<1>5. UnreadHeeds'
  BY <1>1, HeedsItself DEF Inv, FilesOK, UnreadHeeds
<1>6. Phases' /\ Handed'
  BY <1>1 DEF Inv, Phases, Serving, Handed, DispatchedOnce
<1> QED
  BY <1>2, <1>3, <1>4, <1>5, <1>6 DEF Inv

\* Re-enqueueing one record of the snapshot keeps the invariant.
LEMMA RestoreStep ==
  ASSUME Inv, NEW ip \in IPs, RestoreRecord(ip)
  PROVE  Inv'
<1> DEFINE old == unread[ip]
           item == Head(old)
           rest == Tail(old)
<1>0. /\ UNCHANGED <<now, phase, completed, cancels, tmpSnap, snapshot, restarts, sent, asked, relayed, dispatched>>
      /\ phase = "restoring" /\ old # <<>>
      /\ tasks' = Restored(ip, item) /\ unread' = [unread EXCEPT ![ip] = rest]
  BY DEF RestoreRecord
<1>1. tasks[ip] \in Seq(Item) /\ old \in Seq(Item) /\ tmpSnap = {} /\ restarts # 0
  BY <1>0, EmptyFacts DEF Inv, TypeOK, Phases
<1>2. /\ item = old[1] /\ 1 \in DOMAIN old /\ item \in Item /\ rest \in Seq(Item)
      /\ \A i \in DOMAIN rest : i + 1 \in DOMAIN old /\ rest[i] = old[i + 1]
  BY <1>0, <1>1, HeadTailProperties, LenProperties, ElementOfSeq
<1> HIDE DEF item, rest
<1>3. /\ item.key \in sent /\ Target[item.key[1]] = ip
      /\ \A r \in DOMAIN snapshot[ip] :
           snapshot[ip][r].key = item.key /\ snapshot[ip][r].canceled => item.canceled
      /\ Placed(ip, rest) /\ Heeds(rest, snapshot[ip])
  <2>1. Placed(ip, old) /\ Heeds(old, snapshot[ip])
    BY DEF Inv, FilesOK, UnreadHeeds
  <2> HIDE DEF old
  <2>2. Placed(ip, rest)
    BY <1>2, <2>1 DEF Placed
  <2>3. Heeds(rest, snapshot[ip])
    BY <1>2, <2>1 DEF Heeds
  <2> QED
    BY <1>2, <2>1, <2>2, <2>3 DEF Placed, Heeds
<1> HIDE DEF old
<1>4. /\ unread' \in [IPs -> Seq(Item)] /\ unread'[ip] = rest
      /\ \A j \in IPs \ {ip} : unread'[j] = unread[j]
  BY <1>0, <1>2 DEF Inv, TypeOK
<1>5. FilesOK' /\ UnreadHeeds'
  <2> SUFFICES ASSUME NEW j \in IPs
               PROVE  /\ Unique(snapshot[j]) /\ Placed(j, snapshot[j]) /\ Placed(j, unread'[j])
                      /\ Heeds(unread'[j], snapshot[j])
    <3>1. tmpSnap' = {} /\ snapshot' = snapshot /\ sent' = sent
      BY <1>0, <1>1
    <3> QED
      BY <3>1 DEF FilesOK, UnreadHeeds, Placed
  <2>1. /\ Unique(snapshot[j]) /\ Placed(j, snapshot[j]) /\ Placed(j, unread[j])
        /\ Heeds(unread[j], snapshot[j])
    BY DEF Inv, FilesOK, UnreadHeeds
  <2> QED
    BY <1>3, <1>4, <2>1
<1>6. Phases' /\ Handed'
  BY <1>0, <1>1 DEF Inv, Phases, Serving, Handed, DispatchedOnce
<1>7. tasks' \in [IPs -> Seq(Item)] /\ QueuesOK' /\ QueuesHeed'
  <2>1. CASE tasks' = tasks
    BY <1>0, <2>1 DEF Inv, TypeOK, QueuesOK, QueuesHeed, Placed
  <2>2. CASE tasks' # tasks
    <3> DEFINE q == InsertSorted(tasks[ip], item)
    <3>1. /\ tasks' = [tasks EXCEPT ![ip] = q]
          /\ ~InQueue(tasks[ip], item.key) /\ ~(Len(tasks[ip]) >= MaxQueue)
      BY <1>0, <2>2 DEF Restored
    <3>2. /\ q \in Seq(Item) /\ Len(q) = Len(tasks[ip]) + 1 /\ Derived(q, tasks[ip], {item})
          /\ Unique(q) /\ Sorted(q)
      BY <1>1, <1>2, <3>1, InsertFacts DEF Inv, QueuesOK
    <3>3. Len(q) <= MaxQueue
      BY <1>1, <3>1, <3>2, LenProperties, ConstantsAssumption
    <3>4. NotOnDisk(ip, {item})
      BY <1>0, <1>1, <1>3 DEF NotOnDisk
    <3> HIDE DEF q
    <3> QED
      BY <1>0, <3>1, <3>2, <3>3, <3>4, QueueStep
  <2> QED
    BY <2>1, <2>2
<1>8. TypeOK'
  BY <1>0, <1>4, <1>7 DEF Inv, TypeOK
<1> QED
  BY <1>5, <1>6, <1>7, <1>8 DEF Inv

\* Every step keeps the invariant,
LEMMA InvStep == Inv /\ [Next]_serverVars => Inv'
<1> SUFFICES ASSUME Inv, [Next]_serverVars PROVE Inv'
  OBVIOUS
<1>1. CASE \E k \in Attempts : CreateTask(k)
  BY <1>1, CreateStep
<1>2. CASE \E k \in Keys : CancelTask(k[1], k[2])
  BY <1>2, CancelStep
<1>3. CASE \E ip \in IPs : \E done \in SUBSET Reportable(ip) : HealthCheckDo(ip, done)
  BY <1>3, HealthCheckStep
<1>4. CASE \E k \in dispatched : NotifyResult(k)
  BY <1>4, NotifyStep
<1>5. CASE ServerStep
  BY <1>5, SnapshotWriteStep, SnapshotRenameStep, FinalSnapshotStep, PhaseStep, StartStep,
     RestoreStep DEF ServerStep
<1>6. CASE Tick \/ UNCHANGED serverVars
  BY <1>6, PhaseStep
<1> QED
  BY <1>1, <1>2, <1>3, <1>4, <1>5, <1>6 DEF Next

\* and so it always holds.
LEMMA InvAlways == Spec => []Inv
BY InvInit, InvStep, PTL DEF Spec

-----------------------------------------------------------------------------
(* The theorems *)

\* Every variable of the server keeps its type: in particular the queues hold whole items, and
\* what is reported as completed are keys of attempts.
THEOREM ServerTypes == Spec => []TypeOK
<1>1. Inv => TypeOK
  BY DEF Inv
<1> QED
  BY <1>1, InvAlways, PTL

\* TaskQueue.cpp: after every enqueue, cancel, pop and restore, in any order, no attempt is queued
\* twice, a queue is within MAX_QUEUE_LENGTH_PER_AGENT, and it is sorted by priority, deadline and
\* arrival.
THEOREM QueueStaysWellFormed == Spec => []QueueWellFormed
<1>1. Inv => QueueWellFormed
  BY DEF Inv, QueuesOK, Unique, Sorted, QueueWellFormed, QueueUnique, QueueBounded, QueueSorted
<1> QED
  BY <1>1, InvAlways, PTL

\* restore_tasks_from_disk: whatever the snapshot records as canceled is canceled wherever it is
\* queued, for any number of crashes and restarts at any point of a snapshot or a restore.
THEOREM CanceledStaysCanceled == Spec => []CancelSurvivesRestart
<1>1. Inv => CancelSurvivesRestart
  BY DEF Inv, QueuesHeed, Heeds, CancelSurvivesRestart
<1> QED
  BY <1>1, InvAlways, PTL

\* pop_next_dispatchable_task_locked: until the first restart no attempt that was handed to its
\* agent is in a queue again, so no heartbeat hands it out a second time.
THEOREM HandedOutOnce == Spec => []DispatchedOnce
<1>1. Inv => DispatchedOnce
  BY DEF Inv, Handed
<1> QED
  BY <1>1, InvAlways, PTL

\* mark_attempt_completed_locked: a relayed cancellation leaves the list of its agent only with
\* the attempt's completion or with a restart of the process.
THEOREM RelayedCancelIsKept == Spec => CancelKeptUntilConfirmed
<1> DEFINE Kept == \A ip \in IPs : \A k \in cancels[ip] :
                     k \in cancels'[ip] \/ k \in completed' \/ restarts' # restarts
<1>1. Inv /\ [Next]_serverVars => [Kept]_serverVars
  <2> SUFFICES ASSUME Inv, Next PROVE Kept
    OBVIOUS
  <2>0. cancels \in [IPs -> SUBSET Keys] /\ restarts \in Nat
    BY ConstantsAssumption DEF Inv, TypeOK
  <2>1. ASSUME NEW done, MarkCompleted(done)
        PROVE  Kept
    BY <2>1, <2>0 DEF MarkCompleted
  <2>2. CASE cancels' = cancels
    BY <2>2
  <2>3. CASE \E k \in Keys : CancelTask(k[1], k[2])
    BY <2>3, <2>0 DEF CancelTask
  <2>4. CASE Start
    <3>1. restarts' = restarts + 1
      BY <2>4 DEF Start
    <3>2. restarts' # restarts
      BY <2>0, <3>1
    <3> QED
      BY <3>2
  <2>5. CASE \E ip \in IPs : \E done \in SUBSET Reportable(ip) : HealthCheckDo(ip, done)
    BY <2>1, <2>5 DEF HealthCheckDo
  <2>6. CASE \E k \in dispatched : NotifyResult(k)
    BY <2>1, <2>6 DEF NotifyResult
  <2>7. CASE ServerStep /\ ~Start
    BY <2>2, <2>7
       DEF ServerStep, SnapshotWrite, SnapshotRename, FinalSnapshot, Shutdown, Crash,
           RestoreRecord, Serve
  <2>8. CASE (\E k \in Attempts : CreateTask(k)) \/ Tick
    BY <2>2, <2>8 DEF CreateTask, Tick
  <2> QED
    BY <2>3, <2>4, <2>5, <2>6, <2>7, <2>8 DEF Next
<1> QED
  BY <1>1, InvAlways, PTL DEF Spec, CancelKeptUntilConfirmed
=============================================================================
