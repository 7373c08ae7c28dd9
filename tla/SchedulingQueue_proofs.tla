------------------------ MODULE SchedulingQueue_proofs ------------------------
(***************************************************************************)
(* Proofs about SchedulingQueue for any set of requests, any number of     *)
(* sessions and hosts and any priorities: the queue, its rotations and its *)
(* callbacks always agree with the callers on who waits, and round robin   *)
(* never lets a session be passed twice by the same other one.             *)
(***************************************************************************)
EXTENDS SchedulingQueue, SequenceTheorems, WellFoundedInduction, TLAPS

Has(seq, x) == \E i \in 1..Len(seq) : seq[i] = x
Once(seq) == \A i, j \in 1..Len(seq) : seq[i] = seq[j] => i = j

\* Whenever both are in the sequence, x is before y.
Before(seq, x, y) == \A i, j \in 1..Len(seq) : seq[i] = x /\ seq[j] = y => i < j

------------------------------------------------------------------------------
(* What the operations of a deque do to membership, repetition and order.   *)

LEMMA LeastOf ==
    ASSUME NEW S \in SUBSET Nat, S # {}
    PROVE  \E m \in S : \A k \in S : m <= k
<1>1. IsWellFoundedOn(OpToRel(<, Nat), Nat)
  BY NatLessThanWellFounded
<1>2. PICK m \in S : \A k \in S : ~(<<k, m>> \in OpToRel(<, Nat))
  BY <1>1, WFMin
<1>3. \A k \in S : ~(k < m)
  BY <1>2 DEF OpToRel
<1> QED BY <1>3

LEMMA EmptyHasNone ==
    ASSUME NEW S, NEW seq \in Seq(S)
    PROVE  seq = << >> <=> \A x \in S : ~Has(seq, x)
<1>1. CASE seq = << >>
  BY <1>1 DEF Has
<1>2. CASE seq # << >>
  <2>1. 1 \in 1..Len(seq) /\ seq[1] \in S
    BY <1>2, EmptySeq, ElementOfSeq
  <2> QED BY <1>2, <2>1 DEF Has
<1> QED BY <1>1, <1>2

LEMMA RemovedAbsent ==
    ASSUME NEW seq, NEW e, ~Has(seq, e)
    PROVE  RemoveFirst(seq, e) = seq
BY DEF RemoveFirst, Has

\* rotation.remove and the filter of cancel, on a deque without repetitions.
LEMMA RemovedAt ==
    ASSUME NEW S, NEW seq \in Seq(S), Once(seq), NEW k \in 1..Len(seq)
    PROVE  LET rest == RemoveFirst(seq, seq[k])
           IN  /\ rest \in Seq(S)
               /\ Len(rest) = Len(seq) - 1
               /\ \A i \in 1..(Len(seq) - 1) : rest[i] = seq[IF i < k THEN i ELSE i + 1]
<1> DEFINE I == {i \in 1..Len(seq) : seq[i] = seq[k]}
           a == SubSeq(seq, 1, k - 1)
           b == SubSeq(seq, k + 1, Len(seq))
<1>1. I = {k}
  BY DEF Once
<1>2. Min(I) = k
  BY <1>1 DEF Min
<1>3. RemoveFirst(seq, seq[k]) = a \o b
  <2>1. SelectInSeq(seq, LAMBDA v : v = seq[k]) = k
    BY <1>1, <1>2, Zenon DEF SelectInSeq
  <2> QED BY <2>1, Zenon DEF RemoveFirst, RemoveAt
<1>4. /\ Len(seq) \in Nat /\ k \in Int /\ k - 1 \in Int /\ k + 1 \in Int /\ Len(seq) \in Int
      /\ \A i \in 1..Len(seq) : seq[i] \in S
  BY ElementOfSeq
<1>5. /\ a \in Seq(S) /\ Len(a) = k - 1
      /\ \A i \in 1..(k - 1) : a[i] = seq[i]
  BY <1>4, SubSeqProperties
<1>6. /\ b \in Seq(S) /\ Len(b) = Len(seq) - k
      /\ \A i \in 1..(Len(seq) - k) : b[i] = seq[k + i]
  BY <1>4, SubSeqProperties
<1> HIDE DEF a, b
<1>7. /\ a \o b \in Seq(S) /\ Len(a \o b) = Len(a) + Len(b)
      /\ \A i \in 1..(Len(a) + Len(b)) :
            (a \o b)[i] = IF i <= Len(a) THEN a[i] ELSE b[i - Len(a)]
  BY <1>5, <1>6, ConcatProperties
<1>8. \A i \in 1..(Len(seq) - 1) : (a \o b)[i] = seq[IF i < k THEN i ELSE i + 1]
  BY <1>4, <1>5, <1>6, <1>7
<1> QED BY <1>3, <1>4, <1>5, <1>6, <1>7, <1>8

LEMMA Removed ==
    ASSUME NEW S, NEW seq \in Seq(S), Once(seq), NEW e, Has(seq, e)
    PROVE  LET rest == RemoveFirst(seq, e)
           IN  /\ rest \in Seq(S)
               /\ Once(rest)
               /\ \A x \in S : Has(rest, x) <=> Has(seq, x) /\ x # e
               /\ \A x, y \in S : Before(seq, x, y) => Before(rest, x, y)
<1> DEFINE rest == RemoveFirst(seq, e)
<1>1. PICK k \in 1..Len(seq) : seq[k] = e
  BY DEF Has
<1>2. /\ rest \in Seq(S)
      /\ Len(rest) = Len(seq) - 1
      /\ \A i \in 1..(Len(seq) - 1) : rest[i] = seq[IF i < k THEN i ELSE i + 1]
  BY <1>1, RemovedAt
<1>3. Len(seq) \in Nat /\ k \in Nat
  OBVIOUS
<1> HIDE DEF rest
<1>4. Once(rest)
  <2> SUFFICES ASSUME NEW i \in 1..Len(rest), NEW j \in 1..Len(rest), rest[i] = rest[j]
               PROVE  i = j
    BY DEF Once
  <2> DEFINE f(n) == IF n < k THEN n ELSE n + 1
  <2>1. f(i) \in 1..Len(seq) /\ f(j) \in 1..Len(seq)
    BY <1>2, <1>3
  <2>2. rest[i] = seq[f(i)] /\ rest[j] = seq[f(j)]
    BY <1>2
  <2>3. f(i) = f(j)
    BY <2>1, <2>2 DEF Once
  <2> QED BY <2>3, <1>2, <1>3
<1>5. \A i \in 1..Len(seq) : i # k =>
         /\ (IF i < k THEN i ELSE i - 1) \in 1..Len(rest)
         /\ rest[IF i < k THEN i ELSE i - 1] = seq[i]
  <2> TAKE i \in 1..Len(seq)
  <2> HAVE i # k
  <2>1. CASE i < k
    BY <2>1, <1>2, <1>3
  <2>2. CASE k < i
    <3>1. i - 1 \in 1..(Len(seq) - 1) /\ ~(i - 1 < k) /\ (i - 1) + 1 = i /\ ~(i < k)
      BY <2>2, <1>3
    <3> QED BY <3>1, <1>2
  <2> QED BY <2>1, <2>2, <1>3
<1>6. ASSUME NEW x \in S
      PROVE  Has(rest, x) <=> Has(seq, x) /\ x # e
  <2>1. ASSUME Has(rest, x) PROVE Has(seq, x) /\ x # e
    <3>1. PICK i \in 1..Len(rest) : rest[i] = x
      BY <2>1 DEF Has
    <3> DEFINE n == IF i < k THEN i ELSE i + 1
    <3>2. n \in 1..Len(seq) /\ n # k /\ seq[n] = x
      BY <3>1, <1>2, <1>3
    <3> QED BY <3>2, <1>1 DEF Has, Once
  <2>2. ASSUME Has(seq, x), x # e PROVE Has(rest, x)
    BY <2>2, <1>5, <1>1 DEF Has
  <2> QED BY <2>1, <2>2
<1>7. ASSUME NEW x \in S, NEW y \in S, Before(seq, x, y)
      PROVE  Before(rest, x, y)
  <2> SUFFICES ASSUME NEW i \in 1..Len(rest), NEW j \in 1..Len(rest), rest[i] = x, rest[j] = y
               PROVE  i < j
    BY DEF Before
  <2> DEFINE f(n) == IF n < k THEN n ELSE n + 1
  <2>1. f(i) \in 1..Len(seq) /\ f(j) \in 1..Len(seq)
    BY <1>2, <1>3
  <2>2. rest[i] = seq[f(i)] /\ rest[j] = seq[f(j)]
    BY <1>2
  <2>3. f(i) < f(j)
    BY <1>7, <2>1, <2>2 DEF Before
  <2> QED BY <2>3, <1>2, <1>3
<1> QED BY <1>2, <1>4, <1>6, <1>7 DEF rest

LEMMA Appended ==
    ASSUME NEW S, NEW seq \in Seq(S), Once(seq), NEW e \in S, ~Has(seq, e)
    PROVE  LET more == Append(seq, e)
           IN  /\ more \in Seq(S)
               /\ more # << >>
               /\ Once(more)
               /\ \A x \in S : Has(more, x) <=> Has(seq, x) \/ x = e
               /\ \A x, y \in S : x # e /\ Before(seq, x, y) => Before(more, x, y)
               /\ \A x \in S : x # e => Before(more, x, e)
<1> DEFINE more == Append(seq, e)
<1>1. /\ more \in Seq(S) /\ more # << >>
      /\ Len(more) = Len(seq) + 1 /\ Len(seq) \in Nat
      /\ \A i \in 1..Len(seq) : more[i] = seq[i]
      /\ more[Len(seq) + 1] = e
  BY AppendProperties
<1> HIDE DEF more
<1>2. Once(more)
  BY <1>1 DEF Once, Has
<1>3. \A x \in S : Has(more, x) <=> Has(seq, x) \/ x = e
  <2> TAKE x \in S
  <2>1. ASSUME Has(more, x) PROVE Has(seq, x) \/ x = e
    BY <1>1, <2>1 DEF Has
  <2>2. ASSUME Has(seq, x) \/ x = e PROVE Has(more, x)
    BY <1>1, <2>2 DEF Has
  <2> QED BY <2>1, <2>2
<1>4. \A x, y \in S : x # e /\ Before(seq, x, y) => Before(more, x, y)
  BY <1>1 DEF Before
<1>5. \A x \in S : x # e => Before(more, x, e)
  BY <1>1 DEF Before, Has
<1> QED BY <1>1, <1>2, <1>3, <1>4, <1>5 DEF more

\* popleft
LEMMA Tailed ==
    ASSUME NEW S, NEW seq \in Seq(S), Once(seq), seq # << >>
    PROVE  /\ Head(seq) \in S /\ Has(seq, Head(seq))
           /\ Tail(seq) \in Seq(S)
           /\ Once(Tail(seq))
           /\ \A x \in S : Has(Tail(seq), x) <=> Has(seq, x) /\ x # Head(seq)
<1> DEFINE t == Tail(seq)
<1>1. /\ Head(seq) \in S /\ t \in Seq(S) /\ Len(t) = Len(seq) - 1
      /\ \A i \in 1..Len(t) : t[i] = seq[i + 1]
      /\ Len(seq) \in Nat \ {0} /\ Head(seq) = seq[1]
  BY HeadTailProperties, EmptySeq
<1> HIDE DEF t
<1>2. Has(seq, Head(seq))
  BY <1>1 DEF Has
<1>3. Once(t)
  <2> SUFFICES ASSUME NEW i \in 1..Len(t), NEW j \in 1..Len(t), t[i] = t[j]
               PROVE  i = j
    BY DEF Once
  <2>1. i + 1 \in 1..Len(seq) /\ j + 1 \in 1..Len(seq) /\ seq[i + 1] = seq[j + 1]
    BY <1>1
  <2>2. i + 1 = j + 1
    BY <2>1 DEF Once
  <2> QED BY <2>2, <1>1
<1>4. ASSUME NEW x \in S PROVE Has(t, x) <=> Has(seq, x) /\ x # Head(seq)
  <2>1. ASSUME Has(t, x) PROVE Has(seq, x) /\ x # Head(seq)
    <3>1. PICK i \in 1..Len(t) : t[i] = x
      BY <2>1 DEF Has
    <3>2. i + 1 \in 1..Len(seq) /\ 1 \in 1..Len(seq) /\ i + 1 # 1 /\ seq[i + 1] = x
      BY <3>1, <1>1
    <3> QED BY <3>2, <1>1 DEF Has, Once
  <2>2. ASSUME Has(seq, x), x # Head(seq) PROVE Has(t, x)
    <3>1. PICK i \in 1..Len(seq) : seq[i] = x
      BY <2>2 DEF Has
    <3>2. i - 1 \in 1..Len(t) /\ (i - 1) + 1 = i
      BY <3>1, <2>2, <1>1
    <3>3. t[i - 1] = x
      BY <3>1, <3>2, <1>1
    <3> QED BY <3>2, <3>3 DEF Has
  <2> QED BY <2>1, <2>2
<1> QED BY <1>1, <1>2, <1>3, <1>4 DEF t

------------------------------------------------------------------------------
(* The invariant.                                                           *)

QueueShape(q) ==
    /\ q = [tiers |-> q.tiers, rotations |-> q.rotations]
    /\ q.tiers \in [Priorities -> [Sessions -> Seq(Requests)]]
    /\ q.rotations \in [Priorities -> Seq(Sessions)]

\* No request is queued twice in a session and no session is twice in a rotation.
NoRepeats(q) ==
    /\ \A p \in Priorities, s \in Sessions : Once(q.tiers[p][s])
    /\ \A p \in Priorities : Once(q.rotations[p])

\* A request is only in the queue of its session, in the tier of its priority.
InItsPlace(q) ==
    \A p \in Priorities, s \in Sessions, r \in Requests :
        Has(q.tiers[p][s], r) => SessionOf[r] = s /\ PriorityOf[r] = p

\* A rotation lists exactly the sessions of its tier that wait.
RotationsFollow(q) ==
    \A p \in Priorities, s \in Sessions : Has(q.rotations[p], s) <=> q.tiers[p][s] # << >>

\* However many priorities there are, the tiers in use have a lowest one.
BoundedBelow(q) ==
    \E b \in Int : \A p \in Priorities : q.rotations[p] # << >> => b <= p

QueueOk(q) ==
    QueueShape(q) /\ NoRepeats(q) /\ InItsPlace(q) /\ RotationsFollow(q) /\ BoundedBelow(q)

Queued(q, r) == Has(q.tiers[PriorityOf[r]][SessionOf[r]], r)

CallerTypes ==
    /\ status \in [Requests -> {"idle", "waiting", "granted", "gone"}]
    /\ passed \in [Priorities -> [Sessions -> [Sessions -> Nat]]]

WaitersAreQueued ==
    /\ \A r \in Requests : Queued(queue, r) <=> status[r] = "waiting"
    /\ eligibility = WaitingRequests \cap Tracked

\* A session that was passed by u still waits, and u is behind it.
PassedIsAhead ==
    \A p \in Priorities, s \in Sessions, u \in Sessions :
        passed[p][s][u] # 0 =>
            /\ passed[p][s][u] = 1
            /\ s # u
            /\ queue.tiers[p][s] # << >>
            /\ Before(queue.rotations[p], s, u)

IInv == QueueOk(queue) /\ CallerTypes /\ WaitersAreQueued /\ PassedIsAhead

------------------------------------------------------------------------------
(* The operations of the queue.                                             *)

\* Every operation replaces the queue of one session and one rotation.
Updated(q, p, s, new, rot) ==
    [tiers     |-> [q.tiers EXCEPT ![p][s] = new],
     rotations |-> [q.rotations EXCEPT ![p] = rot]]

LEMMA UpdatedParts ==
    ASSUME NEW q, QueueShape(q), NEW p \in Priorities, NEW s \in Sessions, NEW new, NEW rot
    PROVE  /\ \A p2 \in Priorities, s2 \in Sessions :
                 Updated(q, p, s, new, rot).tiers[p2][s2] =
                     IF p2 = p /\ s2 = s THEN new ELSE q.tiers[p2][s2]
           /\ \A p2 \in Priorities :
                 Updated(q, p, s, new, rot).rotations[p2] =
                     IF p2 = p THEN rot ELSE q.rotations[p2]
BY DEF QueueShape, Updated

LEMMA UpdatedOk ==
    ASSUME NEW q, QueueOk(q), NEW p \in Priorities, NEW s \in Sessions,
           NEW new \in Seq(Requests), NEW rot \in Seq(Sessions), Once(new), Once(rot),
           \A r \in Requests : Has(new, r) => SessionOf[r] = s /\ PriorityOf[r] = p,
           \A u \in Sessions :
               Has(rot, u) <=> IF u = s THEN new # << >> ELSE q.tiers[p][u] # << >>
    PROVE  QueueOk(Updated(q, p, s, new, rot))
<1> DEFINE q2 == Updated(q, p, s, new, rot)
<1>1. /\ \A p2 \in Priorities, s2 \in Sessions :
            q2.tiers[p2][s2] = IF p2 = p /\ s2 = s THEN new ELSE q.tiers[p2][s2]
      /\ \A p2 \in Priorities : q2.rotations[p2] = IF p2 = p THEN rot ELSE q.rotations[p2]
  BY UpdatedParts DEF QueueOk
<1>2. QueueShape(q2)
  BY DEF QueueOk, QueueShape, Updated
<1> HIDE DEF q2
<1>3. NoRepeats(q2)
  BY <1>1 DEF QueueOk, NoRepeats
<1>4. InItsPlace(q2)
  BY <1>1 DEF QueueOk, InItsPlace
<1>5. RotationsFollow(q2)
  BY <1>1 DEF QueueOk, RotationsFollow
<1>6. BoundedBelow(q2)
  <2>1. PICK b \in Int : \A p2 \in Priorities : q.rotations[p2] # << >> => b <= p2
    BY DEF QueueOk, BoundedBelow
  <2> DEFINE c == IF b <= p THEN b ELSE p
  <2>2. c \in Int /\ \A p2 \in Priorities : q2.rotations[p2] # << >> => c <= p2
    BY <1>1, <2>1, CallersAssumption
  <2> QED BY <2>2 DEF BoundedBelow
<1> QED BY <1>2, <1>3, <1>4, <1>5, <1>6 DEF QueueOk, q2

LEMMA SameRotation ==
    ASSUME NEW q, QueueShape(q), NEW p \in Priorities
    PROVE  [q.rotations EXCEPT ![p] = q.rotations[p]] = q.rotations
BY DEF QueueShape

\* A request waits in one place only: after an update the others wait as before.
LEMMA UpdatedQueued ==
    ASSUME NEW q, QueueOk(q), NEW p \in Priorities, NEW s \in Sessions, NEW new, NEW rot,
           NEW r \in Requests
    PROVE  Queued(Updated(q, p, s, new, rot), r) <=>
               IF PriorityOf[r] = p /\ SessionOf[r] = s THEN Has(new, r) ELSE Queued(q, r)
BY UpdatedParts, CallersAssumption DEF QueueOk, Queued

LEMMA EmptyQueueOk == QueueOk(EmptyQueue) /\ \A r \in Requests : ~Queued(EmptyQueue, r)
<1>1. /\ \A p \in Priorities, s \in Sessions : EmptyQueue.tiers[p][s] = << >>
      /\ \A p \in Priorities : EmptyQueue.rotations[p] = << >>
  BY DEF EmptyQueue
<1>2. /\ \A p \in Priorities, s \in Sessions : \A x : ~Has(EmptyQueue.tiers[p][s], x)
      /\ \A p \in Priorities : \A x : ~Has(EmptyQueue.rotations[p], x)
  BY <1>1 DEF Has
<1>3. QueueShape(EmptyQueue)
  BY DEF EmptyQueue, QueueShape
<1>4. NoRepeats(EmptyQueue)
  BY <1>1 DEF NoRepeats, Once
<1>5. InItsPlace(EmptyQueue) /\ RotationsFollow(EmptyQueue)
  BY <1>1, <1>2 DEF InItsPlace, RotationsFollow
<1>6. BoundedBelow(EmptyQueue)
  BY <1>1 DEF BoundedBelow
<1>7. \A r \in Requests : ~Queued(EmptyQueue, r)
  BY <1>2, CallersAssumption DEF Queued
<1> QED BY <1>3, <1>4, <1>5, <1>6, <1>7 DEF QueueOk

LEMMA EnqueuedOk ==
    ASSUME NEW q, QueueOk(q), NEW r \in Requests, ~Queued(q, r)
    PROVE  LET p == PriorityOf[r]
               s == SessionOf[r]
               q2 == Enqueued(q, r, s, p)
           IN  /\ QueueOk(q2)
               /\ \A r2 \in Requests : Queued(q2, r2) <=> Queued(q, r2) \/ r2 = r
               /\ \A p2 \in Priorities, u \in Sessions :
                     q.tiers[p2][u] # << >> => q2.tiers[p2][u] # << >>
               /\ \A p2 \in Priorities, u, v \in Sessions :
                     q.tiers[p2][u] # << >> /\ Before(q.rotations[p2], u, v)
                         => Before(q2.rotations[p2], u, v)
<1> DEFINE p == PriorityOf[r]
           s == SessionOf[r]
           old == q.tiers[p][s]
           new == Append(old, r)
           rot == IF old = << >> THEN Append(q.rotations[p], s) ELSE q.rotations[p]
           q2 == Updated(q, p, s, new, rot)
<1>1. p \in Priorities /\ s \in Sessions
  BY CallersAssumption
<1>2. old \in Seq(Requests) /\ q.rotations[p] \in Seq(Sessions) /\ Once(old)
      /\ Once(q.rotations[p]) /\ ~Has(old, r)
  BY <1>1 DEF QueueOk, QueueShape, NoRepeats, Queued
<1>3. Enqueued(q, r, s, p) = q2
  BY <1>1, SameRotation DEF Enqueued, Updated, QueueOk
<1>4. /\ new \in Seq(Requests) /\ new # << >> /\ Once(new)
      /\ \A x \in Requests : Has(new, x) <=> Has(old, x) \/ x = r
  BY <1>2, Appended
<1>5. old = << >> => ~Has(q.rotations[p], s)
  BY <1>1 DEF QueueOk, RotationsFollow
<1>6. /\ rot \in Seq(Sessions) /\ Once(rot)
      /\ \A u \in Sessions : Has(rot, u) <=> Has(q.rotations[p], u) \/ u = s
      /\ \A u, v \in Sessions :
            q.tiers[p][u] # << >> /\ Before(q.rotations[p], u, v) => Before(rot, u, v)
  <2>1. CASE old = << >>
    BY <2>1, <1>1, <1>2, <1>5, Appended
  <2>2. CASE old # << >>
    BY <2>2, <1>1, <1>2 DEF QueueOk, RotationsFollow
  <2> QED BY <2>1, <2>2
<1>7. \A u \in Sessions : Has(rot, u) <=> IF u = s THEN new # << >> ELSE q.tiers[p][u] # << >>
  BY <1>1, <1>4, <1>6 DEF QueueOk, RotationsFollow
<1>8. \A x \in Requests : Has(new, x) => SessionOf[x] = s /\ PriorityOf[x] = p
  BY <1>1, <1>4 DEF QueueOk, InItsPlace
<1> HIDE DEF new, rot
<1>9. QueueOk(q2)
  BY <1>1, <1>4, <1>6, <1>7, <1>8, UpdatedOk
<1>10. \A r2 \in Requests : Queued(q2, r2) <=> Queued(q, r2) \/ r2 = r
  BY <1>1, <1>4, UpdatedQueued DEF Queued
<1>11. /\ \A p2 \in Priorities, s2 \in Sessions :
             q2.tiers[p2][s2] = IF p2 = p /\ s2 = s THEN new ELSE q.tiers[p2][s2]
       /\ \A p2 \in Priorities : q2.rotations[p2] = IF p2 = p THEN rot ELSE q.rotations[p2]
  BY <1>1, UpdatedParts DEF QueueOk
<1> HIDE DEF q2, p, s
<1> QED BY <1>3, <1>4, <1>6, <1>9, <1>10, <1>11 DEF p, s

LEMMA CancelledOk ==
    ASSUME NEW q, QueueOk(q), NEW r \in Requests
    PROVE  LET p == PriorityOf[r]
               s == SessionOf[r]
               q2 == Cancelled(q, r, s, p)
           IN  /\ QueueOk(q2)
               /\ \A r2 \in Requests : Queued(q2, r2) <=> Queued(q, r2) /\ r2 # r
               /\ \A p2 \in Priorities, u \in Sessions :
                     ~(p2 = p /\ u = s) => q2.tiers[p2][u] = q.tiers[p2][u]
               /\ \A p2 \in Priorities, u, v \in Sessions :
                     Before(q.rotations[p2], u, v) => Before(q2.rotations[p2], u, v)
<1> DEFINE p == PriorityOf[r]
           s == SessionOf[r]
           old == q.tiers[p][s]
           new == RemoveFirst(old, r)
           rot == IF new = << >> THEN RemoveFirst(q.rotations[p], s) ELSE q.rotations[p]
           q2 == Updated(q, p, s, new, rot)
<1>1. p \in Priorities /\ s \in Sessions
  BY CallersAssumption
<1>2. old \in Seq(Requests) /\ q.rotations[p] \in Seq(Sessions) /\ Once(old)
      /\ Once(q.rotations[p])
  BY <1>1 DEF QueueOk, QueueShape, NoRepeats
<1>3. CASE ~Has(old, r)
  <2>1. Cancelled(q, r, s, p) = q
    BY <1>3, RemovedAbsent DEF Cancelled
  <2> QED BY <1>3, <2>1 DEF Queued
<1>4. CASE Has(old, r)
  <2>1. /\ new \in Seq(Requests) /\ Once(new)
        /\ \A x \in Requests : Has(new, x) <=> Has(old, x) /\ x # r
    BY <1>2, <1>4, Removed
  <2>2. new # old
    BY <1>4, <2>1
  <2>3. Cancelled(q, r, s, p) = q2
    BY <1>1, <2>2, SameRotation DEF Cancelled, Updated, QueueOk
  <2>4. Has(q.rotations[p], s)
    BY <1>1, <1>2, <1>4, EmptyHasNone DEF QueueOk, RotationsFollow
  <2>5. /\ rot \in Seq(Sessions) /\ Once(rot)
        /\ \A u \in Sessions :
              Has(rot, u) <=> Has(q.rotations[p], u) /\ (u = s => new # << >>)
        /\ \A u, v \in Sessions : Before(q.rotations[p], u, v) => Before(rot, u, v)
    <3>1. CASE new = << >>
      BY <3>1, <1>1, <1>2, <2>4, Removed
    <3>2. CASE new # << >>
      BY <3>2, <1>1, <1>2
    <3> QED BY <3>1, <3>2
  <2>6. \A u \in Sessions : Has(rot, u) <=> IF u = s THEN new # << >> ELSE q.tiers[p][u] # << >>
    BY <1>1, <2>4, <2>5 DEF QueueOk, RotationsFollow
  <2>7. \A x \in Requests : Has(new, x) => SessionOf[x] = s /\ PriorityOf[x] = p
    BY <1>1, <2>1 DEF QueueOk, InItsPlace
  <2> HIDE DEF new, rot
  <2>8. QueueOk(q2)
    BY <1>1, <2>1, <2>5, <2>6, <2>7, UpdatedOk
  <2>9. \A r2 \in Requests : Queued(q2, r2) <=> Queued(q, r2) /\ r2 # r
    BY <1>1, <2>1, UpdatedQueued DEF Queued
  <2>10. /\ \A p2 \in Priorities, s2 \in Sessions :
               q2.tiers[p2][s2] = IF p2 = p /\ s2 = s THEN new ELSE q.tiers[p2][s2]
         /\ \A p2 \in Priorities : q2.rotations[p2] = IF p2 = p THEN rot ELSE q.rotations[p2]
    BY <1>1, UpdatedParts DEF QueueOk
  <2> HIDE DEF q2, p, s
  <2> QED BY <2>3, <2>5, <2>8, <2>9, <2>10 DEF p, s
<1> QED BY <1>3, <1>4

\* dispatch pops the head r of session s, which goes to the back if it has more.
LEMMA PoppedOk ==
    ASSUME NEW q, QueueOk(q), NEW p \in Priorities, NEW i \in 1..Len(q.rotations[p])
    PROVE  LET s == q.rotations[p][i]
               r == HeadOf(q, p, i)
               q2 == Popped(q, p, i)
           IN  /\ s \in Sessions /\ r \in Requests /\ SessionOf[r] = s /\ PriorityOf[r] = p
               /\ q.tiers[p][s] # << >>
               /\ Queued(q, r)
               /\ QueueOk(q2)
               /\ \A r2 \in Requests : Queued(q2, r2) <=> Queued(q, r2) /\ r2 # r
               /\ \A p2 \in Priorities, u \in Sessions :
                     ~(p2 = p /\ u = s) => q2.tiers[p2][u] = q.tiers[p2][u]
               /\ \A p2 \in Priorities, u, v \in Sessions :
                     Before(q.rotations[p2], u, v) /\ ~(p2 = p /\ u = s)
                         => Before(q2.rotations[p2], u, v)
               /\ \A u \in Sessions : u # s => Before(q2.rotations[p], u, s)
<1> DEFINE s == q.rotations[p][i]
           r == HeadOf(q, p, i)
           old == q.tiers[p][s]
           new == Tail(old)
           others == RemoveFirst(q.rotations[p], s)
           rot == IF new = << >> THEN others ELSE Append(others, s)
           q2 == Updated(q, p, s, new, rot)
<1>1. q.rotations[p] \in Seq(Sessions) /\ Once(q.rotations[p])
  BY DEF QueueOk, QueueShape, NoRepeats
<1>2. s \in Sessions /\ Has(q.rotations[p], s)
  BY <1>1, ElementOfSeq DEF Has
<1>3. old \in Seq(Requests) /\ Once(old) /\ old # << >>
  BY <1>2 DEF QueueOk, QueueShape, NoRepeats, RotationsFollow
<1>4. r = Head(old)
  BY DEF HeadOf
<1>5. /\ r \in Requests /\ Has(old, r)
      /\ new \in Seq(Requests) /\ Once(new)
      /\ \A x \in Requests : Has(new, x) <=> Has(old, x) /\ x # r
  BY <1>3, <1>4, Tailed
<1>6. SessionOf[r] = s /\ PriorityOf[r] = p
  BY <1>2, <1>5 DEF QueueOk, InItsPlace
<1>7. Popped(q, p, i) = q2
  BY DEF Popped, Updated
<1>8. /\ others \in Seq(Sessions) /\ Once(others)
      /\ \A u \in Sessions : Has(others, u) <=> Has(q.rotations[p], u) /\ u # s
      /\ \A u, v \in Sessions : Before(q.rotations[p], u, v) => Before(others, u, v)
  BY <1>1, <1>2, Removed
<1> HIDE DEF others
<1>9. /\ rot \in Seq(Sessions) /\ Once(rot)
      /\ \A u \in Sessions :
            Has(rot, u) <=> Has(q.rotations[p], u) /\ (u = s => new # << >>)
      /\ \A u, v \in Sessions : u # s /\ Before(q.rotations[p], u, v) => Before(rot, u, v)
      /\ \A u \in Sessions : u # s => Before(rot, u, s)
  <2>1. CASE new = << >>
    <3>1. ~Has(others, s)
      BY <1>2, <1>8
    <3>2. \A u \in Sessions : Before(others, u, s)
      BY <3>1 DEF Has, Before
    <3> QED BY <2>1, <1>8, <3>2
  <2>2. CASE new # << >>
    <3>1. ~Has(others, s)
      BY <1>2, <1>8
    <3> HIDE DEF s
    <3>2. /\ Append(others, s) \in Seq(Sessions) /\ Once(Append(others, s))
          /\ \A u \in Sessions : Has(Append(others, s), u) <=> Has(others, u) \/ u = s
          /\ \A u, v \in Sessions :
                u # s /\ Before(others, u, v) => Before(Append(others, s), u, v)
          /\ \A u \in Sessions : u # s => Before(Append(others, s), u, s)
      BY <1>2, <1>8, <3>1, Appended
    <3>3. rot = Append(others, s)
      BY <2>2
    <3> HIDE DEF rot
    <3> QED BY <2>2, <1>2, <1>8, <3>2, <3>3
  <2> QED BY <2>1, <2>2
<1>10. \A u \in Sessions : Has(rot, u) <=> IF u = s THEN new # << >> ELSE q.tiers[p][u] # << >>
  BY <1>2, <1>9 DEF QueueOk, RotationsFollow
<1>11. \A x \in Requests : Has(new, x) => SessionOf[x] = s /\ PriorityOf[x] = p
  BY <1>2, <1>5 DEF QueueOk, InItsPlace
<1> HIDE DEF new, rot, r
<1>12. QueueOk(q2)
  BY <1>2, <1>5, <1>9, <1>10, <1>11, UpdatedOk
<1>13. \A r2 \in Requests : Queued(q2, r2) <=> Queued(q, r2) /\ r2 # r
  <2> TAKE r2 \in Requests
  <2>1. Queued(q2, r2) <=> IF PriorityOf[r2] = p /\ SessionOf[r2] = s
                           THEN Has(new, r2) ELSE Queued(q, r2)
    BY <1>2, UpdatedQueued
  <2>2. PriorityOf[r2] = p /\ SessionOf[r2] = s => (Queued(q, r2) <=> Has(old, r2))
    BY DEF Queued
  <2> HIDE DEF q2, old
  <2> QED BY <1>5, <1>6, <2>1, <2>2
<1>14. /\ \A p2 \in Priorities, s2 \in Sessions :
             q2.tiers[p2][s2] = IF p2 = p /\ s2 = s THEN new ELSE q.tiers[p2][s2]
       /\ \A p2 \in Priorities : q2.rotations[p2] = IF p2 = p THEN rot ELSE q.rotations[p2]
  BY <1>2, UpdatedParts DEF QueueOk
<1>15. Queued(q, r)
  BY <1>5, <1>6 DEF Queued
<1> HIDE DEF q2, s
<1> QED BY <1>2, <1>3, <1>5, <1>6, <1>7, <1>9, <1>12, <1>13, <1>14, <1>15 DEF r, s

\* The order in which dispatch visits the tiers and a rotation has a first place.
LEMMA FirstPlaceIsFirst ==
    ASSUME NEW q, QueueOk(q), NEW runnable, Admissible(q, runnable) # {}
    PROVE  LET first == FirstPlace(Admissible(q, runnable))
           IN  /\ first \in Admissible(q, runnable)
               /\ first[1] \in Priorities
               /\ first[2] \in 1..Len(q.rotations[first[1]])
               /\ \A b \in Admissible(q, runnable) :
                     first[1] < b[1] \/ (first[1] = b[1] /\ first[2] <= b[2])
<1> DEFINE places == Admissible(q, runnable)
<1>1. \A a \in places : /\ a = <<a[1], a[2]>> /\ a[1] \in Priorities /\ a[1] \in Int
                        /\ a[2] \in 1..Len(q.rotations[a[1]]) /\ a[2] \in Nat
                        /\ q.rotations[a[1]] # << >>
  <2> TAKE a \in places
  <2>1. PICK p \in Priorities : a \in {p} \X DOMAIN q.rotations[p]
    BY DEF Admissible
  <2>2. q.rotations[p] \in Seq(Sessions)
    BY DEF QueueOk, QueueShape
  <2>3. DOMAIN q.rotations[p] = 1..Len(q.rotations[p]) /\ Len(q.rotations[p]) \in Nat
    BY <2>2, LenProperties
  <2>4. a = <<a[1], a[2]>> /\ a[1] = p /\ a[2] \in 1..Len(q.rotations[p])
    BY <2>1, <2>3
  <2>5. q.rotations[p] # << >>
    BY <2>2, <2>4, EmptySeq
  <2> QED BY <2>3, <2>4, <2>5, CallersAssumption
<1> HIDE DEF places
<1>2. PICK low \in Int : \A p \in Priorities : q.rotations[p] # << >> => low <= p
  BY DEF QueueOk, BoundedBelow
<1> DEFINE heights == {a[1] - low : a \in places}
<1>3. heights \in SUBSET Nat /\ heights # {}
  BY <1>1, <1>2 DEF places
<1>4. PICK h \in heights : \A k \in heights : h <= k
  <2> HIDE DEF heights
  <2> QED BY <1>3, LeastOf
<1>5. PICK top \in places : h = top[1] - low
  BY <1>4
<1>6. \A a \in places : top[1] <= a[1]
  <2> TAKE a \in places
  <2>1. a[1] - low \in heights
    OBVIOUS
  <2>2. top[1] - low <= a[1] - low
    BY <1>4, <1>5, <2>1
  <2> QED BY <1>1, <1>2, <2>2
<1> DEFINE turns == {a[2] : a \in {b \in places : b[1] = top[1]}}
<1>7. turns \in SUBSET Nat /\ turns # {}
  BY <1>1
<1>8. PICK t \in turns : \A k \in turns : t <= k
  <2> HIDE DEF turns
  <2> QED BY <1>7, LeastOf
<1>9. PICK first \in places : first[1] = top[1] /\ first[2] = t
  BY <1>8
<1>10. \A b \in places : first[1] < b[1] \/ (first[1] = b[1] /\ first[2] <= b[2])
  <2> TAKE b \in places
  <2>1. CASE b[1] = top[1]
    BY <2>1, <1>8, <1>9
  <2>2. CASE b[1] # top[1]
    BY <2>2, <1>1, <1>6, <1>9
  <2> QED BY <2>1, <2>2
<1>11. /\ FirstPlace(places) \in places
       /\ \A b \in places : \/ FirstPlace(places)[1] < b[1]
                            \/ FirstPlace(places)[1] = b[1] /\ FirstPlace(places)[2] <= b[2]
  BY <1>10, Zenon DEF FirstPlace
<1> QED BY <1>1, <1>11 DEF places

\* A grant pops the first place whose head may run.
LEMMA DispatchedOk ==
    ASSUME NEW q, QueueOk(q), NEW may, NEW runnable, NEW wanted,
           Dispatched(q, may, runnable, wanted).admitted # Nothing
    PROVE  \E p \in Priorities : \E i \in 1..Len(q.rotations[p]) :
              /\ Dispatched(q, may, runnable, wanted) =
                    [queue |-> Popped(q, p, i), admitted |-> HeadOf(q, p, i)]
              /\ \A j \in 1..Len(q.rotations[p]) : HeadOf(q, p, j) \in runnable => i <= j
<1> DEFINE places == Admissible(q, runnable)
           first == FirstPlace(places)
<1>1. /\ places # {}
      /\ Dispatched(q, may, runnable, wanted) =
            [queue |-> Popped(q, first[1], first[2]), admitted |-> HeadOf(q, first[1], first[2])]
  BY DEF Dispatched
<1>2. /\ first[1] \in Priorities
      /\ first[2] \in 1..Len(q.rotations[first[1]])
      /\ \A b \in places : first[1] < b[1] \/ (first[1] = b[1] /\ first[2] <= b[2])
  BY <1>1, FirstPlaceIsFirst
<1>3. ASSUME NEW j \in 1..Len(q.rotations[first[1]]), HeadOf(q, first[1], j) \in runnable
      PROVE  first[2] <= j
  <2> HIDE DEF first
  <2>1. q.rotations[first[1]] \in Seq(Sessions)
    BY <1>2 DEF QueueOk, QueueShape
  <2>2. <<first[1], j>> \in places
    BY <1>2, <1>3, <2>1, LenProperties DEF Admissible
  <2>3. first[1] \in Int
    BY <1>2, CallersAssumption
  <2> QED BY <1>2, <2>2, <2>3
<1> HIDE DEF first
<1> QED BY <1>1, <1>2, <1>3

LEMMA GrantedOk ==
    ASSUME NEW q, QueueOk(q), NEW may, NEW runnable, NEW wanted,
           Dispatched(q, may, runnable, wanted).admitted # Nothing
    PROVE  /\ QueueOk(Dispatched(q, may, runnable, wanted).queue)
           /\ \A x \in Requests :
                 Queued(Dispatched(q, may, runnable, wanted).queue, x) <=>
                     Queued(q, x) /\ x # Dispatched(q, may, runnable, wanted).admitted
<1>1. PICK p \in Priorities : \E i \in 1..Len(q.rotations[p]) :
         Dispatched(q, may, runnable, wanted) =
             [queue |-> Popped(q, p, i), admitted |-> HeadOf(q, p, i)]
  BY DispatchedOk
<1>2. PICK i \in 1..Len(q.rotations[p]) :
         Dispatched(q, may, runnable, wanted) =
             [queue |-> Popped(q, p, i), admitted |-> HeadOf(q, p, i)]
  BY <1>1
<1>3. /\ QueueOk(Popped(q, p, i))
      /\ \A x \in Requests : Queued(Popped(q, p, i), x) <=> Queued(q, x) /\ x # HeadOf(q, p, i)
  BY PoppedOk
<1> QED BY <1>2, <1>3

\* A caller that may only remove its own request is not shut out: whenever some
\* head may run, dispatch admits that of the first place to the caller it is of.
LEMMA OwnerIsGranted ==
    ASSUME NEW q, QueueOk(q), NEW runnable, Admissible(q, runnable) # {}
    PROVE  \E r \in Requests : /\ r \in runnable /\ Queued(q, r)
                               /\ Dispatched(q, TRUE, runnable, r).admitted = r
<1> DEFINE first == FirstPlace(Admissible(q, runnable))
           r == HeadOf(q, first[1], first[2])
<1>1. /\ first \in Admissible(q, runnable)
      /\ first[1] \in Priorities /\ first[2] \in 1..Len(q.rotations[first[1]])
  BY FirstPlaceIsFirst
<1>2. r \in runnable
  BY <1>1 DEF Admissible
<1>3. r \in Requests /\ Queued(q, r)
  <2> HIDE DEF first
  <2> QED BY <1>1, PoppedOk
<1>4. Dispatched(q, TRUE, runnable, r).admitted = r
  BY DEF Dispatched
<1> HIDE DEF r
<1> QED BY <1>2, <1>3, <1>4

\* What that means for WellFormed and Waiting, which the properties use.
LEMMA OkMeans ==
    ASSUME NEW q, QueueOk(q)
    PROVE  WellFormed(q) /\ Waiting(q) = {r \in Requests : Queued(q, r)}
<1>1. /\ \A p \in Priorities, s \in Sessions :
            /\ q.tiers[p][s] \in Seq(Requests)
            /\ DOMAIN q.tiers[p][s] = 1..Len(q.tiers[p][s])
      /\ \A p \in Priorities :
            /\ q.rotations[p] \in Seq(Sessions)
            /\ DOMAIN q.rotations[p] = 1..Len(q.rotations[p])
  BY LenProperties DEF QueueOk, QueueShape
<1>2. \A p \in Priorities, s \in Sessions :
         ToSet(q.tiers[p][s]) = {r \in Requests : Has(q.tiers[p][s], r)}
  BY <1>1, ElementOfSeq DEF ToSet, Has
<1>3. \A p \in Priorities :
         ToSet(q.rotations[p]) = {s \in Sessions : Has(q.rotations[p], s)}
  BY <1>1, ElementOfSeq DEF ToSet, Has
<1>4. Waiting(q) = {r \in Requests : Queued(q, r)}
  <2>1. \A r \in Requests : r \in Waiting(q) <=> Queued(q, r)
    <3> TAKE r \in Requests
    <3>1. ASSUME r \in Waiting(q) PROVE Queued(q, r)
      <4>1. PICK p \in Priorities, s \in Sessions : Has(q.tiers[p][s], r)
        BY <1>2, <3>1 DEF Waiting
      <4> QED BY <4>1 DEF QueueOk, InItsPlace, Queued
    <3>2. ASSUME Queued(q, r) PROVE r \in Waiting(q)
      BY <1>2, <3>2, CallersAssumption DEF Waiting, Queued
    <3> QED BY <3>1, <3>2
  <2>2. Waiting(q) \subseteq Requests
    BY <1>2 DEF Waiting
  <2> QED BY <2>1, <2>2
<1>5. WellFormed(q)
  <2>1. \A p \in Priorities :
           /\ ToSet(q.rotations[p]) = {s \in Sessions : q.tiers[p][s] # << >>}
           /\ IsInjective(q.rotations[p])
    BY <1>1, <1>3 DEF QueueOk, RotationsFollow, NoRepeats, Once, IsInjective
  <2>2. ASSUME NEW p1 \in Priorities, NEW p2 \in Priorities,
               NEW s1 \in Sessions, NEW s2 \in Sessions,
               NEW i \in DOMAIN q.tiers[p1][s1], NEW j \in DOMAIN q.tiers[p2][s2],
               q.tiers[p1][s1][i] = q.tiers[p2][s2][j]
        PROVE  p1 = p2 /\ s1 = s2 /\ i = j
    <3> DEFINE r == q.tiers[p1][s1][i]
    <3>1. r \in Requests /\ Has(q.tiers[p1][s1], r) /\ Has(q.tiers[p2][s2], r)
      BY <1>1, <2>2, ElementOfSeq DEF Has
    <3>2. p1 = p2 /\ s1 = s2
      <4> HIDE DEF r
      <4> QED BY <3>1 DEF QueueOk, InItsPlace
    <3> QED BY <1>1, <2>2, <3>2 DEF QueueOk, NoRepeats, Once
  <2> QED BY <2>1, <2>2 DEF WellFormed
<1> QED BY <1>4, <1>5

------------------------------------------------------------------------------
(* The steps.                                                               *)

LEMMA InitHolds == Init => IInv
<1> SUFFICES ASSUME Init PROVE IInv
  OBVIOUS
<1>1. QueueOk(queue) /\ \A r \in Requests : ~Queued(queue, r)
  BY EmptyQueueOk DEF Init
<1>2. CallerTypes /\ PassedIsAhead
  BY DEF Init, CallerTypes, PassedIsAhead
<1>3. WaitersAreQueued
  BY <1>1, CallersAssumption DEF Init, WaitersAreQueued, WaitingRequests
<1> QED BY <1>1, <1>2, <1>3 DEF IInv

LEMMA EnqueueKeeps ==
    ASSUME IInv, NEW r \in Requests, Enqueue(r)
    PROVE  IInv'
<1>1. ~Queued(queue, r)
  BY DEF IInv, WaitersAreQueued, Enqueue
<1>2. /\ QueueOk(queue')
      /\ \A r2 \in Requests : Queued(queue', r2) <=> Queued(queue, r2) \/ r2 = r
      /\ \A p \in Priorities, s \in Sessions :
            queue.tiers[p][s] # << >> => queue'.tiers[p][s] # << >>
      /\ \A p \in Priorities, s, u \in Sessions :
            queue.tiers[p][s] # << >> /\ Before(queue.rotations[p], s, u)
                => Before(queue'.rotations[p], s, u)
  BY <1>1, EnqueuedOk DEF IInv, Enqueue
<1>3. CallerTypes'
  BY DEF IInv, CallerTypes, Enqueue
<1>4. WaitersAreQueued'
  BY <1>2 DEF IInv, CallerTypes, WaitersAreQueued, WaitingRequests, Enqueue
<1>5. PassedIsAhead'
  BY <1>2 DEF IInv, PassedIsAhead, Enqueue
<1> QED BY <1>2, <1>3, <1>4, <1>5 DEF IInv

LEMMA CancelKeeps ==
    ASSUME IInv, NEW r \in Requests, Cancel(r)
    PROVE  IInv'
<1>1. /\ QueueOk(queue')
      /\ \A r2 \in Requests : Queued(queue', r2) <=> Queued(queue, r2) /\ r2 # r
      /\ \A p \in Priorities, s \in Sessions :
            ~(p = PriorityOf[r] /\ s = SessionOf[r]) => queue'.tiers[p][s] = queue.tiers[p][s]
      /\ \A p \in Priorities, s, u \in Sessions :
            Before(queue.rotations[p], s, u) => Before(queue'.rotations[p], s, u)
  BY CancelledOk DEF IInv, Cancel
<1>2. \A p \in Priorities, s \in Sessions :
         passed'[p][s] = IF /\ p = PriorityOf[r] /\ s = SessionOf[r]
                            /\ queue'.tiers[p][s] = << >>
                         THEN [u \in Sessions |-> 0] ELSE passed[p][s]
  BY DEF IInv, CallerTypes, Cancel
<1>3. CallerTypes'
  <2>1. passed' \in [Priorities -> [Sessions -> [Sessions -> Nat]]]
    BY CallersAssumption DEF IInv, CallerTypes, Cancel
  <2> QED BY <2>1 DEF IInv, CallerTypes, Cancel
<1>4. WaitersAreQueued'
  BY <1>1 DEF IInv, CallerTypes, WaitersAreQueued, WaitingRequests, Cancel
<1>5. PassedIsAhead'
  BY <1>1, <1>2 DEF IInv, PassedIsAhead
<1> QED BY <1>1, <1>3, <1>4, <1>5 DEF IInv

\* A session that could have gone and has been passed by u is ahead of u, so
\* dispatch reaches it first: u cannot be the one that is granted.
LEMMA DispatchKeeps ==
    ASSUME IInv, NEW available \in SUBSET Hosts, NEW wanted \in Requests \cup {Nothing},
           Dispatch(available, wanted)
    PROVE  IInv'
<1> DEFINE runnable == {x \in Requests : MayRun(x, available)}
           result == Dispatched(queue, available \cap free # {}, runnable, wanted)
<1>1. /\ result.admitted # Nothing /\ queue' = result.queue
      /\ eligibility' = eligibility \ {result.admitted}
      /\ status' = [status EXCEPT ![result.admitted] = "granted"]
      /\ passed' = Counted(PriorityOf[result.admitted], SessionOf[result.admitted], available)
  BY DEF Dispatch
<1>2. QueueOk(queue)
  BY DEF IInv
<1>3. PICK p \in Priorities : \E i \in 1..Len(queue.rotations[p]) :
         /\ result = [queue |-> Popped(queue, p, i), admitted |-> HeadOf(queue, p, i)]
         /\ \A j \in 1..Len(queue.rotations[p]) : HeadOf(queue, p, j) \in runnable => i <= j
  <2> HIDE DEF runnable
  <2> QED BY <1>1, <1>2, DispatchedOk
<1>4. PICK i \in 1..Len(queue.rotations[p]) :
         /\ result = [queue |-> Popped(queue, p, i), admitted |-> HeadOf(queue, p, i)]
         /\ \A j \in 1..Len(queue.rotations[p]) : HeadOf(queue, p, j) \in runnable => i <= j
  BY <1>3
<1> DEFINE s == queue.rotations[p][i]
           r == HeadOf(queue, p, i)
<1>5. queue' = Popped(queue, p, i) /\ result.admitted = r
  BY <1>1, <1>4
<1> HIDE DEF result
<1>6. /\ s \in Sessions /\ r \in Requests /\ SessionOf[r] = s /\ PriorityOf[r] = p
      /\ queue.tiers[p][s] # << >> /\ Queued(queue, r)
      /\ QueueOk(queue')
      /\ \A r2 \in Requests : Queued(queue', r2) <=> Queued(queue, r2) /\ r2 # r
      /\ \A p2 \in Priorities, u \in Sessions :
            ~(p2 = p /\ u = s) => queue'.tiers[p2][u] = queue.tiers[p2][u]
      /\ \A p2 \in Priorities, u, v \in Sessions :
            Before(queue.rotations[p2], u, v) /\ ~(p2 = p /\ u = s)
                => Before(queue'.rotations[p2], u, v)
      /\ \A u \in Sessions : u # s => Before(queue'.rotations[p], u, s)
  BY <1>2, <1>5, PoppedOk
<1>7. \A u \in Sessions :
         queue.tiers[p][u] # << >> /\ MayRun(Head(queue.tiers[p][u]), available) =>
             \E j \in 1..Len(queue.rotations[p]) : queue.rotations[p][j] = u /\ i <= j
  <2> SUFFICES ASSUME NEW u \in Sessions, queue.tiers[p][u] # << >>,
                      MayRun(Head(queue.tiers[p][u]), available)
               PROVE  \E j \in 1..Len(queue.rotations[p]) :
                         queue.rotations[p][j] = u /\ i <= j
    OBVIOUS
  <2>1. PICK j \in 1..Len(queue.rotations[p]) : queue.rotations[p][j] = u
    BY <1>2 DEF QueueOk, RotationsFollow, Has
  <2>2. Head(queue.tiers[p][u]) \in Requests
    BY <1>2, HeadTailProperties DEF QueueOk, QueueShape
  <2>3. HeadOf(queue, p, j) \in runnable
    BY <2>1, <2>2 DEF HeadOf
  <2> QED BY <1>4, <2>1, <2>3
<1> HIDE DEF runnable, r, s
<1>8. passed' = Counted(p, s, available)
  BY <1>1, <1>5, <1>6
<1>9. /\ \A p2 \in Priorities : p2 # p => passed'[p2] = passed[p2]
      /\ \A u \in Sessions :
            passed'[p][u] =
                IF u = s THEN [v \in Sessions |-> 0]
                ELSE IF queue.tiers[p][u] # << >> /\ MayRun(Head(queue.tiers[p][u]), available)
                     THEN [passed[p][u] EXCEPT ![s] = @ + 1]
                     ELSE passed[p][u]
  BY <1>8 DEF IInv, CallerTypes, Counted
<1>10. CallerTypes'
  <2>1. passed \in [Priorities -> [Sessions -> [Sessions -> Nat]]]
    BY DEF IInv, CallerTypes
  <2>2. \A u \in Sessions : passed'[p][u] \in [Sessions -> Nat]
    <3> TAKE u \in Sessions
    <3> DEFINE old == passed[p][u]
    <3>1. old \in [Sessions -> Nat]
      BY <2>1
    <3> HIDE DEF old
    <3>2. [old EXCEPT ![s] = @ + 1] \in [Sessions -> Nat]
      BY <3>1, <1>6
    <3>3. \/ passed'[p][u] = [v \in Sessions |-> 0]
          \/ passed'[p][u] = [old EXCEPT ![s] = @ + 1]
          \/ passed'[p][u] = old
      BY <1>9, Zenon DEF old
    <3>4. [v \in Sessions |-> 0] \in [Sessions -> Nat]
      OBVIOUS
    <3> QED BY <3>1, <3>2, <3>3, <3>4, Zenon
  <2>3. passed' \in [Priorities -> [Sessions -> [Sessions -> Nat]]]
    <3>1. /\ passed' = [passed EXCEPT ![p] = passed'[p]]
          /\ passed'[p] \in [Sessions -> [Sessions -> Nat]]
      BY <1>8, <2>1, <2>2 DEF Counted
    <3> QED BY <2>1, <3>1
  <2> QED BY <1>1, <1>5, <1>6, <2>3 DEF IInv, CallerTypes
<1>11. WaitersAreQueued'
  BY <1>1, <1>5, <1>6 DEF IInv, CallerTypes, WaitersAreQueued, WaitingRequests
<1>12. PassedIsAhead'
  <2> SUFFICES ASSUME NEW p2 \in Priorities, NEW u \in Sessions, NEW v \in Sessions,
                      passed'[p2][u][v] # 0
               PROVE  /\ passed'[p2][u][v] = 1 /\ u # v
                      /\ queue'.tiers[p2][u] # << >>
                      /\ Before(queue'.rotations[p2], u, v)
    BY DEF PassedIsAhead
  <2>1. ~(p2 = p /\ u = s)
    <3>1. passed'[p][s] = [w \in Sessions |-> 0]
      BY <1>6, <1>9, Zenon
    <3> QED BY <3>1
  <2>2. CASE passed'[p2][u][v] = passed[p2][u][v]
    BY <2>1, <2>2, <1>6 DEF IInv, PassedIsAhead
  <2>3. CASE passed'[p2][u][v] # passed[p2][u][v]
    <3>1. /\ p2 = p /\ v = s /\ passed'[p][u][s] = passed[p][u][s] + 1
          /\ queue.tiers[p][u] # << >> /\ MayRun(Head(queue.tiers[p][u]), available)
      <4> DEFINE old == passed[p][u]
      <4>1. p2 = p /\ u # s
        BY <2>1, <2>3, <1>9
      <4>2. old \in [Sessions -> Nat]
        BY DEF IInv, CallerTypes
      <4>3. /\ queue.tiers[p][u] # << >> /\ MayRun(Head(queue.tiers[p][u]), available)
            /\ passed'[p][u] = [old EXCEPT ![s] = @ + 1]
        BY <4>1, <2>3, <1>9
      <4> HIDE DEF old
      <4>4. \A w \in Sessions : passed'[p][u][w] = IF w = s THEN old[w] + 1 ELSE old[w]
        BY <4>2, <4>3, <1>6
      <4>5. v = s
        BY <4>1, <4>4, <2>3 DEF old
      <4> QED BY <4>1, <4>3, <4>4, <4>5 DEF old
    <3>2. PICK j \in 1..Len(queue.rotations[p]) : queue.rotations[p][j] = u /\ i <= j
      BY <1>7, <3>1
    <3>3. ~Before(queue.rotations[p], u, s)
      BY <3>2 DEF Before, s
    <3>4. passed[p][u][s] = 0
      BY <1>6, <3>3 DEF IInv, PassedIsAhead
    <3>5. u # s
      BY <2>1, <3>1
    <3> QED BY <1>6, <2>1, <3>1, <3>4, <3>5
  <2> QED BY <2>2, <2>3
<1> QED BY <1>6, <1>10, <1>11, <1>12 DEF IInv

LEMMA StepKeeps == IInv /\ [Next]_vars => IInv'
<1> SUFFICES ASSUME IInv, [Next]_vars PROVE IInv'
  OBVIOUS
<1>1. CASE \E r \in Requests : Enqueue(r)
  BY <1>1, EnqueueKeeps
<1>2. CASE \E r \in Requests : Cancel(r)
  BY <1>2, CancelKeeps
<1>3. CASE \E available \in SUBSET Hosts, wanted \in Requests \cup {Nothing} :
              Dispatch(available, wanted)
  BY <1>3, DispatchKeeps
<1>4. CASE UNCHANGED <<queue, eligibility, status, passed>>
  BY <1>4 DEF IInv, CallerTypes, WaitersAreQueued, WaitingRequests, PassedIsAhead
<1>5. ASSUME NEW h \in Hosts, SlotChange(h) PROVE IInv'
  BY <1>4, <1>5 DEF SlotChange
<1>6. ASSUME NEW r \in Requests, NEW h \in Hosts, UsableChange(r, h) PROVE IInv'
  BY <1>4, <1>6 DEF UsableChange
<1> QED BY <1>1, <1>2, <1>3, <1>4, <1>5, <1>6 DEF Next, vars

------------------------------------------------------------------------------

LEMMA ImpliesMatches == IInv => QueueMatchesWaiters
BY OkMeans DEF IInv, WaitersAreQueued, WaitingRequests, QueueMatchesWaiters

LEMMA ImpliesFair == IInv => NoSessionStarves
<1> SUFFICES ASSUME IInv, NEW p \in Priorities, NEW s \in Sessions, NEW u \in Sessions
             PROVE  passed[p][s][u] <= 1
  BY DEF NoSessionStarves
<1>1. passed[p][s][u] # 0 => passed[p][s][u] = 1
  BY DEF IInv, PassedIsAhead
<1> QED BY <1>1

\* The queue, its rotations and its callbacks stay in step with the callers
\* through every mix of enqueue, cancel and dispatch.
THEOREM InvariantHolds == Spec => []IInv
<1>1. Init => IInv
  BY InitHolds
<1>2. IInv /\ [Next]_vars => IInv'
  BY StepKeeps
<1> QED BY <1>1, <1>2, PTL DEF Spec

\* For any requests, sessions and priorities, what waits in the queue is what the
\* callers wait for, each once, every rotation lists the sessions of its tier that
\* wait and no others, and no callback outlives its request.
THEOREM QueueMatchesWaitersHolds == Spec => []QueueMatchesWaiters
BY InvariantHolds, ImpliesMatches, PTL

\* For any number of sessions, none gets two turns while the head of another
\* session of its tier could have run.
THEOREM NoSessionStarvesHolds == Spec => []NoSessionStarves
BY InvariantHolds, ImpliesFair, PTL
===============================================================================
