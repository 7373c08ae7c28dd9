-------------------------- MODULE Dashboard_proofs --------------------------
(***************************************************************************)
(* Proofs about Dashboard for any set of hosts, any list the dashboard     *)
(* starts from and any number of changes, failures and keys.  Two tasks    *)
(* write the same table between their awaits; the invariant says what each *)
(* may still rely on when it comes back: one poll renders at a time, the   *)
(* remembered order is that of the rows unless a move waits to be drawn,   *)
(* the cursor follows the node, and the positions a move has written and   *)
(* those it has yet to write add up to the order on the screen.            *)
(***************************************************************************)
EXTENDS Dashboard, FiniteSetTheorems, SequenceTheorems, WellFoundedInduction, TLAPS

\* A list of hosts without repetitions.
Row(s) == s \in Seq(Hosts) /\ IsInjective(s)

------------------------------------------------------------------------------
(* Lists without repetitions.                                               *)

LEMMA UpTo ==
    ASSUME NEW n \in Nat
    PROVE  IsFiniteSet(1..n) /\ Cardinality(1..n) = n
<1>1. /\ IsFiniteSet(1..n)
      /\ Cardinality(1..n) = IF 1 > n THEN 0 ELSE n - 1 + 1
  BY FS_Interval
<1> QED BY <1>1

LEMMA RowFacts ==
    ASSUME NEW s, Row(s)
    PROVE  /\ s \in Seq(Hosts) /\ Len(s) \in Nat /\ DOMAIN s = 1..Len(s)
           /\ \A i \in 1..Len(s) : s[i] \in Hosts
           /\ \A i, j \in 1..Len(s) : s[i] = s[j] => i = j
           /\ \A h : h \in ToSet(s) <=> \E i \in 1..Len(s) : s[i] = h
           /\ ToSet(s) \subseteq Hosts
<1>1. s \in Seq(Hosts) /\ IsInjective(s)
  BY DEF Row
<1>2. Len(s) \in Nat /\ DOMAIN s = 1..Len(s)
  BY <1>1
<1>3. \A i \in 1..Len(s) : s[i] \in Hosts
  BY <1>1
<1>4. \A i, j \in 1..Len(s) : s[i] = s[j] => i = j
  BY <1>1, <1>2, Zenon DEF IsInjective
<1>5. \A h : h \in ToSet(s) <=> \E i \in 1..Len(s) : s[i] = h
  BY <1>2, Zenon DEF ToSet
<1> QED BY <1>1, <1>2, <1>3, <1>4, <1>5

LEMMA RowOf ==
    ASSUME NEW n \in Nat, NEW s \in [1..n -> Hosts],
           \A i, j \in 1..n : s[i] = s[j] => i = j
    PROVE  Row(s) /\ Len(s) = n
<1>1. s \in Seq(Hosts) /\ Len(s) = n /\ DOMAIN s = 1..n
  OBVIOUS
<1> QED BY <1>1, Zenon DEF Row, IsInjective

LEMMA EmptyRow == Row(<<>>) /\ ToSet(<<>>) = {}
<1>1. <<>> \in Seq(Hosts) /\ DOMAIN <<>> = {}
  OBVIOUS
<1> QED BY <1>1, Zenon DEF Row, IsInjective, ToSet

LEMMA RowCount ==
    ASSUME NEW s, Row(s)
    PROVE  IsFiniteSet(ToSet(s)) /\ Cardinality(ToSet(s)) = Len(s)
<1> DEFINE n == Len(s)
           T == ToSet(s)
<1>0. /\ n \in Nat /\ DOMAIN s = 1..n /\ s \in Seq(Hosts)
      /\ \A i, j \in 1..n : s[i] = s[j] => i = j
      /\ \A h : h \in T <=> \E i \in 1..n : s[i] = h
  BY RowFacts
<1> HIDE DEF n, T
<1>1. s \in [1..n -> T]
  <2>1. s = [i \in 1..n |-> s[i]]
    BY <1>0
  <2> QED BY <2>1, <1>0
<1>2. s \in Bijection(1..n, T)
  BY <1>0, <1>1, Zenon DEF Bijection, Injection, Surjection, IsInjective
<1>3. ExistsBijection(1..n, T)
  BY <1>2, Zenon DEF ExistsBijection
<1>4. IsFiniteSet(1..n) /\ Cardinality(1..n) = n
  BY <1>0, UpTo
<1>5. IsFiniteSet(T) /\ Cardinality(T) = n
  BY <1>3, <1>4, FS_Bijection
<1> QED BY <1>5 DEF n, T

LEMMA SameLength ==
    ASSUME NEW s, NEW u, Row(s), Row(u), ToSet(s) = ToSet(u)
    PROVE  Len(s) = Len(u)
BY RowCount

LEMMA AppendedRow ==
    ASSUME NEW s, Row(s), NEW h \in Hosts, h \notin ToSet(s)
    PROVE  Row(Append(s, h))
<1> DEFINE n == Len(s)
           u == Append(s, h)
<1>0. /\ n \in Nat /\ s \in Seq(Hosts)
      /\ \A i \in 1..n : s[i] \in Hosts
      /\ \A i, j \in 1..n : s[i] = s[j] => i = j
      /\ \A i \in 1..n : s[i] # h
  BY RowFacts
<1>1. /\ u \in Seq(Hosts) /\ Len(u) = n + 1
      /\ \A i \in 1..(n + 1) : u[i] = IF i <= n THEN s[i] ELSE h
  BY <1>0
<1> HIDE DEF n, u
<1>2. \A i, j \in 1..(n + 1) : u[i] = u[j] => i = j
  BY <1>0, <1>1
<1>3. u \in [1..(n + 1) -> Hosts]
  BY <1>0, <1>1
<1>4. Row(u)
  BY <1>0, <1>2, <1>3, RowOf
<1> QED BY <1>4 DEF u

LEMMA RemovedRow ==
    ASSUME NEW s, Row(s), NEW h
    PROVE  Row(RemoveFirst(s, h))
<1> DEFINE n == Len(s)
<1>0. /\ n \in Nat /\ s \in Seq(Hosts)
      /\ \A i \in 1..n : s[i] \in Hosts
      /\ \A i, j \in 1..n : s[i] = s[j] => i = j
  BY RowFacts
<1>1. CASE ~ \E i \in 1..n : s[i] = h
  <2>1. RemoveFirst(s, h) = s
    BY <1>1, Zenon DEF RemoveFirst
  <2> QED BY <2>1
<1>2. CASE \E i \in 1..n : s[i] = h
  <2>1. PICK k \in 1..n : s[k] = h
    BY <1>2
  <2> DEFINE I == {i \in 1..n : s[i] = h}
             a == SubSeq(s, 1, k - 1)
             b == SubSeq(s, k + 1, Len(s))
             u == a \o b
  <2>2. I = {k}
    BY <1>0, <2>1
  <2>3. Min(I) = k
    BY <2>2 DEF Min
  <2>4. SelectInSeq(s, LAMBDA v : v = h) = k
    BY <2>2, <2>3, Zenon DEF SelectInSeq
  <2>5. RemoveFirst(s, h) = u
    BY <1>2, <2>4, Zenon DEF RemoveFirst, RemoveAt
  <2>6. a \in Seq(Hosts) /\ Len(a) = k - 1 /\ \A i \in 1..(k - 1) : a[i] = s[i]
    BY <1>0, SubSeqProperties
  <2>7. b \in Seq(Hosts) /\ Len(b) = n - k /\ \A i \in 1..(n - k) : b[i] = s[k + i]
    BY <1>0, SubSeqProperties
  <2> HIDE DEF n, a, b
  <2>8. /\ u \in Seq(Hosts) /\ Len(u) = Len(a) + Len(b)
        /\ \A i \in 1..(Len(a) + Len(b)) :
              u[i] = IF i <= Len(a) THEN a[i] ELSE b[i - Len(a)]
    BY <2>6, <2>7, ConcatProperties
  <2> HIDE DEF u
  <2>9. /\ n - 1 \in Nat
        /\ Len(u) = n - 1
        /\ \A i \in 1..(n - 1) : u[i] = s[IF i < k THEN i ELSE i + 1]
    BY <1>0, <2>6, <2>7, <2>8
  <2>10. u \in [1..(n - 1) -> Hosts]
    BY <2>8, <2>9
  <2>11. \A i, j \in 1..(n - 1) : u[i] = u[j] => i = j
    <3> SUFFICES ASSUME NEW i \in 1..(n - 1), NEW j \in 1..(n - 1), u[i] = u[j]
                 PROVE  i = j
      OBVIOUS
    <3> DEFINE f(m) == IF m < k THEN m ELSE m + 1
    <3>1. f(i) \in 1..n /\ f(j) \in 1..n
      BY <1>0, <2>9
    <3>2. s[f(i)] = s[f(j)]
      BY <2>9
    <3>3. f(i) = f(j)
      BY <1>0, <3>1, <3>2
    <3> QED BY <3>3
  <2> QED BY <2>5, <2>9, <2>10, <2>11, RowOf
<1> QED BY <1>1, <1>2

LEMMA PrefixRow ==
    ASSUME NEW s, Row(s), NEW k \in 0..Len(s)
    PROVE  Row(SubSeq(s, 1, k))
<1> DEFINE u == SubSeq(s, 1, k)
<1>0. /\ Len(s) \in Nat /\ s \in Seq(Hosts)
      /\ \A i \in 1..Len(s) : s[i] \in Hosts
      /\ \A i, j \in 1..Len(s) : s[i] = s[j] => i = j
  BY RowFacts
<1>1. u \in Seq(Hosts) /\ Len(u) = k /\ \A i \in 1..k : u[i] = s[i]
  BY <1>0
<1> HIDE DEF u
<1>2. u \in [1..k -> Hosts] /\ k \in Nat
  BY <1>0, <1>1
<1>3. \A i, j \in 1..k : u[i] = u[j] => i = j
  BY <1>0, <1>1
<1>4. Row(u)
  BY <1>2, <1>3, RowOf
<1> QED BY <1>4 DEF u

LEMMA SwappedRow ==
    ASSUME NEW s, Row(s), NEW i \in 1..Len(s), NEW j \in 1..Len(s), i # j
    PROVE  LET u == [s EXCEPT ![i] = s[j], ![j] = s[i]]
           IN  Row(u) /\ Len(u) = Len(s) /\ ToSet(u) = ToSet(s) /\ u[j] = s[i]
<1> DEFINE u == [s EXCEPT ![i] = s[j], ![j] = s[i]]
           n == Len(s)
<1>0. /\ n \in Nat /\ s \in Seq(Hosts) /\ DOMAIN s = 1..n
      /\ \A k \in 1..n : s[k] \in Hosts
      /\ \A k, l \in 1..n : s[k] = s[l] => k = l
      /\ \A h : h \in ToSet(s) <=> \E k \in 1..n : s[k] = h
  BY RowFacts
<1>1. /\ u = [k \in 1..n |-> u[k]]
      /\ \A k \in 1..n : u[k] = IF k = j THEN s[i] ELSE IF k = i THEN s[j] ELSE s[k]
  BY <1>0
<1> HIDE DEF u, n
<1>2. u \in [1..n -> Hosts]
  <2>1. \A k \in 1..n : u[k] \in Hosts
    BY <1>0, <1>1 DEF n
  <2> QED BY <1>1, <2>1
<1>3. \A k, l \in 1..n : u[k] = u[l] => k = l
  BY <1>0, <1>1 DEF n
<1>4. Row(u) /\ Len(u) = n
  BY <1>0, <1>2, <1>3, RowOf
<1>5. \A h : h \in ToSet(u) <=> \E k \in 1..n : u[k] = h
  BY <1>4, RowFacts
<1>6. \A h : h \in ToSet(u) <=> h \in ToSet(s)
  <2>1. ASSUME NEW k \in 1..n PROVE \E l \in 1..n : s[l] = u[k]
    BY <1>1 DEF n
  <2>2. ASSUME NEW k \in 1..n PROVE \E l \in 1..n : u[l] = s[k]
    <3> DEFINE l == IF k = i THEN j ELSE IF k = j THEN i ELSE k
    <3>1. l \in 1..n /\ u[l] = s[k]
      BY <1>1 DEF n
    <3> QED BY <3>1
  <2> QED BY <2>1, <2>2, <1>0, <1>5
<1>7. ToSet(u) = ToSet(s)
  BY <1>6
<1>8. u[j] = s[i]
  BY <1>1 DEF n
<1> QED BY <1>4, <1>7, <1>8 DEF u, n

\* The rows of a view, sorted or not, are the hosts of the answer.
LEMMA DisplayedRow ==
    ASSUME NEW list, Row(list), NEW shown \in DisplayOrder(list)
    PROVE  Row(shown) /\ ToSet(shown) \subseteq ToSet(list)
<1>1. CASE shown \in SetToSeqs(ToSet(list))
  <2> DEFINE n == Cardinality(ToSet(list))
  <2>1. n \in Nat
    BY RowCount, RowFacts
  <2>2. shown \in [1..n -> ToSet(list)] /\ \A i, j \in 1..n : i # j => shown[i] # shown[j]
    BY <1>1, Zenon DEF SetToSeqs
  <2> HIDE DEF n
  <2>3. ToSet(list) \subseteq Hosts
    BY RowFacts
  <2>4. shown \in [1..n -> Hosts] /\ \A i, j \in 1..n : shown[i] = shown[j] => i = j
    BY <2>2, <2>3
  <2>5. Row(shown)
    BY <2>1, <2>4, RowOf
  <2>6. ToSet(shown) \subseteq ToSet(list)
    BY <2>2, Zenon DEF ToSet
  <2> QED BY <2>5, <2>6
<1> QED BY <1>1 DEF DisplayOrder

LEMMA IndexFound ==
    ASSUME NEW s, NEW x, x \in ToSet(s)
    PROVE  IndexOf(s, x) \in DOMAIN s /\ s[IndexOf(s, x)] = x
<1>1. \E i \in DOMAIN s : s[i] = x
  BY DEF ToSet
<1> QED BY <1>1, Zenon DEF IndexOf

LEMMA LeastOf ==
    ASSUME NEW S \in SUBSET Nat, S # {}
    PROVE  LET m == CHOOSE k \in S : \A l \in S : k <= l
           IN  m \in S /\ \A l \in S : m <= l
<1>1. IsWellFoundedOn(OpToRel(<, Nat), Nat)
  BY NatLessThanWellFounded
<1>2. PICK m \in S : \A k \in S : ~(<<k, m>> \in OpToRel(<, Nat))
  BY <1>1, WFMin
<1>3. \A k \in S : ~(k < m)
  BY <1>2 DEF OpToRel
<1>4. \A k \in S : m <= k
  BY <1>3
<1> QED BY <1>4, Zenon

LEMMA StartRow == Row(InitialNodes)
<1>1. InitialNodes \in UNION {SetToSeqs(S) : S \in SUBSET Hosts}
  BY DashboardAssumption, Zenon DEF SetToAllKPermutations
<1>2. PICK S \in SUBSET Hosts : InitialNodes \in SetToSeqs(S)
  BY <1>1
<1>3. Cardinality(S) \in Nat
  BY DashboardAssumption, FS_Subset, FS_CardinalityType
<1> DEFINE n == Cardinality(S)
<1>4. InitialNodes \in [1..n -> S] /\ \A i, j \in 1..n : i # j => InitialNodes[i] # InitialNodes[j]
  BY <1>2, Zenon DEF SetToSeqs
<1> HIDE DEF n
<1>5. InitialNodes \in [1..n -> Hosts]
      /\ \A i, j \in 1..n : InitialNodes[i] = InitialNodes[j] => i = j
  BY <1>4
<1>6. n \in Nat
  BY <1>3 DEF n
<1> QED BY <1>5, <1>6, RowOf

------------------------------------------------------------------------------
(* The orchestrator's list: the hosts, each at its place.                   *)

Places == [Hosts -> Nat \cup {None}]

LEMMA ListedOrder ==
    ASSUME Row(registered), position \in Places
    PROVE  LET D == 1..Len(registered)
           IN  /\ \A i \in D : ~ListedBefore(i, i)
               /\ \A i, j \in D : i # j => ListedBefore(i, j) \/ ListedBefore(j, i)
               /\ \A i, j, k \in D :
                    ListedBefore(i, j) /\ ListedBefore(j, k) => ListedBefore(i, k)
<1> DEFINE D == 1..Len(registered)
           at(i) == position[registered[i]]
<1>1. Len(registered) \in Nat /\ \A i \in D : i \in Nat /\ registered[i] \in Hosts
  BY RowFacts
<1>2. None \notin Nat /\ \A i \in D : at(i) \in Nat \/ at(i) = None
  BY <1>1, DashboardAssumption DEF Places
<1>3. \A i, j \in D : ListedBefore(i, j) <=>
         IF at(i) = None \/ at(j) = None THEN at(i) # None \/ (at(j) = None /\ i < j)
         ELSE at(i) < at(j) \/ (at(i) = at(j) /\ i < j)
  BY DEF ListedBefore
<1> HIDE DEF D, at
<1>4. \A i \in D : ~ListedBefore(i, i)
  BY <1>1, <1>2, <1>3
<1>5. \A i, j \in D : i # j => ListedBefore(i, j) \/ ListedBefore(j, i)
  BY <1>1, <1>2, <1>3
<1>6. \A i, j, k \in D : ListedBefore(i, j) /\ ListedBefore(j, k) => ListedBefore(i, k)
  BY <1>1, <1>2, <1>3
<1> QED BY <1>4, <1>5, <1>6 DEF D

LEMMA PlaceFacts ==
    ASSUME Row(registered), position \in Places
    PROVE  LET D == 1..Len(registered)
           IN  /\ \A i \in D : Place(i) \in D
               /\ \A i, j \in D : Place(i) = Place(j) => i = j
               /\ \A k \in D : \E i \in D : Place(i) = k
<1> DEFINE n == Len(registered)
           D == 1..n
           B(i) == {j \in D : ListedBefore(j, i)}
<1>1. n \in Nat /\ DOMAIN registered = D
  BY RowFacts
<1>2. \A i : Place(i) = Cardinality(B(i)) + 1
  BY <1>1, Zenon DEF Place
<1>3. /\ \A i \in D : ~ListedBefore(i, i)
      /\ \A i, j \in D : i # j => ListedBefore(i, j) \/ ListedBefore(j, i)
      /\ \A i, j, k \in D : ListedBefore(i, j) /\ ListedBefore(j, k) => ListedBefore(i, k)
  BY ListedOrder, Zenon
<1>4. IsFiniteSet(D) /\ Cardinality(D) = n
  BY <1>1, UpTo, Zenon
<1>5. \A i : IsFiniteSet(B(i)) /\ Cardinality(B(i)) \in Nat
  <2> SUFFICES ASSUME NEW i PROVE IsFiniteSet(B(i)) /\ Cardinality(B(i)) \in Nat
    OBVIOUS
  <2>1. B(i) \in SUBSET D
    OBVIOUS
  <2> QED BY <2>1, <1>4, FS_Subset, FS_CardinalityType, Zenon
<1>6. ASSUME NEW i \in D PROVE Place(i) \in D
  <2>1. B(i) \in SUBSET (D \ {i})
    BY <1>3
  <2>2. IsFiniteSet(D \ {i}) /\ Cardinality(D \ {i}) = n - 1
    <3>1. /\ IsFiniteSet(D \ {i})
          /\ Cardinality(D \ {i}) = IF i \in D THEN Cardinality(D) - 1 ELSE Cardinality(D)
      BY <1>4, FS_RemoveElement, Zenon
    <3> QED BY <3>1, <1>4
  <2> HIDE DEF B
  <2>3. Cardinality(B(i)) <= n - 1
    <3>1. Cardinality(B(i)) <= Cardinality(D \ {i})
      BY <2>1, <2>2, FS_Subset, Zenon
    <3> QED BY <3>1, <2>2
  <2> QED BY <1>1, <1>2, <1>5, <2>3
<1>7. ASSUME NEW i \in D, NEW j \in D, ListedBefore(i, j) PROVE Place(i) < Place(j)
  <2>1. B(i) \cup {i} \in SUBSET B(j) /\ i \notin B(i)
    BY <1>3, <1>7, Zenon
  <2> HIDE DEF B
  <2>2. Cardinality(B(i) \cup {i}) = Cardinality(B(i)) + 1
    <3>1. Cardinality(B(i) \cup {i}) =
             IF i \in B(i) THEN Cardinality(B(i)) ELSE Cardinality(B(i)) + 1
      BY <1>5, FS_AddElement, Zenon
    <3> QED BY <2>1, <3>1
  <2>3. Cardinality(B(i) \cup {i}) <= Cardinality(B(j))
    BY <1>5, <2>1, FS_Subset, Zenon
  <2> QED BY <1>2, <1>5, <2>2, <2>3
<1>8. ASSUME NEW i \in D, NEW j \in D, Place(i) = Place(j) PROVE i = j
  <2>1. Place(i) \in Nat /\ Place(j) \in Nat
    BY <1>6, <1>1
  <2> QED BY <1>3, <1>7, <1>8, <2>1
<1>9. ASSUME NEW k \in D PROVE \E i \in D : Place(i) = k
  <2> DEFINE P == [i \in D |-> Place(i)]
  <2>1. P \in [D -> D]
    BY <1>6
  <2>2. P \in Injection(D, D)
    <3>1. \A i, j \in D : P[i] = P[j] => i = j
      BY <1>8
    <3> HIDE DEF D
    <3> QED BY <2>1, <3>1, Zenon DEF Injection, IsInjective
  <2>3. P \in Surjection(D, D)
    <3> HIDE DEF P, D
    <3> QED BY <2>2, <1>4, FS_Injection, Zenon
  <2>4. \E i \in D : P[i] = k
    <3> HIDE DEF P, D
    <3> QED BY <2>3, <1>9, Zenon DEF Surjection
  <2> QED BY <2>4
<1> QED BY <1>6, <1>8, <1>9

LEMMA ListedAt ==
    ASSUME Row(registered), position \in Places
    PROVE  LET at(k) == CHOOSE i \in DOMAIN registered : Place(i) = k
           IN  /\ ListNodes = [k \in 1..Len(registered) |-> registered[at(k)]]
               /\ \A k \in 1..Len(registered) :
                    at(k) \in 1..Len(registered) /\ Place(at(k)) = k
<1>1. DOMAIN registered = 1..Len(registered)
  BY RowFacts
<1>2. \A k \in 1..Len(registered) : \E i \in DOMAIN registered : Place(i) = k
  BY <1>1, PlaceFacts, Zenon
<1>3. ListNodes = [k \in 1..Len(registered) |->
                     registered[CHOOSE i \in DOMAIN registered : Place(i) = k]]
  BY <1>1, Zenon DEF ListNodes
<1> QED BY <1>1, <1>2, <1>3, Zenon

\* The list holds the registered hosts, each once.
LEMMA ListIsRow ==
    ASSUME Row(registered), position \in Places
    PROVE  Row(ListNodes) /\ ToSet(ListNodes) = ToSet(registered)
<1> DEFINE D == 1..Len(registered)
           at(k) == CHOOSE i \in DOMAIN registered : Place(i) = k
           L == ListNodes
<1>1. /\ L = [k \in D |-> registered[at(k)]]
      /\ \A k \in D : at(k) \in D /\ Place(at(k)) = k
  BY ListedAt, Zenon
<1>2. /\ \A i \in D : Place(i) \in D
      /\ \A i, j \in D : Place(i) = Place(j) => i = j
  BY PlaceFacts, Zenon
<1>3. /\ Len(registered) \in Nat
      /\ \A i \in D : registered[i] \in Hosts
      /\ \A i, j \in D : registered[i] = registered[j] => i = j
      /\ \A h : h \in ToSet(registered) <=> \E i \in D : registered[i] = h
  BY RowFacts
<1> HIDE DEF D, at, L
<1>4. L \in [D -> Hosts]
  BY <1>1, <1>3
<1>5. \A k, l \in D : L[k] = L[l] => k = l
  BY <1>1, <1>3
<1>6. Row(L) /\ Len(L) = Len(registered)
  BY <1>3, <1>4, <1>5, RowOf DEF D
<1>7. \A h : h \in ToSet(L) <=> \E k \in D : L[k] = h
  BY <1>6, RowFacts DEF D
<1>8. \A h : h \in ToSet(L) <=> h \in ToSet(registered)
  <2>1. ASSUME NEW i \in D PROVE L[Place(i)] = registered[i]
    <3>1. Place(i) \in D /\ Place(at(Place(i))) = Place(i) /\ at(Place(i)) \in D
      BY <1>1, <1>2
    <3>2. at(Place(i)) = i
      BY <1>2, <3>1
    <3> QED BY <1>1, <3>1, <3>2
  <2>2. \A i \in D : \E k \in D : L[k] = registered[i]
    BY <2>1, <1>2
  <2>3. \A k \in D : \E i \in D : registered[i] = L[k]
    BY <1>1
  <2> QED BY <2>2, <2>3, <1>3, <1>7
<1> QED BY <1>6, <1>8 DEF L

\* When every host has the position it stands at in o, the list is o.
LEMMA PositionsDecide ==
    ASSUME Row(registered), position \in Places, NEW o, Row(o),
           ToSet(o) = ToSet(registered), \A k \in 1..Len(o) : position[o[k]] = k - 1
    PROVE  ListNodes = o
<1> DEFINE n == Len(o)
           D == 1..n
<1>1. n = Len(registered)
  BY SameLength
<1>2. /\ n \in Nat /\ DOMAIN registered = D
      /\ \A i, j \in D : registered[i] = registered[j] => i = j
      /\ \A h : h \in ToSet(registered) <=> \E i \in D : registered[i] = h
  BY <1>1, RowFacts
<1>3. /\ o = [k \in D |-> o[k]]
      /\ \A i, j \in D : o[i] = o[j] => i = j
      /\ \A h : h \in ToSet(o) <=> \E k \in D : o[k] = h
  <2>1. o \in Seq(Hosts)
    BY RowFacts
  <2> QED BY <2>1, RowFacts
<1>4. \A k \in D : \E i \in D : registered[i] = o[k]
  BY <1>2, <1>3
<1>5. \A i \in D : \E k \in D : registered[i] = o[k]
  BY <1>2, <1>3
<1>6. None \notin Nat
  BY DashboardAssumption
<1> HIDE DEF n
<1>7. ASSUME NEW i \in D, NEW m \in D, registered[i] = o[m]
      PROVE  Place(i) = m
  <2> DEFINE B == {j \in D : ListedBefore(j, i)}
             f == [j \in B |-> position[registered[j]] + 1]
  <2>1. position[registered[i]] = m - 1
    BY <1>7 DEF n
  <2>2. ASSUME NEW j \in D, NEW l \in D, registered[j] = o[l]
        PROVE  position[registered[j]] = l - 1 /\ (ListedBefore(j, i) <=> l < m)
    <3>1. position[registered[j]] = l - 1
      BY <2>2 DEF n
    <3>2. l - 1 \in Nat /\ m - 1 \in Nat
      BY <1>2
    <3>3. ListedBefore(j, i) <=> l - 1 < m - 1 \/ (l - 1 = m - 1 /\ j < i)
      BY <2>1, <3>1, <3>2, <1>6 DEF ListedBefore
    <3>4. l = m => j = i
      BY <1>2, <1>7, <2>2
    <3> QED BY <1>2, <3>1, <3>3, <3>4
  <2>3. f \in [B -> 1..(m - 1)]
    <3> SUFFICES ASSUME NEW j \in B PROVE position[registered[j]] + 1 \in 1..(m - 1)
      OBVIOUS
    <3>1. PICK l \in D : registered[j] = o[l]
      BY <1>5
    <3> QED BY <2>2, <3>1, <1>2
  <2>4. \A j, k \in B : f[j] = f[k] => j = k
    <3> SUFFICES ASSUME NEW j \in B, NEW k \in B, f[j] = f[k] PROVE j = k
      OBVIOUS
    <3>1. PICK l \in D : registered[j] = o[l]
      BY <1>5
    <3>2. PICK p \in D : registered[k] = o[p]
      BY <1>5
    <3>3. position[registered[j]] = l - 1 /\ position[registered[k]] = p - 1
      BY <2>2, <3>1, <3>2
    <3>4. l = p
      BY <3>3, <1>2
    <3> QED BY <3>1, <3>2, <3>4, <1>2
  <2>5. \A l \in 1..(m - 1) : \E j \in B : f[j] = l
    <3> SUFFICES ASSUME NEW l \in 1..(m - 1) PROVE \E j \in B : f[j] = l
      OBVIOUS
    <3>1. l \in D /\ l < m
      BY <1>2
    <3>2. PICK j \in D : registered[j] = o[l]
      BY <1>4, <3>1
    <3>3. j \in B /\ position[registered[j]] = l - 1
      BY <2>2, <3>1, <3>2
    <3>4. f[j] = l
      BY <3>1, <3>3, <1>2
    <3> QED BY <3>3, <3>4
  <2>6. B \in SUBSET D /\ IsFiniteSet(D)
    BY <1>2, UpTo, Zenon
  <2> HIDE DEF f, B
  <2>7. f \in Bijection(B, 1..(m - 1))
    BY <2>3, <2>4, <2>5, Zenon DEF Bijection, Injection, Surjection, IsInjective
  <2>8. IsFiniteSet(B) /\ ExistsBijection(B, 1..(m - 1))
    BY <2>6, <2>7, FS_Subset, Zenon DEF ExistsBijection
  <2>9. Cardinality(1..(m - 1)) = Cardinality(B)
    BY <2>8, FS_Bijection, Zenon
  <2>10. Cardinality(1..(m - 1)) = m - 1
    <3>1. m - 1 \in Nat
      BY <1>2
    <3> QED BY <3>1, UpTo
  <2>11. Place(i) = Cardinality(B) + 1
    BY <1>2, Zenon DEF Place, B
  <2> QED BY <1>2, <2>9, <2>10, <2>11
<1> DEFINE at(k) == CHOOSE i \in DOMAIN registered : Place(i) = k
<1>8. /\ ListNodes = [k \in D |-> registered[at(k)]]
      /\ \A k \in D : at(k) \in D /\ Place(at(k)) = k
  BY <1>1, ListedAt, Zenon
<1> HIDE DEF at
<1>9. \A k \in D : registered[at(k)] = o[k]
  <2> SUFFICES ASSUME NEW k \in D PROVE registered[at(k)] = o[k]
    OBVIOUS
  <2>1. PICK m \in D : registered[at(k)] = o[m]
    BY <1>5, <1>8
  <2>2. Place(at(k)) = m
    BY <1>7, <1>8, <2>1
  <2> QED BY <1>8, <2>1, <2>2
<1> QED BY <1>3, <1>8, <1>9

------------------------------------------------------------------------------
(* One poll at a time, and the chart groups it goes through.                *)

Polling(t) == pc[t] \in {"fetching", "answered", "groups", "removing", "mounting"}

TaskTypes ==
    /\ pc = [t \in Tasks |-> pc[t]] /\ answer = [t \in Tasks |-> answer[t]]
    /\ group = [t \in Tasks |-> group[t]]
    /\ polling \in BOOLEAN /\ alive \in BOOLEAN

\* The flag is up while a task is in a poll, and only one is.
OnePoll ==
    /\ \A t \in Tasks : Polling(t) => polling
    /\ \A t, u \in Tasks : Polling(t) /\ Polling(u) => t = u
    /\ ~alive => \A t \in Tasks : pc[t] = "exited"

\* Every group known has its label and chart, except the one being mounted.
GroupsFollow ==
    /\ alive /\ (\A t \in Tasks : pc[t] # "mounting") => tracked \subseteq ready
    /\ \A t \in Tasks : pc[t] = "mounting" => tracked \subseteq ready \cup {group[t]}
    /\ \A t \in Tasks : pc[t] = "removing" => group[t] \notin tracked

PollInv == TaskTypes /\ OnePoll /\ GroupsFollow

LEMMA TwoTasks == "timer" \in Tasks /\ "keys" \in Tasks /\ "timer" # "keys"
BY DEF Tasks

LEMMA TaskIsAlive ==
    ASSUME PollInv, NEW t \in Tasks, pc[t] # "exited"
    PROVE  alive
BY DEF PollInv, OnePoll

LEMMA KeysGoOn ==
    ASSUME PollInv, ~Polling("keys"), NEW w,
           w \notin {"fetching", "answered", "groups", "removing", "mounting"},
           alive, Go("keys", w), answer' = [t \in Tasks |-> answer'[t]],
           UNCHANGED <<polling, groups, alive>>
    PROVE  PollInv'
<1> DEFINE T == Tasks
<1>1. "keys" \in T
  BY TwoTasks
<1>2. /\ pc' = [t \in T |-> IF t = "keys" THEN w ELSE pc[t]]
      /\ tracked' = tracked /\ ready' = ready /\ group' = group
      /\ polling' = polling /\ alive' = alive
  BY DEF Go, groups, PollInv, TaskTypes
<1>3. TaskTypes'
  BY <1>2 DEF PollInv, TaskTypes
<1>4. OnePoll'
  BY <1>2 DEF PollInv, OnePoll, Polling
<1>5. GroupsFollow'
  BY <1>1, <1>2 DEF PollInv, GroupsFollow, Polling
<1> QED BY <1>3, <1>4, <1>5 DEF PollInv

LEMMA PollsBegin ==
    ASSUME PollInv, NEW t \in Tasks, ~Polling(t), alive, PollBegins(t),
           answer' = [u \in Tasks |-> answer'[u]], UNCHANGED <<groups, alive>>
    PROVE  PollInv'
<1>1. CASE polling
  <2>1. /\ pc' = [u \in Tasks |-> IF u = t THEN "idle" ELSE pc[u]]
        /\ tracked' = tracked /\ ready' = ready /\ group' = group
        /\ polling' = polling /\ alive' = alive
    BY <1>1 DEF PollBegins, Busy, Go, groups, PollInv, TaskTypes
  <2>2. TaskTypes'
    BY <2>1 DEF PollInv, TaskTypes
  <2>3. OnePoll'
    BY <2>1 DEF PollInv, OnePoll, Polling
  <2>4. GroupsFollow'
    BY <2>1 DEF PollInv, GroupsFollow, Polling
  <2> QED BY <2>2, <2>3, <2>4 DEF PollInv
<1>2. CASE ~polling
  <2>1. /\ pc' = [u \in Tasks |-> IF u = t THEN "fetching" ELSE pc[u]]
        /\ tracked' = tracked /\ ready' = ready /\ group' = group
        /\ polling' = TRUE /\ alive' = alive
    BY <1>2 DEF PollBegins, Busy, Go, groups, PollInv, TaskTypes
  <2>2. TaskTypes'
    BY <2>1 DEF PollInv, TaskTypes
  <2>3. OnePoll'
    BY <1>2, <2>1 DEF PollInv, OnePoll, Polling
  <2>4. GroupsFollow'
    BY <2>1 DEF PollInv, GroupsFollow, Polling
  <2> QED BY <2>2, <2>3, <2>4 DEF PollInv
<1> QED BY <1>1, <1>2

LEMMA PollsEnd ==
    ASSUME PollInv, NEW t \in Tasks, pc[t] \in {"fetching", "answered", "groups"}, PollEnds(t),
           UNCHANGED <<tracked, ready, group, alive>>
    PROVE  PollInv'
<1>1. /\ pc' = [u \in Tasks |-> IF u = t THEN "idle" ELSE pc[u]]
      /\ answer' = [u \in Tasks |-> IF u = t THEN None ELSE answer[u]]
      /\ polling' = FALSE
  BY DEF PollEnds, Go, PollInv, TaskTypes
<1>2. TaskTypes'
  BY <1>1 DEF PollInv, TaskTypes
<1>3. \A u \in Tasks : u # t => ~Polling(u)
  BY DEF PollInv, OnePoll, Polling
<1>4. OnePoll'
  BY <1>1, <1>3 DEF PollInv, OnePoll, Polling
<1>5. GroupsFollow'
  BY <1>1 DEF PollInv, GroupsFollow
<1> QED BY <1>2, <1>4, <1>5 DEF PollInv

LEMMA AppExits ==
    ASSUME PollInv, Exits, UNCHANGED <<answer, groups>>
    PROVE  PollInv'
<1>1. /\ pc' = [t \in Tasks |-> "exited"] /\ alive' = FALSE /\ polling' = polling
      /\ tracked' = tracked /\ ready' = ready /\ group' = group /\ answer' = answer
  BY DEF Exits, groups
<1> QED BY <1>1 DEF PollInv, TaskTypes, OnePoll, GroupsFollow, Polling

LEMMA PollInvInit == Init => PollInv
BY DEF Init, PollInv, TaskTypes, OnePoll, GroupsFollow, Polling

LEMMA PollGoesOn ==
    ASSUME PollInv, NEW t \in Tasks, PollNext(t)
    PROVE  PollInv'
<1> USE DEF groups
<1>1. CASE Answered(t)
  <2>1. /\ pc[t] = "fetching" /\ pc' = [u \in Tasks |-> IF u = t THEN "answered" ELSE pc[u]]
        /\ answer' = [u \in Tasks |-> IF u = t THEN [list |-> ListNodes, position |-> position]
                                      ELSE answer[u]]
        /\ tracked' = tracked /\ ready' = ready /\ group' = group
        /\ polling' = polling /\ alive' = alive
    BY <1>1 DEF Answered, Go, PollInv, TaskTypes
  <2>2. TaskTypes'
    BY <2>1 DEF PollInv, TaskTypes
  <2>3. OnePoll'
    BY <2>1 DEF PollInv, OnePoll, Polling
  <2>4. GroupsFollow'
    BY <2>1 DEF PollInv, GroupsFollow
  <2> QED BY <2>2, <2>3, <2>4 DEF PollInv
<1>2. CASE RendersNodes(t)
  <2>1. /\ pc[t] = "answered" /\ pc' = [u \in Tasks |-> IF u = t THEN "groups" ELSE pc[u]]
        /\ tracked' = tracked /\ ready' = ready /\ group' = group
        /\ polling' = polling /\ alive' = alive /\ answer' = answer
    BY <1>2 DEF RendersNodes, Go, PollInv, TaskTypes
  <2>2. TaskTypes'
    BY <2>1 DEF PollInv, TaskTypes
  <2>3. OnePoll'
    BY <2>1 DEF PollInv, OnePoll, Polling
  <2>4. GroupsFollow'
    BY <2>1 DEF PollInv, GroupsFollow
  <2> QED BY <2>2, <2>3, <2>4 DEF PollInv
<1>3. CASE PollDone(t)
  BY <1>3, PollsEnd DEF PollDone
<1>4. CASE Unmounted(t)
  <2>1. /\ pc[t] = "removing" /\ pc' = [u \in Tasks |-> IF u = t THEN "groups" ELSE pc[u]]
        /\ group' = [u \in Tasks |-> IF u = t THEN None ELSE group[u]]
        /\ tracked' = tracked /\ ready' = ready \ {group[t]}
        /\ polling' = polling /\ alive' = alive /\ answer' = answer
    BY <1>4 DEF Unmounted, Go, PollInv, TaskTypes
  <2>2. TaskTypes'
    BY <2>1 DEF PollInv, TaskTypes
  <2>3. OnePoll'
    BY <2>1 DEF PollInv, OnePoll, Polling
  <2>4. \A u \in Tasks : u # t => pc[u] \notin {"mounting", "removing"}
    BY <2>1 DEF PollInv, OnePoll, Polling
  <2>5. tracked \subseteq ready /\ group[t] \notin tracked
    BY <2>1, <2>4, TaskIsAlive DEF PollInv, GroupsFollow
  <2>6. GroupsFollow'
    BY <2>1, <2>4, <2>5 DEF GroupsFollow
  <2> QED BY <2>2, <2>3, <2>6 DEF PollInv
<1>5. CASE Composed(t)
  <2>1. /\ pc[t] = "mounting" /\ pc' = [u \in Tasks |-> IF u = t THEN "groups" ELSE pc[u]]
        /\ group' = [u \in Tasks |-> IF u = t THEN None ELSE group[u]]
        /\ tracked' = tracked /\ ready' = ready \cup {group[t]}
        /\ polling' = polling /\ alive' = alive /\ answer' = answer
    BY <1>5 DEF Composed, Go, PollInv, TaskTypes
  <2>2. TaskTypes'
    BY <2>1 DEF PollInv, TaskTypes
  <2>3. OnePoll'
    BY <2>1 DEF PollInv, OnePoll, Polling
  <2>4. \A u \in Tasks : u # t => pc[u] \notin {"mounting", "removing"}
    BY <2>1 DEF PollInv, OnePoll, Polling
  <2>5. tracked \subseteq ready \cup {group[t]}
    BY <2>1 DEF PollInv, GroupsFollow
  <2>6. GroupsFollow'
    BY <2>1, <2>4, <2>5 DEF GroupsFollow
  <2> QED BY <2>2, <2>3, <2>6 DEF PollInv
<1>6. ASSUME NEW h \in Hosts, Unmounts(t, h) PROVE PollInv'
  <2>1. /\ pc[t] = "groups" /\ pc' = [u \in Tasks |-> IF u = t THEN "removing" ELSE pc[u]]
        /\ group' = [u \in Tasks |-> IF u = t THEN h ELSE group[u]]
        /\ tracked' = tracked \ {h} /\ ready' = ready
        /\ polling' = polling /\ alive' = alive /\ answer' = answer
    BY <1>6 DEF Unmounts, Go, PollInv, TaskTypes
  <2>2. TaskTypes'
    BY <2>1 DEF PollInv, TaskTypes
  <2>3. OnePoll'
    BY <2>1 DEF PollInv, OnePoll, Polling
  <2>4. \A u \in Tasks : u # t => pc[u] \notin {"mounting", "removing"}
    BY <2>1 DEF PollInv, OnePoll, Polling
  <2>5. tracked \subseteq ready
    BY <2>1, <2>4, TaskIsAlive DEF PollInv, GroupsFollow
  <2>6. GroupsFollow'
    BY <2>1, <2>4, <2>5 DEF GroupsFollow
  <2> QED BY <2>2, <2>3, <2>6 DEF PollInv
<1>7. ASSUME NEW h \in Hosts, Mounts(t, h) PROVE PollInv'
  <2>1. /\ pc[t] = "groups" /\ pc' = [u \in Tasks |-> IF u = t THEN "mounting" ELSE pc[u]]
        /\ group' = [u \in Tasks |-> IF u = t THEN h ELSE group[u]]
        /\ tracked' = tracked \cup {h} /\ ready' = ready
        /\ polling' = polling /\ alive' = alive /\ answer' = answer
    BY <1>7 DEF Mounts, Go, PollInv, TaskTypes
  <2>2. TaskTypes'
    BY <2>1 DEF PollInv, TaskTypes
  <2>3. OnePoll'
    BY <2>1 DEF PollInv, OnePoll, Polling
  <2>4. \A u \in Tasks : u # t => pc[u] \notin {"mounting", "removing"}
    BY <2>1 DEF PollInv, OnePoll, Polling
  <2>5. tracked \subseteq ready
    BY <2>1, <2>4, TaskIsAlive DEF PollInv, GroupsFollow
  <2>6. GroupsFollow'
    BY <2>1, <2>4, <2>5 DEF GroupsFollow
  <2> QED BY <2>2, <2>3, <2>6 DEF PollInv
<1> QED BY <1>1, <1>2, <1>3, <1>4, <1>5, <1>6, <1>7 DEF PollNext

LEMMA MoveTurns ==
    ASSUME PollInv, ~Polling("keys"), alive, NEW o, NEW target, NEW from,
           MoveGoesOn(o, target, from), UNCHANGED <<answer, groups>>
    PROVE  PollInv'
<1>1. answer' = [t \in Tasks |-> answer'[t]]
  BY DEF PollInv, TaskTypes
<1>2. \/ PollBegins("keys") /\ UNCHANGED alive
      \/ Exits
      \/ Go("keys", "patching") /\ UNCHANGED <<polling, alive>>
  BY DEF MoveGoesOn
<1>3. CASE PollBegins("keys") /\ UNCHANGED alive
  BY <1>1, <1>3, TwoTasks, PollsBegin
<1>4. CASE Exits
  BY <1>4, AppExits
<1>5. CASE Go("keys", "patching") /\ UNCHANGED <<polling, alive>>
  BY <1>1, <1>5, KeysGoOn
<1> QED BY <1>2, <1>3, <1>4, <1>5

LEMMA PollInvStep ==
    ASSUME PollInv, [Next]_vars
    PROVE  PollInv'
<1>0. answer = [t \in Tasks |-> answer[t]]
  BY DEF PollInv, TaskTypes
<1>1. ASSUME UNCHANGED <<pc, answer, groups, polling, alive>> PROVE PollInv'
  BY <1>1 DEF PollInv, TaskTypes, OnePoll, GroupsFollow, Polling, groups
<1>2. ASSUME NEW h \in Hosts, OtherRegisters(h) \/ OtherRemoves(h) PROVE PollInv'
  BY <1>1, <1>2 DEF OtherRegisters, OtherRemoves
<1>3. ASSUME NEW h \in Hosts, NEW p \in OtherPlaces, OtherPositions(h, p) PROVE PollInv'
  BY <1>1, <1>3 DEF OtherPositions
<1>4. CASE TimerTicks
  <2>1. ~Polling("timer") /\ alive /\ PollBegins("timer") /\ UNCHANGED <<answer, groups, alive>>
    BY <1>4 DEF TimerTicks, Polling
  <2> QED BY <1>0, <2>1, TwoTasks, PollsBegin
<1>5. ASSUME NEW t \in Tasks, PollNext(t) PROVE PollInv'
  BY <1>5, PollGoesOn
<1>6. ASSUME NEW t \in Tasks, PollFails(t) PROVE PollInv'
  BY <1>6, PollsEnd DEF PollFails, groups
<1>7. ASSUME NEW t \in Tasks, RenderFails(t) \/ ChartsFail(t) PROVE PollInv'
  BY <1>7, PollsEnd DEF RenderFails, ChartsFail, groups
<1>8. ASSUME NEW i, MovesCursor(i) PROVE PollInv'
  BY <1>1, <1>8 DEF MovesCursor
<1>9. ASSUME pc["keys"] \in {"idle", "form", "request", "patching", "patched"}
      PROVE  ~Polling("keys") /\ alive
  BY <1>9, TwoTasks, TaskIsAlive DEF Polling
<1>10. ASSUME NEW on, ChangesSort(on) PROVE PollInv'
  <2>1. pc["keys"] = "idle" /\ PollBegins("keys") /\ UNCHANGED <<answer, groups, alive>>
    BY <1>10 DEF ChangesSort
  <2> QED BY <1>0, <1>9, <2>1, TwoTasks, PollsBegin
<1>11. ASSUME NEW step, MovesNode(step) PROVE PollInv'
  <2>1. pc["keys"] = "idle" /\ UNCHANGED <<answer, groups>>
    BY <1>11 DEF MovesNode
  <2>2. Exits \/ \E o, target : MoveGoesOn(o, target, 1)
    BY <1>11 DEF MovesNode
  <2> QED BY <1>9, <2>1, <2>2, MoveTurns, AppExits
<1>12. ASSUME NEW kind, OpensForm(kind) PROVE PollInv'
  <2>1. pc["keys"] = "idle" /\ UNCHANGED <<answer, groups>>
    BY <1>12 DEF OpensForm
  <2>2. Exits \/ (Go("keys", "form") /\ UNCHANGED <<polling, alive>>)
    BY <1>12 DEF OpensForm
  <2> QED BY <1>0, <1>9, <2>1, <2>2, KeysGoOn, AppExits
<1>13. ASSUME NEW h, OpensNew(h) PROVE PollInv'
  <2>1. /\ pc["keys"] = "idle" /\ Go("keys", "form")
        /\ UNCHANGED <<answer, polling, groups, alive>>
    BY <1>13 DEF OpensNew
  <2> QED BY <1>0, <1>9, <2>1, KeysGoOn
<1>14. CASE FormCancelled
  <2>1. /\ pc["keys"] = "form" /\ Go("keys", "idle")
        /\ UNCHANGED <<answer, polling, groups, alive>>
    BY <1>14 DEF FormCancelled
  <2> QED BY <1>0, <1>9, <2>1, KeysGoOn
<1>15. CASE FormSubmitted
  <2>1. /\ pc["keys"] = "form" /\ Go("keys", "request")
        /\ UNCHANGED <<answer, polling, groups, alive>>
    BY <1>15 DEF FormSubmitted
  <2> QED BY <1>0, <1>9, <2>1, KeysGoOn
<1>16. CASE PatchDone
  <2>1. /\ pc["keys"] = "patching" /\ Go("keys", "patched")
        /\ UNCHANGED <<answer, polling, groups, alive>>
    BY <1>16 DEF PatchDone
  <2> QED BY <1>0, <1>9, <2>1, KeysGoOn
<1>17. CASE PatchFails
  <2>1. /\ pc["keys"] = "patching" /\ Go("keys", "idle")
        /\ UNCHANGED <<answer, polling, groups, alive>>
    BY <1>17 DEF PatchFails
  <2> QED BY <1>0, <1>9, <2>1, KeysGoOn
<1>18. CASE MoveContinues
  <2>1. /\ pc["keys"] = "patched" /\ UNCHANGED <<answer, groups>>
        /\ MoveGoesOn(job.order, job.target, job.next + 1)
    BY <1>18 DEF MoveContinues
  <2> QED BY <1>9, <2>1, MoveTurns
<1>19. CASE RequestDone
  <2>1. pc["keys"] = "request" /\ PollBegins("keys") /\ UNCHANGED <<answer, groups, alive>>
    BY <1>19 DEF RequestDone
  <2> QED BY <1>0, <1>9, <2>1, TwoTasks, PollsBegin
<1>20. CASE RequestFails
  <2>1. /\ pc["keys"] = "request" /\ Go("keys", "idle")
        /\ UNCHANGED <<answer, polling, groups, alive>>
    BY <1>20 DEF RequestFails
  <2> QED BY <1>0, <1>9, <2>1, KeysGoOn
<1>21. CASE UNCHANGED vars
  BY <1>1, <1>21 DEF vars
<1> QED
  BY <1>2, <1>3, <1>4, <1>5, <1>6, <1>7, <1>8, <1>10, <1>11, <1>12, <1>13, <1>14, <1>15, <1>16,
     <1>17, <1>18, <1>19, <1>20, <1>21 DEF Next, RequestNext

------------------------------------------------------------------------------
(* The orchestrator's nodes and the answers on their way.                   *)

ServerTypes == Row(registered) /\ position \in Places

AnswerTypes ==
    \A t \in Tasks : pc[t] = "answered" =>
        Row(answer[t].list) /\ answer[t].position \in Places

\* An answer on its way was so before the step, or is the list as it was then.
LEMMA AnswerOrigin ==
    ASSUME PollInv, [Next]_vars, NEW t \in Tasks, pc'[t] = "answered"
    PROVE  \/ pc[t] = "answered" /\ answer'[t] = answer[t]
           \/ answer'[t] = [list |-> ListNodes, position |-> position]
<1> DEFINE Goal == \/ pc[t] = "answered" /\ answer'[t] = answer[t]
                   \/ answer'[t] = [list |-> ListNodes, position |-> position]
<1>0. pc = [u \in Tasks |-> pc[u]] /\ answer = [u \in Tasks |-> answer[u]]
  BY DEF PollInv, TaskTypes
<1>1. ASSUME UNCHANGED <<pc, answer>> PROVE Goal
  BY <1>1
<1>2. ASSUME UNCHANGED answer, NEW u, NEW w, w # "answered", Go(u, w) PROVE Goal
  BY <1>0, <1>2 DEF Go
<1>3. ASSUME UNCHANGED answer, NEW u, PollBegins(u) PROVE Goal
  BY <1>2, <1>3 DEF PollBegins
<1>4. ASSUME UNCHANGED answer, Exits PROVE Goal
  BY <1>4 DEF Exits
<1>5. ASSUME NEW u, PollEnds(u) PROVE Goal
  BY <1>0, <1>5 DEF PollEnds, Go
<1>6. ASSUME UNCHANGED answer, NEW o, NEW target, NEW from, MoveGoesOn(o, target, from) PROVE Goal
  <2>1. PollBegins("keys") \/ Exits \/ Go("keys", "patching")
    BY <1>6 DEF MoveGoesOn
  <2> QED BY <1>2, <1>3, <1>4, <1>6, <2>1
<1> SUFFICES Goal
  BY DEF Goal
<1> HIDE DEF Goal
<1>7. ASSUME NEW h, OtherRegisters(h) \/ OtherRemoves(h) PROVE Goal
  BY <1>1, <1>7 DEF OtherRegisters, OtherRemoves
<1>8. ASSUME NEW h, NEW p, OtherPositions(h, p) PROVE Goal
  BY <1>1, <1>8 DEF OtherPositions
<1>9. CASE TimerTicks
  BY <1>3, <1>9 DEF TimerTicks
<1>10. ASSUME NEW u \in Tasks, PollNext(u) PROVE Goal
  <2>1. CASE Answered(u)
    <3>1. /\ answer' = [answer EXCEPT ![u] = [list |-> ListNodes, position |-> position]]
          /\ pc' = [pc EXCEPT ![u] = "answered"]
      BY <2>1 DEF Answered, Go
    <3>2. CASE u = t
      BY <1>0, <3>1, <3>2 DEF Goal
    <3>3. CASE u # t
      BY <1>0, <3>1, <3>3 DEF Goal
    <3> QED BY <3>2, <3>3
  <2>2. CASE RendersNodes(u)
    BY <1>2, <2>2 DEF RendersNodes
  <2>3. CASE PollDone(u)
    BY <1>5, <2>3 DEF PollDone
  <2>4. CASE Unmounted(u)
    BY <1>2, <2>4 DEF Unmounted
  <2>5. CASE Composed(u)
    BY <1>2, <2>5 DEF Composed
  <2>6. ASSUME NEW h, Unmounts(u, h) PROVE Goal
    BY <1>2, <2>6 DEF Unmounts
  <2>7. ASSUME NEW h, Mounts(u, h) PROVE Goal
    BY <1>2, <2>7 DEF Mounts
  <2> QED BY <1>10, <2>1, <2>2, <2>3, <2>4, <2>5, <2>6, <2>7 DEF PollNext
<1>11. ASSUME NEW u, PollFails(u) \/ RenderFails(u) \/ ChartsFail(u) PROVE Goal
  BY <1>5, <1>11 DEF PollFails, RenderFails, ChartsFail
<1>12. ASSUME NEW i, MovesCursor(i) PROVE Goal
  BY <1>1, <1>12 DEF MovesCursor
<1>13. ASSUME NEW on, ChangesSort(on) PROVE Goal
  BY <1>3, <1>13 DEF ChangesSort
<1>14. ASSUME NEW step, MovesNode(step) PROVE Goal
  <2>1. UNCHANGED answer /\ (Exits \/ \E o, target : MoveGoesOn(o, target, 1))
    BY <1>14 DEF MovesNode
  <2> QED BY <1>4, <1>6, <2>1
<1>15. ASSUME NEW kind, OpensForm(kind) PROVE Goal
  <2>1. UNCHANGED answer /\ (Exits \/ Go("keys", "form"))
    BY <1>15 DEF OpensForm
  <2> QED BY <1>2, <1>4, <2>1
<1>16. ASSUME NEW h, OpensNew(h) PROVE Goal
  BY <1>2, <1>16 DEF OpensNew
<1>17. CASE FormCancelled \/ FormSubmitted
  BY <1>2, <1>17 DEF FormCancelled, FormSubmitted
<1>18. CASE PatchDone \/ PatchFails
  <2>1. UNCHANGED answer /\ (Go("keys", "patched") \/ Go("keys", "idle"))
    BY <1>18 DEF PatchDone, PatchFails
  <2> QED BY <1>2, <2>1
<1>19. CASE MoveContinues
  BY <1>6, <1>19 DEF MoveContinues
<1>20. CASE RequestDone \/ RequestFails
  <2>1. UNCHANGED answer /\ (PollBegins("keys") \/ Go("keys", "idle"))
    BY <1>20 DEF RequestDone, RequestFails
  <2> QED BY <1>2, <1>3, <2>1
<1>21. CASE UNCHANGED vars
  BY <1>1, <1>21 DEF vars
<1> QED
  BY <1>7, <1>8, <1>9, <1>10, <1>11, <1>12, <1>13, <1>14, <1>15, <1>16, <1>17, <1>18, <1>19,
     <1>20, <1>21 DEF Next, RequestNext

LEMMA AnswerTypesStep ==
    ASSUME PollInv, ServerTypes, AnswerTypes, [Next]_vars
    PROVE  AnswerTypes'
<1> SUFFICES ASSUME NEW t \in Tasks, pc'[t] = "answered"
             PROVE  Row(answer'[t].list) /\ answer'[t].position \in Places
  BY DEF AnswerTypes
<1>1. CASE pc[t] = "answered" /\ answer'[t] = answer[t]
  BY <1>1 DEF AnswerTypes
<1>2. CASE answer'[t] = [list |-> ListNodes, position |-> position]
  <2>1. answer'[t].list = ListNodes /\ answer'[t].position = position
    BY <1>2
  <2> QED BY <2>1, ListIsRow DEF ServerTypes
<1> QED BY <1>1, <1>2, AnswerOrigin

LEMMA NodesChange ==
    ASSUME ServerTypes, NEW h \in Hosts
    PROVE  /\ Row(Registered(h)) /\ Row(RemoveFirst(registered, h))
           /\ \A p \in Nat \cup {None} : [position EXCEPT ![h] = p] \in Places
<1>1. Row(Registered(h))
  BY AppendedRow DEF ServerTypes, Registered
<1>2. Row(RemoveFirst(registered, h))
  BY RemovedRow DEF ServerTypes
<1>3. \A p \in Nat \cup {None} : [position EXCEPT ![h] = p] \in Places
  BY DEF ServerTypes, Places
<1> QED BY <1>1, <1>2, <1>3

------------------------------------------------------------------------------
(* The table, the order remembered for it, the cursor and the key in hand.  *)

TableTypes ==
    /\ Row(rows) /\ Row(order) /\ DOMAIN nodes = ToSet(rows)
    /\ cursor \in Nat /\ chosen \in Hosts \cup {None}
    /\ moved \in BOOLEAN /\ shifted \in BOOLEAN

\* The order is that of the rows, or has the same hosts unless nodes came or went.
TableFits ==
    /\ ~moved => order = rows
    /\ rows # <<>> => cursor \in 1..Len(rows)
    /\ ~shifted => ToSet(order) = ToSet(rows)
    /\ ~alive => shifted

CursorOnChosen ==
    chosen # None /\ alive =>
        rows # <<>> /\ cursor \in 1..Len(order) /\ order[cursor] = chosen

\* What a move relies on when it comes back from an await.
MoveFits ==
    /\ Moving =>
        /\ job.kind = "move" /\ Row(job.order)
        /\ job.target \in 1..Len(job.order) /\ job.next \in 1..Len(job.order)
        /\ ~shifted => ToSet(job.order) = ToSet(rows)
        /\ ~shifted /\ chosen # None => job.order[job.target] = chosen
    /\ moved /\ job.kind = "moved" => order = job.order

FormFits ==
    pc["keys"] \in {"form", "request"} =>
        /\ job.host \in Hosts
        /\ job.kind \in {"edit", "remove"} => job.host = job.shown \/ job.shown = None

ScreenInv == TableTypes /\ TableFits /\ CursorOnChosen /\ MoveFits

LEMMA ServerTypesStep ==
    ASSUME ServerTypes, ScreenInv, FormFits, [Next]_vars
    PROVE  ServerTypes'
<1>1. ASSUME UNCHANGED server PROVE ServerTypes'
  BY <1>1 DEF server, ServerTypes
<1>2. ASSUME UNCHANGED registered, NEW h \in Hosts, NEW p \in Nat \cup {None},
             position' = [position EXCEPT ![h] = p]
      PROVE  ServerTypes'
  BY <1>2, NodesChange DEF ServerTypes
<1>3. ASSUME NEW h \in Hosts, position' = [position EXCEPT ![h] = None],
             registered' = Registered(h) \/ registered' = RemoveFirst(registered, h)
      PROVE  ServerTypes'
  BY <1>3, NodesChange DEF ServerTypes
<1>4. ASSUME pc["keys"] = "request", Carried PROVE ServerTypes'
  <2>1. job.host \in Hosts
    BY <1>4 DEF FormFits
  <2> QED BY <1>1, <1>3, <1>4, <2>1 DEF Carried
<1>5. ASSUME NEW h \in Hosts, OtherRegisters(h) \/ OtherRemoves(h) PROVE ServerTypes'
  BY <1>3, <1>5 DEF OtherRegisters, OtherRemoves
<1>6. ASSUME NEW h \in Hosts, NEW p \in OtherPlaces, OtherPositions(h, p) PROVE ServerTypes'
  <2>1. p \in Nat
    BY DashboardAssumption
  <2> QED BY <1>2, <1>6, <2>1 DEF OtherPositions
<1>7. CASE TimerTicks
  BY <1>1, <1>7 DEF TimerTicks
<1>8. ASSUME NEW t, PollNext(t) PROVE ServerTypes'
  BY <1>1, <1>8 DEF PollNext, Answered, RendersNodes, PollDone, Unmounted, Composed, Unmounts,
                    Mounts
<1>9. ASSUME NEW t, PollFails(t) \/ RenderFails(t) \/ ChartsFail(t) PROVE ServerTypes'
  BY <1>1, <1>9 DEF PollFails, RenderFails, ChartsFail
<1>10. ASSUME NEW i, MovesCursor(i) PROVE ServerTypes'
  BY <1>1, <1>10 DEF MovesCursor
<1>11. ASSUME NEW on, ChangesSort(on) PROVE ServerTypes'
  BY <1>1, <1>11 DEF ChangesSort
<1>12. ASSUME NEW step, MovesNode(step) PROVE ServerTypes'
  BY <1>1, <1>12 DEF MovesNode
<1>13. ASSUME NEW kind, OpensForm(kind) PROVE ServerTypes'
  BY <1>1, <1>13 DEF OpensForm
<1>14. ASSUME NEW h, OpensNew(h) PROVE ServerTypes'
  BY <1>1, <1>14 DEF OpensNew
<1>15. CASE FormCancelled \/ FormSubmitted \/ MoveContinues
  BY <1>1, <1>15 DEF FormCancelled, FormSubmitted, MoveContinues
<1>16. CASE PatchDone \/ PatchFails
  <2> DEFINE h == job.order[job.next]
  <2>1. Moving
    BY <1>16 DEF PatchDone, PatchFails, Moving
  <2>2. Row(job.order) /\ job.next \in 1..Len(job.order)
    BY <2>1 DEF ScreenInv, MoveFits
  <2>3. h \in Hosts /\ job.next - 1 \in Nat \cup {None}
    BY <2>2, RowFacts
  <2>4. /\ UNCHANGED registered
        /\ UNCHANGED position \/ position' = [position EXCEPT ![h] = job.next - 1]
    BY <1>16 DEF PatchDone, PatchFails
  <2> HIDE DEF h
  <2> QED BY <1>1, <1>2, <2>3, <2>4 DEF server
<1>17. CASE RequestDone \/ RequestFails
  <2>1. pc["keys"] = "request" /\ (Carried \/ UNCHANGED server)
    BY <1>17 DEF RequestDone, RequestFails
  <2> QED BY <1>1, <1>4, <2>1
<1>18. CASE UNCHANGED vars
  BY <1>1, <1>18 DEF vars
<1> QED
  BY <1>5, <1>6, <1>7, <1>8, <1>9, <1>10, <1>11, <1>12, <1>13, <1>14, <1>15, <1>16, <1>17, <1>18
  DEF Next, RequestNext

\* A step that leaves the table and the key in hand as they are, or ends the key.
LEMMA ScreenKept ==
    ASSUME ScreenInv, FormFits, UNCHANGED <<table, alive, chosen, moved, shifted>>,
           Moving' => Moving /\ job' = job,
           job'.kind = "moved" => job' = job,
           pc'["keys"] \in {"form", "request"} =>
              pc["keys"] \in {"form", "request"} /\ job' = job
    PROVE  ScreenInv' /\ FormFits'
<1>1. /\ rows' = rows /\ order' = order /\ nodes' = nodes /\ cursor' = cursor
      /\ chosen' = chosen /\ moved' = moved /\ shifted' = shifted /\ alive' = alive
  BY DEF table
<1>2. TableTypes'
  BY <1>1 DEF ScreenInv, TableTypes
<1>3. TableFits' /\ CursorOnChosen'
  BY <1>1 DEF ScreenInv, TableFits, CursorOnChosen
<1>4. MoveFits'
  BY <1>1 DEF ScreenInv, MoveFits
<1>5. FormFits'
  BY DEF FormFits
<1> QED BY <1>2, <1>3, <1>4, <1>5 DEF ScreenInv

LEMMA KeysAfter ==
    ASSUME PollInv, NEW t \in Tasks, NEW w, Go(t, w)
    PROVE  /\ pc'["keys"] = IF t = "keys" THEN w ELSE pc["keys"]
           /\ pc'[t] = w
BY TwoTasks DEF Go, PollInv, TaskTypes

LEMMA PollKeepsScreen ==
    ASSUME PollInv, ScreenInv, FormFits, NEW t \in Tasks,
           UNCHANGED <<table, alive, chosen, moved, shifted, job>>,
           NEW w, w \notin {"patching", "patched", "form", "request"}, Go(t, w)
    PROVE  ScreenInv' /\ FormFits'
<1>1. pc'["keys"] = pc["keys"] \/ pc'["keys"] = w
  BY KeysAfter
<1> QED BY <1>1, ScreenKept DEF Moving

LEMMA BeginKeepsScreen ==
    ASSUME PollInv, ScreenInv, FormFits, NEW t \in Tasks,
           UNCHANGED <<table, alive, chosen, moved, shifted, job>>, PollBegins(t)
    PROVE  ScreenInv' /\ FormFits'
<1>1. Go(t, "idle") \/ Go(t, "fetching")
  BY DEF PollBegins
<1> QED BY <1>1, PollKeepsScreen

------------------------------------------------------------------------------
(* A rendering.                                                             *)

LEMMA TableDrawn ==
    ASSUME ScreenInv, PollInv, NEW t \in Tasks, NEW shown, Row(shown), Drawn(t, shown),
           alive, alive' = alive, UNCHANGED job, Moving' <=> Moving,
           cursor' \in Nat, shown # <<>> => cursor' \in 1..Len(shown),
           chosen' = chosen \/ chosen' = None,
           chosen' # None => shown # <<>> /\ cursor' \in 1..Len(shown) /\ shown[cursor'] = chosen'
    PROVE  ScreenInv'
<1> USE DEF ScreenInv
<1>1. /\ rows' = shown /\ order' = shown /\ DOMAIN nodes' = ToSet(shown) /\ moved' = FALSE
      /\ shifted' = (shifted \/ (Moving /\ ToSet(shown) # ToSet(job.order)))
  BY DEF Drawn, KnownOrder
<1>2. TableTypes'
  <2>1. shifted' \in BOOLEAN /\ moved' \in BOOLEAN
    BY <1>1
  <2>2. chosen' \in Hosts \cup {None}
    BY DEF TableTypes
  <2>3. Row(rows') /\ Row(order') /\ DOMAIN nodes' = ToSet(rows') /\ cursor' \in Nat
    BY <1>1
  <2> QED BY <2>1, <2>2, <2>3 DEF TableTypes
<1>3. TableFits'
  BY <1>1 DEF TableFits
<1>4. CursorOnChosen'
  BY <1>1 DEF CursorOnChosen
<1>5. MoveFits'
  <2>1. Moving' => /\ job'.kind = "move" /\ Row(job'.order)
                   /\ job'.target \in 1..Len(job'.order) /\ job'.next \in 1..Len(job'.order)
                   /\ ~shifted' => ToSet(job'.order) = ToSet(rows')
                   /\ ~shifted' /\ chosen' # None => job'.order[job'.target] = chosen'
    BY <1>1 DEF MoveFits
  <2> QED BY <1>1, <2>1 DEF MoveFits
<1> QED BY <1>2, <1>3, <1>4, <1>5

LEMMA CursorKept ==
    ASSUME ScreenInv, alive, NEW shown, Row(shown),
           cursor' = CursorAfter(shown), chosen' = IF chosen \in ToSet(shown) THEN chosen ELSE None
    PROVE  /\ cursor' \in Nat
           /\ shown # <<>> => cursor' \in 1..Len(shown)
           /\ chosen' # None =>
                 shown # <<>> /\ cursor' \in 1..Len(shown) /\ shown[cursor'] = chosen'
<1>0. /\ Len(shown) \in Nat /\ DOMAIN shown = 1..Len(shown) /\ ToSet(shown) \subseteq Hosts
      /\ shown # <<>> => Len(shown) >= 1
  <2>1. shown \in Seq(Hosts)
    BY RowFacts
  <2>2. shown # <<>> => Len(shown) # 0
    BY <2>1, EmptySeq
  <2> QED BY RowFacts, <2>2
<1>1. CASE Selected \in ToSet(shown)
  <2>1. /\ cursor' = IndexOf(shown, Selected)
        /\ cursor' \in 1..Len(shown) /\ shown[cursor'] = Selected
    BY <1>0, <1>1, IndexFound DEF CursorAfter
  <2>2. shown # <<>>
    BY <1>0, <2>1
  <2>3. ASSUME chosen' # None PROVE shown[cursor'] = chosen'
    <3>1. chosen' = chosen /\ chosen # None
      BY <2>3
    <3>2. rows # <<>> /\ cursor \in 1..Len(order) /\ order[cursor] = chosen
      BY <3>1 DEF ScreenInv, CursorOnChosen
    <3>3. Len(order) \in Nat
      BY RowFacts DEF ScreenInv, TableTypes
    <3>4. Selected = chosen
      BY <3>2, <3>3 DEF Selected
    <3> QED BY <2>1, <3>1, <3>4
  <2> QED BY <1>0, <2>1, <2>2, <2>3
<1>2. CASE Selected \notin ToSet(shown)
  <2>1. cursor' = 1
    BY <1>2 DEF CursorAfter
  <2>2. chosen' = None
    <3> SUFFICES ASSUME chosen \in ToSet(shown) PROVE FALSE
      OBVIOUS
    <3>1. chosen # None
      BY <1>0, DashboardAssumption
    <3>2. rows # <<>> /\ cursor \in 1..Len(order) /\ order[cursor] = chosen
      BY <3>1 DEF ScreenInv, CursorOnChosen
    <3>3. Len(order) \in Nat
      BY RowFacts DEF ScreenInv, TableTypes
    <3>4. Selected = chosen
      BY <3>2, <3>3 DEF Selected
    <3> QED BY <1>2, <3>4
  <2> QED BY <1>0, <2>1, <2>2
<1> QED BY <1>1, <1>2

\* All rows are drawn, and the poll goes on to the charts or fails there.
LEMMA NodesRendered ==
    ASSUME PollInv, ScreenInv, FormFits, AnswerTypes, NEW t \in Tasks,
           RendersNodes(t) \/ ChartsFail(t)
    PROVE  ScreenInv' /\ FormFits'
<1>1. /\ pc[t] = "answered" /\ AllDrawn(t) /\ UNCHANGED <<alive, job>>
      /\ Go(t, "groups") \/ Go(t, "idle")
  BY DEF RendersNodes, ChartsFail, PollEnds
<1>2. Row(answer[t].list)
  BY <1>1 DEF AnswerTypes
<1>3. PICK shown \in DisplayOrder(answer[t].list) :
          /\ Drawn(t, shown) /\ cursor' = CursorAfter(shown)
          /\ chosen' = IF chosen \in ToSet(shown) THEN chosen ELSE None
  BY <1>1 DEF AllDrawn
<1>4. Row(shown)
  BY <1>2, DisplayedRow
<1>5. alive
  BY <1>1, TaskIsAlive
<1>6. /\ pc["keys"] = "answered" => pc'["keys"] \in {"groups", "idle"}
      /\ pc["keys"] # "answered" => pc'["keys"] = pc["keys"]
  BY <1>1, KeysAfter, TwoTasks DEF PollInv, OnePoll, Polling
<1>7. Moving' <=> Moving
  BY <1>6 DEF Moving
<1>8. ScreenInv'
  BY <1>1, <1>3, <1>4, <1>5, <1>7, CursorKept, TableDrawn
<1>9. FormFits'
  BY <1>1, <1>6 DEF FormFits
<1> QED BY <1>8, <1>9

LEMMA RenderingFailed ==
    ASSUME PollInv, ScreenInv, FormFits, AnswerTypes, NEW t \in Tasks, RenderFails(t)
    PROVE  ScreenInv' /\ FormFits'
<1>1. /\ pc[t] = "answered" /\ PollEnds(t) /\ UNCHANGED <<alive, job>>
      /\ chosen' = None /\ cursor' = 1
  BY DEF RenderFails
<1>2. Row(answer[t].list)
  BY <1>1 DEF AnswerTypes
<1>3. PICK all \in DisplayOrder(answer[t].list), k \in Nat :
          k \in 0..Len(all) /\ Drawn(t, SubSeq(all, 1, k))
  BY DEF RenderFails
<1> DEFINE shown == SubSeq(all, 1, k)
<1>4. Row(shown)
  BY <1>2, <1>3, DisplayedRow, PrefixRow
<1>5. alive
  BY <1>1, TaskIsAlive
<1>6. Go(t, "idle")
  BY <1>1 DEF PollEnds
<1>7. /\ pc["keys"] = "answered" => pc'["keys"] = "idle"
      /\ pc["keys"] # "answered" => pc'["keys"] = pc["keys"]
  BY <1>1, <1>6, KeysAfter, TwoTasks DEF PollInv, OnePoll, Polling
<1>8. Moving' <=> Moving
  BY <1>7 DEF Moving
<1>9. Drawn(t, shown)
  BY <1>3
<1> HIDE DEF shown
<1>10. shown # <<>> => 1 \in 1..Len(shown)
  <2>1. shown \in Seq(Hosts) /\ Len(shown) \in Nat
    BY <1>4, RowFacts
  <2>2. shown # <<>> => Len(shown) # 0
    BY <2>1, EmptySeq
  <2> QED BY <2>1, <2>2
<1>11. ScreenInv'
  BY <1>1, <1>4, <1>5, <1>8, <1>9, <1>10, TableDrawn
<1>12. FormFits'
  BY <1>1, <1>7 DEF FormFits
<1> QED BY <1>11, <1>12

------------------------------------------------------------------------------
(* A move.                                                                  *)

\* The next host to write is the first one misplaced.
LEMMA NextMisplaced ==
    ASSUME NEW o, Row(o), NEW from \in Nat \ {0}, Misplaced(o, from) # {}
    PROVE  LET i == CHOOSE k \in Misplaced(o, from) : \A l \in Misplaced(o, from) : k <= l
           IN  /\ i \in Misplaced(o, from) /\ i \in from..Len(o) /\ i \in 1..Len(o)
               /\ \A k \in from..Len(o) :
                     k < i => o[k] \in DOMAIN nodes /\ nodes[o[k]] = k - 1
<1> DEFINE M == Misplaced(o, from)
           i == CHOOSE k \in M : \A l \in M : k <= l
<1>1. Len(o) \in Nat
  BY RowFacts
<1>2. M \in SUBSET Nat /\ M \subseteq from..Len(o)
  BY <1>1 DEF Misplaced
<1>3. \A k \in from..Len(o) : k \notin M => o[k] \in DOMAIN nodes /\ nodes[o[k]] = k - 1
  BY DEF Misplaced
<1> HIDE DEF M
<1>4. i \in M /\ \A l \in M : i <= l
  BY <1>2, LeastOf DEF M
<1> HIDE DEF i
<1>5. \A k \in from..Len(o) : k < i => k \notin M
  BY <1>1, <1>2, <1>4
<1>6. i \in from..Len(o) /\ i \in 1..Len(o)
  BY <1>1, <1>2, <1>4
<1> QED BY <1>3, <1>4, <1>5, <1>6 DEF M, i

LEMMA MoveOnScreen ==
    ASSUME PollInv, TableTypes, TableFits, alive,
           NEW o, Row(o), NEW target \in 1..Len(o), NEW from \in Nat \ {0},
           MoveGoesOn(o, target, from), UNCHANGED <<rows, nodes>>,
           shifted' \in BOOLEAN,
           ~shifted' => ToSet(o) = ToSet(rows) /\ ToSet(order) = ToSet(rows),
           chosen' \in Hosts \cup {None},
           chosen' # None => /\ ~shifted' /\ o[target] = chosen' /\ rows # <<>>
                             /\ cursor \in 1..Len(order) /\ order[cursor] = chosen'
    PROVE  ScreenInv' /\ FormFits'
<1>0. /\ Row(rows) /\ Row(order) /\ DOMAIN nodes = ToSet(rows) /\ cursor \in Nat
      /\ moved \in BOOLEAN
  BY DEF TableTypes
<1>1. /\ Len(o) \in Nat /\ Len(rows) \in Nat
      /\ rows # <<>> => Len(rows) >= 1
  <2>1. rows \in Seq(Hosts) /\ Len(rows) \in Nat /\ Len(o) \in Nat
    BY <1>0, RowFacts
  <2> QED BY <2>1, EmptySeq
<1> DEFINE M == Misplaced(o, from)
           i == CHOOSE k \in M : \A l \in M : k <= l
<1>2. CASE /\ M = {} /\ order' = o /\ moved' = TRUE
           /\ cursor' = IF target > Len(rows) THEN Len(rows) ELSE target
           /\ job' = [kind |-> "moved", order |-> o]
           /\ PollBegins("keys") /\ UNCHANGED alive
  <2>1. pc'["keys"] \in {"idle", "fetching"}
    BY <1>2, KeysAfter, TwoTasks DEF PollBegins
  <2>2. cursor' \in Nat /\ (rows # <<>> => cursor' \in 1..Len(rows))
    BY <1>1, <1>2
  <2>3. ~shifted' => cursor' = target
    <3>1. ~shifted' => Len(o) = Len(rows)
      BY <1>0, SameLength
    <3> QED BY <1>1, <1>2, <3>1
  <2>4. TableTypes'
    BY <1>0, <1>2, <2>2 DEF TableTypes
  <2>5. TableFits'
    BY <1>2, <2>2 DEF TableFits
  <2>6. CursorOnChosen'
    BY <1>2, <2>3 DEF CursorOnChosen
  <2>7. job'.kind = "moved" /\ job'.order = o
    BY <1>2
  <2>8. MoveFits' /\ FormFits'
    BY <1>2, <2>1, <2>7 DEF MoveFits, Moving, FormFits
  <2> QED BY <2>4, <2>5, <2>6, <2>8 DEF ScreenInv
<1>3. CASE M # {} /\ o[i] \notin DOMAIN nodes /\ Exits /\ job' = NoJob
           /\ UNCHANGED <<order, cursor, moved>>
  <2>1. i \in 1..Len(o)
    BY <1>3, NextMisplaced
  <2> HIDE DEF i
  <2>2. o[i] \in ToSet(o)
    BY <2>1, RowFacts
  <2>3. shifted'
    BY <1>0, <1>3, <2>2
  <2>4. pc'["keys"] = "exited" /\ alive' = FALSE
    BY <1>3, TwoTasks DEF Exits
  <2>5. job'.kind = "none"
    BY <1>3 DEF NoJob
  <2>6. TableTypes'
    BY <1>0, <1>3 DEF TableTypes
  <2>7. TableFits'
    BY <1>3, <2>3 DEF TableFits
  <2>8. CursorOnChosen' /\ MoveFits' /\ FormFits'
    BY <2>4, <2>5 DEF CursorOnChosen, MoveFits, Moving, FormFits
  <2> QED BY <2>6, <2>7, <2>8 DEF ScreenInv
<1>4. CASE /\ M # {} /\ o[i] \in DOMAIN nodes /\ Go("keys", "patching")
           /\ job' = [kind |-> "move", order |-> o, target |-> target, next |-> i]
           /\ UNCHANGED <<order, cursor, moved, polling, alive>>
  <2>1. i \in 1..Len(o)
    BY <1>4, NextMisplaced
  <2> HIDE DEF i
  <2>2. pc'["keys"] = "patching"
    BY <1>4, KeysAfter, TwoTasks
  <2>3. job'.kind = "move" /\ job'.order = o /\ job'.target = target /\ job'.next = i
    BY <1>4
  <2>4. TableTypes'
    BY <1>0, <1>4 DEF TableTypes
  <2>5. TableFits'
    BY <1>4 DEF TableFits
  <2>6. CursorOnChosen'
    BY <1>4 DEF CursorOnChosen
  <2>7. MoveFits' /\ FormFits'
    BY <2>1, <2>2, <2>3 DEF MoveFits, FormFits
  <2> QED BY <2>4, <2>5, <2>6, <2>7 DEF ScreenInv
<1> QED
  <2> HIDE DEF M
  <2>1. \/ /\ M = {} /\ order' = o /\ moved' = TRUE
           /\ cursor' = IF target > Len(rows) THEN Len(rows) ELSE target
           /\ job' = [kind |-> "moved", order |-> o]
           /\ PollBegins("keys") /\ UNCHANGED alive
        \/ M # {} /\ o[i] \notin DOMAIN nodes /\ Exits /\ job' = NoJob
           /\ UNCHANGED <<order, cursor, moved>>
        \/ /\ M # {} /\ o[i] \in DOMAIN nodes /\ Go("keys", "patching")
           /\ job' = [kind |-> "move", order |-> o, target |-> target, next |-> i]
           /\ UNCHANGED <<order, cursor, moved, polling, alive>>
    BY Zenon DEF MoveGoesOn, M
  <2> QED BY <1>2, <1>3, <1>4, <2>1, Zenon

\* The order that u and d ask for.
Swapped(target) == [order EXCEPT ![cursor] = order[target], ![target] = order[cursor]]

LEMMA MoveStarts ==
    ASSUME PollInv, ScreenInv, NEW step \in {-1, 1}, MovesNode(step)
    PROVE  LET target == cursor + step
               o == Swapped(target)
           IN  /\ alive /\ pc["keys"] = "idle" /\ rows # <<>>
               /\ shifted' = (shifted /\ moved)
               /\ UNCHANGED <<server, rows, nodes, answer>>
               /\ \/ /\ Row(o) /\ ToSet(o) = ToSet(order) /\ target \in 1..Len(o)
                     /\ cursor \in 1..Len(order) /\ o[target] = order[cursor]
                     /\ MoveGoesOn(o, target, 1)
                     /\ chosen' = IF moved THEN None ELSE order[cursor]
                  \/ /\ moved /\ shifted /\ Exits
                     /\ UNCHANGED <<order, cursor, moved, job, chosen>>
<1> DEFINE target == cursor + step
           o == Swapped(target)
<1>1. /\ pc["keys"] = "idle" /\ rows # <<>> /\ target \in DOMAIN order
      /\ shifted' = (shifted /\ moved)
      /\ UNCHANGED <<server, rows, nodes, answer>>
  BY DEF MovesNode
<1>2. alive
  BY <1>1, TwoTasks, TaskIsAlive
<1>3. /\ Row(rows) /\ Row(order) /\ cursor \in Nat /\ cursor \in 1..Len(rows)
      /\ DOMAIN order = 1..Len(order)
  BY <1>1, RowFacts DEF ScreenInv, TableTypes, TableFits
<1>4. CASE cursor \in DOMAIN order
  <2>1. target # cursor
    BY <1>3
  <2>2. Row(o) /\ Len(o) = Len(order) /\ ToSet(o) = ToSet(order) /\ o[target] = order[cursor]
    BY <1>1, <1>3, <1>4, <2>1, SwappedRow DEF Swapped
  <2>3. MoveGoesOn(o, target, 1) /\ chosen' = IF moved THEN None ELSE order[cursor]
    BY <1>4, Zenon DEF MovesNode, Swapped
  <2> QED BY <1>1, <1>2, <1>3, <1>4, <2>2, <2>3
<1>5. CASE cursor \notin DOMAIN order
  <2>1. Exits /\ UNCHANGED <<order, cursor, moved, job, chosen>>
    BY <1>5 DEF MovesNode
  <2>2. ASSUME ToSet(order) = ToSet(rows) PROVE FALSE
    <3>1. Len(order) = Len(rows)
      BY <1>3, <2>2, SameLength
    <3> QED BY <1>3, <1>5, <3>1
  <2>3. moved /\ shifted
    BY <2>2 DEF ScreenInv, TableFits
  <2> QED BY <1>1, <1>2, <2>1, <2>3
<1> QED BY <1>4, <1>5

LEMMA MoveStartsOnScreen ==
    ASSUME PollInv, ScreenInv, FormFits, NEW step \in {-1, 1}, MovesNode(step)
    PROVE  ScreenInv' /\ FormFits'
<1> DEFINE target == cursor + step
           o == Swapped(target)
<1>1. /\ alive /\ pc["keys"] = "idle" /\ rows # <<>>
      /\ shifted' = (shifted /\ moved) /\ UNCHANGED <<rows, nodes>>
  BY MoveStarts
<1>2. TableTypes /\ TableFits
  BY DEF ScreenInv
<1>3. CASE /\ Row(o) /\ ToSet(o) = ToSet(order) /\ target \in 1..Len(o)
           /\ cursor \in 1..Len(order) /\ o[target] = order[cursor]
           /\ MoveGoesOn(o, target, 1)
           /\ chosen' = IF moved THEN None ELSE order[cursor]
  <2> HIDE DEF target, o
  <2>1. shifted' \in BOOLEAN
    BY <1>1
  <2>2. ~shifted' => ToSet(o) = ToSet(rows) /\ ToSet(order) = ToSet(rows)
    <3>1. ~shifted' => ~shifted \/ ~moved
      BY <1>1
    <3>2. ~shifted \/ ~moved => ToSet(order) = ToSet(rows)
      BY <1>2, Zenon DEF TableFits
    <3>3. ToSet(o) = ToSet(order)
      BY <1>3
    <3> QED BY <3>1, <3>2, <3>3, Zenon
  <2>3. chosen' \in Hosts \cup {None}
    <3>1. order[cursor] \in Hosts
      BY <1>2, <1>3, RowFacts DEF TableTypes
    <3> QED BY <1>3, <3>1
  <2>4. chosen' # None => /\ ~shifted' /\ o[target] = chosen' /\ rows # <<>>
                          /\ cursor \in 1..Len(order) /\ order[cursor] = chosen'
    BY <1>1, <1>3
  <2>5. 1 \in Nat \ {0}
    OBVIOUS
  <2> QED BY <1>1, <1>2, <1>3, <2>1, <2>2, <2>3, <2>4, <2>5, MoveOnScreen
<1>4. CASE moved /\ shifted /\ Exits /\ UNCHANGED <<order, cursor, moved, job, chosen>>
  <2>1. pc'["keys"] = "exited" /\ alive' = FALSE
    BY <1>4, TwoTasks DEF Exits
  <2>2. shifted' = TRUE
    BY <1>1, <1>4
  <2>3. TableTypes' /\ TableFits'
    BY <1>1, <1>2, <1>4, <2>2 DEF TableTypes, TableFits
  <2>4. CursorOnChosen' /\ FormFits'
    BY <2>1 DEF CursorOnChosen, FormFits
  <2>5. MoveFits'
    BY <1>4, <2>1 DEF ScreenInv, MoveFits, Moving
  <2> QED BY <2>3, <2>4, <2>5 DEF ScreenInv
<1>5. \/ /\ Row(o) /\ ToSet(o) = ToSet(order) /\ target \in 1..Len(o)
         /\ cursor \in 1..Len(order) /\ o[target] = order[cursor]
         /\ MoveGoesOn(o, target, 1)
         /\ chosen' = IF moved THEN None ELSE order[cursor]
      \/ moved /\ shifted /\ Exits /\ UNCHANGED <<order, cursor, moved, job, chosen>>
  BY MoveStarts
<1> QED BY <1>3, <1>4, <1>5, Zenon

LEMMA MoveGoesOnOnScreen ==
    ASSUME PollInv, ScreenInv, FormFits, MoveContinues
    PROVE  ScreenInv' /\ FormFits'
<1> DEFINE o == job.order
           target == job.target
           from == job.next + 1
<1>1. /\ pc["keys"] = "patched" /\ UNCHANGED <<rows, nodes, shifted>>
      /\ MoveGoesOn(o, target, from) /\ chosen' = IF shifted THEN None ELSE chosen
  BY DEF MoveContinues
<1>2. /\ Row(o) /\ target \in 1..Len(o) /\ job.next \in 1..Len(o)
      /\ ~shifted => ToSet(o) = ToSet(rows)
      /\ ~shifted /\ chosen # None => o[target] = chosen
  BY <1>1 DEF ScreenInv, MoveFits, Moving
<1>3. from \in Nat \ {0}
  BY <1>2
<1>4. alive /\ TableTypes /\ TableFits /\ CursorOnChosen
  BY <1>1, TwoTasks, TaskIsAlive DEF ScreenInv
<1> HIDE DEF o, target, from
<1>5. shifted' \in BOOLEAN /\ chosen' \in Hosts \cup {None}
  BY <1>1, <1>4 DEF TableTypes
<1>6. ~shifted' => ToSet(o) = ToSet(rows) /\ ToSet(order) = ToSet(rows)
  BY <1>1, <1>2, <1>4 DEF TableFits
<1>7. chosen' # None => /\ ~shifted' /\ o[target] = chosen' /\ rows # <<>>
                        /\ cursor \in 1..Len(order) /\ order[cursor] = chosen'
  BY <1>1, <1>2, <1>4 DEF CursorOnChosen
<1> QED BY <1>1, <1>2, <1>3, <1>4, <1>5, <1>6, <1>7, MoveOnScreen

LEMMA FormOpened ==
    ASSUME PollInv, ScreenInv, FormFits, NEW kind \in {"edit", "remove"}, OpensForm(kind)
    PROVE  ScreenInv' /\ FormFits'
<1>1. /\ pc["keys"] = "idle" /\ rows # <<>>
      /\ UNCHANGED <<table, chosen, moved, shifted>>
  BY DEF OpensForm, history
<1>2. /\ Row(rows) /\ Row(order) /\ DOMAIN nodes = ToSet(rows) /\ cursor \in 1..Len(rows)
      /\ ~moved => order = rows
      /\ ~shifted => ToSet(order) = ToSet(rows)
      /\ DOMAIN order = 1..Len(order)
  BY <1>1, RowFacts DEF ScreenInv, TableTypes, TableFits
<1>3. CASE cursor \in DOMAIN order /\ (kind = "edit" => order[cursor] \in DOMAIN nodes)
  <2>1. /\ job' = [kind |-> kind, host |-> order[cursor],
                   shown |-> IF moved THEN None ELSE rows[cursor]]
        /\ Go("keys", "form") /\ UNCHANGED alive
    BY <1>3 DEF OpensForm
  <2>2. pc'["keys"] = "form"
    BY <2>1, KeysAfter, TwoTasks
  <2>3. job'.host = order[cursor] /\ job'.shown = IF moved THEN None ELSE rows[cursor]
    BY <2>1
  <2>4. order[cursor] \in Hosts
    BY <1>2, <1>3, RowFacts
  <2>5. FormFits'
    BY <1>2, <2>3, <2>4 DEF FormFits
  <2>6. TableTypes' /\ TableFits' /\ CursorOnChosen'
    BY <1>1, <2>1 DEF ScreenInv, TableTypes, TableFits, CursorOnChosen, table
  <2>7. MoveFits'
    <3>1. job'.kind # "moved"
      BY <2>1
    <3>2. ~Moving'
      BY <2>2 DEF Moving
    <3> QED BY <3>1, <3>2 DEF MoveFits
  <2> QED BY <2>5, <2>6, <2>7 DEF ScreenInv
<1>4. CASE ~(cursor \in DOMAIN order /\ (kind = "edit" => order[cursor] \in DOMAIN nodes))
  <2>1. Exits /\ UNCHANGED job
    BY <1>4, Zenon DEF OpensForm
  <2>2. pc'["keys"] = "exited" /\ alive' = FALSE
    BY <2>1, TwoTasks DEF Exits
  <2>3. ASSUME ToSet(order) = ToSet(rows) PROVE FALSE
    <3>1. cursor \in DOMAIN order
      <4>1. Len(order) = Len(rows)
        BY <1>2, <2>3, SameLength
      <4> QED BY <1>2, <4>1
    <3>2. order[cursor] \in ToSet(order)
      BY <3>1 DEF ToSet
    <3> QED BY <1>2, <1>4, <2>3, <3>1, <3>2
  <2>4. shifted
    BY <1>2, <2>3
  <2>5. TableTypes' /\ TableFits'
    BY <1>1, <2>4 DEF ScreenInv, TableTypes, TableFits, table
  <2>6. CursorOnChosen' /\ FormFits'
    BY <2>2 DEF CursorOnChosen, FormFits
  <2>7. MoveFits'
    BY <1>1, <2>1, <2>2 DEF ScreenInv, MoveFits, Moving, table
  <2> QED BY <2>5, <2>6, <2>7 DEF ScreenInv
<1> QED BY <1>3, <1>4

LEMMA CursorMoved ==
    ASSUME PollInv, ScreenInv, FormFits, NEW i, MovesCursor(i)
    PROVE  ScreenInv' /\ FormFits'
<1>1. /\ cursor' = i /\ chosen' = IF moved THEN None ELSE rows[i]
      /\ i \in DOMAIN rows /\ pc["keys"] = "idle"
      /\ UNCHANGED <<rows, order, nodes, pc, job, alive, moved, shifted>>
  BY DEF MovesCursor
<1>2. /\ Row(rows) /\ i \in 1..Len(rows) /\ i \in Nat /\ rows[i] \in Hosts /\ rows # <<>>
      /\ ~moved => order = rows
  <2>1. Row(rows) /\ (~moved => order = rows)
    BY DEF ScreenInv, TableTypes, TableFits
  <2>2. i \in 1..Len(rows) /\ Len(rows) \in Nat /\ rows[i] \in Hosts
    BY <1>1, <2>1, RowFacts
  <2> QED BY <2>1, <2>2
<1>3. TableTypes'
  BY <1>1, <1>2 DEF ScreenInv, TableTypes
<1>4. TableFits'
  BY <1>1, <1>2 DEF ScreenInv, TableFits
<1>5. CursorOnChosen'
  BY <1>1, <1>2 DEF CursorOnChosen
<1>6. MoveFits' /\ FormFits'
  BY <1>1 DEF ScreenInv, MoveFits, FormFits, Moving
<1> QED BY <1>3, <1>4, <1>5, <1>6 DEF ScreenInv

LEMMA ScreenInvStep ==
    ASSUME PollInv, ScreenInv, FormFits, AnswerTypes, [Next]_vars
    PROVE  ScreenInv' /\ FormFits'
<1> USE DEF history
<1>1. ASSUME UNCHANGED <<pc, table, job, alive, chosen, moved, shifted>>
      PROVE  ScreenInv' /\ FormFits'
  BY <1>1, ScreenKept DEF Moving
<1>2. ASSUME NEW h, OtherRegisters(h) \/ OtherRemoves(h) PROVE ScreenInv' /\ FormFits'
  BY <1>1, <1>2 DEF OtherRegisters, OtherRemoves
<1>3. ASSUME NEW h, NEW p, OtherPositions(h, p) PROVE ScreenInv' /\ FormFits'
  BY <1>1, <1>3 DEF OtherPositions
<1>4. CASE TimerTicks
  BY <1>4, BeginKeepsScreen, TwoTasks DEF TimerTicks
<1>5. ASSUME NEW t \in Tasks, PollNext(t) PROVE ScreenInv' /\ FormFits'
  <2>1. CASE RendersNodes(t)
    BY <2>1, NodesRendered
  <2>2. CASE Answered(t)
    BY <2>2, PollKeepsScreen DEF Answered
  <2>3. CASE PollDone(t)
    BY <2>3, PollKeepsScreen DEF PollDone, PollEnds
  <2>4. CASE Unmounted(t)
    BY <2>4, PollKeepsScreen DEF Unmounted
  <2>5. CASE Composed(t)
    BY <2>5, PollKeepsScreen DEF Composed
  <2>6. ASSUME NEW h, Unmounts(t, h) PROVE ScreenInv' /\ FormFits'
    BY <2>6, PollKeepsScreen DEF Unmounts
  <2>7. ASSUME NEW h, Mounts(t, h) PROVE ScreenInv' /\ FormFits'
    BY <2>7, PollKeepsScreen DEF Mounts
  <2> QED BY <1>5, <2>1, <2>2, <2>3, <2>4, <2>5, <2>6, <2>7 DEF PollNext
<1>6. ASSUME NEW t \in Tasks, PollFails(t) PROVE ScreenInv' /\ FormFits'
  BY <1>6, PollKeepsScreen DEF PollFails, PollEnds
<1>7. ASSUME NEW t \in Tasks, RenderFails(t) \/ ChartsFail(t) PROVE ScreenInv' /\ FormFits'
  BY <1>7, RenderingFailed, NodesRendered
<1>8. ASSUME NEW i, MovesCursor(i) PROVE ScreenInv' /\ FormFits'
  BY <1>8, CursorMoved
<1>9. ASSUME NEW on, ChangesSort(on) PROVE ScreenInv' /\ FormFits'
  BY <1>9, BeginKeepsScreen, TwoTasks DEF ChangesSort
<1>10. ASSUME NEW step \in {-1, 1}, MovesNode(step) PROVE ScreenInv' /\ FormFits'
  BY <1>10, MoveStartsOnScreen
<1>11. ASSUME NEW kind \in {"edit", "remove"}, OpensForm(kind) PROVE ScreenInv' /\ FormFits'
  BY <1>11, FormOpened
<1>12. ASSUME NEW h \in Hosts, OpensNew(h) PROVE ScreenInv' /\ FormFits'
  <2>1. /\ job' = [kind |-> "new", host |-> h] /\ Go("keys", "form")
        /\ UNCHANGED <<table, alive, chosen, moved, shifted>>
    BY <1>12 DEF OpensNew
  <2>2. pc'["keys"] = "form" /\ job'.kind = "new" /\ job'.host = h
    BY <2>1, KeysAfter, TwoTasks
  <2>3. FormFits'
    BY <2>2 DEF FormFits
  <2>4. MoveFits'
    BY <2>2 DEF MoveFits, Moving
  <2>5. TableTypes' /\ TableFits' /\ CursorOnChosen'
    BY <2>1 DEF ScreenInv, TableTypes, TableFits, CursorOnChosen, table
  <2> QED BY <2>3, <2>4, <2>5 DEF ScreenInv
<1>13. ASSUME job' = NoJob, Go("keys", "idle"), UNCHANGED <<table, alive, chosen, moved, shifted>>
       PROVE  ScreenInv' /\ FormFits'
  <2>1. pc'["keys"] = "idle" /\ job'.kind # "moved"
    BY <1>13, KeysAfter, TwoTasks DEF NoJob
  <2> QED BY <1>13, <2>1, ScreenKept DEF Moving
<1>14. CASE FormCancelled
  BY <1>13, <1>14 DEF FormCancelled
<1>15. CASE FormSubmitted
  <2>1. /\ pc["keys"] = "form" /\ Go("keys", "request")
        /\ UNCHANGED <<table, alive, chosen, moved, shifted, job>>
    BY <1>15 DEF FormSubmitted
  <2>2. pc'["keys"] = "request"
    BY <2>1, KeysAfter, TwoTasks
  <2> QED BY <2>1, <2>2, ScreenKept DEF Moving
<1>16. CASE PatchDone
  <2>1. /\ pc["keys"] = "patching" /\ Go("keys", "patched")
        /\ UNCHANGED <<table, alive, chosen, moved, shifted, job>>
    BY <1>16 DEF PatchDone
  <2>2. pc'["keys"] = "patched"
    BY <2>1, KeysAfter, TwoTasks
  <2> QED BY <2>1, <2>2, ScreenKept DEF Moving
<1>17. CASE PatchFails
  BY <1>13, <1>17 DEF PatchFails
<1>18. CASE MoveContinues
  BY <1>18, MoveGoesOnOnScreen
<1>19. CASE RequestDone
  BY <1>19, BeginKeepsScreen, TwoTasks DEF RequestDone
<1>20. CASE RequestFails
  BY <1>13, <1>20 DEF RequestFails
<1>21. CASE UNCHANGED vars
  BY <1>1, <1>21 DEF vars
<1> QED
  BY <1>2, <1>3, <1>4, <1>5, <1>6, <1>7, <1>8, <1>9, <1>10, <1>11, <1>12, <1>14, <1>15, <1>16,
     <1>17, <1>18, <1>19, <1>20, <1>21 DEF Next, RequestNext

------------------------------------------------------------------------------
(* What a move has written and what it has yet to write.                    *)

Pending(k) == k > job.next \/ (k = job.next /\ pc["keys"] = "patching")

\* Nothing on the screen or on its way disagrees with the position of h.
Current(h) ==
    /\ h \in DOMAIN nodes => nodes[h] = position[h]
    /\ \A t \in Tasks : pc[t] = "answered" => answer[t].position[h] = position[h]

Agreed(k) == IF Pending(k) THEN Current(job.order[k]) ELSE position[job.order[k]] = k - 1

MoveWrites ==
    Moving /\ quiet =>
        /\ ToSet(job.order) = ToSet(registered)
        /\ \A k \in 1..Len(job.order) : Agreed(k)

WriteInv == MoveWrites /\ MoveIsPersisted

LEMMA ListKept ==
    ASSUME UNCHANGED server
    PROVE  ListNodes' = ListNodes
<1>1. registered' = registered /\ position' = position
  BY DEF server
<1> QED BY <1>1, SMT DEF ListNodes, Place, ListedBefore

LEMMA NothingToWrite ==
    ASSUME ~quiet' \/ (~Moving' /\ job'.kind # "moved")
    PROVE  WriteInv'
BY DEF WriteInv, MoveWrites, MoveIsPersisted

\* A step of another task, or of a poll.
LEMMA WritesKept ==
    ASSUME PollInv, WriteInv, [Next]_vars, UNCHANGED <<server, quiet, job>>,
           Moving' => pc'["keys"] = pc["keys"],
           \A h \in DOMAIN nodes' :
              \/ h \in DOMAIN nodes /\ nodes'[h] = nodes[h]
              \/ \E t \in Tasks : pc[t] = "answered" /\ nodes'[h] = answer[t].position[h]
    PROVE  WriteInv'
<1>1. registered' = registered /\ position' = position /\ quiet' = quiet /\ job' = job
  BY DEF server
<1>2. ASSUME NEW h, Current(h)
      PROVE  /\ h \in DOMAIN nodes' => nodes'[h] = position'[h]
             /\ \A t \in Tasks : pc'[t] = "answered" => answer'[t].position[h] = position'[h]
  <2>1. ASSUME NEW t \in Tasks, pc'[t] = "answered"
        PROVE  answer'[t].position[h] = position'[h]
    <3>1. CASE pc[t] = "answered" /\ answer'[t] = answer[t]
      BY <1>1, <1>2, <3>1 DEF Current
    <3>2. CASE answer'[t] = [list |-> ListNodes, position |-> position]
      BY <1>1, <3>2
    <3> QED BY <2>1, <3>1, <3>2, AnswerOrigin
  <2>2. h \in DOMAIN nodes' => nodes'[h] = position'[h]
    BY <1>1, <1>2 DEF Current
  <2> QED BY <2>1, <2>2
<1>3. MoveWrites'
  <2> SUFFICES ASSUME Moving', quiet'
               PROVE  /\ ToSet(job'.order) = ToSet(registered')
                      /\ \A k \in 1..Len(job'.order) : Agreed(k)'
    BY DEF MoveWrites
  <2>1. Moving /\ pc'["keys"] = pc["keys"] /\ quiet
    BY <1>1 DEF Moving
  <2>2. ToSet(job.order) = ToSet(registered) /\ \A k \in 1..Len(job.order) : Agreed(k)
    BY <2>1 DEF WriteInv, MoveWrites
  <2>3. ASSUME NEW k \in 1..Len(job.order) PROVE Agreed(k)'
    <3>1. Agreed(k) /\ (Pending(k)' <=> Pending(k))
      BY <1>1, <2>1, <2>2 DEF Pending
    <3>2. CASE Pending(k)
      <4>1. Current(job.order[k])
        BY <3>1, <3>2 DEF Agreed
      <4> QED BY <1>1, <1>2, <3>1, <3>2, <4>1 DEF Agreed, Current
    <3>3. CASE ~Pending(k)
      BY <1>1, <3>1, <3>3 DEF Agreed
    <3> QED BY <3>2, <3>3
  <2> QED BY <1>1, <2>2, <2>3
<1>4. MoveIsPersisted'
  BY <1>1, ListKept DEF WriteInv, MoveIsPersisted
<1> QED BY <1>3, <1>4 DEF WriteInv

LEMMA PatchWrites ==
    ASSUME PollInv, ScreenInv, ServerTypes, WriteInv, PatchDone
    PROVE  WriteInv'
<1> DEFINE o == job.order
           n == job.next
<1>1. /\ pc["keys"] = "patching" /\ Go("keys", "patched")
      /\ position' = [position EXCEPT ![o[n]] = n - 1] /\ registered' = registered
      /\ nodes' = nodes /\ answer' = answer /\ job' = job /\ quiet' = quiet
  BY DEF PatchDone, table, history
<1>2. Moving
  BY <1>1 DEF Moving
<1>3. job.kind = "move" /\ Row(o) /\ n \in 1..Len(o)
  BY <1>2 DEF ScreenInv, MoveFits
<1>4. /\ Len(o) \in Nat /\ \A k \in 1..Len(o) : o[k] \in Hosts
      /\ \A i, j \in 1..Len(o) : o[i] = o[j] => i = j
  BY <1>3, RowFacts
<1>5. /\ position'[o[n]] = n - 1
      /\ \A k \in 1..Len(o) : k # n => position'[o[k]] = position[o[k]]
  BY <1>1, <1>3, <1>4 DEF ServerTypes, Places
<1>6. pc'["keys"] = "patched" /\ \A t \in Tasks : pc'[t] = "answered" => pc[t] = "answered"
  BY <1>1, TwoTasks DEF Go, PollInv, TaskTypes
<1>7. ASSUME quiet, NEW k \in 1..Len(o) PROVE Agreed(k)'
  <2>1. Agreed(k)
    BY <1>2, <1>7 DEF WriteInv, MoveWrites
  <2>2. /\ Pending(k) <=> k >= n
        /\ Pending(k)' <=> k > n
    BY <1>1, <1>3, <1>4, <1>6 DEF Pending
  <2>3. CASE k > n
    <3>1. Current(o[k])
      BY <1>3, <1>4, <2>1, <2>2, <2>3 DEF Agreed
    <3>2. position'[o[k]] = position[o[k]]
      BY <1>3, <1>4, <1>5, <2>3
    <3>3. /\ o[k] \in DOMAIN nodes' => nodes'[o[k]] = position'[o[k]]
          /\ \A t \in Tasks : pc'[t] = "answered" => answer'[t].position[o[k]] = position'[o[k]]
      BY <1>1, <1>6, <3>1, <3>2 DEF Current
    <3> QED BY <1>1, <2>2, <2>3, <3>3 DEF Agreed, Current
  <2>4. CASE k = n
    <3>1. ~Pending(k)'
      BY <1>3, <1>4, <2>2, <2>4
    <3> QED BY <1>1, <1>5, <2>4, <3>1 DEF Agreed
  <2>5. CASE k < n
    <3>1. position[o[k]] = k - 1
      BY <1>3, <1>4, <2>1, <2>2, <2>5 DEF Agreed
    <3>2. ~Pending(k)' /\ position'[o[k]] = k - 1
      BY <1>3, <1>4, <1>5, <2>2, <2>5, <3>1
    <3> QED BY <1>1, <3>2 DEF Agreed
  <2> QED BY <1>3, <1>4, <2>3, <2>4, <2>5
<1>8. MoveWrites'
  <2>1. quiet => ToSet(o) = ToSet(registered)
    BY <1>2 DEF WriteInv, MoveWrites
  <2> QED BY <1>1, <1>7, <2>1 DEF MoveWrites
<1>9. MoveIsPersisted'
  BY <1>1, <1>3 DEF MoveIsPersisted
<1> QED BY <1>8, <1>9 DEF WriteInv

LEMMA MoveWritesOn ==
    ASSUME PollInv, ServerTypes, NEW o, Row(o), NEW target, NEW from \in Nat \ {0},
           MoveGoesOn(o, target, from), UNCHANGED <<server, nodes, answer>>,
           quiet' => /\ ToSet(o) = ToSet(registered)
                     /\ \A k \in 1..Len(o) :
                           IF k < from THEN position[o[k]] = k - 1 ELSE Current(o[k])
    PROVE  WriteInv'
<1> DEFINE M == Misplaced(o, from)
           i == CHOOSE k \in M : \A l \in M : k <= l
<1>0. /\ Len(o) \in Nat
      /\ registered' = registered /\ position' = position /\ nodes' = nodes /\ answer' = answer
  BY RowFacts DEF server
<1>1. CASE M = {} /\ job' = [kind |-> "moved", order |-> o] /\ PollBegins("keys")
  <2>1. pc'["keys"] \in {"idle", "fetching"}
    BY <1>1, KeysAfter, TwoTasks DEF PollBegins
  <2>2. ASSUME quiet' PROVE ListNodes = o
    <3>1. ASSUME NEW k \in 1..Len(o) PROVE position[o[k]] = k - 1
      <4>1. CASE k < from
        BY <2>2, <4>1
      <4>2. CASE k >= from
        <5>1. k \in from..Len(o) /\ Current(o[k])
          BY <1>0, <2>2, <4>2
        <5>2. o[k] \in DOMAIN nodes /\ nodes[o[k]] = k - 1
          BY <1>1, <5>1 DEF Misplaced
        <5> QED BY <5>1, <5>2 DEF Current
      <4> QED BY <1>0, <4>1, <4>2
    <3>2. ToSet(o) = ToSet(registered)
      BY <2>2
    <3> QED BY <3>1, <3>2, PositionsDecide DEF ServerTypes
  <2>3. ListNodes' = ListNodes
    BY ListKept
  <2>4. job'.order = o
    BY <1>1
  <2> QED BY <2>1, <2>2, <2>3, <2>4 DEF WriteInv, MoveWrites, MoveIsPersisted, Moving
<1>2. CASE Exits /\ job' = NoJob
  <2>1. pc'["keys"] = "exited" /\ job'.kind = "none"
    BY <1>2, TwoTasks DEF Exits, NoJob
  <2> QED BY <2>1, NothingToWrite DEF Moving
<1>3. CASE /\ M # {} /\ Go("keys", "patching")
           /\ job' = [kind |-> "move", order |-> o, target |-> target, next |-> i]
  <2>1. /\ i \in from..Len(o)
        /\ \A k \in from..Len(o) : k < i => o[k] \in DOMAIN nodes /\ nodes[o[k]] = k - 1
    BY <1>3, NextMisplaced
  <2> HIDE DEF i, M
  <2>2. pc'["keys"] = "patching" /\ \A t \in Tasks : pc'[t] = "answered" => pc[t] = "answered"
    BY <1>3, TwoTasks DEF Go, PollInv, TaskTypes
  <2>3. job'.kind = "move" /\ job'.order = o /\ job'.next = i
    BY <1>3
  <2>4. ASSUME quiet', NEW k \in 1..Len(o) PROVE Agreed(k)'
    <3>1. Pending(k)' <=> k >= i
      BY <1>0, <2>1, <2>2, <2>3 DEF Pending
    <3>2. CASE k >= i
      <4>1. Current(o[k])
        BY <1>0, <2>1, <2>4, <3>2
      <4>2. /\ o[k] \in DOMAIN nodes' => nodes'[o[k]] = position'[o[k]]
            /\ \A t \in Tasks : pc'[t] = "answered" =>
                  answer'[t].position[o[k]] = position'[o[k]]
        BY <1>0, <2>2, <4>1 DEF Current
      <4> QED BY <2>3, <3>1, <3>2, <4>2 DEF Agreed, Current
    <3>3. CASE k < i
      <4>1. position[o[k]] = k - 1
        <5>1. CASE k < from
          BY <2>4, <5>1
        <5>2. CASE k >= from
          <6>1. k \in from..Len(o) /\ Current(o[k])
            BY <1>0, <2>4, <5>2
          <6> QED BY <2>1, <3>3, <6>1 DEF Current
        <5> QED BY <1>0, <5>1, <5>2
      <4>2. ~Pending(k)'
        BY <1>0, <2>1, <3>1, <3>3
      <4> QED BY <1>0, <2>3, <4>1, <4>2 DEF Agreed
    <3> QED BY <1>0, <2>1, <3>2, <3>3
  <2>5. MoveWrites'
    BY <1>0, <2>3, <2>4 DEF MoveWrites
  <2>6. MoveIsPersisted'
    BY <2>3 DEF MoveIsPersisted
  <2> QED BY <2>5, <2>6 DEF WriteInv
<1>4. \/ M = {} /\ job' = [kind |-> "moved", order |-> o] /\ PollBegins("keys")
      \/ Exits /\ job' = NoJob
      \/ /\ M # {} /\ Go("keys", "patching")
         /\ job' = [kind |-> "move", order |-> o, target |-> target, next |-> i]
  <2> HIDE DEF M
  <2> QED BY Zenon DEF MoveGoesOn, M
<1> QED BY <1>1, <1>2, <1>3, <1>4, Zenon

LEMMA MoveStartsWrites ==
    ASSUME PollInv, ScreenInv, ServerTypes, WriteInv, NEW step \in {-1, 1}, MovesNode(step)
    PROVE  WriteInv'
<1> DEFINE target == cursor + step
           o == Swapped(target)
<1>1. UNCHANGED <<server, nodes, answer>>
  BY MoveStarts
<1>2. quiet' => /\ order = ListNodes /\ nodes = [h \in ToSet(order) |-> position[h]]
                /\ \A t \in Tasks : pc[t] = "answered" => answer[t].position = position
  BY DEF MovesNode
<1>3. CASE Row(o) /\ ToSet(o) = ToSet(order) /\ MoveGoesOn(o, target, 1)
  <2> HIDE DEF target, o
  <2>1. ASSUME quiet'
        PROVE  /\ ToSet(o) = ToSet(registered)
               /\ \A k \in 1..Len(o) : IF k < 1 THEN position[o[k]] = k - 1 ELSE Current(o[k])
    <3>1. ToSet(o) = ToSet(registered)
      BY <1>2, <1>3, <2>1, ListIsRow DEF ServerTypes
    <3>2. ASSUME NEW k \in 1..Len(o) PROVE Current(o[k]) /\ ~(k < 1)
      <4>1. k >= 1
        BY <1>3, RowFacts
      <4>2. o[k] \in DOMAIN nodes => nodes[o[k]] = position[o[k]]
        BY <1>2, <2>1
      <4>3. \A t \in Tasks : pc[t] = "answered" => answer[t].position[o[k]] = position[o[k]]
        BY <1>2, <2>1
      <4> QED BY <1>3, <4>1, <4>2, <4>3, RowFacts DEF Current
    <3> QED BY <3>1, <3>2
  <2>2. 1 \in Nat \ {0}
    OBVIOUS
  <2> QED BY <1>1, <1>3, <2>1, <2>2, MoveWritesOn
<1>4. CASE moved /\ Exits /\ UNCHANGED job
  <2>1. pc'["keys"] = "exited"
    BY <1>4, TwoTasks DEF Exits
  <2>2. job.kind = "moved" => order = job.order
    BY <1>4 DEF ScreenInv, MoveFits
  <2>3. ListNodes' = ListNodes
    BY <1>1, ListKept
  <2> QED BY <1>2, <1>4, <2>1, <2>2, <2>3 DEF WriteInv, MoveWrites, MoveIsPersisted, Moving
<1>5. \/ Row(o) /\ ToSet(o) = ToSet(order) /\ MoveGoesOn(o, target, 1)
      \/ moved /\ Exits /\ UNCHANGED job
  BY MoveStarts
<1> QED BY <1>3, <1>4, <1>5, Zenon

LEMMA MoveContinuesWrites ==
    ASSUME PollInv, ScreenInv, ServerTypes, WriteInv, MoveContinues
    PROVE  WriteInv'
<1> DEFINE o == job.order
           from == job.next + 1
<1>1. /\ pc["keys"] = "patched" /\ UNCHANGED <<server, nodes, answer, quiet>>
      /\ MoveGoesOn(o, job.target, from)
  BY DEF MoveContinues
<1>2. Moving
  BY <1>1 DEF Moving
<1>3. Row(o) /\ job.next \in 1..Len(o) /\ Len(o) \in Nat
  BY <1>2, RowFacts DEF ScreenInv, MoveFits
<1>4. from \in Nat \ {0}
  BY <1>3
<1>5. ASSUME quiet'
      PROVE  /\ ToSet(o) = ToSet(registered)
             /\ \A k \in 1..Len(o) :
                   IF k < from THEN position[o[k]] = k - 1 ELSE Current(o[k])
  <2>1. ToSet(o) = ToSet(registered) /\ \A k \in 1..Len(o) : Agreed(k)
    BY <1>1, <1>2, <1>5 DEF WriteInv, MoveWrites
  <2>2. \A k \in 1..Len(o) : Pending(k) <=> ~(k < from)
    BY <1>1, <1>3 DEF Pending
  <2> QED BY <2>1, <2>2 DEF Agreed
<1> HIDE DEF o, from
<1> QED BY <1>1, <1>3, <1>4, <1>5, MoveWritesOn

LEMMA WriteInvStep ==
    ASSUME PollInv, ScreenInv, FormFits, ServerTypes, AnswerTypes, WriteInv, [Next]_vars
    PROVE  WriteInv'
<1> USE DEF history
<1>1. ASSUME UNCHANGED <<server, nodes, quiet, job>>, Moving' => pc'["keys"] = pc["keys"]
      PROVE  WriteInv'
  <2>1. \A h \in DOMAIN nodes' : h \in DOMAIN nodes /\ nodes'[h] = nodes[h]
    BY <1>1
  <2> QED BY <1>1, <2>1, WritesKept
<1>2. ASSUME UNCHANGED <<server, nodes, quiet, job>>, NEW t \in Tasks, NEW w,
             w \notin {"patching", "patched"}, Go(t, w)
      PROVE  WriteInv'
  <2>1. pc'["keys"] = pc["keys"] \/ pc'["keys"] = w
    BY <1>2, KeysAfter
  <2> QED BY <1>1, <1>2, <2>1 DEF Moving
<1>3. ASSUME UNCHANGED <<server, nodes, quiet, job>>, NEW t \in Tasks, PollBegins(t)
      PROVE  WriteInv'
  BY <1>2, <1>3 DEF PollBegins
<1>4. ASSUME UNCHANGED <<server, quiet, job>>, NEW t \in Tasks, pc[t] = "answered", NEW w,
             w \notin {"patching", "patched"}, Go(t, w), NEW shown, Drawn(t, shown)
      PROVE  WriteInv'
  <2>1. pc'["keys"] = pc["keys"] \/ pc'["keys"] = w
    BY <1>4, KeysAfter
  <2>2. \A h \in DOMAIN nodes' : pc[t] = "answered" /\ nodes'[h] = answer[t].position[h]
    BY <1>4 DEF Drawn
  <2> QED BY <1>4, <2>1, <2>2, WritesKept DEF Moving
<1>5. ASSUME NEW h, OtherRegisters(h) \/ OtherRemoves(h) PROVE WriteInv'
  BY <1>5, NothingToWrite DEF OtherRegisters, OtherRemoves
<1>6. ASSUME NEW h, NEW p, OtherPositions(h, p) PROVE WriteInv'
  BY <1>6, NothingToWrite DEF OtherPositions
<1>7. CASE TimerTicks
  BY <1>3, <1>7, TwoTasks DEF TimerTicks, table
<1>8. ASSUME NEW t \in Tasks, PollNext(t) PROVE WriteInv'
  <2>1. CASE RendersNodes(t)
    <3>1. /\ UNCHANGED <<server, quiet, job>> /\ pc[t] = "answered" /\ Go(t, "groups")
          /\ \E shown : Drawn(t, shown)
      BY <2>1 DEF RendersNodes, AllDrawn
    <3> QED BY <1>4, <3>1
  <2>2. CASE Answered(t)
    BY <1>2, <2>2 DEF Answered, table
  <2>3. CASE PollDone(t)
    BY <1>2, <2>3 DEF PollDone, PollEnds, table
  <2>4. CASE Unmounted(t)
    BY <1>2, <2>4 DEF Unmounted, table
  <2>5. CASE Composed(t)
    BY <1>2, <2>5 DEF Composed, table
  <2>6. ASSUME NEW h, Unmounts(t, h) PROVE WriteInv'
    BY <1>2, <2>6 DEF Unmounts, table
  <2>7. ASSUME NEW h, Mounts(t, h) PROVE WriteInv'
    BY <1>2, <2>7 DEF Mounts, table
  <2> QED BY <1>8, <2>1, <2>2, <2>3, <2>4, <2>5, <2>6, <2>7 DEF PollNext
<1>9. ASSUME NEW t \in Tasks, PollFails(t) PROVE WriteInv'
  BY <1>2, <1>9 DEF PollFails, PollEnds, table
<1>10. ASSUME NEW t \in Tasks, RenderFails(t) \/ ChartsFail(t) PROVE WriteInv'
  <2>1. /\ UNCHANGED <<server, quiet, job>> /\ pc[t] = "answered" /\ Go(t, "idle")
        /\ \E shown : Drawn(t, shown)
    BY <1>10 DEF RenderFails, ChartsFail, AllDrawn, PollEnds
  <2> QED BY <1>4, <2>1
<1>11. ASSUME NEW i, MovesCursor(i) PROVE WriteInv'
  BY <1>1, <1>11 DEF MovesCursor
<1>12. ASSUME NEW on, ChangesSort(on) PROVE WriteInv'
  BY <1>3, <1>12, TwoTasks DEF ChangesSort, table
<1>13. ASSUME NEW step \in {-1, 1}, MovesNode(step) PROVE WriteInv'
  BY <1>13, MoveStartsWrites
<1>14. ASSUME NEW kind \in {"edit", "remove"}, OpensForm(kind) PROVE WriteInv'
  <2>1. UNCHANGED <<server, nodes, quiet>>
    BY <1>14 DEF OpensForm, table
  <2>2. CASE Exits /\ UNCHANGED job
    <3>1. pc'["keys"] = "exited"
      BY <2>2, TwoTasks DEF Exits
    <3> QED BY <1>1, <2>1, <2>2, <3>1 DEF Moving
  <2>3. CASE /\ Go("keys", "form")
             /\ job' = [kind |-> kind, host |-> order[cursor],
                        shown |-> IF moved THEN None ELSE rows[cursor]]
    <3>1. pc'["keys"] = "form" /\ job'.kind # "moved"
      BY <2>3, KeysAfter, TwoTasks
    <3> QED BY <3>1, NothingToWrite DEF Moving
  <2> QED BY <1>14, <2>2, <2>3 DEF OpensForm
<1>15. ASSUME NEW h, OpensNew(h) PROVE WriteInv'
  <2>1. Go("keys", "form") /\ job' = [kind |-> "new", host |-> h]
    BY <1>15 DEF OpensNew
  <2>2. pc'["keys"] = "form" /\ job'.kind = "new"
    BY <2>1, KeysAfter, TwoTasks
  <2> QED BY <2>2, NothingToWrite DEF Moving
<1>16. ASSUME job' = NoJob, Go("keys", "idle") PROVE WriteInv'
  <2>1. pc'["keys"] = "idle" /\ job'.kind # "moved"
    BY <1>16, KeysAfter, TwoTasks DEF NoJob
  <2> QED BY <2>1, NothingToWrite DEF Moving
<1>17. CASE FormCancelled \/ PatchFails \/ RequestFails
  BY <1>16, <1>17 DEF FormCancelled, PatchFails, RequestFails
<1>18. CASE FormSubmitted
  BY <1>2, <1>18, TwoTasks DEF FormSubmitted, table
<1>19. CASE PatchDone
  BY <1>19, PatchWrites
<1>20. CASE MoveContinues
  BY <1>20, MoveContinuesWrites
<1>21. CASE RequestDone
  BY <1>21, NothingToWrite DEF RequestDone
<1>22. CASE UNCHANGED vars
  BY <1>1, <1>22 DEF vars, table
<1> QED
  BY <1>5, <1>6, <1>7, <1>8, <1>9, <1>10, <1>11, <1>12, <1>13, <1>14, <1>15, <1>17, <1>18, <1>19,
     <1>20, <1>21, <1>22 DEF Next, RequestNext

------------------------------------------------------------------------------
(* The theorems.                                                            *)

IInv == PollInv /\ ServerTypes /\ AnswerTypes /\ ScreenInv /\ FormFits /\ WriteInv

LEMMA IInvInit == Init => IInv
<1> SUFFICES ASSUME Init PROVE IInv
  OBVIOUS
<1>1. PollInv
  BY PollInvInit
<1>2. ServerTypes
  BY StartRow DEF Init, ServerTypes, Places
<1>3. AnswerTypes
  BY DEF Init, AnswerTypes
<1>4. pc["keys"] = "idle" /\ job.kind = "none"
  BY TwoTasks DEF Init, NoJob
<1>5. TableTypes
  <2>1. rows = <<>> /\ order = <<>> /\ DOMAIN nodes = {}
    BY DEF Init
  <2> QED BY <2>1, EmptyRow DEF Init, TableTypes
<1>6. TableFits /\ CursorOnChosen
  BY DEF Init, TableFits, CursorOnChosen
<1>7. MoveFits /\ FormFits
  BY <1>4 DEF MoveFits, FormFits, Moving
<1>8. WriteInv
  BY <1>4 DEF WriteInv, MoveWrites, MoveIsPersisted, Moving
<1> QED BY <1>1, <1>2, <1>3, <1>5, <1>6, <1>7, <1>8 DEF IInv, ScreenInv

\* Between any two awaits of the timer's poll and the operator's key, at most one
\* poll is rendering, the table, the remembered order and the cursor fit each
\* other, and a move in progress agrees with what is on the screen and stored.
THEOREM DashboardInvariant == Spec => []IInv
<1>1. ASSUME IInv, [Next]_vars PROVE IInv'
  BY <1>1, PollInvStep, ServerTypesStep, AnswerTypesStep, ScreenInvStep, WriteInvStep DEF IInv
<1> QED BY IInvInit, <1>1, PTL DEF Spec

\* A poll that goes through the chart groups finds the label and the chart of every
\* group it knows of (query_one in _render_load_sparklines).
THEOREM TrackedIsReadyHolds == Spec => []TrackedIsReady
<1>1. IInv => TrackedIsReady
  <2> SUFFICES ASSUME IInv, NEW t \in Tasks, pc[t] = "groups" PROVE tracked \subseteq ready
    BY DEF TrackedIsReady
  <2>1. PollInv
    BY DEF IInv
  <2>2. alive
    BY <2>1, TaskIsAlive
  <2>3. \A u \in Tasks : pc[u] # "mounting"
    BY <2>1 DEF PollInv, OnePoll, Polling
  <2> QED BY <2>1, <2>2, <2>3 DEF PollInv, GroupsFollow
<1> QED BY <1>1, DashboardInvariant, PTL

\* The app goes down with an exception only if a poll drew another set of nodes in
\* the middle of a move (_move_selected_node, action_edit_node, action_remove_node).
THEOREM ExitsOnlyWhenShiftedHolds == Spec => []ExitsOnlyWhenShifted
<1>1. IInv => ExitsOnlyWhenShifted
  BY DEF IInv, ScreenInv, TableFits, ExitsOnlyWhenShifted
<1> QED BY <1>1, DashboardInvariant, PTL

\* An edit form or a remove question is about the node in the row under the cursor,
\* whatever was polled, sorted or moved before (action_edit_node, action_remove_node).
THEOREM ActsOnSelectedHolds == Spec => []ActsOnSelected
<1>1. IInv => ActsOnSelected
  BY DEF IInv, FormFits, ActsOnSelected
<1> QED BY <1>1, DashboardInvariant, PTL

\* The cursor stays on the node the operator pointed at until that node is gone or a
\* row cannot be drawn (the restoration of the cursor in _render_nodes, move_cursor in
\* _move_selected_node).
THEOREM CursorStaysOnChosenHolds == Spec => []CursorStaysOnChosen
<1>1. IInv => CursorStaysOnChosen
  <2> SUFFICES ASSUME IInv, ~moved, chosen # None, alive PROVE rows[cursor] = chosen
    BY DEF CursorStaysOnChosen
  <2>1. order = rows /\ order[cursor] = chosen
    BY DEF IInv, ScreenInv, TableFits, CursorOnChosen
  <2> QED BY <2>1
<1> QED BY <1>1, DashboardInvariant, PTL

\* A finished move that started from the orchestrator's list has made that list the
\* order the operator saw, if nobody else changed the nodes meanwhile, however many
\* polls were drawn during it and whichever nodes had no position before
\* (_move_selected_node, list_nodes).
THEOREM MoveIsPersistedHolds == Spec => []MoveIsPersisted
<1>1. IInv => MoveIsPersisted
  BY DEF IInv, WriteInv
<1> QED BY <1>1, DashboardInvariant, PTL
=============================================================================
