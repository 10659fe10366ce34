------------------------- MODULE IdleServer_proofs -------------------------
(***************************************************************************)
(* The server that closes idle connections, for any number of clients,     *)
(* descriptors, timers and messages and any TIMESLOT: the list of timers   *)
(* is sorted and matches the connections, tick() closes the idle ones and  *)
(* no others.                                                              *)
(***************************************************************************)
EXTENDS IdleServer, FiniteSetTheorems, SequenceTheorems, WellFoundedInduction, TLAPS

(***************************************************************************)
(* The operators of the list.                                              *)
(***************************************************************************)
\* A set of numbers has a least one.
LEMMA LeastNumber ==
  ASSUME NEW S, S \subseteq Nat, S # {}
  PROVE  Min(S) \in S /\ \A n \in S : Min(S) <= n
<1>1. PICK m \in S : \A n \in S : <<n, m>> \notin OpToRel(<, Nat)
  BY WFMin, NatLessThanWellFounded
<1>2. \A n \in S : ~(n < m)
  BY <1>1, Zenon DEF OpToRel
<1>3. \A n \in S : m <= n
  BY <1>2
<1> QED  BY <1>3 DEF Min

LEMMA MaxOfTwo == ASSUME NEW a \in Int, NEW b \in Int
                  PROVE  Max({a, b}) = IF a >= b THEN a ELSE b
<1> DEFINE m == IF a >= b THEN a ELSE b
<1>1. m \in {a, b} /\ \A y \in {a, b} : m >= y
  OBVIOUS
<1>2. Max({a, b}) \in {a, b} /\ \A y \in {a, b} : Max({a, b}) >= y
  BY <1>1 DEF Max
<1> QED  BY <1>2

LEMMA MinOfTwo == ASSUME NEW a \in Int, NEW b \in Int
                  PROVE  Min({a, b}) = IF a <= b THEN a ELSE b
<1> DEFINE m == IF a <= b THEN a ELSE b
<1>1. m \in {a, b} /\ \A y \in {a, b} : m <= y
  OBVIOUS
<1>2. Min({a, b}) \in {a, b} /\ \A y \in {a, b} : Min({a, b}) <= y
  BY <1>1 DEF Min
<1> QED  BY <1>2

\* Who is before another in the order is at an earlier place.
LEMMA PlacesAreRight ==
  ASSUME NEW S, NEW l \in Seq(S), NEW lft, \A s \in S : lft[s] \in Nat
  PROVE  /\ \A i \in 1..Len(l) : PlaceOf(l, lft, i) \in 1..Len(l)
         /\ \A i, j \in 1..Len(l) :
               (lft[l[i]] < lft[l[j]] \/ (lft[l[i]] = lft[l[j]] /\ i < j))
                  => PlaceOf(l, lft, i) < PlaceOf(l, lft, j)
<1> DEFINE n == Len(l)
           K(i) == lft[l[i]]
           B(i) == {j \in 1..n : K(j) < K(i) \/ (K(j) = K(i) /\ j <= i)}
<1>1. n \in Nat /\ \A i \in 1..n : K(i) \in Nat
  OBVIOUS
<1>2. \A i \in 1..n : PlaceOf(l, lft, i) = Cardinality(B(i))
  BY DEF PlaceOf
<1>3. \A i \in 1..n : B(i) \subseteq 1..n /\ i \in B(i)
  BY <1>1
<1>4. ASSUME NEW i \in 1..n, NEW j \in 1..n, K(i) < K(j) \/ (K(i) = K(j) /\ i < j)
      PROVE  B(i) \subseteq B(j) /\ j \notin B(i)
  <2> HIDE DEF K, n
  <2>1. i \in Nat /\ j \in Nat /\ K(i) \in Nat /\ K(j) \in Nat
    BY <1>1
  <2>2. j \notin B(i)
    BY <1>4, <2>1
  <2>3. ASSUME NEW k \in B(i) PROVE k \in B(j)
    <3>1. k \in 1..n /\ k \in Nat /\ K(k) \in Nat /\ (K(k) < K(i) \/ (K(k) = K(i) /\ k <= i))
      BY <1>1
    <3>2. K(k) < K(j) \/ (K(k) = K(j) /\ k <= j)
      BY <1>4, <2>1, <3>1
    <3> QED  BY <3>1, <3>2
  <2> QED  BY <2>2, <2>3
<1> HIDE DEF B, n
<1>5. IsFiniteSet(1..n) /\ Cardinality(1..n) = n
  BY <1>1, FS_Interval
<1>6. ASSUME NEW i \in 1..n PROVE IsFiniteSet(B(i)) /\ Cardinality(B(i)) <= n
  <2>1. B(i) \subseteq 1..n
    BY <1>3
  <2> QED  BY ONLY <1>5, <2>1, FS_Subset
<1>7. \A i \in 1..n : Cardinality(B(i)) \in Nat /\ Cardinality(B(i)) # 0
  BY <1>3, <1>6, FS_CardinalityType, FS_EmptySet
<1>8. ASSUME NEW i \in 1..n, NEW j \in 1..n, B(i) \subseteq B(j), j \notin B(i)
      PROVE  Cardinality(B(i)) < Cardinality(B(j))
  <2>1. B(i) # B(j)
    BY <1>3, <1>8
  <2> QED  BY <1>6, <1>7, <1>8, <2>1, FS_Subset
<1>9. \A i \in 1..n : PlaceOf(l, lft, i) \in 1..n
  BY <1>1, <1>2, <1>6, <1>7
<1> QED  BY <1>2, <1>4, <1>8, <1>9 DEF n

\* A list that is sorted has the same timers, in the order of their expire.
LEMMA SortedList ==
  ASSUME NEW S, NEW l \in Seq(S), NEW lft, \A s \in S : lft[s] \in Nat,
         NEW r, r = SortFlush(l, lft)
  PROVE  /\ r \in Seq(S) /\ Len(r) = Len(l) /\ ToSet(r) = ToSet(l)
         /\ IsInjective(l) => IsInjective(r)
         /\ \A p, q \in 1..Len(r) : p < q => lft[r[p]] <= lft[r[q]]
<1> DEFINE n == Len(l)
           P == [i \in 1..n |-> PlaceOf(l, lft, i)]
<1>1. n \in Nat /\ \A i \in 1..n : l[i] \in S /\ lft[l[i]] \in Nat
  OBVIOUS
<1>2. /\ \A i \in 1..n : P[i] \in 1..n
      /\ \A i, j \in 1..n : (lft[l[i]] < lft[l[j]] \/ (lft[l[i]] = lft[l[j]] /\ i < j))
                               => P[i] < P[j]
  BY PlacesAreRight
<1> HIDE DEF P, n
<1>3. \A i, j \in 1..n : P[i] = P[j] => i = j
  <2> SUFFICES ASSUME NEW i \in 1..n, NEW j \in 1..n, i # j PROVE P[i] # P[j]
    OBVIOUS
  <2>1. \/ lft[l[i]] < lft[l[j]] \/ (lft[l[i]] = lft[l[j]] /\ i < j)
        \/ lft[l[j]] < lft[l[i]] \/ (lft[l[j]] = lft[l[i]] /\ j < i)
    BY <1>1
  <2>2. P[i] < P[j] \/ P[j] < P[i]
    BY <1>2, <2>1
  <2>3. P[i] \in Nat /\ P[j] \in Nat
    BY <1>1, <1>2
  <2> QED  BY <2>2, <2>3
<1>4. \A p \in 1..n : \E i \in 1..n : P[i] = p
  <2> DEFINE R == {P[i] : i \in 1..n}
  <2>1. IsFiniteSet(1..n) /\ Cardinality(1..n) = n
    BY <1>1, FS_Interval
  <2>2. P \in Bijection(1..n, R)
    <3>1. DOMAIN P = 1..n
      BY DEF P
    <3>2. P \in [1..n -> R]
      BY <3>1 DEF P
    <3> QED  BY <1>3, <3>1, <3>2 DEF Bijection, Injection, Surjection, IsInjective
  <2>3. Cardinality(R) = n
    BY <2>1, <2>2, FS_Bijection DEF ExistsBijection
  <2>4. R \subseteq 1..n
    BY <1>2
  <2>5. R = 1..n
    BY <2>1, <2>3, <2>4, FS_Subset
  <2> QED  BY <2>5
<1> DEFINE Inv(p) == CHOOSE i \in 1..n : PlaceOf(l, lft, i) = p
<1>5. \A p \in 1..n : Inv(p) \in 1..n /\ P[Inv(p)] = p
  BY <1>4 DEF P
<1>6. r = [p \in 1..n |-> l[Inv(p)]]
  BY DEF SortFlush, n
<1> HIDE DEF Inv
<1>7. r \in Seq(S) /\ Len(r) = n /\ DOMAIN r = 1..n /\ \A p \in 1..n : r[p] = l[Inv(p)]
  <2>1. r \in [1..n -> S]
    BY <1>1, <1>5, <1>6
  <2> QED  BY <1>1, <1>6, <2>1
<1>8. DOMAIN l = 1..n
  BY DEF n
<1>9. \A i \in 1..n : Inv(P[i]) = i
  BY <1>2, <1>3, <1>5
<1>10. ToSet(r) = ToSet(l)
  <2>1. \A i \in 1..n : P[i] \in 1..n /\ r[P[i]] = l[i]
    BY <1>2, <1>7, <1>9
  <2>2. \A p \in 1..n : Inv(p) \in 1..n /\ r[p] = l[Inv(p)]
    BY <1>5, <1>7
  <2>3. ToSet(r) = {r[p] : p \in 1..n} /\ ToSet(l) = {l[i] : i \in 1..n}
    BY <1>7, <1>8 DEF ToSet
  <2> QED  BY <2>1, <2>2, <2>3
<1>11. IsInjective(l) => IsInjective(r)
  <2> SUFFICES ASSUME IsInjective(l), NEW p \in 1..n, NEW q \in 1..n, r[p] = r[q] PROVE p = q
    BY <1>7 DEF IsInjective
  <2>1. Inv(p) = Inv(q)
    BY <1>5, <1>7, <1>8 DEF IsInjective
  <2> QED  BY <1>5, <2>1
<1>12. ASSUME NEW p \in 1..n, NEW q \in 1..n, p < q PROVE lft[r[p]] <= lft[r[q]]
  <2>1. /\ Inv(p) \in 1..n /\ Inv(q) \in 1..n
        /\ P[Inv(p)] = p /\ P[Inv(q)] = q /\ r[p] = l[Inv(p)] /\ r[q] = l[Inv(q)]
    BY <1>5, <1>7
  <2>2. ~(lft[l[Inv(q)]] < lft[l[Inv(p)]])
    <3>1. p \in Nat /\ q \in Nat
      BY <1>1
    <3>2. ~(q < p)
      BY <1>12, <3>1
    <3> QED  BY <1>2, <2>1, <3>2
  <2> QED  BY <1>1, <2>1, <2>2
<1> QED  BY <1>7, <1>10, <1>11, <1>12 DEF n

\* Who is removed is not in the list any more, and the others are, in their order.
LEMMA RemovedFromList ==
  ASSUME NEW S, NEW l \in Seq(S), IsInjective(l), NEW t, NEW r, r = RemoveFirst(l, t)
  PROVE  /\ r \in Seq(S) /\ IsInjective(r) /\ ToSet(r) = ToSet(l) \ {t}
         /\ \A p, q \in 1..Len(r) : p < q =>
               \E i, j \in 1..Len(l) : i < j /\ r[p] = l[i] /\ r[q] = l[j]
<1> DEFINE n == Len(l)
<1>1. /\ n \in Nat /\ DOMAIN l = 1..n /\ \A i \in 1..n : l[i] \in S
      /\ \A i, j \in 1..n : l[i] = l[j] => i = j
  BY DEF IsInjective
<1>2. CASE \A i \in 1..n : l[i] # t
  <2>1. r = l
    BY <1>2 DEF RemoveFirst
  <2> QED  BY <1>1, <1>2, <2>1 DEF ToSet
<1>3. ASSUME NEW m \in 1..n, l[m] = t PROVE r = SubSeq(l, 1, m - 1) \o SubSeq(l, m + 1, n)
  <2> DEFINE I == {i \in 1..n : l[i] = t}
  <2>1. I = {m}
    BY <1>1, <1>3
  <2>2. Min(I) = m
    <3>1. I \subseteq Nat /\ I # {}
      BY <1>1, <2>1
    <3>2. Min(I) \in I
      BY <3>1, LeastNumber
    <3> QED  BY <2>1, <3>2
  <2>3. SelectInSeq(l, LAMBDA v : v = t) = m
    BY <2>1, <2>2 DEF SelectInSeq
  <2> QED  BY <1>3, <2>3 DEF RemoveFirst, RemoveAt
<1>4. CASE \E i \in 1..n : l[i] = t
  <2>1. PICK m \in 1..n : l[m] = t
    BY <1>4
  <2>2. r = SubSeq(l, 1, m - 1) \o SubSeq(l, m + 1, n)
    BY <1>3, <2>1
  <2> HIDE DEF n
  <2> DEFINE a == SubSeq(l, 1, m - 1)
             b == SubSeq(l, m + 1, n)
  <2>3. a \in Seq(S) /\ Len(a) = m - 1 /\ \A i \in 1..m - 1 : a[i] = l[i]
    <3>1. m - 1 \in Int /\ 1 \in Int /\ \A i \in 1..m - 1 : l[i] \in S
      BY <1>1, <2>1
    <3>2. /\ a \in Seq(S) /\ Len(a) = IF 1 <= m - 1 THEN m - 1 - 1 + 1 ELSE 0
          /\ \A i \in 1..m - 1 - 1 + 1 : a[i] = l[1 + i - 1]
      BY <3>1, SubSeqProperties
    <3> QED  BY <1>1, <2>1, <3>2
  <2>4. b \in Seq(S) /\ Len(b) = n - m /\ \A i \in 1..n - m : b[i] = l[m + i]
    <3>1. m + 1 \in Int /\ n \in Int /\ \A i \in m + 1..n : l[i] \in S
      BY <1>1, <2>1
    <3>2. /\ b \in Seq(S) /\ Len(b) = IF m + 1 <= n THEN n - (m + 1) + 1 ELSE 0
          /\ \A i \in 1..n - (m + 1) + 1 : b[i] = l[m + 1 + i - 1]
      BY <3>1, SubSeqProperties
    <3>3. n - (m + 1) + 1 = n - m /\ \A i \in 1..n - m : m + 1 + i - 1 = m + i
      BY <1>1, <2>1
    <3> QED  BY <1>1, <2>1, <3>2, <3>3
  <2> HIDE DEF a, b
  <2>5. /\ r \in Seq(S) /\ Len(r) = n - 1 /\ DOMAIN r = 1..n - 1
        /\ \A p \in 1..n - 1 : r[p] = IF p < m THEN l[p] ELSE l[p + 1]
    <3>1. r = a \o b
      BY <2>2 DEF a, b
    <3>2. /\ r \in Seq(S) /\ Len(r) = Len(a) + Len(b)
          /\ \A p \in 1..Len(a) + Len(b) : r[p] = IF p <= Len(a) THEN a[p] ELSE b[p - Len(a)]
      <4>1. a \in Seq(S) /\ b \in Seq(S)
        BY <2>3, <2>4
      <4> QED  BY <3>1, <4>1, ConcatProperties
    <3>3. Len(a) = m - 1 /\ Len(a) + Len(b) = n - 1 /\ Len(r) = n - 1 /\ DOMAIN r = 1..n - 1
      <4>1. Len(a) = m - 1 /\ Len(b) = n - m /\ Len(a) + Len(b) = n - 1
        BY <1>1, <2>1, <2>3, <2>4
      <4>2. r \in Seq(S) /\ Len(r) = n - 1
        BY <3>2, <4>1
      <4> QED  BY <4>1, <4>2
    <3>4. ASSUME NEW p \in 1..n - 1 PROVE r[p] = IF p < m THEN l[p] ELSE l[p + 1]
      <4>1. r[p] = IF p <= m - 1 THEN a[p] ELSE b[p - (m - 1)]
        BY <3>2, <3>3
      <4>2. CASE p < m
        BY <1>1, <2>1, <2>3, <4>1, <4>2
      <4>3. CASE ~(p < m)
        <5>1. p - (m - 1) \in 1..n - m /\ m + (p - (m - 1)) = p + 1 /\ ~(p <= m - 1)
          BY <1>1, <2>1, <4>3
        <5> QED  BY <2>4, <4>1, <4>3, <5>1
      <4> QED  BY <4>2, <4>3
    <3> QED  BY <3>2, <3>3, <3>4
  <2> DEFINE At(p) == IF p < m THEN p ELSE p + 1
  <2>6. /\ \A p \in 1..n - 1 : At(p) \in 1..n /\ At(p) # m /\ r[p] = l[At(p)]
        /\ \A p, q \in 1..n - 1 : p < q => At(p) < At(q)
    BY <1>1, <2>5
  <2>7. \A i \in 1..n : i # m => \E p \in 1..n - 1 : At(p) = i
    <3> SUFFICES ASSUME NEW i \in 1..n, i # m PROVE \E p \in 1..n - 1 : At(p) = i
      OBVIOUS
    <3>1. CASE i < m
      <4>1. i \in 1..n - 1 /\ At(i) = i
        BY <1>1, <3>1
      <4> QED  BY <4>1
    <3>2. CASE i > m
      <4>1. i - 1 \in 1..n - 1 /\ At(i - 1) = i
        BY <1>1, <3>2
      <4> QED  BY <4>1
    <3> QED  BY <1>1, <3>1, <3>2
  <2> HIDE DEF At
  <2>8. IsInjective(r)
    <3> SUFFICES ASSUME NEW p \in 1..n - 1, NEW q \in 1..n - 1, r[p] = r[q] PROVE p = q
      BY <2>5 DEF IsInjective
    <3>1. At(p) = At(q) /\ At(p) \in Nat
      BY <1>1, <2>6
    <3>2. ~(p < q) /\ ~(q < p)
      BY <2>6, <3>1
    <3> QED  BY <1>1, <3>2
  <2>9. ToSet(r) = ToSet(l) \ {t}
    <3>1. \A p \in 1..n - 1 : r[p] \in ToSet(l) /\ r[p] # t
      BY <1>1, <2>1, <2>6 DEF ToSet
    <3>2. \A i \in 1..n : l[i] # t => \E p \in 1..n - 1 : r[p] = l[i]
      BY <2>1, <2>6, <2>7
    <3>3. ToSet(r) = {r[p] : p \in 1..n - 1} /\ ToSet(l) = {l[i] : i \in 1..n}
      BY <1>1, <2>5 DEF ToSet
    <3> QED  BY <3>1, <3>2, <3>3
  <2>10. ASSUME NEW p \in 1..n - 1, NEW q \in 1..n - 1, p < q
        PROVE  \E i, j \in 1..n : i < j /\ r[p] = l[i] /\ r[q] = l[j]
    BY <2>6, <2>10
  <2> QED  BY <2>5, <2>8, <2>9, <2>10 DEF n
<1> QED  BY <1>2, <1>4

LEMMA TimerAppended ==
  ASSUME NEW S, NEW l \in Seq(S), IsInjective(l), NEW t \in S, t \notin ToSet(l)
  PROVE  /\ Append(l, t) \in Seq(S) /\ IsInjective(Append(l, t))
         /\ ToSet(Append(l, t)) = ToSet(l) \cup {t}
<1> DEFINE n == Len(l)
           r == Append(l, t)
<1>1. /\ r \in Seq(S) /\ n \in Nat /\ Len(r) = n + 1
      /\ DOMAIN r = 1..n + 1 /\ DOMAIN l = 1..n
      /\ \A i \in 1..n : r[i] = l[i]
      /\ r[n + 1] = t
  OBVIOUS
<1> HIDE DEF r, n
<1>2. ToSet(l) = {l[i] : i \in 1..n} /\ ToSet(r) = {r[i] : i \in 1..n + 1}
  BY <1>1 DEF ToSet
<1>3. /\ \A i \in 1..n + 1 : i \in 1..n \/ i = n + 1
      /\ \A i \in 1..n : i \in 1..n + 1
      /\ n + 1 \in 1..n + 1
  BY <1>1
<1>4. IsInjective(r)
  <2>1. \A i, j \in 1..n : l[i] = l[j] => i = j
    BY <1>1 DEF IsInjective
  <2>2. \A i \in 1..n : l[i] # t
    BY <1>2
  <2> QED  BY <1>1, <1>3, <2>1, <2>2 DEF IsInjective
<1>5. ToSet(r) = ToSet(l) \cup {t}
  BY <1>1, <1>2, <1>3
<1> QED  BY <1>1, <1>4, <1>5 DEF r

(***************************************************************************)
(* The invariant.  A connection owns the timer users[fd] points to as long *)
(* as it is open; the list has timers of open connections and of failed    *)
(* accepts only, sorted by expire; and every open connection's, unless a   *)
(* descriptor was closed twice.                                            *)
(***************************************************************************)
Owned == \A f \in Open : /\ timer[f] \in heap /\ data[timer[f]] = f
                         /\ quiet[f] + left[timer[f]] = Lifetime
Listed == \A t \in ToSet(list) :
             data[t] # Stray => data[t] \in Open /\ timer[data[t]] = t
AllListed == ~stale => \A f \in Open : timer[f] \in ToSet(list)
Ordered == \A i, j \in 1..Len(list) : i < j => left[list[i]] <= left[list[j]]

\* There is a descriptor for everybody in the queue.
RoomLeft == Len(backlog) + Cardinality(Open) <= Cardinality(Fds)

TimersRight == Owned /\ Listed /\ AllListed /\ Ordered
IdleInv == TypeOK /\ TimersRight /\ RoomLeft

LEMMA IdleInitial == Init => IdleInv
<1> SUFFICES ASSUME Init PROVE IdleInv
  OBVIOUS
<1>1. Lifetime \in Nat
  BY IdleAssumption DEF Lifetime
<1>2. Open = {} /\ ToSet(list) = {}
  BY DEF Init, Open, ToSet
<1>3. NetTypes /\ LoopTypes /\ SigTypes /\ HistoryTypes
  <2>1. NetTypes
    <3>1. /\ came = {} /\ backlog = <<>> /\ listenedge = FALSE /\ conn = [f \in Fds |-> None]
          /\ inbox = [f \in Fds |-> FALSE] /\ eof = [f \in Fds |-> FALSE]
          /\ edge = [f \in Fds |-> FALSE] /\ sent = 0
      BY DEF Init
    <3>2. listenedge \in BOOLEAN
      BY <3>1, Zenon
    <3>3. inbox \in [Fds -> BOOLEAN] /\ eof \in [Fds -> BOOLEAN] /\ edge \in [Fds -> BOOLEAN]
      BY <3>1
    <3> QED  BY <3>1, <3>2, <3>3, IdleAssumption DEF NetTypes
  <2>2. LoopTypes
    <3>1. /\ pc = "wait" /\ evs = <<>> /\ filled = 0 /\ pos = 0 /\ ret = 0
          /\ timeout = FALSE /\ stop = FALSE
      BY DEF Init
    <3>2. timeout \in BOOLEAN /\ stop \in BOOLEAN
      BY <3>1, Zenon
    <3> QED  BY <3>1, <3>2 DEF LoopTypes
  <2>3. SigTypes
    <3>1. alarm = TIMESLOT /\ sigpipe = {} /\ sigedge = FALSE
      BY DEF Init
    <3>2. sigedge \in BOOLEAN
      BY <3>1, Zenon
    <3> QED  BY <3>1, <3>2, IdleAssumption DEF SigTypes
  <2>4. HistoryTypes
    <3>1. quiet = [f \in Fds |-> 0] /\ termed = FALSE /\ lost = FALSE /\ stale = FALSE
      BY DEF Init
    <3>2. {termed, lost, stale} \subseteq BOOLEAN
      BY <3>1, Zenon
    <3> QED  BY <1>1, <3>1, <3>2 DEF HistoryTypes
  <2> QED  BY <2>1, <2>2, <2>3, <2>4
<1>4. TimerTypes
  BY <1>1 DEF Init, TimerTypes, IsInjective
<1>5. TimersRight
  BY <1>2 DEF Init, TimersRight, Owned, Listed, AllListed, Ordered
<1>6. RoomLeft
  BY <1>2, IdleAssumption, FS_EmptySet, FS_CardinalityType DEF Init, RoomLeft
<1> QED  BY <1>3, <1>4, <1>5, <1>6 DEF IdleInv, TypeOK

\* What opens, closes or times no connection leaves the timers right.
LEMMA TimersKeep ==
  ASSUME IdleInv, UNCHANGED <<conn, heap, list, left, data, timer, quiet, stale>>
  PROVE  /\ TimerTypes' /\ TimersRight' /\ Open' = Open
         /\ backlog' = backlog => RoomLeft'
<1>1. Open' = Open /\ ToSet(list)' = ToSet(list)
  BY DEF Open, ToSet
<1>2. TimerTypes'
  BY DEF IdleInv, TypeOK, TimerTypes
<1>3. TimersRight'
  BY <1>1 DEF IdleInv, TimersRight, Owned, Listed, AllListed, Ordered
<1> QED  BY <1>1, <1>2, <1>3 DEF IdleInv, RoomLeft

LEMMA ClientKeeps ==
  ASSUME IdleInv,
         \/ \E c \in Clients : Connect(c)
         \/ \E f \in Fds : Send(f) \/ HangUp(f)
         \/ Terminate
  PROVE  IdleInv'
<1>1. UNCHANGED <<conn, heap, list, left, data, timer, quiet, stale>>
  BY DEF Connect, Send, HangUp, Terminate, timerVars, history, netVars
<1>2. TimerTypes' /\ TimersRight' /\ Open' = Open /\ (backlog' = backlog => RoomLeft')
  BY <1>1, TimersKeep
<1>3. NetTypes /\ LoopTypes /\ SigTypes /\ HistoryTypes
  BY DEF IdleInv, TypeOK
<1>4. CASE \E c \in Clients : Connect(c)
  <2>1. /\ UNCHANGED <<conn, inbox, eof, edge, sent, loopVars, sigVars, history>>
        /\ \E c \in Clients : came' = came \cup {c} /\ backlog' = Append(backlog, c)
        /\ listenedge' = TRUE /\ Len(backlog) + Cardinality(Open) < Cardinality(Fds)
    BY <1>4 DEF Connect
  <2>2. NetTypes' /\ LoopTypes' /\ SigTypes' /\ HistoryTypes'
    BY <1>3, <2>1 DEF NetTypes, LoopTypes, SigTypes, HistoryTypes, loopVars, sigVars, history
  <2>3. RoomLeft'
    <3>1. IsFiniteSet(Open) /\ Cardinality(Open) \in Nat /\ Cardinality(Fds) \in Nat
      BY IdleAssumption, FS_Subset, FS_CardinalityType DEF Open
    <3>2. Len(backlog) \in Nat /\ Len(backlog') = Len(backlog) + 1
      BY <1>3, <2>1 DEF NetTypes
    <3> QED  BY <1>2, <2>1, <3>1, <3>2 DEF RoomLeft
  <2> QED  BY <1>2, <2>2, <2>3 DEF IdleInv, TypeOK
<1>5. CASE \E f \in Fds : Send(f) \/ HangUp(f)
  <2>1. /\ UNCHANGED <<came, backlog, listenedge, conn, loopVars, sigVars, history>>
        /\ \E f \in Fds : /\ inbox' \in {inbox, [inbox EXCEPT ![f] = TRUE]}
                          /\ eof' \in {eof, [eof EXCEPT ![f] = TRUE]}
                          /\ edge' = [edge EXCEPT ![f] = TRUE]
        /\ (sent' = sent \/ (sent < Messages /\ sent' = sent + 1))
    BY <1>5 DEF Send, HangUp
  <2>2. NetTypes'
    <3>1. inbox' \in [Fds -> BOOLEAN] /\ eof' \in [Fds -> BOOLEAN] /\ edge' \in [Fds -> BOOLEAN]
      BY <1>3, <2>1 DEF NetTypes
    <3>2. sent' \in 0..Messages
      BY <1>3, <2>1, IdleAssumption DEF NetTypes
    <3> QED  BY <1>3, <2>1, <3>1, <3>2 DEF NetTypes
  <2>3. LoopTypes' /\ SigTypes' /\ HistoryTypes'
    BY <1>3, <2>1 DEF LoopTypes, SigTypes, HistoryTypes, loopVars, sigVars, history
  <2> QED  BY <1>2, <2>1, <2>2, <2>3 DEF IdleInv, TypeOK
<1>6. CASE Terminate
  <2>1. /\ UNCHANGED <<netVars, loopVars, alarm, quiet, lost, stale>> /\ termed' = TRUE
        /\ sigpipe' = sigpipe \cup {"TERM"} /\ sigedge' = TRUE
    BY <1>6 DEF Terminate, Raise
  <2>2. NetTypes' /\ LoopTypes' /\ SigTypes' /\ HistoryTypes'
    BY <1>3, <2>1 DEF NetTypes, LoopTypes, SigTypes, HistoryTypes, netVars, loopVars
  <2> QED  BY <1>2, <2>1, <2>2 DEF IdleInv, TypeOK, netVars
<1> QED  BY <1>4, <1>5, <1>6

\* A second passes for all of them.
LEMMA ElapseKeeps == ASSUME IdleInv, Elapse PROVE IdleInv'
<1>1. /\ NetTypes /\ LoopTypes /\ SigTypes /\ TimerTypes /\ HistoryTypes
      /\ Owned /\ Listed /\ AllListed /\ Ordered /\ RoomLeft
  BY DEF IdleInv, TypeOK, TimersRight
<1>2. /\ UNCHANGED <<netVars, loopVars, heap, list, data, timer, termed, lost, stale>>
      /\ left' = [t \in Timers |-> Max({left[t] - 1, 0})]
      /\ quiet' = [f \in Fds |-> IF f \in Open THEN Min({quiet[f] + 1, Lifetime}) ELSE 0]
      /\ alarm' = Max({alarm - 1, 0})
      /\ sigpipe' \in {sigpipe, sigpipe \cup {"ALRM"}} /\ sigedge' \in {sigedge, TRUE}
  BY DEF Elapse, Raise
<1>3. Lifetime \in Nat /\ TIMESLOT \in Nat
  BY IdleAssumption DEF Lifetime
<1>4. \A t \in Timers : /\ left[t] \in Nat /\ left[t] <= Lifetime
                        /\ left'[t] = IF left[t] = 0 THEN 0 ELSE left[t] - 1
  <2> TAKE t \in Timers
  <2>1. left[t] \in Nat /\ left[t] <= Lifetime
    BY <1>1, <1>3 DEF TimerTypes
  <2>2. Max({left[t] - 1, 0}) = IF left[t] - 1 >= 0 THEN left[t] - 1 ELSE 0
    BY <2>1, MaxOfTwo
  <2> QED  BY <1>2, <2>1, <2>2
<1>5. \A f \in Open : /\ quiet[f] \in Nat /\ quiet[f] <= Lifetime
                      /\ quiet'[f] = IF quiet[f] = Lifetime THEN Lifetime ELSE quiet[f] + 1
  <2> TAKE f \in Open
  <2>1. f \in Fds /\ quiet[f] \in Nat /\ quiet[f] <= Lifetime
    BY <1>1, <1>3 DEF HistoryTypes, Open
  <2>2. Min({quiet[f] + 1, Lifetime}) = IF quiet[f] + 1 <= Lifetime THEN quiet[f] + 1 ELSE Lifetime
    BY <1>3, <2>1, MinOfTwo
  <2> QED  BY <1>2, <1>3, <2>1, <2>2
<1>6. Open' = Open /\ ToSet(list)' = ToSet(list)
  BY <1>2 DEF Open, ToSet, netVars
<1>7. NetTypes' /\ LoopTypes' /\ RoomLeft'
  BY <1>1, <1>2, <1>6 DEF NetTypes, LoopTypes, RoomLeft, netVars, loopVars
<1>8. SigTypes'
  <2>1. alarm \in Nat /\ alarm <= TIMESLOT
    BY <1>1, <1>3 DEF SigTypes
  <2>2. alarm' = IF alarm - 1 >= 0 THEN alarm - 1 ELSE 0
    BY <1>2, <2>1, MaxOfTwo
  <2>3. alarm' \in 0..TIMESLOT
    BY <1>3, <2>1, <2>2
  <2> QED  BY <1>1, <1>2, <2>3 DEF SigTypes
<1>9. TimerTypes'
  <2>1. \A t \in Timers : left'[t] \in 0..Lifetime
    BY <1>3, <1>4
  <2>2. left' \in [Timers -> 0..Lifetime]
    BY <1>2, <2>1
  <2> QED  BY <1>1, <1>2, <2>2 DEF TimerTypes
<1>10. HistoryTypes'
  <2>1. \A f \in Fds : quiet'[f] \in 0..Lifetime
    <3> TAKE f \in Fds
    <3>1. CASE f \in Open
      BY <1>3, <1>5, <3>1
    <3>2. CASE f \notin Open
      BY <1>2, <1>3, <3>2
    <3> QED  BY <3>1, <3>2
  <2>2. quiet' \in [Fds -> 0..Lifetime]
    BY <1>2, <2>1
  <2> QED  BY <1>1, <1>2, <2>2 DEF HistoryTypes
<1>11. Owned'
  <2> SUFFICES ASSUME NEW f \in Open
               PROVE  /\ timer[f] \in heap /\ data[timer[f]] = f
                      /\ quiet'[f] + left'[timer[f]] = Lifetime
    BY <1>2, <1>6 DEF Owned
  <2>1. timer[f] \in heap /\ data[timer[f]] = f /\ quiet[f] + left[timer[f]] = Lifetime
    BY <1>1 DEF Owned
  <2>2. timer[f] \in Timers
    BY <1>1, <2>1 DEF TimerTypes
  <2> QED  BY <1>3, <1>4, <1>5, <2>1, <2>2
<1>12. Listed' /\ AllListed'
  BY <1>1, <1>2, <1>6 DEF Listed, AllListed
<1>13. Ordered'
  <2> SUFFICES ASSUME NEW i \in 1..Len(list), NEW j \in 1..Len(list), i < j
               PROVE  left'[list[i]] <= left'[list[j]]
    BY <1>2 DEF Ordered
  <2>1. list[i] \in Timers /\ list[j] \in Timers /\ left[list[i]] <= left[list[j]]
    BY <1>1 DEF TimerTypes, Ordered
  <2> QED  BY <1>4, <2>1
<1> QED  BY <1>7, <1>8, <1>9, <1>10, <1>11, <1>12, <1>13 DEF IdleInv, TypeOK, TimersRight

\* epoll_wait writes over the first entries of evs.
LEMMA WaitKeeps == ASSUME IdleInv, Wait PROVE IdleInv'
<1>1. NetTypes /\ LoopTypes /\ SigTypes /\ HistoryTypes
  BY DEF IdleInv, TypeOK
<1>2. UNCHANGED <<came, backlog, conn, inbox, eof, sent, timeout, stop, alarm, sigpipe,
                  heap, list, left, data, timer, quiet, termed, lost, stale>>
  BY DEF Wait, timerVars, history
<1>3. TimerTypes' /\ TimersRight' /\ RoomLeft'
  BY <1>2, TimersKeep
<1>4. NetTypes'
  BY <1>1, <1>2 DEF NetTypes, Wait
<1>5. SigTypes' /\ HistoryTypes'
  BY <1>1, <1>2 DEF SigTypes, HistoryTypes, Wait
<1>6. LoopTypes'
  <2> DEFINE ready == {f \in Fds : edge[f]} \cup {e \in {Listen} : listenedge}
                        \cup {e \in {Signal} : sigedge}
  <2>1. PICK n, order : /\ n = Cardinality(ready) /\ order \in [1..n -> ready]
                        /\ evs' = order \o SubSeq(evs, n + 1, Len(evs))
                        /\ filled' = n /\ ret' = n
    BY DEF Wait
  <2>2. n \in Nat
    <3>1. IsFiniteSet(ready)
      <4>1. IsFiniteSet(Fds \cup {Listen} \cup {Signal})
        BY IdleAssumption, FS_AddElement
      <4>2. ready \subseteq Fds \cup {Listen} \cup {Signal}
        OBVIOUS
      <4> QED  BY <4>1, <4>2, FS_Subset
    <3> QED  BY <2>1, <3>1, FS_CardinalityType
  <2>3. ready \subseteq Fds \cup {Listen, Signal}
    OBVIOUS
  <2> HIDE DEF ready
  <2> DEFINE E == Fds \cup {Listen, Signal}
             rest == SubSeq(evs, n + 1, Len(evs))
  <2>4. order \in Seq(E) /\ Len(order) = n
    <3>1. order \in [1..n -> E]
      BY <2>1, <2>3
    <3> QED  BY <2>2, <3>1
  <2>5. rest \in Seq(E)
    <3>1. /\ evs \in Seq(E) /\ Len(evs) \in Int /\ n + 1 \in Int
          /\ \A i \in n + 1..Len(evs) : evs[i] \in E
      BY <1>1, <2>2 DEF LoopTypes
    <3> HIDE DEF E
    <3> QED  BY <3>1, SubSeqProperties
  <2> HIDE DEF E, rest
  <2>6. evs' \in Seq(E) /\ Len(evs') = n + Len(rest) /\ Len(rest) \in Nat
    <3>1. evs' = order \o rest
      BY <2>1 DEF rest
    <3> QED  BY <2>4, <2>5, <3>1, ConcatProperties, LenProperties
  <2>7. filled' \in 0..Len(evs') /\ 0 \in 0..Len(evs') /\ ret' \in Nat
    BY <2>1, <2>2, <2>6
  <2> QED  BY <1>1, <1>2, <2>6, <2>7 DEF LoopTypes, Wait, E
<1> QED  BY <1>3, <1>4, <1>5, <1>6 DEF IdleInv, TypeOK

\* The loop looks at the next entry.
LEMMA EntryTypes ==
  ASSUME IdleInv, NEW e, Entry(e), ret' \in Nat, timeout' \in BOOLEAN, stop' \in BOOLEAN
  PROVE  LoopTypes'
<1>1. /\ UNCHANGED <<pc, evs, filled>> /\ pos' = pos + 1 /\ pos < Len(evs)
      /\ LoopTypes
  BY DEF Entry, IdleInv, TypeOK
<1>2. pos' \in 0..Len(evs)
  BY <1>1 DEF LoopTypes
<1> QED  BY <1>1, <1>2 DEF LoopTypes

\* What the loop does without a timer.
LEMMA LoopKeeps ==
  ASSUME IdleInv, Exit \/ ReadSignals \/ BatchEnds \/ (\E f \in Fds : ReadAgain(f))
  PROVE  IdleInv'
<1>1. NetTypes /\ LoopTypes /\ SigTypes /\ HistoryTypes
  BY DEF IdleInv, TypeOK
<1>2. UNCHANGED <<netVars, alarm, sigedge, heap, list, left, data, timer, quiet, termed, stale>>
  BY DEF Exit, ReadSignals, BatchEnds, ReadAgain, timerVars, history, sigVars
<1>3. TimerTypes' /\ TimersRight' /\ RoomLeft'
  BY <1>2, TimersKeep DEF netVars
<1>4. NetTypes'
  BY <1>1, <1>2 DEF NetTypes, netVars
<1>5. SigTypes'
  <2>1. sigpipe' = sigpipe \/ sigpipe' = {}
    BY DEF Exit, ReadSignals, BatchEnds, ReadAgain, sigVars
  <2> QED  BY <1>1, <1>2, <2>1 DEF SigTypes
<1>6. HistoryTypes'
  <2>1. lost' \in BOOLEAN
    <3>1. lost \in BOOLEAN
      BY <1>1 DEF HistoryTypes
    <3>2. lost' = lost \/ lost' = (lost \/ \E i \in pos + 1..filled : evs[i] = Signal)
      BY DEF Exit, ReadSignals, BatchEnds, ReadAgain, history
    <3> QED  BY <3>1, <3>2, Zenon
  <2> QED  BY <1>1, <1>2, <2>1 DEF HistoryTypes
<1>7. CASE Exit
  <2>1. LoopTypes'
    BY <1>1, <1>7 DEF Exit, LoopTypes
  <2> QED  BY <1>3, <1>4, <1>5, <1>6, <2>1 DEF IdleInv, TypeOK
<1>8. CASE ReadSignals
  <2>1. ret' \in Nat
    <3>1. sigpipe \subseteq {"ALRM", "TERM"}
      BY <1>1 DEF SigTypes
    <3>2. IsFiniteSet({"ALRM", "TERM"})
      <4>1. IsFiniteSet({"ALRM"} \cup {"TERM"})
        BY FS_Singleton, FS_AddElement
      <4>2. {"ALRM", "TERM"} = {"ALRM"} \cup {"TERM"}
        OBVIOUS
      <4> QED  BY <4>1, <4>2
    <3> QED  BY <1>8, <3>1, <3>2, FS_Subset, FS_CardinalityType DEF ReadSignals
  <2>2. timeout' \in BOOLEAN /\ stop' \in BOOLEAN
    <3>1. timeout' = (timeout \/ "ALRM" \in sigpipe) /\ stop' = (stop \/ "TERM" \in sigpipe)
      BY <1>8 DEF ReadSignals
    <3> QED  BY <3>1, Zenon
  <2>3. Entry(Signal)
    BY <1>8 DEF ReadSignals
  <2>4. LoopTypes'
    BY <2>1, <2>2, <2>3, EntryTypes
  <2> QED  BY <1>3, <1>4, <1>5, <1>6, <2>4 DEF IdleInv, TypeOK
<1>9. CASE BatchEnds
  <2>1. /\ pc' \in {"timers", "wait"} /\ filled' = 0 /\ pos' = 0 /\ ret' = 0
        /\ UNCHANGED <<evs, timeout, stop>>
    BY <1>9 DEF BatchEnds
  <2>2. LoopTypes'
    BY <1>1, <2>1 DEF LoopTypes
  <2> QED  BY <1>3, <1>4, <1>5, <1>6, <2>2 DEF IdleInv, TypeOK
<1>10. CASE \E f \in Fds : ReadAgain(f)
  <2>1. PICK f \in Fds : Entry(f) /\ ret' = 0 /\ UNCHANGED <<timeout, stop>>
    BY <1>10 DEF ReadAgain
  <2>2. LoopTypes'
    BY <1>1, <2>1, EntryTypes DEF LoopTypes
  <2> QED  BY <1>3, <1>4, <1>5, <1>6, <2>2 DEF IdleInv, TypeOK
<1> QED  BY <1>7, <1>8, <1>9, <1>10

\* A new timer is in the list, which has those that were there before.
LEMMA TimerAdded ==
  ASSUME IdleInv, NEW t, NEW d \in Fds \cup {Stray}, AddTimer(t, d)
  PROVE  /\ t \in Timers /\ t \notin heap /\ t \notin ToSet(list) /\ heap' = heap \cup {t}
         /\ heap' \subseteq Timers /\ list' \in Seq(heap') /\ IsInjective(list')
         /\ left' \in [Timers -> 0..Lifetime] /\ data' \in [Timers -> Fds \cup {Stray, None}]
         /\ left'[t] = Lifetime /\ data'[t] = d
         /\ \A u \in Timers : u # t => left'[u] = left[u] /\ data'[u] = data[u]
         /\ ToSet(list') = ToSet(list) \cup {t} /\ ToSet(list) \subseteq heap
         /\ Ordered'
<1>1. /\ TimerTypes /\ heap \subseteq Timers /\ list \in Seq(heap) /\ IsInjective(list)
      /\ t \in Allocatable /\ heap' = heap \cup {t}
      /\ data' = [data EXCEPT ![t] = d] /\ left' = [left EXCEPT ![t] = Lifetime]
      /\ list' = SortFlush(Append(list, t), left')
  BY DEF IdleInv, TypeOK, TimerTypes, AddTimer
<1>2. Lifetime \in Nat
  BY IdleAssumption DEF Lifetime
<1>3. t \in Timers /\ t \notin heap
  <2> DEFINE unheld == (Timers \ heap) \ {u \in Timers \ heap : \E f \in Fds : timer[f] = u}
  <2>1. unheld \subseteq Nat
    BY IdleAssumption
  <2>2. unheld # {} => Min(unheld) \in unheld
    BY <2>1, LeastNumber
  <2>3. t \in {u \in Timers \ heap : \E f \in Fds : timer[f] = u}
          \/ (unheld # {} /\ t = Min(unheld))
    BY <1>1 DEF Allocatable
  <2> QED  BY <2>2, <2>3
<1>4. /\ left' \in [Timers -> 0..Lifetime] /\ data' \in [Timers -> Fds \cup {Stray, None}]
      /\ left'[t] = Lifetime /\ data'[t] = d
      /\ \A u \in Timers : u # t => left'[u] = left[u] /\ data'[u] = data[u]
  <2>1. left \in [Timers -> 0..Lifetime] /\ data \in [Timers -> Fds \cup {Stray, None}]
    BY <1>1 DEF TimerTypes
  <2> QED  BY <1>1, <1>2, <1>3, <2>1
<1>5. ToSet(list) \subseteq heap /\ t \notin ToSet(list)
  BY <1>1, <1>3 DEF ToSet
<1> DEFINE l == Append(list, t)
<1>6. l \in Seq(heap') /\ IsInjective(l) /\ ToSet(l) = ToSet(list) \cup {t}
  <2>1. list \in Seq(heap') /\ t \in heap'
    BY <1>1
  <2> QED  BY <1>1, <1>5, <2>1, TimerAppended
<1>7. list' = SortFlush(l, left')
  BY <1>1
<1> HIDE DEF l
<1>8. \A u \in heap' : left'[u] \in Nat
  BY <1>1, <1>2, <1>3, <1>4
<1>9. /\ list' \in Seq(heap') /\ ToSet(list') = ToSet(l) /\ IsInjective(list')
       /\ \A p, q \in 1..Len(list') : p < q => left'[list'[p]] <= left'[list'[q]]
  BY <1>6, <1>7, <1>8, SortedList
<1>10. Ordered'
  BY <1>9 DEF Ordered
<1>11. heap' \subseteq Timers
  BY <1>1, <1>3
<1> QED  BY <1>1, <1>3, <1>4, <1>5, <1>6, <1>9, <1>10, <1>11

LEMMA StrayAdded == ASSUME IdleInv, NEW t \in Timers, AcceptFails(t) PROVE IdleInv'
<1>1. /\ UNCHANGED <<netVars, ret, timeout, stop, sigVars, timer, history>>
      /\ Entry(Listen) /\ AddTimer(t, Stray)
      /\ NetTypes /\ LoopTypes /\ SigTypes /\ HistoryTypes /\ TimerTypes
      /\ Owned /\ Listed /\ AllListed /\ RoomLeft
  BY DEF AcceptFails, IdleInv, TypeOK, TimersRight
<1>2. /\ t \notin heap /\ t \notin ToSet(list) /\ heap' = heap \cup {t}
      /\ heap' \subseteq Timers /\ list' \in Seq(heap') /\ IsInjective(list')
      /\ left' \in [Timers -> 0..Lifetime] /\ data' \in [Timers -> Fds \cup {Stray, None}]
      /\ data'[t] = Stray
      /\ \A u \in Timers : u # t => left'[u] = left[u] /\ data'[u] = data[u]
      /\ ToSet(list') = ToSet(list) \cup {t} /\ ToSet(list) \subseteq heap
      /\ Ordered'
  BY <1>1, TimerAdded
<1>3. Open' = Open /\ heap \subseteq Timers
  BY <1>1 DEF Open, netVars, TimerTypes
<1>4. NetTypes' /\ SigTypes' /\ HistoryTypes'
  BY <1>1 DEF NetTypes, SigTypes, HistoryTypes, netVars, sigVars, history
<1>5. LoopTypes'
  BY <1>1, EntryTypes DEF LoopTypes
<1>6. TimerTypes'
  BY <1>1, <1>2 DEF TimerTypes
<1>7. Owned'
  BY <1>1, <1>2, <1>3 DEF Owned, history
<1>8. Listed'
  BY <1>1, <1>2, <1>3 DEF Listed
<1>9. AllListed'
  BY <1>1, <1>2, <1>3 DEF AllListed, history
<1>10. RoomLeft'
  BY <1>1, <1>3 DEF RoomLeft, netVars
<1> QED  BY <1>2, <1>4, <1>5, <1>6, <1>7, <1>8, <1>9, <1>10 DEF IdleInv, TypeOK, TimersRight

\* A connection gets the lowest descriptor and a timer of its own.
LEMMA ConnectionAccepted == ASSUME IdleInv, NEW t \in Timers, Accept(t) PROVE IdleInv'
<1>1. /\ UNCHANGED <<came, listenedge, inbox, eof, edge, sent, ret, timeout, stop,
                     sigVars, termed, lost, stale>>
      /\ Entry(Listen) /\ AddTimer(t, Lowest) /\ backlog # <<>> /\ backlog' = Tail(backlog)
      /\ conn' = [conn EXCEPT ![Lowest] = Head(backlog)]
      /\ timer' = [timer EXCEPT ![Lowest] = t] /\ quiet' = [quiet EXCEPT ![Lowest] = 0]
      /\ NetTypes /\ LoopTypes /\ SigTypes /\ HistoryTypes /\ TimerTypes
      /\ Owned /\ Listed /\ AllListed /\ RoomLeft
  BY DEF Accept, IdleInv, TypeOK, TimersRight
<1>2. /\ backlog \in Seq(Clients) /\ Len(backlog) \in Nat /\ Head(backlog) \in Clients
      /\ backlog' \in Seq(Clients) /\ Len(backlog') = Len(backlog) - 1 /\ Len(backlog) > 0
  BY <1>1 DEF NetTypes
<1>3. IsFiniteSet(Open) /\ Cardinality(Open) \in Nat /\ Cardinality(Fds) \in Nat
  BY IdleAssumption, FS_Subset, FS_CardinalityType DEF Open
<1>4. Lowest \in Fds \ Open
  <2>1. Open \subseteq Fds /\ Open # Fds
    <3>1. Cardinality(Open) < Cardinality(Fds)
      BY <1>1, <1>2, <1>3 DEF RoomLeft
    <3>2. Open # Fds
      BY <1>3, <3>1
    <3> QED  BY <3>2 DEF Open
  <2>2. Fds \ Open \subseteq Nat /\ Fds \ Open # {}
    BY <2>1, IdleAssumption
  <2> QED  BY <2>2, LeastNumber DEF Lowest
<1>5. PICK g \in Fds, c \in Clients : g = Lowest /\ g \notin Open /\ c = Head(backlog)
  BY <1>2, <1>4
<1>6. /\ \A f \in Fds : conn'[f] = IF f = g THEN c ELSE conn[f]
      /\ \A f \in Fds : timer'[f] = IF f = g THEN t ELSE timer[f]
      /\ \A f \in Fds : quiet'[f] = IF f = g THEN 0 ELSE quiet[f]
  BY <1>1, <1>5 DEF NetTypes, TimerTypes, HistoryTypes
<1>7. Open' = Open \cup {g} /\ Open \subseteq Fds
  BY <1>5, <1>6, IdleAssumption DEF Open
<1>8. /\ t \notin heap /\ t \notin ToSet(list) /\ heap' = heap \cup {t}
      /\ heap' \subseteq Timers /\ list' \in Seq(heap') /\ IsInjective(list')
      /\ left' \in [Timers -> 0..Lifetime] /\ data' \in [Timers -> Fds \cup {Stray, None}]
      /\ left'[t] = Lifetime /\ data'[t] = g
      /\ \A u \in Timers : u # t => left'[u] = left[u] /\ data'[u] = data[u]
      /\ ToSet(list') = ToSet(list) \cup {t} /\ ToSet(list) \subseteq heap
      /\ Ordered'
  BY <1>1, <1>4, <1>5, TimerAdded
<1>9. heap \subseteq Timers /\ Lifetime \in Nat
  BY <1>1, IdleAssumption DEF TimerTypes, Lifetime
<1>10. NetTypes' /\ SigTypes' /\ HistoryTypes'
  <2>1. conn' \in [Fds -> Clients \cup {None}]
    BY <1>1, <1>5 DEF NetTypes
  <2>2. quiet' \in [Fds -> 0..Lifetime]
    BY <1>1, <1>5, <1>9 DEF HistoryTypes
  <2> QED  BY <1>1, <1>2, <2>1, <2>2 DEF NetTypes, SigTypes, HistoryTypes, sigVars
<1>11. LoopTypes'
  BY <1>1, EntryTypes DEF LoopTypes
<1>12. TimerTypes'
  <2>1. timer' \in [Fds -> Timers \cup {None}]
    BY <1>1 DEF TimerTypes
  <2> QED  BY <1>1, <1>8, <2>1 DEF TimerTypes
<1>13. Owned'
  <2> SUFFICES ASSUME NEW f \in Open'
               PROVE  /\ timer'[f] \in heap' /\ data'[timer'[f]] = f
                      /\ quiet'[f] + left'[timer'[f]] = Lifetime
    BY DEF Owned
  <2>1. CASE f = g
    BY <1>5, <1>6, <1>8, <1>9, <2>1
  <2>2. CASE f # g
    <3>1. f \in Open /\ f \in Fds
      BY <1>7, <2>2
    <3>2. timer[f] \in heap /\ data[timer[f]] = f /\ quiet[f] + left[timer[f]] = Lifetime
      BY <1>1, <3>1 DEF Owned
    <3> QED  BY <1>6, <1>8, <1>9, <2>2, <3>1, <3>2
  <2> QED  BY <2>1, <2>2
<1>14. Listed'
  <2> SUFFICES ASSUME NEW u \in ToSet(list'), data'[u] # Stray
               PROVE  data'[u] \in Open' /\ timer'[data'[u]] = u
    BY DEF Listed
  <2>1. CASE u = t
    BY <1>5, <1>6, <1>7, <1>8, <2>1
  <2>2. CASE u # t
    <3>1. u \in ToSet(list) /\ u \in Timers /\ data'[u] = data[u]
      BY <1>8, <1>9, <2>2
    <3>2. data[u] \in Open /\ timer[data[u]] = u
      BY <1>1, <3>1 DEF Listed
    <3> QED  BY <1>5, <1>6, <1>7, <3>1, <3>2
  <2> QED  BY <2>1, <2>2
<1>15. AllListed'
  <2> SUFFICES ASSUME ~stale, NEW f \in Open' PROVE timer'[f] \in ToSet(list')
    BY <1>1 DEF AllListed
  <2>1. CASE f = g
    BY <1>5, <1>6, <1>8, <2>1
  <2>2. CASE f # g
    <3>1. f \in Open /\ f \in Fds /\ timer[f] \in ToSet(list)
      BY <1>1, <1>7, <2>2 DEF AllListed
    <3> QED  BY <1>6, <1>8, <2>2, <3>1
  <2> QED  BY <2>1, <2>2
<1>16. RoomLeft'
  <2>1. Cardinality(Open') = Cardinality(Open) + 1
    BY <1>3, <1>5, <1>7, FS_AddElement
  <2> QED  BY <1>1, <1>2, <1>3, <2>1 DEF RoomLeft
<1> QED  BY <1>8, <1>10, <1>11, <1>12, <1>13, <1>14, <1>15, <1>16 DEF IdleInv, TypeOK, TimersRight

\* The timer of a connection that is heard of moves to its place in the list.
LEMMA DataRead == ASSUME IdleInv, NEW f \in Fds, ReadData(f) PROVE IdleInv'
<1>1. /\ UNCHANGED <<came, backlog, listenedge, conn, eof, edge, sent, timeout, stop,
                     sigVars, termed, lost, stale, heap, data, timer>>
      /\ Entry(f) /\ f \in Open /\ inbox' = [inbox EXCEPT ![f] = FALSE]
      /\ ret' \in 1..Len(evs) /\ quiet' = [quiet EXCEPT ![f] = 0]
      /\ NetTypes /\ LoopTypes /\ SigTypes /\ HistoryTypes /\ TimerTypes
      /\ Owned /\ Listed /\ AllListed /\ RoomLeft
  BY DEF ReadData, AdjustTimer, IdleInv, TypeOK, TimersRight
<1>2. PICK t \in Timers : t = timer[f] /\ t \in heap /\ data[t] = f
  BY <1>1 DEF Owned, TimerTypes
<1>3. /\ left' = [left EXCEPT ![t] = Lifetime]
      /\ list' = SortFlush(IF Contains(list, t) THEN list ELSE Append(list, t), left')
  BY <1>2 DEF ReadData, AdjustTimer
<1>4. Lifetime \in Nat
  BY IdleAssumption DEF Lifetime
<1>5. /\ left' \in [Timers -> 0..Lifetime] /\ left'[t] = Lifetime
      /\ \A u \in Timers : u # t => left'[u] = left[u]
  <2>1. left \in [Timers -> 0..Lifetime]
    BY <1>1 DEF TimerTypes
  <2> QED  BY <1>3, <1>4, <2>1
<1>6. heap \subseteq Timers /\ list \in Seq(heap) /\ IsInjective(list)
  BY <1>1 DEF TimerTypes
<1>7. Contains(list, t) <=> t \in ToSet(list)
  BY <1>6 DEF Contains, ToSet
<1> DEFINE l == IF Contains(list, t) THEN list ELSE Append(list, t)
<1>8. l \in Seq(heap) /\ IsInjective(l) /\ ToSet(l) = ToSet(list) \cup {t}
  <2>1. CASE t \in ToSet(list)
    BY <1>6, <1>7, <2>1
  <2>2. CASE t \notin ToSet(list)
    <3>1. l = Append(list, t)
      BY <1>7, <2>2
    <3> QED  BY <1>2, <1>6, <2>2, <3>1, TimerAppended
  <2> QED  BY <2>1, <2>2
<1>9. list' = SortFlush(l, left')
  BY <1>3
<1> HIDE DEF l
<1>10. \A u \in heap : left'[u] \in Nat
  BY <1>4, <1>5, <1>6
<1>11. /\ list' \in Seq(heap) /\ ToSet(list') = ToSet(list) \cup {t} /\ IsInjective(list')
       /\ \A p, q \in 1..Len(list') : p < q => left'[list'[p]] <= left'[list'[q]]
  BY <1>8, <1>9, <1>10, SortedList
<1>12. Open' = Open
  BY <1>1 DEF Open
<1>13. NetTypes' /\ SigTypes' /\ HistoryTypes'
  <2>1. inbox' \in [Fds -> BOOLEAN]
    BY <1>1 DEF NetTypes
  <2>2. quiet' \in [Fds -> 0..Lifetime]
    BY <1>1, <1>4 DEF HistoryTypes
  <2> QED  BY <1>1, <2>1, <2>2 DEF NetTypes, SigTypes, HistoryTypes, sigVars
<1>14. LoopTypes'
  <2>1. ret' \in Nat
    BY <1>1 DEF LoopTypes
  <2> QED  BY <1>1, <2>1, EntryTypes DEF LoopTypes
<1>15. TimerTypes'
  BY <1>1, <1>5, <1>11 DEF TimerTypes
<1>16. Owned'
  <2> SUFFICES ASSUME NEW g \in Open
               PROVE  /\ timer[g] \in heap /\ data[timer[g]] = g
                      /\ quiet'[g] + left'[timer[g]] = Lifetime
    BY <1>1, <1>12 DEF Owned
  <2>1. timer[g] \in heap /\ data[timer[g]] = g /\ quiet[g] + left[timer[g]] = Lifetime /\ g \in Fds
    BY <1>1 DEF Owned, Open
  <2>2. \A e \in Fds : quiet'[e] = IF e = f THEN 0 ELSE quiet[e]
    BY <1>1 DEF HistoryTypes
  <2>3. CASE g = f
    BY <1>2, <1>4, <1>5, <2>1, <2>2, <2>3
  <2>4. CASE g # f
    <3>1. timer[g] # t /\ timer[g] \in Timers
      BY <1>2, <1>6, <2>1, <2>4
    <3> QED  BY <1>5, <2>1, <2>2, <2>4, <3>1
  <2> QED  BY <2>3, <2>4
<1>17. Listed'
  BY <1>1, <1>2, <1>11, <1>12 DEF Listed
<1>18. AllListed'
  BY <1>1, <1>11, <1>12 DEF AllListed
<1>19. Ordered'
  BY <1>11 DEF Ordered
<1>20. RoomLeft'
  BY <1>1, <1>12 DEF RoomLeft
<1> QED  BY <1>13, <1>14, <1>15, <1>16, <1>17, <1>18, <1>19, <1>20
         DEF IdleInv, TypeOK, TimersRight

\* Who is closed is not open; the others stay as they are.
LEMMA Closed ==
  ASSUME IdleInv, NEW F, TimeCallback(F), UNCHANGED <<came, backlog, listenedge, sent>>
  PROVE  /\ NetTypes' /\ Open' = Open \ F /\ RoomLeft'
<1>1. NetTypes /\ RoomLeft
  BY DEF IdleInv, TypeOK
<1>2. /\ conn' = [f \in Fds |-> IF f \in F THEN None ELSE conn[f]]
      /\ inbox' = [f \in Fds |-> f \notin F /\ inbox[f]]
      /\ eof' = [f \in Fds |-> f \notin F /\ eof[f]]
      /\ edge' = [f \in Fds |-> f \notin F /\ edge[f]]
  BY DEF TimeCallback
<1>3. conn' \in [Fds -> Clients \cup {None}]
  BY <1>1, <1>2 DEF NetTypes
<1>4. inbox' \in [Fds -> BOOLEAN] /\ eof' \in [Fds -> BOOLEAN] /\ edge' \in [Fds -> BOOLEAN]
  BY <1>2
<1>5. NetTypes'
  BY <1>1, <1>3, <1>4 DEF NetTypes
<1>6. Open' = Open \ F
  BY <1>2 DEF Open
<1>7. RoomLeft'
  <2>1. IsFiniteSet(Open)
    BY IdleAssumption, FS_Subset DEF Open
  <2>2. Cardinality(Open') <= Cardinality(Open)
    BY <1>6, <2>1, FS_Subset
  <2>3. IsFiniteSet(Open') /\ Cardinality(Open) \in Nat /\ Cardinality(Open') \in Nat
        /\ Cardinality(Fds) \in Nat /\ Len(backlog) \in Nat
    BY <1>1, <1>6, <2>1, IdleAssumption, FS_Subset, FS_CardinalityType DEF NetTypes
  <2> QED  BY <1>1, <2>2, <2>3 DEF RoomLeft
<1> QED  BY <1>5, <1>6, <1>7

\* A connection ends, and its timer leaves the list.
LEMMA EndRead == ASSUME IdleInv, NEW f \in Fds, ReadEnd(f) PROVE IdleInv'
<1>1. /\ UNCHANGED <<came, backlog, listenedge, sent, timeout, stop, sigVars, quiet, termed, lost,
                     heap, left, data, timer>>
      /\ Entry(f) /\ ret' = 0 /\ TimeCallback({f}) /\ list' = RemoveFirst(list, timer[f])
      /\ LoopTypes /\ SigTypes /\ HistoryTypes /\ TimerTypes
      /\ Owned /\ Listed /\ AllListed /\ Ordered
  BY DEF ReadEnd, DelTimer, IdleInv, TypeOK, TimersRight
<1>2. stale' \in BOOLEAN /\ (~stale' => ~stale /\ f \in Open)
  <2>1. stale' = (stale \/ f \notin Open)
    BY DEF ReadEnd
  <2> QED  BY <2>1, Zenon
<1>3. NetTypes' /\ Open' = Open \ {f} /\ RoomLeft'
  BY <1>1, Closed
<1>4. heap \subseteq Timers /\ list \in Seq(heap) /\ IsInjective(list)
  BY <1>1 DEF TimerTypes
<1>5. /\ list' \in Seq(heap) /\ IsInjective(list') /\ ToSet(list') = ToSet(list) \ {timer[f]}
      /\ \A p, q \in 1..Len(list') : p < q =>
            \E i, j \in 1..Len(list) : i < j /\ list'[p] = list[i] /\ list'[q] = list[j]
  <2>1. list' = RemoveFirst(list, timer[f])
    BY <1>1
  <2>2. PICK l, r, t : l = list /\ r = list' /\ t = timer[f]
    OBVIOUS
  <2>3. l \in Seq(heap) /\ IsInjective(l) /\ r = RemoveFirst(l, t)
    BY <1>4, <2>1, <2>2
  <2>4. r \in Seq(heap) /\ IsInjective(r) /\ ToSet(r) = ToSet(l) \ {t}
    BY <2>3, RemovedFromList
  <2>5. \A p, q \in 1..Len(r) : p < q =>
           \E i, j \in 1..Len(l) : i < j /\ r[p] = l[i] /\ r[q] = l[j]
    BY <2>3, RemovedFromList
  <2> QED  BY <2>2, <2>4, <2>5
<1>6. SigTypes' /\ HistoryTypes' /\ TimerTypes'
  BY <1>1, <1>2, <1>5 DEF SigTypes, HistoryTypes, TimerTypes, sigVars
<1>7. LoopTypes'
  BY <1>1, EntryTypes DEF LoopTypes
<1>8. Owned'
  BY <1>1, <1>3 DEF Owned
<1>9. Listed'
  BY <1>1, <1>3, <1>5 DEF Listed
<1>10. AllListed'
  <2> SUFFICES ASSUME ~stale', NEW g \in Open, g # f PROVE timer[g] \in ToSet(list')
    BY <1>1, <1>3 DEF AllListed
  <2>1. timer[g] \in ToSet(list) /\ data[timer[g]] = g /\ data[timer[f]] = f
    BY <1>1, <1>2 DEF AllListed, Owned
  <2> QED  BY <1>5, <2>1
<1>11. Ordered'
  <2> SUFFICES ASSUME NEW p \in 1..Len(list'), NEW q \in 1..Len(list'), p < q
               PROVE  left[list'[p]] <= left[list'[q]]
    BY <1>1 DEF Ordered
  <2>1. PICK i, j \in 1..Len(list) : i < j /\ list'[p] = list[i] /\ list'[q] = list[j]
    BY <1>5
  <2> QED  BY <1>1, <2>1 DEF Ordered
<1> QED  BY <1>3, <1>6, <1>7, <1>8, <1>9, <1>10, <1>11 DEF IdleInv, TypeOK, TimersRight

\* tick() deletes the first timers of the list, up to one that has not expired.
LEMMA DueAreFirst ==
  ASSUME IdleInv,
         NEW due, due = {i \in 1..Len(list) : \A j \in 1..i : left[list[j]] = 0}
  PROVE  LET n == Cardinality(due)
         IN  /\ n \in 0..Len(list) /\ due = 1..n
             /\ \A i \in 1..n : left[list[i]] = 0
             /\ n < Len(list) => left[list[n + 1]] # 0
<1> DEFINE L == Len(list)
           Z(i) == left[list[i]] = 0
           S == {i \in 1..L + 1 : i = L + 1 \/ ~Z(i)}
<1>1. L \in Nat
  BY DEF IdleInv, TypeOK, TimerTypes
<1>2. due = {i \in 1..L : \A j \in 1..i : Z(j)}
  OBVIOUS
<1> HIDE DEF L, Z
<1>3. S \subseteq Nat /\ S # {}
  <2>1. L + 1 \in S
    BY <1>1
  <2> QED  BY <1>1, <2>1
<1>4. PICK m \in S : \A i \in S : m <= i
  BY <1>3, LeastNumber
<1>5. m \in 1..L + 1 /\ (m = L + 1 \/ ~Z(m)) /\ \A i \in 1..L : i < m => Z(i)
  <2>1. m \in 1..L + 1 /\ (m = L + 1 \/ ~Z(m))
    BY <1>4
  <2>2. ASSUME NEW i \in 1..L, i < m PROVE Z(i)
    <3>1. i \notin S
      BY <1>1, <1>4, <2>1, <2>2
    <3> QED  BY <1>1, <3>1
  <2> QED  BY <2>1, <2>2
<1>6. due = 1..m - 1
  <2>1. ASSUME NEW i \in due PROVE i \in 1..m - 1
    <3>1. i \in 1..L /\ \A j \in 1..i : Z(j)
      BY <1>2, <2>1
    <3>2. m \notin 1..i
      BY <1>1, <1>5, <3>1
    <3> QED  BY <1>1, <1>5, <3>1, <3>2
  <2>2. ASSUME NEW i \in 1..m - 1 PROVE i \in due
    <3>1. i \in 1..L /\ \A j \in 1..i : j \in 1..L /\ j < m
      BY <1>1, <1>5, <2>2
    <3>2. \A j \in 1..i : Z(j)
      BY <1>5, <3>1
    <3> QED  BY <1>2, <3>1, <3>2
  <2> QED  BY <2>1, <2>2
<1>7. Cardinality(due) = m - 1
  <2>1. m - 1 \in Nat
    BY <1>1, <1>5
  <2>2. Cardinality(1..m - 1) = m - 1
    BY <2>1, FS_Interval
  <2> QED  BY <1>6, <2>2
<1>8. m - 1 \in 0..L /\ (\A i \in 1..m - 1 : Z(i)) /\ (m - 1 < L => ~Z(m - 1 + 1))
  BY <1>1, <1>5
<1> QED  BY <1>6, <1>7, <1>8 DEF L, Z

\* tick() closes the connections that have been silent, and leaves no expired timer.
LEMMA Ticks ==
  ASSUME IdleInv, TimerHandler
  PROVE  /\ IdleInv'
         /\ \A f \in Open : conn'[f] = None => quiet[f] = Lifetime
         /\ \A t \in ToSet(list') : left'[t] > 0
<1> DEFINE due == {i \in 1..Len(list) : \A j \in 1..i : left[list[j]] = 0}
<1>1. /\ UNCHANGED <<came, backlog, listenedge, sent, evs, filled, pos, ret, stop,
                     sigpipe, sigedge, left, timer, history>>
      /\ alarm' = TIMESLOT /\ timeout' = FALSE /\ pc' = "wait"
      /\ LoopTypes /\ SigTypes /\ HistoryTypes /\ TimerTypes
      /\ Owned /\ Listed /\ AllListed /\ Ordered
  BY DEF TimerHandler, IdleInv, TypeOK, TimersRight
<1>2. PICK n : /\ n = Cardinality(due) /\ n \in 0..Len(list) /\ due = 1..n
               /\ \A i \in 1..n : left[list[i]] = 0
               /\ n < Len(list) => left[list[n + 1]] # 0
  BY DueAreFirst
<1>3. /\ TimeCallback({data[list[i]] : i \in due})
      /\ heap' = heap \ {list[i] : i \in due}
      /\ list' = SubSeq(list, n + 1, Len(list))
      /\ data' = [t \in Timers |-> IF t \in heap' THEN data[t] ELSE None]
  BY <1>2 DEF TimerHandler
<1> HIDE DEF due
<1> DEFINE D == {list[i] : i \in 1..n}
           F == {data[list[i]] : i \in 1..n}
<1>4. /\ TimeCallback(F) /\ heap' = heap \ D
      /\ data' = [t \in Timers |-> IF t \in heap' THEN data[t] ELSE None]
  BY <1>2, <1>3
<1>5. /\ heap \subseteq Timers /\ list \in Seq(heap) /\ Len(list) \in Nat /\ DOMAIN list = 1..Len(list)
      /\ \A i, j \in 1..Len(list) : list[i] = list[j] => i = j
      /\ \A i \in 1..Len(list) : list[i] \in heap
      /\ data \in [Timers -> Fds \cup {Stray, None}] /\ left \in [Timers -> 0..Lifetime]
      /\ n \in Nat /\ n <= Len(list)
  BY <1>1, <1>2 DEF TimerTypes, IsInjective
<1>6. /\ Len(list') = Len(list) - n /\ DOMAIN list' = 1..Len(list) - n
      /\ \A p \in 1..Len(list) - n : list'[p] = list[n + p] /\ n + p \in 1..Len(list)
      /\ list' \in Seq(heap)
  <2>1. n + 1 \in Int /\ Len(list) \in Int /\ \A i \in n + 1..Len(list) : list[i] \in heap
    BY <1>5
  <2>2. /\ list' \in Seq(heap)
        /\ Len(list') = IF n + 1 <= Len(list) THEN Len(list) - (n + 1) + 1 ELSE 0
        /\ \A i \in 1..Len(list) - (n + 1) + 1 : list'[i] = list[n + 1 + i - 1]
    BY <1>3, <2>1, SubSeqProperties
  <2>3. /\ Len(list) - (n + 1) + 1 = Len(list) - n
        /\ \A p \in 1..Len(list) - n : n + 1 + p - 1 = n + p /\ n + p \in 1..Len(list)
        /\ (n + 1 <= Len(list) \/ Len(list) - n = 0)
    <3>1. n \in Nat /\ Len(list) \in Nat /\ n <= Len(list)
      BY <1>5
    <3>2. \A p \in 1..Len(list) - n : n + 1 + p - 1 = n + p /\ n + p \in 1..Len(list)
      BY <3>1
    <3> QED  BY <3>1, <3>2
  <2> QED  BY <2>2, <2>3
<1> HIDE DEF D, F
<1>7. ToSet(list') = ToSet(list) \ D
  <2>1. ToSet(list) = {list[i] : i \in 1..Len(list)}
        /\ ToSet(list') = {list'[p] : p \in 1..Len(list) - n}
    BY <1>5, <1>6 DEF ToSet
  <2>2. ASSUME NEW p \in 1..Len(list) - n PROVE list'[p] \in ToSet(list) /\ list'[p] \notin D
    <3>1. list'[p] = list[n + p] /\ n + p \in 1..Len(list) /\ n + p \notin 1..n
      <4>1. list'[p] = list[n + p] /\ n + p \in 1..Len(list)
        BY <1>6
      <4>2. n \in Nat /\ Len(list) \in Nat
        BY <1>5
      <4>3. n + p \notin 1..n
        BY <4>2
      <4> QED  BY <4>1, <4>3
    <3>2. \A i \in 1..n : i \in 1..Len(list)
      BY <1>5
    <3> QED  BY <1>5, <2>1, <3>1, <3>2 DEF D
  <2>3. ASSUME NEW i \in 1..Len(list), list[i] \notin D
        PROVE  \E p \in 1..Len(list) - n : list'[p] = list[i]
    <3>1. i \notin 1..n
      BY <2>3 DEF D
    <3>2. i - n \in 1..Len(list) - n /\ n + (i - n) = i
      BY <1>5, <3>1
    <3> QED  BY <1>6, <3>2
  <2> QED  BY <2>1, <2>2, <2>3
<1>8. /\ \A t \in ToSet(list) : t \in heap
      /\ \A t \in D : t \in ToSet(list) /\ left[t] = 0 /\ data[t] \in F
      /\ \A f \in F : \E t \in D : data[t] = f
  BY <1>2, <1>5 DEF D, F, ToSet
<1>9. NetTypes' /\ Open' = Open \ F /\ RoomLeft'
  BY <1>1, <1>4, Closed
<1>10. \A t \in heap' : t \in Timers /\ t \in heap /\ t \notin D /\ data'[t] = data[t]
  BY <1>4, <1>5
<1>11. \A t \in ToSet(list') : t \in heap'
  BY <1>4, <1>7, <1>8
<1>12. LoopTypes' /\ SigTypes' /\ HistoryTypes'
  <2>1. timeout' \in BOOLEAN
    BY <1>1, Zenon
  <2>2. SigTypes'
    BY <1>1, IdleAssumption DEF SigTypes
  <2> QED  BY <1>1, <2>1, <2>2 DEF LoopTypes, HistoryTypes, history
<1>13. TimerTypes'
  <2>1. list' \in Seq(heap')
    <3>1. \A p \in 1..Len(list') : list'[p] \in heap'
      BY <1>6, <1>11 DEF ToSet
    <3> QED  BY <1>6, <3>1
  <2>2. IsInjective(list')
    <3> SUFFICES ASSUME NEW p \in 1..Len(list) - n, NEW q \in 1..Len(list) - n, list'[p] = list'[q]
                 PROVE  p = q
      BY <1>6 DEF IsInjective
    <3>1. n + p = n + q
      BY <1>5, <1>6
    <3> QED  BY <1>5, <3>1
  <2>3. data' \in [Timers -> Fds \cup {Stray, None}]
    BY <1>4, <1>5
  <2>4. heap' \subseteq Timers
    BY <1>10
  <2> QED  BY <1>1, <2>1, <2>2, <2>3, <2>4 DEF TimerTypes
<1>14. Owned'
  <2> SUFFICES ASSUME NEW g \in Open, g \notin F
               PROVE  /\ timer[g] \in heap' /\ data'[timer[g]] = g
                      /\ quiet[g] + left[timer[g]] = Lifetime
    BY <1>1, <1>9 DEF Owned, history
  <2>1. timer[g] \in heap /\ data[timer[g]] = g /\ quiet[g] + left[timer[g]] = Lifetime
    BY <1>1 DEF Owned
  <2>2. timer[g] \in heap'
    BY <1>4, <1>8, <2>1
  <2> QED  BY <1>10, <2>1, <2>2
<1>15. Listed'
  <2> SUFFICES ASSUME NEW t \in ToSet(list'), data'[t] # Stray
               PROVE  data'[t] \in Open' /\ timer[data'[t]] = t
    BY <1>1 DEF Listed
  <2>1. t \in ToSet(list) /\ t \notin D /\ data'[t] = data[t]
    BY <1>7, <1>10, <1>11
  <2>2. data[t] \in Open /\ timer[data[t]] = t
    BY <1>1, <2>1 DEF Listed
  <2>3. data[t] \notin F
    <3> SUFFICES ASSUME data[t] \in F PROVE FALSE
      OBVIOUS
    <3>1. PICK u \in D : data[u] = data[t]
      BY <1>8
    <3>2. timer[data[u]] = u
      BY <1>1, <1>8, <2>1, <3>1 DEF Listed
    <3> QED  BY <2>1, <2>2, <3>1, <3>2
  <2> QED  BY <1>9, <2>1, <2>2, <2>3
<1>16. AllListed'
  <2> SUFFICES ASSUME ~stale, NEW g \in Open, g \notin F PROVE timer[g] \in ToSet(list')
    BY <1>1, <1>9 DEF AllListed, history
  <2>1. timer[g] \in ToSet(list) /\ data[timer[g]] = g
    BY <1>1 DEF AllListed, Owned
  <2> QED  BY <1>7, <1>8, <2>1
<1>17. Ordered'
  <2> SUFFICES ASSUME NEW p \in 1..Len(list) - n, NEW q \in 1..Len(list) - n, p < q
               PROVE  left[list'[p]] <= left[list'[q]]
    BY <1>1, <1>6 DEF Ordered
  <2>1. n + p \in 1..Len(list) /\ n + q \in 1..Len(list) /\ n + p < n + q
    BY <1>5, <1>6
  <2> QED  BY <1>1, <1>6, <2>1 DEF Ordered
<1>18. ASSUME NEW f \in Open, conn'[f] = None PROVE quiet[f] = Lifetime
  <2>1. f \in F /\ f \in Fds /\ f # Stray
    BY <1>9, <1>18, IdleAssumption DEF Open
  <2>2. PICK t \in D : data[t] = f
    BY <1>8, <2>1
  <2>3. timer[f] = t /\ left[t] = 0
    BY <1>1, <1>8, <2>1, <2>2 DEF Listed
  <2>4. quiet[f] + left[timer[f]] = Lifetime /\ quiet[f] \in Nat
    BY <1>1, <2>1 DEF Owned, HistoryTypes
  <2> QED  BY <2>3, <2>4
<1>19. ASSUME NEW t \in ToSet(list') PROVE left'[t] > 0
  <2>1. PICK p \in 1..Len(list) - n : list'[p] = t
    BY <1>6 DEF ToSet
  <2>2. n < Len(list) /\ n + 1 \in 1..Len(list) /\ n + p \in 1..Len(list) /\ (p = 1 \/ n + 1 < n + p)
    BY <1>5, <2>1
  <2>3. left[list[n + 1]] \in Nat /\ left[list[n + p]] \in Nat /\ left[list[n + 1]] # 0
    BY <1>2, <1>5, <2>2
  <2>4. left[list[n + 1]] <= left[list[n + p]]
    BY <1>1, <2>2, <2>3 DEF Ordered
  <2> QED  BY <1>1, <1>6, <2>1, <2>3, <2>4
<1> QED  BY <1>9, <1>12, <1>13, <1>14, <1>15, <1>16, <1>17, <1>18, <1>19
         DEF IdleInv, TypeOK, TimersRight

LEMMA IdleInvariant == IdleInv /\ [Next]_vars => IdleInv'
<1> SUFFICES ASSUME IdleInv, [Next]_vars PROVE IdleInv'
  OBVIOUS
<1>1. CASE UNCHANGED vars
  <2>1. UNCHANGED <<netVars, loopVars, sigVars, heap, list, left, data, timer, history>>
    BY <1>1 DEF vars, timerVars
  <2>2. TimerTypes' /\ TimersRight' /\ RoomLeft'
    BY <2>1, TimersKeep DEF netVars, history
  <2>3. NetTypes' /\ LoopTypes' /\ SigTypes' /\ HistoryTypes'
    BY <2>1 DEF IdleInv, TypeOK, NetTypes, LoopTypes, SigTypes, HistoryTypes,
                netVars, loopVars, sigVars, history
  <2> QED  BY <2>2, <2>3 DEF IdleInv, TypeOK
<1>2. CASE Next
  BY <1>2, ClientKeeps, ElapseKeeps, WaitKeeps, LoopKeeps, StrayAdded, ConnectionAccepted,
     DataRead, EndRead, Ticks DEF Next, ServerStep
<1> QED  BY <1>1, <1>2

LEMMA IdleInvAlways == Spec => []IdleInv
  BY IdleInitial, IdleInvariant, PTL DEF Spec

(***************************************************************************)
(* Every open connection has one timer in the list, its own, and the list  *)
(* has no other timers than those of open connections and failed accepts,  *)
(* unless a descriptor was closed twice (81_timer, timeout_server_test).   *)
(***************************************************************************)
THEOREM TimersAreRight == Spec => []TimersMatch
<1>1. IdleInv => TimersMatch
  <2> SUFFICES ASSUME IdleInv PROVE TimersMatch
    OBVIOUS
  <2>1. TypeOK /\ Owned /\ Listed /\ AllListed /\ list \in Seq(heap)
    BY DEF IdleInv, TimersRight, TypeOK, TimerTypes
  <2>2. \A t : t \in ToSet(list) => Contains(list, t)
    BY <2>1 DEF ToSet, Contains
  <2> QED  BY <2>1, <2>2 DEF TimersMatch, Owned, Listed, AllListed
<1> QED  BY <1>1, IdleInvAlways, PTL

\* What a step other than tick() does while tick() is to be called.
LEMMA OnlyTicks ==
  ASSUME [Next]_vars, pc = "timers"
  PROVE  TimerHandler \/ UNCHANGED <<conn, pc>>
  BY DEF Next, ServerStep, Connect, Send, HangUp, Terminate, Elapse, Wait, Exit, ReadSignals,
         BatchEnds, Accept, AcceptFails, ReadData, ReadAgain, ReadEnd, Entry,
         vars, netVars, loopVars

(***************************************************************************)
(* tick() closes no connection from which data was read less than          *)
(* 3 * TIMESLOT seconds ago, though timers are adjusted, deleted and their *)
(* addresses used again.                                                   *)
(***************************************************************************)
THEOREM ActiveAreKept == Spec => OnlyTheIdle
<1>1. ASSUME IdleInv, [Next]_vars
      PROVE  [\A f \in Open : pc = "timers" /\ conn'[f] = None => quiet[f] = Lifetime]_vars
  BY <1>1, Ticks, OnlyTicks DEF Open
<1> QED  BY <1>1, IdleInvAlways, PTL DEF Spec, OnlyTheIdle

(***************************************************************************)
(* The list is sorted after every operation, so that tick(), which stops   *)
(* at the first timer that has not expired, leaves none that has.          *)
(***************************************************************************)
THEOREM OverdueAreGone == Spec => NothingOverdue
<1>1. ASSUME IdleInv, [Next]_vars
      PROVE  [pc = "timers" /\ pc' = "wait" => \A t \in ToSet(list') : left'[t] > 0]_vars
  BY <1>1, Ticks, OnlyTicks
<1> QED  BY <1>1, IdleInvAlways, PTL DEF Spec, NothingOverdue
=============================================================================
