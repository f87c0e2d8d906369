----------------------------- MODULE OrderingProofs -----------------------------
(***************************************************************************)
(* What is proved of the ranks of a group, for any number of entries.      *)
(* First what each update of the column does, to any ranks and to ranks    *)
(* in order; then the types, whatever is interleaved; then, for requests   *)
(* served one at a time, which steps keep the order.                       *)
(***************************************************************************)
EXTENDS Ordering, BoundedNaturals, FiniteSetTheorems

\* The ranks r of the entries K go from 0 to the last without a hole or a tie.
InOrder(r, K) ==
    /\ \A j, k \in K : r[j] = r[k] => j = k
    /\ \A k \in K : \A p \in 0 .. r[k] : \E j \in K : r[j] = p

--------------------------------------------------------------------------------
(***************************************************************************)
(* Lemmas on the column, when ranks are in order.                          *)
(***************************************************************************)
\* There are more entries than the rank of any of them.
LEMMA RankBelowCount ==
    ASSUME NEW D, IsFiniteSet(D), NEW r \in [D -> Nat], InOrder(r, D), NEW k \in D
    PROVE  r[k] < Cardinality(D)
<1> DEFINE g == [p \in 0 .. r[k] |-> CHOOSE j \in D : r[j] = p]
<1>1. \A p \in 0 .. r[k] : g[p] \in D /\ r[g[p]] = p
  BY DEF InOrder
<1>2. g \in Injection(0 .. r[k], D)
  <2>1. g \in [0 .. r[k] -> D]
    BY <1>1
  <2>2. \A p, q \in 0 .. r[k] : g[p] = g[q] => p = q
    BY <1>1
  <2> QED
    BY <2>1, <2>2 DEF Injection, IsInjective
<1>3. Cardinality(0 .. r[k]) <= Cardinality(D)
  BY <1>2, FS_Injection
<1>4. Cardinality(0 .. r[k]) = r[k] + 1
  BY FS_Interval
<1>5. Cardinality(D) \in Nat
  BY FS_CardinalityType
<1> QED
  BY <1>3, <1>4, <1>5

\* validate_position lets in ranks that an entry has.
LEMMA TargetIsTaken ==
    ASSUME NEW D, IsFiniteSet(D), NEW r \in [D -> Nat], InOrder(r, D),
           NEW t \in Nat, t < Cardinality(D)
    PROVE  \E j \in D : r[j] = t
<1> SUFFICES ASSUME \A j \in D : r[j] # t PROVE FALSE
  OBVIOUS
<1>1. \A j \in D : r[j] < t
  <2> SUFFICES ASSUME NEW j \in D, t <= r[j] PROVE FALSE
    OBVIOUS
  <2>1. t \in 0 .. r[j]
    OBVIOUS
  <2> QED
    BY <2>1 DEF InOrder
<1>2. r \in Injection(D, 0 .. t - 1)
  <2>1. r \in [D -> 0 .. t - 1]
    BY <1>1
  <2> QED
    BY <2>1 DEF Injection, IsInjective, InOrder
<1>3. IsFiniteSet(0 .. t - 1) /\ Cardinality(0 .. t - 1) = IF 0 > t - 1 THEN 0 ELSE t - 1 - 0 + 1
  BY FS_Interval
<1>4. Cardinality(D) <= Cardinality(0 .. t - 1)
  BY <1>2, <1>3, FS_Injection
<1>5. Cardinality(D) \in Nat
  BY FS_CardinalityType
<1> QED
  BY <1>3, <1>4, <1>5

\* get_next_order is one past the last rank.
LEMMA NextRankIsFree ==
    ASSUME NEW D, IsFiniteSet(D), NEW r \in [D -> Nat], InOrder(r, D)
    PROVE  /\ NextRank(r) \in Nat
           /\ \A k \in D : r[k] < NextRank(r)
           /\ \A p \in Nat : p < NextRank(r) => \E j \in D : r[j] = p
<1>0. DOMAIN r = D
  OBVIOUS
<1>1. CASE D = {}
  BY <1>0, <1>1 DEF NextRank
<1>2. CASE D # {}
  <2> DEFINE R == Range(r)
             n == Cardinality(D)
  <2>1. R = {r[x] : x \in D}
    BY <1>0 DEF Range
  <2>2. n \in Nat
    BY FS_CardinalityType
  <2>3. R \in SUBSET (0 .. n) /\ R # {}
    <3>1. \A x \in D : r[x] < n
      BY RankBelowCount
    <3> QED
      BY <1>2, <2>1, <2>2, <3>1
  <2>4. PICK t \in R : \A u \in R : u <= t
    BY <2>2, <2>3, LatestExists
  <2>5. Max(R) \in R /\ \A u \in R : u <= Max(R)
    <3>1. R \subseteq Nat
      BY <2>2, <2>3
    <3>2. \E x \in R : \A y \in R : x >= y
      BY <2>4, <3>1
    <3>3. Max(R) \in R /\ \A y \in R : Max(R) >= y
      BY <3>2 DEF Max
    <3> QED
      BY <3>1, <3>3
  <2>6. NextRank(r) = Max(R) + 1
    BY <1>0, <1>2 DEF NextRank
  <2> HIDE DEF R, n
  <2>7. PICK l \in D : r[l] = Max(R)
    BY <2>1, <2>5
  <2>8. \A k \in D : r[k] <= Max(R)
    BY <2>1, <2>5
  <2>9. Max(R) \in Nat
    BY <2>7
  <2>10. ASSUME NEW p \in Nat, p < Max(R) + 1 PROVE \E j \in D : r[j] = p
    <3>1. p \in 0 .. r[l]
      BY <2>7, <2>9, <2>10
    <3> QED
      BY <3>1 DEF InOrder
  <2> QED
    BY <2>6, <2>8, <2>9, <2>10
<1> QED
  BY <1>1, <1>2

\* A row that is inserted takes the rank that get_next_order finds.
LEMMA InsertKeepsOrder ==
    ASSUME NEW D, IsFiniteSet(D), NEW r \in [D -> Nat], InOrder(r, D), NEW k, k \notin D
    PROVE  /\ NextRank(r) \in Nat
           /\ Put(r, k, NextRank(r)) \in [D \cup {k} -> Nat]
           /\ Put(r, k, NextRank(r))[k] = NextRank(r)
           /\ \A x \in D : Put(r, k, NextRank(r))[x] = r[x] /\ r[x] < NextRank(r)
           /\ InOrder(Put(r, k, NextRank(r)), D \cup {k})
<1>1. PICK e \in Nat : e = NextRank(r) /\ (\A x \in D : r[x] < e)
                       /\ \A p \in Nat : p < e => \E j \in D : r[j] = p
  BY NextRankIsFree
<1> DEFINE s == Put(r, k, e)
<1>2. s \in [D \cup {k} -> Nat]
  BY DEF Put
<1>3. s[k] = e /\ \A x \in D : s[x] = r[x]
  BY DEF Put
<1> HIDE DEF s
<1>4. \A i, j \in D \cup {k} : s[i] = s[j] => i = j
  BY <1>1, <1>3 DEF InOrder
<1>5. ASSUME NEW x \in D \cup {k}, NEW p \in 0 .. s[x] PROVE \E j \in D \cup {k} : s[j] = p
  <2>1. CASE p = e
    BY <1>3, <2>1
  <2>2. CASE p # e
    <3>1. p \in Nat /\ p < e
      BY <1>1, <1>2, <1>3, <2>2
    <3> QED
      BY <1>1, <1>3, <3>1
  <2> QED
    BY <2>1, <2>2
<1>6. InOrder(s, D \cup {k})
  BY <1>4, <1>5 DEF InOrder
<1>7. s = Put(r, k, NextRank(r))
  BY <1>1 DEF s
<1> QED
  BY <1>1, <1>2, <1>3, <1>6, <1>7

\* Moving an entry to a rank that is taken keeps the ranks in order.
LEMMA MoveKeepsOrder ==
    ASSUME NEW D, NEW r \in [D -> Nat], InOrder(r, D), NEW k \in D,
           NEW t \in Nat, \E j \in D : r[j] = t
    PROVE  /\ MoveTo(r, k, r[k], t) \in [D -> Nat]
           /\ InOrder(MoveTo(r, k, r[k], t), D)
<1> DEFINE s == MoveTo(r, k, r[k], t)
           p == r[k]
<1>0. p \in Nat
  OBVIOUS
<1>1. s \in [D -> Nat] /\ s[k] = t
  BY DEF MoveTo
<1>2. \A x \in D \ {k} : s[x] = IF t <= r[x] /\ r[x] < p THEN r[x] + 1
                                ELSE IF p < r[x] /\ r[x] <= t THEN r[x] - 1 ELSE r[x]
  BY DEF MoveTo
<1> HIDE DEF s
<1>3. \A x \in D \ {k} : r[x] # p
  BY DEF InOrder
<1>4. \A i, j \in D : s[i] = s[j] => i = j
  <2> SUFFICES ASSUME NEW i \in D, NEW j \in D, s[i] = s[j] PROVE i = j
    OBVIOUS
  <2>1. \A x \in D \ {k} : s[x] # t
    BY <1>0, <1>2, <1>3
  <2>2. CASE i # k /\ j # k
    <3>1. r[i] = r[j]
      <4>1. r[i] \in Nat /\ r[j] \in Nat /\ r[i] # p /\ r[j] # p
        BY <1>3, <2>2
      <4> QED
        BY <1>0, <1>2, <2>2, <4>1
    <3> QED
      BY <3>1 DEF InOrder
  <2> QED
    BY <1>1, <2>1, <2>2
<1>5. ASSUME NEW x \in D, NEW q \in 0 .. s[x] PROVE \E j \in D : s[j] = q
  <2>1. \E m \in D : q <= r[m]
    <3>1. PICK y \in D : r[y] = t
      OBVIOUS
    <3>2. s[x] <= r[x] \/ s[x] <= p \/ s[x] <= t
      BY <1>0, <1>1, <1>2
    <3> QED
      BY <1>0, <1>1, <3>1, <3>2
  <2>2. \A v \in 0 .. q : \E j \in D : r[j] = v
    BY <2>1 DEF InOrder
  <2>3. CASE q = t
    BY <1>1, <2>3
  <2>4. CASE q # t
    <3> DEFINE v == IF t < q /\ q <= p THEN q - 1 ELSE IF p <= q /\ q < t THEN q + 1 ELSE q
    <3>1. v \in Nat /\ v # p
      BY <1>0, <2>4
    <3>2. \E j \in D : r[j] = v
      <4>1. CASE v <= q
        BY <2>2, <3>1, <4>1
      <4>2. CASE v = q + 1
        <5>1. PICK y \in D : r[y] = t
          OBVIOUS
        <5>2. v \in 0 .. r[y]
          BY <1>0, <3>1, <4>2, <5>1
        <5> QED
          BY <5>2 DEF InOrder
      <4> QED
        BY <4>1, <4>2
    <3>3. PICK j \in D : r[j] = v
      BY <3>2
    <3>4. j # k
      BY <3>1, <3>3
    <3>5. s[j] = q
      BY <1>0, <1>2, <2>4, <3>3, <3>4
    <3> QED
      BY <3>5
  <2> QED
    BY <2>3, <2>4
<1>6. InOrder(s, D)
  BY <1>4, <1>5 DEF InOrder
<1> QED
  BY <1>1, <1>6 DEF s

\* Closing up behind an entry puts the others in order.
LEMMA CloseUpKeepsOrder ==
    ASSUME NEW D, NEW r \in [D -> Nat], InOrder(r, D), NEW k \in D
    PROVE  /\ CloseUp(r, r[k]) \in [D -> Nat]
           /\ InOrder(CloseUp(r, r[k]), D \ {k})
<1> DEFINE s == CloseUp(r, r[k])
<1>1. s \in [D -> Nat] /\ \A x \in D : s[x] = IF r[x] > r[k] THEN r[x] - 1 ELSE r[x]
  BY DEF CloseUp
<1> HIDE DEF s
<1>2. \A x \in D \ {k} : r[x] # r[k]
  BY DEF InOrder
<1>3. ASSUME NEW i \in D \ {k}, NEW j \in D \ {k}, s[i] = s[j] PROVE i = j
  <2>1. r[i] = r[j]
    <3>1. r[i] \in Nat /\ r[j] \in Nat /\ r[k] \in Nat /\ r[i] # r[k] /\ r[j] # r[k]
      BY <1>2
    <3> QED
      BY <1>1, <1>3, <3>1
  <2> QED
    BY <2>1 DEF InOrder
<1>4. ASSUME NEW x \in D \ {k}, NEW q \in 0 .. s[x] PROVE \E j \in D \ {k} : s[j] = q
  <2>1. q <= r[x] /\ (q >= r[k] => q + 1 <= r[x])
    <3>1. r[x] \in Nat /\ r[k] \in Nat /\ r[x] # r[k]
      BY <1>2
    <3> QED
      BY <1>1, <1>4, <3>1
  <2>2. CASE q < r[k]
    <3>1. PICK j \in D : r[j] = q
      BY <2>1 DEF InOrder
    <3> QED
      BY <1>1, <2>2, <3>1
  <2>3. CASE q >= r[k]
    <3>1. q + 1 \in 0 .. r[x]
      BY <2>1, <2>3
    <3>2. PICK j \in D : r[j] = q + 1
      BY <3>1 DEF InOrder
    <3> QED
      BY <1>1, <2>3, <3>2
  <2> QED
    BY <2>2, <2>3
<1>5. InOrder(s, D \ {k})
  BY <1>3, <1>4 DEF InOrder
<1> QED
  BY <1>1, <1>5 DEF s

\* The lines of a kit, appended one after the other, keep the ranks in order.
LEMMA PackKeepsOrder ==
    ASSUME NEW D, NEW r \in [D -> Nat], InOrder(r, D), NEW f \in Nat, NEW n \in Nat, NEW e \in Nat,
           D \cap (f .. f + n - 1) = {},
           \A x \in D : r[x] < e,
           \A p \in Nat : p < e => \E j \in D : r[j] = p,
           NEW s,
           s = [k \in D \cup (f .. f + n - 1) |->
                   IF k \in f .. f + n - 1 THEN e + (k - f) ELSE r[k]]
    PROVE  /\ s \in [D \cup (f .. f + n - 1) -> Nat]
           /\ InOrder(s, D \cup (f .. f + n - 1))
<1> DEFINE N == f .. f + n - 1
<1>1. s \in [D \cup N -> Nat]
  OBVIOUS
<1>2. /\ \A k \in N : s[k] = e + (k - f)
      /\ \A k \in D : s[k] = r[k]
  OBVIOUS
<1>3. \A i, j \in D \cup N : s[i] = s[j] => i = j
  <2> SUFFICES ASSUME NEW i \in D \cup N, NEW j \in D \cup N, s[i] = s[j] PROVE i = j
    OBVIOUS
  <2>1. CASE i \in D /\ j \in D
    BY <1>2, <2>1 DEF InOrder
  <2>2. CASE i \in N /\ j \in N
    BY <1>2, <2>2
  <2>3. \A x \in D, y \in N : s[x] < s[y]
    BY <1>2
  <2> QED
    BY <2>1, <2>2, <2>3, <1>1
<1>4. ASSUME NEW x \in D \cup N, NEW q \in 0 .. s[x] PROVE \E j \in D \cup N : s[j] = q
  <2>1. CASE q < e
    BY <1>2, <2>1
  <2>2. CASE q >= e
    <3>1. x \in N
      BY <1>2, <2>2
    <3>2. f + (q - e) \in N /\ s[f + (q - e)] = q
      BY <1>2, <2>2, <3>1
    <3> QED
      BY <3>2
  <2>3. q < e \/ q >= e
    BY <1>1
  <2> QED
    BY <2>1, <2>2, <2>3, Zenon
<1> QED
  BY <1>1, <1>3, <1>4 DEF InOrder

--------------------------------------------------------------------------------
(***************************************************************************)
(* Lemmas on the column, whatever the ranks.                               *)
(***************************************************************************)
\* The ranks of finitely many entries have a bound.
LEMMA RanksHaveBound ==
    ASSUME NEW m \in Nat, NEW D \in SUBSET (1 .. m), NEW r \in [D -> Nat]
    PROVE  \E b \in Nat : \A k \in D : r[k] <= b
<1> DEFINE Bounded == {i \in 0 .. m : \E b \in Nat : \A k \in D : k <= i => r[k] <= b}
<1>1. Bounded \in SUBSET (0 .. m) /\ 0 \in Bounded
  OBVIOUS
<1>2. PICK i \in Bounded : \A j \in Bounded : j <= i
  BY <1>1, LatestExists
<1>3. i \in 0 .. m
  OBVIOUS
<1>4. PICK b \in Nat : \A k \in D : k <= i => r[k] <= b
  OBVIOUS
<1>5. CASE i = m
  <2>1. \A k \in D : k <= i
    BY <1>5
  <2> QED
    BY <1>4, <2>1
<1>6. CASE i # m
  <2>1. i + 1 \in 0 .. m
    BY <1>3, <1>6
  <2>2. \E c \in Nat : c >= b /\ (i + 1 \in D => c >= r[i + 1])
    BY <1>4
  <2>3. PICK c \in Nat : c >= b /\ (i + 1 \in D => c >= r[i + 1])
    BY <2>2
  <2>4. \A k \in D : k <= i + 1 => r[k] <= c
    <3> SUFFICES ASSUME NEW k \in D, k <= i + 1 PROVE r[k] <= c
      OBVIOUS
    <3>1. k <= i \/ k = i + 1
      BY <1>3
    <3>2. r[k] \in Nat
      OBVIOUS
    <3> QED
      BY <1>4, <2>3, <3>1, <3>2
  <2>5. i + 1 \in Bounded
    BY <2>1, <2>4
  <2> HIDE DEF Bounded
  <2>6. i + 1 <= i
    BY <1>2, <2>5
  <2> QED
    BY <1>3, <2>6
<1> QED
  BY <1>5, <1>6

\* get_next_order is a rank past all others, whatever the ranks of the group.
LEMMA NextRankIsARank ==
    ASSUME NEW m \in Nat, NEW D \in SUBSET (1 .. m), NEW r \in [D -> Nat]
    PROVE  NextRank(r) \in Nat /\ \A x \in D : r[x] < NextRank(r)
<1>0. DOMAIN r = D
  OBVIOUS
<1>1. CASE D = {}
  BY <1>0, <1>1 DEF NextRank
<1>2. CASE D # {}
  <2> DEFINE R == Range(r)
  <2>1. R = {r[x] : x \in D}
    BY <1>0 DEF Range
  <2>2. PICK b \in Nat : \A k \in D : r[k] <= b
    BY RanksHaveBound
  <2>3. R \in SUBSET (0 .. b) /\ R # {}
    <3>1. \A x \in D : r[x] \in 0 .. b
      BY <2>2
    <3> QED
      BY <1>2, <2>1, <3>1
  <2>4. PICK t \in R : \A u \in R : u <= t
    BY <2>3, LatestExists
  <2>5. R \subseteq Nat
    BY <2>2, <2>3
  <2>6. \E x \in R : \A y \in R : x >= y
    BY <2>4, <2>5
  <2>7. Max(R) \in R /\ \A y \in R : Max(R) >= y
    BY <2>6 DEF Max
  <2>8. NextRank(r) = Max(R) + 1
    BY <1>0, <1>2 DEF NextRank
  <2> HIDE DEF R
  <2>9. Max(R) \in Nat
    BY <2>5, <2>7, Zenon
  <2>10. \A x \in D : r[x] \in R /\ r[x] \in Nat
    BY <2>1
  <2>11. \A x \in D : r[x] <= Max(R)
    BY <2>7, <2>9, <2>10
  <2> QED
    BY <2>8, <2>9, <2>10, <2>11
<1> QED
  BY <1>1, <1>2

\* LeaveInTurn is one CloseUp after the other.
LEMMA TurnsAreTaken ==
    ASSUME NEW r, NEW ks, Len(ks) \in Nat
    PROVE  \E left : /\ left[0] = Less(r, ToSet(ks))
                     /\ \A n \in 1 .. Len(ks) : left[n] = CloseUp(left[n - 1], r[ks[n]])
                     /\ LeaveInTurn(r, ks) = left[Len(ks)]
<1>0. PICK m \in Nat : m = Len(ks)
  OBVIOUS
<1> DEFINE first == Less(r, ToSet(ks))
           Step(f, n) == IF n = 0 THEN first ELSE CloseUp(f[n - 1], r[ks[n]])
           Taken(q) == \E f : f = [n \in 0 .. q |-> Step(f, n)]
           Missing == {q \in Nat : ~ Taken(q)}
<1>1. Missing = {}
  <2> SUFFICES ASSUME Missing # {} PROVE FALSE
    OBVIOUS
  <2>1. Missing \in SUBSET Nat
    OBVIOUS
  <2>2. PICK q \in Missing : \A u \in Missing : q <= u
    BY <2>1, EarliestExists
  <2>3. CASE q = 0
    <3> DEFINE f == [n \in 0 .. 0 |-> first]
    <3>1. f = [n \in 0 .. 0 |-> Step(f, n)]
      OBVIOUS
    <3> QED
      BY <2>3, <3>1
  <2>4. CASE q # 0
    <3>1. q \in Nat /\ q - 1 \in Nat /\ q - 1 < q
      BY <2>4
    <3>2. q - 1 \notin Missing
      <4> HIDE DEF Missing
      <4>1. \A x \in Nat : x < q => x \notin Missing
        BY <2>1, <2>2
      <4> QED
        BY <3>1, <4>1
    <3>3. PICK f : f = [n \in 0 .. q - 1 |-> Step(f, n)]
      BY <3>1, <3>2
    <3> DEFINE g == [n \in 0 .. q |-> IF n = q THEN CloseUp(f[q - 1], r[ks[q]]) ELSE f[n]]
    <3>4. ASSUME NEW n \in 0 .. q PROVE g[n] = Step(g, n)
      <4>1. CASE n = 0
        BY <3>1, <3>3, <4>1
      <4>2. CASE n = q
        <5>1. g[q - 1] = f[q - 1]
          BY <3>1
        <5> QED
          BY <2>4, <4>2, <5>1
      <4>3. CASE n # 0 /\ n # q
        <5>1. n \in 0 .. q - 1 /\ n - 1 \in 0 .. q /\ n - 1 # q
          BY <3>1, <4>3
        <5>2. g[n] = f[n] /\ g[n - 1] = f[n - 1]
          BY <4>3, <5>1
        <5>3. f[n] = Step(f, n)
          BY <3>3, <5>1
        <5> QED
          BY <4>3, <5>2, <5>3
      <4> QED
        BY <4>1, <4>2, <4>3
    <3>5. g = [n \in 0 .. q |-> Step(g, n)]
      BY <3>4
    <3> HIDE DEF g
    <3>6. Taken(q)
      BY <3>5
    <3> QED
      BY <3>6
  <2> QED
    BY <2>3, <2>4
<1>2. Taken(m)
  BY <1>1
<1>3. PICK f : /\ f = [n \in 0 .. m |-> Step(f, n)]
               /\ f = CHOOSE l : l = [n \in 0 .. m |-> Step(l, n)]
  BY <1>2
<1>4. LeaveInTurn(r, ks) = f[m]
  BY <1>0, <1>3 DEF LeaveInTurn
<1>5. f[0] = first /\ \A n \in 1 .. m : f[n] = CloseUp(f[n - 1], r[ks[n]])
  <2>1. 0 \in 0 .. m
    OBVIOUS
  <2>2. f[0] = first
    BY <1>3, <2>1
  <2>3. ASSUME NEW n \in 1 .. m PROVE f[n] = CloseUp(f[n - 1], r[ks[n]])
    <3>1. n \in 0 .. m /\ n # 0
      OBVIOUS
    <3> QED
      BY <1>3, <3>1
  <2> QED
    BY <2>2, <2>3
<1> QED
  BY <1>0, <1>4, <1>5

\* An order of the keys K names each of them.
LEMMA OrdersOfASet ==
    ASSUME NEW K, IsFiniteSet(K), NEW ks \in SetToSeqs(K)
    PROVE  /\ Cardinality(K) \in Nat /\ Len(ks) = Cardinality(K)
           /\ ks \in [1 .. Cardinality(K) -> K]
           /\ ToSet(ks) = K
<1>1. Cardinality(K) \in Nat
  BY FS_CardinalityType
<1>2. PICK m \in Nat : m = Cardinality(K)
  BY <1>1
<1>3. ks \in [1 .. m -> K] /\ \A i, j \in 1 .. m : i # j => ks[i] # ks[j]
  BY <1>2 DEF SetToSeqs
<1>4. Len(ks) = m
  BY <1>3
<1>5. ks \in Injection(1 .. m, K)
  BY <1>3 DEF Injection, IsInjective
<1>6. Cardinality(1 .. m) = m
  <2>1. Cardinality(1 .. m) = IF 1 > m THEN 0 ELSE m - 1 + 1
    BY FS_Interval
  <2> QED
    BY <2>1
<1>7. ks \in Surjection(1 .. m, K)
  BY <1>2, <1>5, <1>6, FS_Injection
<1>8. ToSet(ks) = K
  BY <1>3, <1>7 DEF Surjection, ToSet
<1> QED
  BY <1>2, <1>3, <1>4, <1>8

\* What closing up does whatever the ranks: no row goes below 0, none overtakes
\* another.
LEMMA CloseUpIsMonotone ==
    ASSUME NEW D, NEW r \in [D -> Nat], NEW p \in Nat
    PROVE  /\ CloseUp(r, p) \in [D -> Nat]
           /\ \A x, y \in D : r[x] <= r[y] => CloseUp(r, p)[x] <= CloseUp(r, p)[y]
<1>1. CloseUp(r, p) = [x \in D |-> IF r[x] > p THEN r[x] - 1 ELSE r[x]]
  BY DEF CloseUp
<1>2. ASSUME NEW x \in D PROVE CloseUp(r, p)[x] \in Nat
  BY <1>1
<1>3. ASSUME NEW x \in D, NEW y \in D, r[x] <= r[y]
      PROVE  CloseUp(r, p)[x] <= CloseUp(r, p)[y]
  <2>1. r[x] \in Nat /\ r[y] \in Nat
    OBVIOUS
  <2> QED
    BY <1>1, <1>3, <2>1
<1> QED
  BY <1>1, <1>2, <1>3

\* Rows that leave together take only themselves out, and none of those that
\* stay overtakes another.
LEMMA LeavingTogether ==
    ASSUME NEW D, NEW r \in [D -> Nat], NEW K \in SUBSET D, IsFiniteSet(K),
           NEW ks \in SetToSeqs(K)
    PROVE  /\ LeaveInTurn(r, ks) \in [D \ K -> Nat]
           /\ \A x, y \in D \ K :
                 r[x] <= r[y] => LeaveInTurn(r, ks)[x] <= LeaveInTurn(r, ks)[y]
<1>1. PICK m \in Nat : m = Cardinality(K) /\ Len(ks) = m
  BY OrdersOfASet
<1>2. ks \in [1 .. m -> K] /\ ToSet(ks) = K
  BY <1>1, OrdersOfASet
<1>3. PICK left : /\ left[0] = Less(r, K)
                  /\ \A n \in 1 .. m : left[n] = CloseUp(left[n - 1], r[ks[n]])
                  /\ LeaveInTurn(r, ks) = left[m]
  <2>1. Len(ks) \in Nat
    BY <1>1
  <2>2. \E left : /\ left[0] = Less(r, ToSet(ks))
                  /\ \A n \in 1 .. Len(ks) : left[n] = CloseUp(left[n - 1], r[ks[n]])
                  /\ LeaveInTurn(r, ks) = left[Len(ks)]
    BY <2>1, TurnsAreTaken, Zenon
  <2> QED
    BY <1>1, <1>2, <2>2, Zenon
<1> DEFINE Fits(n) == /\ left[n] \in [D \ K -> Nat]
                      /\ \A x, y \in D \ K : r[x] <= r[y] => left[n][x] <= left[n][y]
           Wrong == {n \in 0 .. m : ~ Fits(n)}
<1>4. Fits(0)
  <2>1. left[0] = [x \in D \ K |-> r[x]]
    BY <1>3 DEF Less, Restrict
  <2> QED
    BY <2>1
<1>5. ASSUME NEW n \in 1 .. m, Fits(n - 1) PROVE Fits(n)
  <2>1. r[ks[n]] \in Nat
    BY <1>2
  <2>2. left[n] = CloseUp(left[n - 1], r[ks[n]])
    BY <1>3
  <2>3. PICK s \in [D \ K -> Nat] : s = left[n - 1]
    BY <1>5
  <2>4. \A x, y \in D \ K : r[x] <= r[y] => s[x] <= s[y]
    BY <1>5, <2>3
  <2>5. /\ CloseUp(s, r[ks[n]]) \in [D \ K -> Nat]
        /\ \A x, y \in D \ K : s[x] <= s[y] => CloseUp(s, r[ks[n]])[x] <= CloseUp(s, r[ks[n]])[y]
    BY <2>1, CloseUpIsMonotone
  <2> QED
    BY <2>2, <2>3, <2>4, <2>5
<1>6. Wrong = {}
  <2> SUFFICES ASSUME Wrong # {} PROVE FALSE
    OBVIOUS
  <2> HIDE DEF Fits
  <2>1. Wrong \in SUBSET Nat
    OBVIOUS
  <2>2. PICK n \in Wrong : \A u \in Wrong : n <= u
    BY <2>1, EarliestExists
  <2>3. n \in 0 .. m /\ ~ Fits(n)
    OBVIOUS
  <2>4. n # 0
    BY <1>4, <2>3
  <2>5. n \in 1 .. m /\ n - 1 \in 0 .. m /\ ~ (n <= n - 1)
    BY <2>3, <2>4
  <2>6. n - 1 \notin Wrong
    BY <2>2, <2>5
  <2>7. Fits(n - 1)
    BY <2>5, <2>6
  <2> QED
    BY <1>5, <2>3, <2>5, <2>7
<1> HIDE DEF Fits
<1>7. Fits(m)
  <2>1. m \in 0 .. m
    OBVIOUS
  <2> QED
    BY <1>6, <2>1
<1> QED
  BY <1>3, <1>7 DEF Fits

\* None leaves, or one: as if delete() had taken it.
LEMMA LeavingAlone ==
    ASSUME NEW D, NEW r \in [D -> Nat], NEW K \in SUBSET D, IsFiniteSet(K),
           NEW ks \in SetToSeqs(K), Cardinality(K) <= 1
    PROVE  \/ K = {} /\ LeaveInTurn(r, ks) = r
           \/ \E k \in D : K = {k} /\ LeaveInTurn(r, ks) = Less(CloseUp(r, r[k]), {k})
<1>1. PICK m \in Nat : m = Cardinality(K) /\ Len(ks) = m
  BY OrdersOfASet
<1>2. ks \in [1 .. m -> K] /\ ToSet(ks) = K
  BY <1>1, OrdersOfASet
<1>3. PICK left : /\ left[0] = Less(r, K)
                  /\ \A n \in 1 .. m : left[n] = CloseUp(left[n - 1], r[ks[n]])
                  /\ LeaveInTurn(r, ks) = left[m]
  <2>1. Len(ks) \in Nat
    BY <1>1
  <2>2. \E left : /\ left[0] = Less(r, ToSet(ks))
                  /\ \A n \in 1 .. Len(ks) : left[n] = CloseUp(left[n - 1], r[ks[n]])
                  /\ LeaveInTurn(r, ks) = left[Len(ks)]
    BY <2>1, TurnsAreTaken, Zenon
  <2> QED
    BY <1>1, <1>2, <2>2, Zenon
<1>4. left[0] = [x \in D \ K |-> r[x]]
  BY <1>3 DEF Less, Restrict
<1>5. CASE m = 0
  <2>1. K = {}
    BY <1>1, <1>5, FS_EmptySet
  <2>2. left[0] = r
    BY <1>4, <2>1
  <2> QED
    BY <1>3, <1>5, <2>1, <2>2
<1>6. CASE m = 1
  <2>1. PICK k : K = {k}
    BY <1>1, <1>6, FS_Singleton
  <2>2. k \in D /\ ks[1] = k
    BY <1>2, <1>6, <2>1
  <2>3. left[1] = CloseUp(left[0], r[k])
    BY <1>3, <1>6, <2>2
  <2>4. left[1] = [x \in D \ {k} |-> IF r[x] > r[k] THEN r[x] - 1 ELSE r[x]]
    BY <1>4, <2>1, <2>3 DEF CloseUp
  <2>5. Less(CloseUp(r, r[k]), {k}) = left[1]
    BY <2>4 DEF CloseUp, Less, Restrict
  <2> QED
    BY <1>3, <1>6, <2>1, <2>2, <2>5
<1>7. m = 0 \/ m = 1
  BY <1>1
<1> QED
  BY <1>5, <1>6, <1>7

\* Where move_to_top_of_its_object takes line k: the least of the ranks it looks
\* at.
LEMMA HeadIsLeast ==
    ASSUME NEW D, NEW r \in [D -> Nat], D # {}, NEW a, NEW k
    PROVE  /\ HeadOf(r, a, k) \in Nat
           /\ IF \E x \in D \ {k} : a[x].item = a[k].item
              THEN /\ \E x \in D \ {k} : a[x].item = a[k].item /\ r[x] = HeadOf(r, a, k)
                   /\ \A x \in D \ {k} : a[x].item = a[k].item => HeadOf(r, a, k) <= r[x]
              ELSE /\ \E x \in D : r[x] = HeadOf(r, a, k)
                   /\ \A x \in D : HeadOf(r, a, k) <= r[x]
<1> DEFINE alike == {x \in DOMAIN r \ {k} : a[x].item = a[k].item}
           H == IF alike = {} THEN D ELSE alike
           S == Range(IF alike = {} THEN r ELSE Restrict(r, alike))
<1>1. S = {r[x] : x \in H}
  BY DEF Range, Restrict
<1>2. H \in SUBSET D /\ H # {}
  OBVIOUS
<1> HIDE DEF S, H
<1>3. S \in SUBSET Nat /\ S # {}
  BY <1>1, <1>2
<1>4. PICK v \in S : \A u \in S : v <= u
  BY <1>3, EarliestExists
<1>5. Min(S) \in S /\ \A u \in S : Min(S) <= u
  BY <1>4 DEF Min
<1>6. HeadOf(r, a, k) = Min(S)
  BY DEF HeadOf, S
<1>7. /\ HeadOf(r, a, k) \in Nat
      /\ \E x \in H : r[x] = HeadOf(r, a, k)
      /\ \A x \in H : HeadOf(r, a, k) <= r[x]
  BY <1>1, <1>2, <1>5, <1>6
<1> QED
  BY <1>7 DEF H

LEMMA HeadIsTaken ==
    ASSUME NEW D, NEW r \in [D -> Nat], D # {}, NEW a, NEW k
    PROVE  HeadOf(r, a, k) \in Nat /\ \E j \in D : r[j] = HeadOf(r, a, k)
BY HeadIsLeast

LEMMA AboutsAreAbout == \A a \in Abouts : a \in About
<1>1. PICK i \in Item : TRUE
  BY ConstantsAssumption
<1>2. [item |-> i, person |-> None] \in About
  BY <1>1 DEF About
<1> QED
  BY <1>2 DEF Abouts

--------------------------------------------------------------------------------
(***************************************************************************)
(* Types, for any number of workers.  A request that edits a line may put  *)
(* back one that is gone, so its key must be one that was given out.       *)
(***************************************************************************)
TableFits ==
    /\ next \in Nat /\ next >= 1
    /\ DOMAIN rank \subseteq 1 .. next - 1 /\ rank \in [DOMAIN rank -> Nat]
    /\ about \in [DOMAIN rank -> About]

RequestsFit ==
    /\ req \in [Worker -> Request]
    /\ \A v \in Worker : Holds(v, "edit") => req[v].id \in 1 .. next - 1

TypeInv == kind \in Kinds /\ TableFits /\ RequestsFit

\* What the types say of the table
LEMMA TableFacts ==
    ASSUME TypeInv
    PROVE  /\ IsFiniteSet(DOMAIN rank) /\ next \notin DOMAIN rank /\ next \in Nat
           /\ DOMAIN rank \subseteq 1 .. next - 1
           /\ rank \in [DOMAIN rank -> Nat] /\ about \in [DOMAIN rank -> About]
           /\ Cardinality(DOMAIN rank) \in Nat
<1>1. /\ next \in Nat /\ DOMAIN rank \in SUBSET (1 .. next - 1)
      /\ rank \in [DOMAIN rank -> Nat] /\ about \in [DOMAIN rank -> About]
  BY DEF TypeInv, TableFits
<1>2. IsFiniteSet(1 .. next - 1)
  <2>1. next - 1 \in Int
    BY <1>1
  <2> QED
    BY <2>1, FS_Interval
<1>3. IsFiniteSet(DOMAIN rank)
  BY <1>1, <1>2, FS_Subset
<1>4. next \notin DOMAIN rank
  BY <1>1
<1>5. Cardinality(DOMAIN rank) \in Nat
  BY <1>3, FS_CardinalityType
<1> QED
  BY <1>1, <1>3, <1>4, <1>5

LEMMA TableFitsAgain ==
    ASSUME TypeInv, next' \in Nat, next' >= 1, NEW D \in SUBSET (1 .. next' - 1),
           rank' \in [D -> Nat], about' \in [D -> About]
    PROVE  TableFits'
<1>1. DOMAIN rank' = D
  OBVIOUS
<1> QED
  BY <1>1 DEF TableFits

LEMMA RequestsStand ==
    ASSUME TypeInv, req' = req, next' \in Nat, next' >= next PROVE RequestsFit'
<1>1. next \in Nat
  BY DEF TypeInv, TableFits
<1>2. ASSUME NEW v \in Worker, req[v].op = "edit" PROVE req[v].id \in 1 .. next' - 1
  <2>1. req[v].id \in 1 .. next - 1
    BY <1>2 DEF TypeInv, RequestsFit, Holds
  <2> QED
    BY <1>1, <2>1
<1> QED
  BY <1>2 DEF TypeInv, RequestsFit, Holds

LEMMA RequestMoves ==
    ASSUME TypeInv, NEW w \in Worker, NEW q \in Request,
           q.op = "edit" => q.id \in 1 .. next - 1,
           req' = [req EXCEPT ![w] = q], next' \in Nat, next' >= next
    PROVE  RequestsFit'
<1>1. next \in Nat /\ req \in [Worker -> Request]
  BY DEF TypeInv, TableFits, RequestsFit
<1>2. req' \in [Worker -> Request] /\ req'[w] = q /\ \A v \in Worker \ {w} : req'[v] = req[v]
  BY <1>1
<1>3. ASSUME NEW v \in Worker, req'[v].op = "edit" PROVE req'[v].id \in 1 .. next' - 1
  <2>1. req'[v].id \in 1 .. next - 1
    BY <1>2, <1>3 DEF TypeInv, RequestsFit, Holds
  <2> QED
    BY <1>1, <2>1
<1> QED
  BY <1>2, <1>3 DEF RequestsFit, Holds

LEMMA IdleFits == Idle \in Request /\ Idle.op # "edit"
BY DEF Idle, Request

LEMMA RequestEnds ==
    ASSUME TypeInv, NEW w \in Worker, Finish(w), next' \in Nat, next' >= next
    PROVE  RequestsFit'
BY IdleFits, RequestMoves DEF Finish

\* A step of a request that leaves the table alone.
LEMMA TableStands ==
    ASSUME TypeInv, UNCHANGED <<kind, rank, about, next>>, RequestsFit' PROVE TypeInv'
BY DEF TypeInv, TableFits

LEMMA PutFits ==
    ASSUME NEW D, NEW S, NEW r \in [D -> S], NEW k, NEW p \in S
    PROVE  Put(r, k, p) \in [D \cup {k} -> S]
BY DEF Put

LEMMA LessFits ==
    ASSUME NEW D, NEW S, NEW r \in [D -> S], NEW K
    PROVE  Less(r, K) \in [D \ K -> S]
BY DEF Less, Restrict

\* Whatever an entry was read with, moving it leaves ranks.
LEMMA MoveToFits ==
    ASSUME NEW D, NEW r \in [D -> Nat], NEW k, NEW p \in Nat, NEW t \in Nat
    PROVE  MoveTo(r, k, p, t) \in [D -> Nat]
<1>1. ASSUME NEW x \in D
      PROVE  (IF x = k THEN t
              ELSE IF t <= r[x] /\ r[x] < p THEN r[x] + 1
              ELSE IF p < r[x] /\ r[x] <= t THEN r[x] - 1
              ELSE r[x]) \in Nat
  <2>1. r[x] \in Nat
    OBVIOUS
  <2> QED
    BY <2>1
<1> QED
  BY <1>1 DEF MoveTo

LEMMA ReadEndFits == ASSUME TypeInv, NEW w \in Worker, ReadEnd(w) PROVE TypeInv'
<1>1. NextRank(rank) \in Nat
  <2>1. next - 1 \in Nat
    BY DEF TypeInv, TableFits
  <2> QED
    BY <2>1, NextRankIsARank DEF TypeInv, TableFits
<1>2. PICK q \in Request : q.op # "edit" /\ req' = [req EXCEPT ![w] = q]
  BY <1>1 DEF ReadEnd, Idle, Request
<1>3. next' \in Nat /\ next' >= next
  BY DEF ReadEnd, TypeInv, TableFits
<1>4. RequestsFit'
  BY <1>2, <1>3, RequestMoves
<1> QED
  BY <1>4, TableStands DEF ReadEnd

LEMMA AddAtEndFits == ASSUME TypeInv, NEW w \in Worker, AddAtEnd(w) PROVE TypeInv'
<1>1. next' = next + 1 /\ next' \in Nat /\ next' >= next /\ next' >= 1 /\ next \in Nat
  BY DEF AddAtEnd, UseKeys, TypeInv, TableFits
<1>2. DOMAIN rank \cup {next} \in SUBSET (1 .. next' - 1)
  BY <1>1 DEF TypeInv, TableFits
<1>3. req[w].target \in Nat
  BY DEF TypeInv, RequestsFit, Request
<1>4. rank' \in [DOMAIN rank \cup {next} -> Nat]
  <2>1. rank \in [DOMAIN rank -> Nat] /\ rank' = Put(rank, next, req[w].target)
    BY DEF AddAtEnd, TypeInv, TableFits
  <2> QED
    BY <1>3, <2>1, PutFits
<1>5. about' \in [DOMAIN rank \cup {next} -> About]
  <2>1. PICK a \in About : about' = Put(about, next, a)
    BY AboutsAreAbout DEF AddAtEnd
  <2>2. about \in [DOMAIN rank -> About]
    BY DEF TypeInv, TableFits
  <2> QED
    BY <2>1, <2>2, PutFits
<1>6. TableFits'
  BY <1>1, <1>2, <1>4, <1>5, TableFitsAgain
<1>7. RequestsFit'
  BY <1>1, RequestEnds DEF AddAtEnd
<1> QED
  BY <1>6, <1>7 DEF TypeInv, AddAtEnd

LEMMA AddLineFits == ASSUME TypeInv, NEW w \in Worker, AddLine(w) PROVE TypeInv'
<1>1. next' = next + 1 /\ next' \in Nat /\ next' >= next /\ next' >= 1 /\ next \in Nat
  BY DEF AddLine, UseKeys, TypeInv, TableFits
<1>2. PICK D : D = DOMAIN rank \cup {next}
  OBVIOUS
<1>3. D \in SUBSET (1 .. next' - 1) /\ D # {}
  BY <1>1, <1>2 DEF TypeInv, TableFits
<1>4. NextRank(rank) \in Nat
  <2>1. next - 1 \in Nat
    BY DEF TypeInv, TableFits
  <2> QED
    BY <2>1, NextRankIsARank DEF TypeInv, TableFits
<1>5. PICK ranked \in [D -> Nat] : ranked = Put(rank, next, NextRank(rank))
  <2>1. rank \in [DOMAIN rank -> Nat]
    BY DEF TypeInv, TableFits
  <2> QED
    BY <1>2, <1>4, <2>1, PutFits
<1>6. PICK a \in About :
          /\ about' = Put(about, next, a)
          /\ rank' = MoveTo(ranked, next, NextRank(rank), HeadOf(ranked, about', next))
  BY <1>5 DEF AddLine
<1>7. about' \in [D -> About]
  <2>1. about \in [DOMAIN rank -> About]
    BY DEF TypeInv, TableFits
  <2> QED
    BY <1>2, <1>6, <2>1, PutFits
<1>8. HeadOf(ranked, about', next) \in Nat
  BY <1>3, HeadIsTaken
<1>9. rank' \in [D -> Nat]
  BY <1>4, <1>6, <1>8, MoveToFits
<1>10. TableFits'
  BY <1>1, <1>3, <1>7, <1>9, TableFitsAgain
<1>11. RequestsFit'
  BY <1>1, RequestsStand DEF AddLine
<1> QED
  BY <1>10, <1>11 DEF TypeInv, AddLine

LEMMA PackKitFits == ASSUME TypeInv, NEW w \in Worker, PackKit(w) PROVE TypeInv'
<1>1. PICK n \in 1 .. MaxKey[kind] :
          LET new == next .. next + n - 1
          IN  /\ \E a \in [new -> About] :
                    about' = [k \in DOMAIN about \cup new |->
                                 IF k \in new THEN a[k] ELSE about[k]]
              /\ rank' = [k \in DOMAIN rank \cup new |->
                             IF k \in new THEN NextRank(rank) + (k - next) ELSE rank[k]]
              /\ UseKeys(n)
  BY DEF PackKit
<1> DEFINE new == next .. next + n - 1
<1>2. n \in Nat /\ next \in Nat /\ next' = next + n /\ next' \in Nat /\ next' >= next /\ next' >= 1
  BY <1>1 DEF UseKeys, TypeInv, TableFits
<1>3. PICK D : D = DOMAIN rank \cup new
  OBVIOUS
<1>4. D \in SUBSET (1 .. next' - 1)
  BY <1>2, <1>3 DEF TypeInv, TableFits
<1>5. PICK e \in Nat : e = NextRank(rank)
  <2>1. next - 1 \in Nat
    BY DEF TypeInv, TableFits
  <2> QED
    BY <2>1, NextRankIsARank DEF TypeInv, TableFits
<1>6. rank' \in [D -> Nat]
  <2>1. rank' = [k \in D |-> IF k \in new THEN e + (k - next) ELSE rank[k]]
    BY <1>1, <1>3, <1>5
  <2>2. ASSUME NEW k \in D PROVE (IF k \in new THEN e + (k - next) ELSE rank[k]) \in Nat
    BY <1>2, <1>3, <1>5 DEF TypeInv, TableFits
  <2> QED
    BY <2>1, <2>2
<1>7. about' \in [D -> About]
  <2>1. PICK a \in [new -> About] :
            about' = [k \in DOMAIN about \cup new |-> IF k \in new THEN a[k] ELSE about[k]]
    BY <1>1
  <2> QED
    BY <1>3, <2>1 DEF TypeInv, TableFits
<1>8. TableFits'
  BY <1>2, <1>4, <1>6, <1>7, TableFitsAgain
<1>9. RequestsFit'
  BY <1>2, RequestsStand DEF PackKit
<1> QED
  BY <1>8, <1>9 DEF TypeInv, PackKit

\* A trip that is duplicated: each key of the copy stands for one of the trip.
IsTheCopy(n, new, copied) ==
    /\ n \in Nat /\ n = Cardinality(DOMAIN rank)
    /\ next' = next + n /\ new = next .. next + n - 1
    /\ copied \in [new -> DOMAIN rank]
    /\ \A j, k \in new : copied[j] = copied[k] => j = k
    /\ \A x \in DOMAIN rank : \E k \in new : copied[k] = x
    /\ rank' = [k \in new |-> rank[copied[k]]]
    /\ about' = [k \in new |-> about[copied[k]]]

LEMMA CopiedKeys ==
    ASSUME TypeInv, NEW w \in Worker, DuplicateTrip(w)
    PROVE  \E n, new, copied : IsTheCopy(n, new, copied)
<1>1. PICK ks \in Turns(DOMAIN rank, rank) :
          LET copied == [k \in next .. next + Len(ks) - 1 |-> ks[k - next + 1]]
          IN  /\ rank' = [k \in DOMAIN copied |-> rank[copied[k]]]
              /\ about' = [k \in DOMAIN copied |-> about[copied[k]]]
              /\ UseKeys(Len(ks))
  BY DEF DuplicateTrip
<1>2. PICK K : K = DOMAIN rank
  OBVIOUS
<1>3. next \in Nat /\ IsFiniteSet(K)
  BY <1>2, TableFacts
<1>4. ks \in SetToSeqs(K)
  BY <1>2 DEF Turns
<1>5. PICK n \in Nat : n = Cardinality(K)
  BY <1>3, <1>4, OrdersOfASet
<1>6. Len(ks) = n /\ ks \in [1 .. n -> K] /\ ToSet(ks) = K
  BY <1>3, <1>4, <1>5, OrdersOfASet
<1>7. \A i, j \in 1 .. n : i # j => ks[i] # ks[j]
  BY <1>4, <1>5 DEF SetToSeqs
<1>8. \A x \in K : \E i \in 1 .. n : ks[i] = x
  BY <1>6 DEF ToSet
<1>0. PICK new : new = next .. next + n - 1
  OBVIOUS
<1>9. PICK copied : copied = [k \in new |-> ks[k - next + 1]]
  OBVIOUS
<1>10. \A k \in new : k - next + 1 \in 1 .. n
  BY <1>0, <1>3
<1>11. copied \in [new -> K]
  BY <1>6, <1>9, <1>10
<1>12. \A j, k \in new : copied[j] = copied[k] => j = k
  <2> SUFFICES ASSUME NEW j \in new, NEW k \in new,
                      copied[j] = copied[k]
               PROVE  j = k
    OBVIOUS
  <2>1. ks[j - next + 1] = ks[k - next + 1]
    BY <1>9
  <2>2. j - next + 1 = k - next + 1
    BY <1>7, <1>10, <2>1
  <2> QED
    BY <1>0, <1>3, <2>2
<1>13. \A x \in K : \E k \in new : copied[k] = x
  <2> SUFFICES ASSUME NEW x \in K PROVE \E k \in new : copied[k] = x
    OBVIOUS
  <2>1. PICK i \in 1 .. n : ks[i] = x
    BY <1>8
  <2>2. next + i - 1 \in new /\ (next + i - 1) - next + 1 = i
    BY <1>0, <1>3
  <2> QED
    BY <1>9, <2>1, <2>2
<1>14. /\ rank' = [k \in new |-> rank[copied[k]]]
       /\ about' = [k \in new |-> about[copied[k]]]
       /\ next' = next + n
  BY <1>0, <1>1, <1>6, <1>9 DEF UseKeys
<1> QED
  <2>1. IsTheCopy(n, new, copied)
    BY <1>0, <1>2, <1>5, <1>11, <1>12, <1>13, <1>14 DEF IsTheCopy
  <2> QED
    BY <2>1

LEMMA DuplicateTripFits ==
    ASSUME TypeInv, NEW w \in Worker, DuplicateTrip(w) PROVE TypeInv'
<1>1. next \in Nat /\ next >= 1
  BY DEF TypeInv, TableFits
<1>2. PICK n, D, copied : IsTheCopy(n, D, copied)
  BY CopiedKeys
<1>3. /\ n \in Nat /\ next' = next + n /\ D = next .. next + n - 1
      /\ copied \in [D -> DOMAIN rank]
      /\ rank' = [k \in D |-> rank[copied[k]]] /\ about' = [k \in D |-> about[copied[k]]]
  BY <1>2 DEF IsTheCopy
<1>4. next' \in Nat /\ next' >= 1 /\ D \in SUBSET (1 .. next' - 1)
  BY <1>1, <1>3
<1>5. rank' \in [D -> Nat] /\ about' \in [D -> About]
  <2>1. rank \in [DOMAIN rank -> Nat] /\ about \in [DOMAIN rank -> About]
    BY DEF TypeInv, TableFits
  <2> QED
    BY <1>3, <2>1
<1>6. TableFits'
  BY <1>4, <1>5, TableFitsAgain
<1>7. req' \in [Worker -> Request] /\ \A v \in Worker : req'[v].op # "edit"
  <2>1. req' = [v \in Worker |-> Idle]
    BY DEF DuplicateTrip
  <2> QED
    BY <2>1, IdleFits
<1> QED
  BY <1>6, <1>7 DEF TypeInv, RequestsFit, Holds, DuplicateTrip

\* What OrderedModelSerializer.update leaves, on a row that may be gone
LEMMA UpdateFits ==
    ASSUME TypeInv, NEW k \in 1 .. next - 1, NEW p \in Nat, NEW t \in Nat, NEW a \in About,
           Update(k, p, t, a), next' = next
    PROVE  TableFits'
<1>1. PICK D : D = DOMAIN rank \cup {k}
  OBVIOUS
<1>2. D \in SUBSET (1 .. next' - 1) /\ next' \in Nat /\ next' >= 1
  BY <1>1 DEF TypeInv, TableFits
<1>3. PICK r \in [D -> Nat] : r = Put(rank, k, p)
  BY <1>1, PutFits DEF TypeInv, TableFits
<1>4. rank' \in [D -> Nat]
  BY <1>3, MoveToFits DEF Update
<1>5. about' \in [D -> About]
  <2>1. about \in [DOMAIN rank -> About]
    BY DEF TypeInv, TableFits
  <2> QED
    BY <1>1, <2>1, PutFits DEF Update
<1> QED
  BY <1>2, <1>4, <1>5, TableFitsAgain

\* A position that is checked is a rank.
LEMMA TargetsAreRanks ==
    ASSUME TypeInv, NEW k \in DOMAIN rank, NEW t \in Targets(rank) \cup {rank[k]}
    PROVE  t \in Nat /\ rank[k] \in Nat /\ k \in 1 .. next - 1
<1>1. rank[k] \in Nat /\ k \in 1 .. next - 1
  BY DEF TypeInv, TableFits
<1>2. IsFiniteSet(DOMAIN rank)
  <2>1. next - 1 \in Int /\ DOMAIN rank \in SUBSET (1 .. next - 1)
    BY DEF TypeInv, TableFits
  <2>2. IsFiniteSet(1 .. next - 1)
    BY <2>1, FS_Interval
  <2> QED
    BY <2>1, <2>2, FS_Subset
<1>3. Cardinality(DOMAIN rank) \in Nat
  BY <1>2, FS_CardinalityType
<1> QED
  BY <1>1, <1>3 DEF Targets

LEMMA EditEntryFits == ASSUME TypeInv, NEW w \in Worker, EditEntry(w) PROVE TypeInv'
<1>1. PICK k \in DOMAIN rank, a \in Abouts : \E t \in Targets(rank) \cup {rank[k]} :
          Update(k, rank[k], t, a)
  BY DEF EditEntry
<1>2. PICK t \in Targets(rank) \cup {rank[k]} : Update(k, rank[k], t, a)
  BY <1>1
<1>3. t \in Nat /\ rank[k] \in Nat /\ k \in 1 .. next - 1 /\ a \in About
  BY TargetsAreRanks, AboutsAreAbout
<1>4. next' = next /\ next' \in Nat /\ next' >= next /\ req' = req /\ kind' = kind
  <2>1. UNCHANGED <<kind, next, req>>
    BY DEF EditEntry
  <2> QED
    BY <2>1 DEF TypeInv, TableFits
<1>5. TableFits'
  BY <1>2, <1>3, <1>4, UpdateFits
<1>6. RequestsFit'
  BY <1>4, RequestsStand
<1> QED
  BY <1>4, <1>5, <1>6 DEF TypeInv

LEMMA LoadLineFits == ASSUME TypeInv, NEW w \in Worker, LoadLine(w) PROVE TypeInv'
<1>1. PICK k \in DOMAIN rank : \E t \in Targets(rank) \cup {rank[k]} :
          req' = [req EXCEPT ![w] = [op |-> "edit", id |-> k, rank |-> rank[k], target |-> t]]
  BY DEF LoadLine
<1>2. PICK t \in Targets(rank) \cup {rank[k]} :
          req' = [req EXCEPT ![w] = [op |-> "edit", id |-> k, rank |-> rank[k], target |-> t]]
  BY <1>1
<1> DEFINE q == [op |-> "edit", id |-> k, rank |-> rank[k], target |-> t]
<1>3. t \in Nat /\ rank[k] \in Nat /\ k \in 1 .. next - 1
  BY TargetsAreRanks
<1>4. next' \in Nat /\ next' >= next /\ next \in Nat
  <2>1. next' = next
    BY DEF LoadLine
  <2> QED
    BY <2>1 DEF TypeInv, TableFits
<1>5. q \in Request /\ q.id \in 1 .. next - 1
  BY <1>3, <1>4 DEF Request
<1>6. RequestsFit'
  BY <1>2, <1>4, <1>5, RequestMoves
<1> QED
  BY <1>6, TableStands DEF LoadLine

LEMMA EditLineFits == ASSUME TypeInv, NEW w \in Worker, EditLine(w) PROVE TypeInv'
<1>1. PICK a \in About : Update(req[w].id, req[w].rank, req[w].target, a)
  BY DEF EditLine
<1>2. req[w].id \in 1 .. next - 1 /\ req[w].rank \in Nat /\ req[w].target \in Nat
  BY DEF EditLine, TypeInv, RequestsFit, Request
<1>3. next' = next /\ next' \in Nat /\ next' >= next /\ kind' = kind
  BY DEF EditLine, TypeInv, TableFits
<1>4. TableFits'
  BY <1>1, <1>2, <1>3, UpdateFits
<1>5. RequestsFit'
  BY <1>3, RequestEnds DEF EditLine
<1> QED
  BY <1>3, <1>4, <1>5 DEF TypeInv

LEMMA LoadEntryFits == ASSUME TypeInv, NEW w \in Worker, LoadEntry(w) PROVE TypeInv'
<1>1. PICK k \in DOMAIN rank :
          req' = [req EXCEPT ![w] = [Idle EXCEPT !.op = "delete", !.id = k, !.rank = rank[k]]]
  BY DEF LoadEntry
<1>2. k \in Nat /\ rank[k] \in Nat
  BY DEF TypeInv, TableFits
<1>3. PICK q \in Request : q.op # "edit" /\ req' = [req EXCEPT ![w] = q]
  BY <1>1, <1>2 DEF Idle, Request
<1>4. next' \in Nat /\ next' >= next
  BY DEF LoadEntry, TypeInv, TableFits
<1>5. RequestsFit'
  BY <1>3, <1>4, RequestMoves
<1> QED
  BY <1>5, TableStands DEF LoadEntry

LEMMA CloseUpBehindFits == ASSUME TypeInv, NEW w \in Worker, CloseUpBehind(w) PROVE TypeInv'
<1>1. req[w] \in Request /\ req[w].rank \in Nat
  BY DEF TypeInv, RequestsFit, Request
<1>2. PICK q \in Request : q.op # "edit" /\ req' = [req EXCEPT ![w] = q]
  BY <1>1 DEF CloseUpBehind, Request
<1>3. next' = next /\ next' \in Nat /\ next' >= next /\ next' >= 1 /\ kind' = kind /\ about' = about
  BY DEF CloseUpBehind, TypeInv, TableFits
<1>4. RequestsFit'
  BY <1>2, <1>3, RequestMoves
<1>5. rank' \in [DOMAIN rank -> Nat]
  <2>1. rank \in [DOMAIN rank -> Nat]
    BY DEF TypeInv, TableFits
  <2> QED
    BY <1>1, <2>1, CloseUpIsMonotone DEF CloseUpBehind
<1>6. TableFits'
  BY <1>3, <1>5, TableFitsAgain DEF TypeInv, TableFits
<1> QED
  BY <1>3, <1>4, <1>6 DEF TypeInv

LEMMA RemoveEntryFits == ASSUME TypeInv, NEW w \in Worker, RemoveEntry(w) PROVE TypeInv'
<1>1. next' = next /\ next' \in Nat /\ next' >= next /\ next' >= 1 /\ kind' = kind
  BY DEF RemoveEntry, TypeInv, TableFits
<1>2. PICK D : D = DOMAIN rank \ {req[w].id}
  OBVIOUS
<1>3. D \in SUBSET (1 .. next' - 1) /\ rank' \in [D -> Nat] /\ about' \in [D -> About]
  BY <1>1, <1>2, LessFits DEF RemoveEntry, TypeInv, TableFits
<1>4. TableFits'
  BY <1>1, <1>3, TableFitsAgain
<1>5. RequestsFit'
  BY <1>1, RequestEnds DEF RemoveEntry
<1> QED
  BY <1>1, <1>4, <1>5 DEF TypeInv

LEMMA DeleteStatusFits == ASSUME TypeInv, NEW w \in Worker, DeleteStatus(w) PROVE TypeInv'
<1>1. next' = next /\ next' \in Nat /\ next' >= next /\ next' >= 1 /\ kind' = kind
  BY DEF DeleteStatus, TypeInv, TableFits
<1>2. PICK D : D = DOMAIN rank \ {req[w].id}
  OBVIOUS
<1>3. req[w].rank \in Nat
  BY DEF TypeInv, RequestsFit, Request
<1>4. PICK r \in [DOMAIN rank -> Nat] : r = CloseUp(rank, req[w].rank)
  BY <1>3, CloseUpIsMonotone DEF TypeInv, TableFits
<1>5. D \in SUBSET (1 .. next' - 1) /\ rank' \in [D -> Nat] /\ about' \in [D -> About]
  BY <1>1, <1>2, <1>4, LessFits DEF DeleteStatus, TypeInv, TableFits
<1>6. TableFits'
  BY <1>1, <1>5, TableFitsAgain
<1>7. RequestsFit'
  BY <1>1, RequestEnds DEF DeleteStatus
<1> QED
  BY <1>1, <1>6, <1>7 DEF TypeInv

\* What leaves together leaves ranks, by LeavingTogether.
LEMMA LeavingFits ==
    ASSUME TypeInv, NEW K \in SUBSET DOMAIN rank, NEW ks \in SetToSeqs(K),
           rank' = LeaveInTurn(rank, ks), about' \in [DOMAIN rank \ K -> About],
           UNCHANGED <<kind, next, req>>
    PROVE  TypeInv'
<1>1. IsFiniteSet(K)
  <2>1. IsFiniteSet(1 .. next - 1) /\ K \in SUBSET (1 .. next - 1)
    BY FS_Interval DEF TypeInv, TableFits
  <2> QED
    BY <2>1, FS_Subset
<1>2. rank \in [DOMAIN rank -> Nat]
  BY DEF TypeInv, TableFits
<1>3. rank' \in [DOMAIN rank \ K -> Nat]
  BY <1>1, <1>2, LeavingTogether
<1>4. next' = next /\ next' \in Nat /\ next' >= next /\ next' >= 1
  BY DEF TypeInv, TableFits
<1>5. DOMAIN rank \ K \in SUBSET (1 .. next' - 1)
  BY <1>4 DEF TypeInv, TableFits
<1>6. TableFits'
  BY <1>3, <1>4, <1>5, TableFitsAgain
<1>7. RequestsFit'
  BY <1>4, RequestsStand
<1> QED
  BY <1>6, <1>7 DEF TypeInv

LEMMA CascadeFits ==
    ASSUME TypeInv, NEW K \in SUBSET DOMAIN rank, Cascade(K), UNCHANGED <<kind, next, req>>
    PROVE  TypeInv'
<1>1. PICK ks \in SetToSeqs(K) : rank' = LeaveInTurn(rank, ks)
  BY DEF Cascade
<1>2. about' \in [DOMAIN rank \ K -> About]
  BY LessFits DEF Cascade, TypeInv, TableFits
<1> QED
  BY <1>1, <1>2, LeavingFits

LEMMA RetaggedFits ==
    ASSUME TypeInv, NEW i \in Item, NEW j \in Item
    PROVE  Retagged(i, j) \in [DOMAIN rank -> About]
BY DEF Retagged, About, TypeInv, TableFits

LEMMA MergeItemsFits == ASSUME TypeInv, NEW w \in Worker, MergeItems(w) PROVE TypeInv'
<1>1. PICK absorbed \in Item : \E survivor \in Item \ {absorbed} :
          \/ /\ kind = "kit line"
             /\ about' = Retagged(absorbed, survivor)
             /\ UNCHANGED rank
          \/ LET twice == {k \in LinesOf(absorbed) :
                             \E j \in LinesOf(survivor) : about[j].person = about[k].person}
             IN  /\ kind = "trip line"
                 /\ about' = Less(Retagged(absorbed, survivor), twice)
                 /\ \E ks \in Turns(twice, rank) :
                       rank' = LeaveInTurn(rank, ks)
  BY DEF MergeItems
<1>2. PICK survivor \in Item :
          \/ /\ kind = "kit line"
             /\ about' = Retagged(absorbed, survivor)
             /\ UNCHANGED rank
          \/ LET twice == {k \in LinesOf(absorbed) :
                             \E j \in LinesOf(survivor) : about[j].person = about[k].person}
             IN  /\ kind = "trip line"
                 /\ about' = Less(Retagged(absorbed, survivor), twice)
                 /\ \E ks \in Turns(twice, rank) :
                       rank' = LeaveInTurn(rank, ks)
  BY <1>1
<1>3. UNCHANGED <<kind, next, req>> /\ next \in Nat
  BY DEF MergeItems, TypeInv, TableFits
<1>4. PICK a \in [DOMAIN rank -> About] : a = Retagged(absorbed, survivor)
  BY RetaggedFits
<1>5. CASE about' = Retagged(absorbed, survivor) /\ UNCHANGED rank
  <2>1. TableFits'
    BY <1>3, <1>4, <1>5 DEF TypeInv, TableFits
  <2>2. RequestsFit'
    BY <1>3, RequestsStand
  <2> QED
    BY <1>3, <2>1, <2>2 DEF TypeInv
<1>6. CASE LET twice == {k \in LinesOf(absorbed) :
                             \E j \in LinesOf(survivor) : about[j].person = about[k].person}
             IN  /\ kind = "trip line"
                 /\ about' = Less(Retagged(absorbed, survivor), twice)
                 /\ \E ks \in Turns(twice, rank) :
                       rank' = LeaveInTurn(rank, ks)
  <2>1. PICK K : /\ K = {k \in LinesOf(absorbed) :
                          \E j \in LinesOf(survivor) : about[j].person = about[k].person}
                 /\ about' = Less(a, K)
                 /\ \E ks \in Turns(K, rank) :
                       rank' = LeaveInTurn(rank, ks)
    BY <1>4, <1>6
  <2>2. K \in SUBSET DOMAIN rank
    BY <2>1 DEF LinesOf, TypeInv, TableFits
  <2>3. PICK ks \in SetToSeqs(K) : rank' = LeaveInTurn(rank, ks)
    BY <2>1 DEF Turns
  <2>4. about' \in [DOMAIN rank \ K -> About]
    BY <2>1, LessFits
  <2> QED
    BY <1>3, <2>2, <2>3, <2>4, LeavingFits
<1> QED
  BY <1>2, <1>5, <1>6

LEMMA DeleteItemFits == ASSUME TypeInv, NEW w \in Worker, DeleteItem(w) PROVE TypeInv'
<1>1. PICK i \in Item : Cascade(LinesOf(i))
  BY DEF DeleteItem
<1>2. LinesOf(i) \in SUBSET DOMAIN rank
  BY DEF LinesOf, TypeInv, TableFits
<1> QED
  BY <1>1, <1>2, CascadeFits DEF DeleteItem

LEMMA DeletePersonFits == ASSUME TypeInv, NEW w \in Worker, DeletePerson(w) PROVE TypeInv'
<1>1. PICK p \in Person : Cascade({k \in DOMAIN about : about[k].person = p})
  BY DEF DeletePerson
<1>2. {k \in DOMAIN about : about[k].person = p} \in SUBSET DOMAIN rank
  BY DEF TypeInv, TableFits
<1> QED
  BY <1>1, <1>2, CascadeFits DEF DeletePerson

LEMMA AbandonFits == ASSUME TypeInv, NEW w \in Worker, Abandon(w) \/ Crash(w) PROVE TypeInv'
<1>1. UNCHANGED <<kind, rank, about, next>> /\ Finish(w) /\ next \in Nat
  BY DEF Abandon, Crash, TypeInv, TableFits
<1>2. next' \in Nat /\ next' >= next
  BY <1>1
<1> QED
  BY <1>1, <1>2, RequestEnds, TableStands

LEMMA InitFits == Init => TypeInv
<1> SUFFICES ASSUME Init PROVE TypeInv
  OBVIOUS
<1>1. DOMAIN rank = {} /\ DOMAIN about = {} /\ next = 1 /\ kind \in Kinds
  BY DEF Init
<1>2. rank \in [DOMAIN rank -> Nat] /\ about \in [DOMAIN rank -> About]
  BY <1>1 DEF Init
<1>3. req \in [Worker -> Request] /\ \A v \in Worker : req[v].op # "edit"
  BY IdleFits DEF Init
<1> QED
  BY <1>1, <1>2, <1>3 DEF TypeInv, TableFits, RequestsFit, Holds

LEMMA StepFits == TypeInv /\ [Next]_vars => TypeInv'
<1> SUFFICES ASSUME TypeInv, [Next]_vars PROVE TypeInv'
  OBVIOUS
<1>1. CASE UNCHANGED vars
  BY <1>1 DEF vars, TypeInv, TableFits, RequestsFit, Holds
<1>2. CASE Next
  <2>1. PICK w \in Worker :
            \/ ReadEnd(w) \/ AddAtEnd(w) \/ AddLine(w)
            \/ PackKit(w) \/ DuplicateTrip(w)
            \/ EditEntry(w) \/ LoadLine(w) \/ EditLine(w)
            \/ LoadEntry(w) \/ CloseUpBehind(w) \/ RemoveEntry(w) \/ DeleteStatus(w)
            \/ MergeItems(w) \/ DeleteItem(w) \/ DeletePerson(w)
            \/ Abandon(w) \/ Crash(w)
    BY <1>2 DEF Next
  <2> QED
    BY <2>1, ReadEndFits, AddAtEndFits, AddLineFits, PackKitFits, DuplicateTripFits,
       EditEntryFits, LoadLineFits, EditLineFits, LoadEntryFits, CloseUpBehindFits, RemoveEntryFits, DeleteStatusFits,
       MergeItemsFits, DeleteItemFits, DeletePersonFits, AbandonFits
<1> QED
  BY <1>1, <1>2

\* Whatever requests are interleaved, however stale the rank, key or position
\* they act with, and however lines leave, the columns hold natural numbers for
\* keys that were given out, and say of the same entries what they are about.
THEOREM TypesAreKept == Spec => []TypeOK
<1>1. TypeInv => TypeOK
  BY DEF TypeInv, TableFits, RequestsFit, TypeOK
<1> QED
  BY <1>1, InitFits, StepFits, PTL DEF Spec

--------------------------------------------------------------------------------
(***************************************************************************)
(* One worker: between its steps nobody else writes, so what a request     *)
(* read is what the table still holds, whether ranks are in order or not.  *)
(***************************************************************************)
Alone(w) == Worker = {w}

RequestFacts(w) ==
    /\ Holds(w, "append") => req[w].target = NextRank(rank)
    /\ req[w].op \in {"edit", "delete"} => req[w].id \in DOMAIN rank /\ req[w].rank = rank[req[w].id]
    /\ Holds(w, "edit") => req[w].target \in Targets(rank) \cup {rank[req[w].id]}
    /\ Holds(w, "shifted") => req[w].id \in DOMAIN rank

AloneInv(w) == TypeInv /\ RequestFacts(w)

\* What the types say of the request
LEMMA RequestTypes ==
    ASSUME NEW w, Alone(w), TypeInv
    PROVE  w \in Worker /\ req \in [Worker -> Request] /\ req[w] \in Request
BY DEF Alone, TypeInv, RequestsFit

\* A request that is over holds nothing.
LEMMA NothingHeld == ASSUME NEW w, req'[w] = Idle PROVE RequestFacts(w)'
<1>1. req'[w].op = "none"
  BY DEF Idle
<1> QED
  BY <1>1 DEF RequestFacts, Holds

LEMMA FinishedIsIdle ==
    ASSUME NEW w, Alone(w), TypeInv, Finish(w) PROVE req'[w] = Idle
BY RequestTypes DEF Finish

LEMMA ReadEndFacts == ASSUME NEW w, Alone(w), AloneInv(w), ReadEnd(w) PROVE RequestFacts(w)'
<1>1. PICK e : e = NextRank(rank)
  OBVIOUS
<1>2. req'[w] = [Idle EXCEPT !.op = "append", !.target = e]
  BY <1>1, RequestTypes DEF ReadEnd, AloneInv
<1>3. req'[w].op = "append" /\ req'[w].target = NextRank(rank)
  BY <1>1, <1>2 DEF Idle
<1>4. rank' = rank
  BY DEF ReadEnd
<1> QED
  BY <1>3, <1>4 DEF RequestFacts, Holds

LEMMA LoadLineFacts == ASSUME NEW w, Alone(w), AloneInv(w), LoadLine(w) PROVE RequestFacts(w)'
<1>1. PICK k \in DOMAIN rank : \E t \in Targets(rank) \cup {rank[k]} :
          req' = [req EXCEPT ![w] = [op |-> "edit", id |-> k, rank |-> rank[k], target |-> t]]
  BY DEF LoadLine
<1>2. PICK t \in Targets(rank) \cup {rank[k]} :
          req' = [req EXCEPT ![w] = [op |-> "edit", id |-> k, rank |-> rank[k], target |-> t]]
  BY <1>1
<1>3. req'[w] = [op |-> "edit", id |-> k, rank |-> rank[k], target |-> t]
  BY <1>2, RequestTypes DEF AloneInv
<1>4. rank' = rank
  BY DEF LoadLine
<1>5. Targets(rank)' = Targets(rank)
  BY <1>4
<1> QED
  BY <1>3, <1>4, <1>5 DEF RequestFacts, Holds

LEMMA LoadEntryFacts == ASSUME NEW w, Alone(w), AloneInv(w), LoadEntry(w) PROVE RequestFacts(w)'
<1>1. PICK k \in DOMAIN rank :
          req' = [req EXCEPT ![w] = [op |-> "delete", id |-> k, rank |-> rank[k], target |-> 0]]
  BY DEF LoadEntry, Idle
<1>2. req'[w] = [op |-> "delete", id |-> k, rank |-> rank[k], target |-> 0]
  BY <1>1, RequestTypes DEF AloneInv
<1>3. rank' = rank
  BY DEF LoadEntry
<1> QED
  BY <1>2, <1>3 DEF RequestFacts, Holds

LEMMA CloseUpBehindFacts ==
    ASSUME NEW w, Alone(w), AloneInv(w), CloseUpBehind(w) PROVE RequestFacts(w)'
<1>1. /\ rank' = CloseUp(rank, req[w].rank) /\ req' = [req EXCEPT ![w].op = "shifted"]
      /\ req[w].op = "delete"
  BY DEF CloseUpBehind, Holds
<1>2. req[w] \in Request /\ w \in Worker /\ req \in [Worker -> Request]
  BY RequestTypes DEF AloneInv
<1>3. req'[w].op = "shifted" /\ req'[w].id = req[w].id
  BY <1>1, <1>2 DEF Request
<1>4. DOMAIN rank' = DOMAIN rank
  BY <1>1 DEF CloseUp
<1>5. req[w].id \in DOMAIN rank
  BY <1>1 DEF AloneInv, RequestFacts
<1> QED
  BY <1>3, <1>4, <1>5 DEF RequestFacts, Holds

LEMMA StepFacts == ASSUME NEW w, Alone(w), AloneInv(w), Next PROVE RequestFacts(w)'
<1>1. \/ ReadEnd(w) \/ AddAtEnd(w) \/ AddLine(w)
      \/ PackKit(w) \/ DuplicateTrip(w)
      \/ EditEntry(w) \/ LoadLine(w) \/ EditLine(w)
      \/ LoadEntry(w) \/ CloseUpBehind(w) \/ RemoveEntry(w) \/ DeleteStatus(w)
      \/ MergeItems(w) \/ DeleteItem(w) \/ DeletePerson(w)
      \/ Abandon(w) \/ Crash(w)
  BY Zenon DEF Next, Alone
<1>2. CASE AddLine(w) \/ PackKit(w) \/ EditEntry(w) \/ MergeItems(w) \/ DeleteItem(w) \/ DeletePerson(w)
  <2>1. req[w] = Idle /\ req' = req
    BY <1>2, Zenon DEF AddLine, PackKit, EditEntry, MergeItems, DeleteItem, DeletePerson, Called
  <2> QED
    BY <2>1, NothingHeld
<1>3. CASE AddAtEnd(w) \/ EditLine(w) \/ RemoveEntry(w) \/ DeleteStatus(w) \/ Abandon(w) \/ Crash(w)
  <2>1. Finish(w)
    BY <1>3, Zenon DEF AddAtEnd, EditLine, RemoveEntry, DeleteStatus, Abandon, Crash
  <2> QED
    BY <2>1, FinishedIsIdle, NothingHeld DEF AloneInv
<1>4. CASE DuplicateTrip(w)
  <2>1. req'[w] = Idle
    BY <1>4 DEF DuplicateTrip, Alone
  <2> QED
    BY <2>1, NothingHeld
<1> QED
  BY <1>1, <1>2, <1>3, <1>4, ReadEndFacts, LoadLineFacts, LoadEntryFacts, CloseUpBehindFacts

LEMMA AloneInductive ==
    ASSUME NEW w, Alone(w) PROVE /\ Init => AloneInv(w)
                                 /\ AloneInv(w) /\ [Next]_vars => AloneInv(w)'
<1>1. ASSUME Init PROVE AloneInv(w)
  <2>1. req[w].op = "none"
    BY <1>1 DEF Init, Alone, Idle
  <2> QED
    BY <1>1, <2>1, InitFits DEF AloneInv, RequestFacts, Holds
<1>2. ASSUME AloneInv(w), [Next]_vars PROVE AloneInv(w)'
  <2>1. TypeInv'
    BY <1>2, StepFits DEF AloneInv
  <2>2. CASE UNCHANGED vars
    BY <1>2, <2>1, <2>2 DEF vars, AloneInv, RequestFacts, Holds, Targets
  <2>3. CASE Next
    BY <1>2, <2>1, <2>3, StepFacts DEF AloneInv
  <2> QED
    BY <1>2, <2>2, <2>3
<1> QED
  BY <1>1, <1>2

--------------------------------------------------------------------------------
(***************************************************************************)
(* The order, step by step, for one worker.                                *)
(***************************************************************************)
Settled(w) == ~Holds(w, "shifted")

Ordered == InOrder(rank, Kept)

LEMMA OrderedIsContiguous == Ordered <=> RanksAreContiguous
BY DEF Ordered, InOrder, RanksAreContiguous

LEMMA KeptAlone ==
    ASSUME NEW w, Alone(w)
    PROVE  Kept = IF Settled(w) THEN DOMAIN rank ELSE DOMAIN rank \ {req[w].id}
BY DEF Kept, Settled, Alone

LEMMA KeptAloneNext ==
    ASSUME NEW w, Alone(w)
    PROVE  Kept' = IF req'[w].op # "shifted" THEN DOMAIN rank' ELSE DOMAIN rank' \ {req'[w].id}
BY DEF Kept, Alone, Holds

LEMMA OrderedWhenSettled ==
    ASSUME NEW w, Alone(w), Settled(w), Ordered PROVE Kept = DOMAIN rank /\ InOrder(rank, DOMAIN rank)
BY KeptAlone DEF Ordered

\* A request that is over is deleting nothing.
LEMMA KeptWhenOver ==
    ASSUME NEW w, Alone(w), req'[w] = Idle PROVE Kept' = DOMAIN rank'
<1>1. req'[w].op = "none"
  BY DEF Idle
<1> QED
  BY <1>1, KeptAloneNext

\* A request that has not begun is deleting nothing.
LEMMA IdleIsSettled == ASSUME NEW w, req[w] = Idle PROVE Settled(w)
BY DEF Settled, Holds, Idle

\* One row is inserted at the end: what AddAtEnd and AddLine have in common.
LEMMA InsertedAtEnd ==
    ASSUME TypeInv, InOrder(rank, DOMAIN rank)
    PROVE  /\ NextRank(rank) \in Nat
           /\ Put(rank, next, NextRank(rank)) \in [DOMAIN rank \cup {next} -> Nat]
           /\ Put(rank, next, NextRank(rank))[next] = NextRank(rank)
           /\ \A x \in DOMAIN rank : /\ Put(rank, next, NextRank(rank))[x] = rank[x]
                                     /\ rank[x] < NextRank(rank)
           /\ InOrder(Put(rank, next, NextRank(rank)), DOMAIN rank \cup {next})
<1>1. rank \in [DOMAIN rank -> Nat] /\ next \notin DOMAIN rank /\ IsFiniteSet(DOMAIN rank)
  BY TableFacts
<1> QED
  BY <1>1, InsertKeepsOrder

\* What AddAtEnd does to an ordered group
LEMMA AddAtEndShape ==
    ASSUME NEW w, Alone(w), AloneInv(w), Ordered, AddAtEnd(w)
    PROVE  /\ Kept = DOMAIN rank /\ Kept' = DOMAIN rank \cup {next}
           /\ rank' \in [Kept' -> Nat] /\ Ordered'
           /\ \A x \in DOMAIN rank : rank'[x] = rank[x]
<1>1. Settled(w) /\ req[w].target = NextRank(rank)
  BY DEF AddAtEnd, Holds, Settled, AloneInv, RequestFacts
<1>2. Kept = DOMAIN rank /\ InOrder(rank, DOMAIN rank)
  BY <1>1, OrderedWhenSettled
<1>3. rank' = Put(rank, next, NextRank(rank)) /\ Finish(w)
  BY <1>1 DEF AddAtEnd
<1>4. /\ rank' \in [DOMAIN rank \cup {next} -> Nat]
      /\ InOrder(rank', DOMAIN rank \cup {next})
      /\ \A x \in DOMAIN rank : rank'[x] = rank[x]
  BY <1>2, <1>3, InsertedAtEnd DEF AloneInv
<1>5. Kept' = DOMAIN rank'
  BY <1>3, FinishedIsIdle, KeptWhenOver DEF AloneInv
<1> QED
  BY <1>2, <1>4, <1>5 DEF Ordered

\* What AddLine does to an ordered group: the lines from the head on make room.
LEMMA AddLineShape ==
    ASSUME NEW w, Alone(w), AloneInv(w), Ordered, AddLine(w)
    PROVE  /\ Kept = DOMAIN rank /\ Kept' = DOMAIN rank \cup {next}
           /\ rank' \in [Kept' -> Nat] /\ Ordered'
           /\ \E ranked \in [Kept' -> Nat], a \in About :
                 /\ InOrder(ranked, Kept')
                 /\ \A x \in DOMAIN rank : ranked[x] = rank[x] /\ rank[x] < ranked[next]
                 /\ about' = Put(about, next, a)
                 /\ HeadOf(ranked, about', next) \in Nat
                 /\ rank' = MoveTo(ranked, next, ranked[next], HeadOf(ranked, about', next))
<1>1. req[w] = Idle /\ req' = req
  BY DEF AddLine, Called
<1>2. Kept = DOMAIN rank /\ InOrder(rank, DOMAIN rank)
  BY <1>1, IdleIsSettled, OrderedWhenSettled
<1>3. PICK D : D = DOMAIN rank \cup {next}
  OBVIOUS
<1>4. PICK ranked \in [D -> Nat] :
          /\ ranked = Put(rank, next, NextRank(rank))
          /\ ranked[next] = NextRank(rank) /\ InOrder(ranked, D)
          /\ \A x \in DOMAIN rank : ranked[x] = rank[x] /\ rank[x] < NextRank(rank)
  BY <1>2, <1>3, InsertedAtEnd DEF AloneInv
<1>5. PICK a \in About :
          /\ about' = Put(about, next, a)
          /\ rank' = MoveTo(ranked, next, NextRank(rank), HeadOf(ranked, about', next))
  BY <1>4 DEF AddLine
<1>6. PICK t \in Nat : t = HeadOf(ranked, about', next) /\ \E j \in D : ranked[j] = t
  <2>1. D # {}
    BY <1>3
  <2> QED
    BY <2>1, HeadIsTaken
<1>7. rank' = MoveTo(ranked, next, ranked[next], t) /\ next \in D
  BY <1>3, <1>4, <1>5, <1>6
<1>8. rank' \in [D -> Nat] /\ InOrder(rank', D)
  BY <1>4, <1>6, <1>7, MoveKeepsOrder
<1>9. Kept' = D
  <2>1. Kept' = DOMAIN rank'
    BY <1>1, KeptWhenOver
  <2> QED
    BY <1>8, <2>1
<1> QED
  BY <1>2, <1>3, <1>4, <1>5, <1>6, <1>8, <1>9 DEF Ordered

\* What PackKit does to an ordered group: the others keep their ranks.
LEMMA PackKitShape ==
    ASSUME NEW w, Alone(w), AloneInv(w), Ordered, PackKit(w)
    PROVE  /\ Kept = DOMAIN rank /\ Ordered'
           /\ \E n \in Nat : /\ n > 0 /\ next' = next + n
                             /\ Kept' = DOMAIN rank \cup (next .. next + n - 1)
           /\ rank' \in [Kept' -> Nat]
           /\ \A x \in DOMAIN rank : rank'[x] = rank[x] /\ about'[x] = about[x]
<1>1. req[w] = Idle /\ req' = req
  BY DEF PackKit, Called
<1>2. Kept = DOMAIN rank /\ InOrder(rank, DOMAIN rank)
  BY <1>1, IdleIsSettled, OrderedWhenSettled
<1>3. PICK n \in 1 .. MaxKey[kind] :
          LET new == next .. next + n - 1
          IN  /\ \E a \in [new -> About] :
                    about' = [k \in DOMAIN about \cup new |->
                                 IF k \in new THEN a[k] ELSE about[k]]
              /\ rank' = [k \in DOMAIN rank \cup new |->
                             IF k \in new THEN NextRank(rank) + (k - next) ELSE rank[k]]
              /\ UseKeys(n)
  BY DEF PackKit
<1>4. n \in Nat /\ n > 0
  OBVIOUS
<1> DEFINE new == next .. next + n - 1
           D == DOMAIN rank \cup new
<1>5. PICK e \in Nat : /\ e = NextRank(rank)
                       /\ \A k \in DOMAIN rank : rank[k] < e
                       /\ \A p \in Nat : p < e => \E j \in DOMAIN rank : rank[j] = p
  BY <1>2, TableFacts, NextRankIsFree DEF AloneInv
<1>6. rank' = [k \in D |-> IF k \in new THEN e + (k - next) ELSE rank[k]]
  BY <1>3, <1>5
<1>7. /\ DOMAIN rank \cap new = {} /\ next \in Nat /\ rank \in [DOMAIN rank -> Nat]
      /\ DOMAIN about = DOMAIN rank
  BY <1>4, TableFacts DEF AloneInv
<1>8. rank' \in [D -> Nat] /\ InOrder(rank', D)
  BY <1>2, <1>4, <1>5, <1>6, <1>7, PackKeepsOrder
<1>9. \A x \in DOMAIN rank : rank'[x] = rank[x]
  BY <1>6, <1>7
<1>10. \A x \in DOMAIN rank : about'[x] = about[x]
  <2>1. PICK a \in [new -> About] :
            about' = [k \in DOMAIN about \cup new |-> IF k \in new THEN a[k] ELSE about[k]]
    BY <1>3
  <2> QED
    BY <1>7, <2>1
<1>11. Kept' = D
  <2>1. Kept' = DOMAIN rank'
    BY <1>1, KeptWhenOver
  <2> QED
    BY <1>8, <2>1
<1>12. next' = next + n
  BY <1>3 DEF UseKeys
<1> QED
  BY <1>2, <1>4, <1>8, <1>9, <1>10, <1>11, <1>12 DEF Ordered

\* What DuplicateTrip makes of an ordered group: another, of the same ranks.
LEMMA DuplicateTripShape ==
    ASSUME NEW w, Alone(w), AloneInv(w), Ordered, DuplicateTrip(w)
    PROVE  /\ Kept = DOMAIN rank /\ Kept' = DOMAIN rank' /\ Ordered'
<1>1. req[w] = Idle /\ req'[w] = Idle /\ w \in Worker
  BY DEF DuplicateTrip, Called, Alone
<1>2. Kept = DOMAIN rank /\ InOrder(rank, DOMAIN rank)
  BY <1>1, IdleIsSettled, OrderedWhenSettled
<1>3. Kept' = DOMAIN rank'
  BY <1>1, KeptWhenOver
<1>4. TypeInv
  BY DEF AloneInv
<1>5. PICK n, D, copied : IsTheCopy(n, D, copied)
  BY <1>1, <1>4, CopiedKeys
<1>6. /\ copied \in [D -> DOMAIN rank]
      /\ \A j, k \in D : copied[j] = copied[k] => j = k
      /\ \A x \in DOMAIN rank : \E k \in D : copied[k] = x
      /\ rank' = [k \in D |-> rank[copied[k]]]
  BY <1>5 DEF IsTheCopy
<1>7. \A k \in D : copied[k] \in DOMAIN rank /\ rank'[k] = rank[copied[k]]
  BY <1>6
<1>8. InOrder(rank', D)
  <2>1. ASSUME NEW j \in D, NEW k \in D, rank'[j] = rank'[k] PROVE j = k
    <3>1. copied[j] = copied[k]
      BY <1>2, <1>7, <2>1 DEF InOrder
    <3> QED
      BY <1>6, <3>1
  <2>2. ASSUME NEW k \in D, NEW p \in 0 .. rank'[k] PROVE \E j \in D : rank'[j] = p
    <3>1. PICK x \in DOMAIN rank : rank[x] = p
      BY <1>2, <1>7 DEF InOrder
    <3>2. PICK j \in D : copied[j] = x
      BY <1>6
    <3> QED
      BY <1>7, <3>1, <3>2
  <2> QED
    BY <2>1, <2>2 DEF InOrder
<1>9. DOMAIN rank' = D
  BY <1>6
<1> QED
  BY <1>2, <1>3, <1>8, <1>9 DEF Ordered

\* A position that is checked, or that of the entry itself, is taken.
LEMMA TargetFacts ==
    ASSUME TypeInv, InOrder(rank, DOMAIN rank), NEW k \in DOMAIN rank,
           NEW t \in Targets(rank) \cup {rank[k]}
    PROVE  t \in Nat /\ \E j \in DOMAIN rank : rank[j] = t
<1>1. rank \in [DOMAIN rank -> Nat] /\ IsFiniteSet(DOMAIN rank) /\ Cardinality(DOMAIN rank) \in Nat
  BY TableFacts
<1>2. CASE t = rank[k]
  BY <1>1, <1>2
<1>3. CASE t \in Targets(rank)
  <2>1. t \in Nat /\ t < Cardinality(DOMAIN rank)
    BY <1>1, <1>3 DEF Targets
  <2> QED
    BY <1>1, <2>1, TargetIsTaken
<1> QED
  BY <1>2, <1>3

\* An update of a row that is there: Put changes nothing.
LEMMA UpdateShape ==
    ASSUME TypeInv, InOrder(rank, DOMAIN rank), NEW k \in DOMAIN rank,
           NEW t \in Targets(rank) \cup {rank[k]}, NEW a, Update(k, rank[k], t, a)
    PROVE  /\ t \in Nat /\ rank' = MoveTo(rank, k, rank[k], t)
           /\ rank' \in [DOMAIN rank -> Nat] /\ InOrder(rank', DOMAIN rank)
           /\ \A x \in DOMAIN rank \ {k} : about'[x] = about[x]
<1>1. rank \in [DOMAIN rank -> Nat] /\ about \in [DOMAIN rank -> About]
  BY TableFacts
<1>2. Put(rank, k, rank[k]) = rank
  BY <1>1 DEF Put
<1>3. rank' = MoveTo(rank, k, rank[k], t) /\ about' = Put(about, k, a)
  BY <1>2 DEF Update
<1>4. t \in Nat /\ \E j \in DOMAIN rank : rank[j] = t
  BY TargetFacts
<1>5. rank' \in [DOMAIN rank -> Nat] /\ InOrder(rank', DOMAIN rank)
  BY <1>1, <1>3, <1>4, MoveKeepsOrder
<1>6. \A x \in DOMAIN rank \ {k} : about'[x] = about[x]
  BY <1>1, <1>3 DEF Put
<1> QED
  BY <1>3, <1>4, <1>5, <1>6

\* What an edit does to an ordered group
LEMMA EditShape ==
    ASSUME NEW w, Alone(w), AloneInv(w), Ordered, EditEntry(w) \/ EditLine(w)
    PROVE  /\ Kept = DOMAIN rank /\ Kept' = DOMAIN rank
           /\ rank' \in [DOMAIN rank -> Nat] /\ Ordered'
           /\ \E k \in DOMAIN rank, t \in Nat :
                 /\ rank' = MoveTo(rank, k, rank[k], t)
                 /\ \A x \in DOMAIN rank \ {k} : about'[x] = about[x]
<1>1. Settled(w)
  BY IdleIsSettled DEF EditEntry, EditLine, Called, Holds, Settled
<1>2. Kept = DOMAIN rank /\ InOrder(rank, DOMAIN rank)
  BY <1>1, OrderedWhenSettled
<1>3. \E k \in DOMAIN rank, a \in About : \E t \in Targets(rank) \cup {rank[k]} : Update(k, rank[k], t, a)
  <2>1. CASE EditEntry(w)
    <3>1. PICK k \in DOMAIN rank, a \in Abouts : \E t \in Targets(rank) \cup {rank[k]} :
              Update(k, rank[k], t, a)
      BY <2>1 DEF EditEntry
    <3> QED
      BY <3>1, AboutsAreAbout
  <2>2. CASE EditLine(w)
    <3>1. PICK a \in About : Update(req[w].id, req[w].rank, req[w].target, a)
      BY <2>2 DEF EditLine
    <3>2. /\ req[w].id \in DOMAIN rank /\ req[w].rank = rank[req[w].id]
          /\ req[w].target \in Targets(rank) \cup {rank[req[w].id]}
      BY <2>2 DEF EditLine, Holds, AloneInv, RequestFacts
    <3> QED
      BY <3>1, <3>2
  <2> QED
    BY <2>1, <2>2
<1>4. PICK k \in DOMAIN rank, a \in About : \E t \in Targets(rank) \cup {rank[k]} : Update(k, rank[k], t, a)
  BY <1>3
<1>5. PICK t \in Targets(rank) \cup {rank[k]} : Update(k, rank[k], t, a)
  BY <1>4
<1>6. /\ t \in Nat /\ rank' = MoveTo(rank, k, rank[k], t)
      /\ rank' \in [DOMAIN rank -> Nat] /\ InOrder(rank', DOMAIN rank)
      /\ \A x \in DOMAIN rank \ {k} : about'[x] = about[x]
  BY <1>2, <1>5, UpdateShape DEF AloneInv
<1>7. req'[w] = Idle
  BY FinishedIsIdle DEF AloneInv, EditEntry, EditLine, Called
<1>8. Kept' = DOMAIN rank
  <2>1. Kept' = DOMAIN rank'
    BY <1>7, KeptWhenOver
  <2> QED
    BY <1>6, <2>1
<1> QED
  BY <1>2, <1>6, <1>8 DEF Ordered

\* What a deletion does to an ordered group, in one transaction or in its first
\* statement
LEMMA DeletionShape ==
    ASSUME NEW w, Alone(w), AloneInv(w), Ordered, CloseUpBehind(w) \/ DeleteStatus(w)
    PROVE  /\ Kept = DOMAIN rank /\ Ordered'
           /\ \E k \in DOMAIN rank :
                 /\ Kept' = DOMAIN rank \ {k}
                 /\ \A x \in Kept' : /\ rank'[x] = CloseUp(rank, rank[k])[x]
                                     /\ rank'[x] \in Nat
                                     /\ about'[x] = about[x]
<1>1. Settled(w) /\ req[w].op = "delete"
  BY DEF CloseUpBehind, DeleteStatus, Holds, Settled
<1>2. Kept = DOMAIN rank /\ InOrder(rank, DOMAIN rank)
  BY <1>1, OrderedWhenSettled
<1>3. PICK k \in DOMAIN rank : k = req[w].id /\ req[w].rank = rank[k]
  BY <1>1 DEF AloneInv, RequestFacts
<1>4. PICK D : D = DOMAIN rank \ {k}
  OBVIOUS
<1>5. rank \in [DOMAIN rank -> Nat] /\ about \in [DOMAIN rank -> About]
  BY TableFacts DEF AloneInv
<1>6. PICK s \in [DOMAIN rank -> Nat] : s = CloseUp(rank, rank[k]) /\ InOrder(s, D)
  BY <1>2, <1>4, <1>5, CloseUpKeepsOrder
<1>7. CASE CloseUpBehind(w)
  <2>1. rank' = s /\ about' = about /\ req' = [req EXCEPT ![w].op = "shifted"]
    BY <1>3, <1>6, <1>7 DEF CloseUpBehind
  <2>2. req[w] \in Request /\ w \in Worker /\ req \in [Worker -> Request]
    BY RequestTypes DEF AloneInv
  <2>3. req'[w].op = "shifted" /\ req'[w].id = k
    BY <1>3, <2>1, <2>2 DEF Request
  <2>4. Kept' = DOMAIN rank' \ {k}
    BY <2>3, KeptAloneNext
  <2>5. Kept' = D
    BY <1>4, <1>6, <2>1, <2>4
  <2> QED
    BY <1>2, <1>4, <1>6, <2>1, <2>5 DEF Ordered
<1>8. CASE DeleteStatus(w)
  <2>1. rank' = Less(s, {k}) /\ about' = Less(about, {k}) /\ Finish(w)
    BY <1>3, <1>6, <1>8 DEF DeleteStatus
  <2>2. rank' = [x \in D |-> s[x]] /\ about' = [x \in D |-> about[x]]
    BY <1>4, <1>5, <1>6, <2>1 DEF Less, Restrict
  <2>3. InOrder(rank', D)
    BY <1>6, <2>2 DEF InOrder
  <2>4. Kept' = DOMAIN rank'
    BY <2>1, FinishedIsIdle, KeptWhenOver DEF AloneInv
  <2>5. Kept' = D
    BY <2>2, <2>4
  <2> QED
    BY <1>2, <1>4, <1>6, <2>2, <2>3, <2>5 DEF Ordered
<1> QED
  BY <1>7, <1>8

\* The row goes that nobody counted any more.
LEMMA RemoveEntryShape ==
    ASSUME NEW w, Alone(w), AloneInv(w), Ordered, RemoveEntry(w)
    PROVE  /\ Kept' = Kept /\ Ordered'
           /\ \A x \in Kept : rank'[x] = rank[x] /\ about'[x] = about[x]
<1>1. /\ rank' = Less(rank, {req[w].id}) /\ about' = Less(about, {req[w].id})
      /\ Finish(w) /\ ~Settled(w)
  BY DEF RemoveEntry, Settled
<1>2. PICK D : D = DOMAIN rank \ {req[w].id}
  OBVIOUS
<1>3. Kept = D /\ InOrder(rank, D)
  BY <1>1, <1>2, KeptAlone DEF Ordered
<1>4. rank' = [x \in D |-> rank[x]] /\ about' = [x \in D |-> about[x]]
  BY <1>1, <1>2, TableFacts DEF Less, Restrict, AloneInv
<1>5. Kept' = D
  <2>1. Kept' = DOMAIN rank'
    BY <1>1, FinishedIsIdle, KeptWhenOver DEF AloneInv
  <2> QED
    BY <1>4, <2>1
<1>6. InOrder(rank', D)
  BY <1>3, <1>4 DEF InOrder
<1> QED
  BY <1>3, <1>4, <1>5, <1>6 DEF Ordered

\* A request that reads, or gives up, changes nothing members see.
LEMMA QuietShape ==
    ASSUME NEW w, Alone(w), AloneInv(w), ReadEnd(w) \/ LoadLine(w) \/ LoadEntry(w) \/ Abandon(w)
    PROVE  UNCHANGED <<kind, rank, about, next>> /\ Kept' = Kept
<1>1. UNCHANGED <<kind, rank, about, next>>
  BY Zenon DEF ReadEnd, LoadLine, LoadEntry, Abandon
<1>2. Settled(w)
  BY IdleIsSettled, Zenon DEF ReadEnd, LoadLine, LoadEntry, Abandon, Called, Settled
<1>3. Kept = DOMAIN rank
  BY <1>2, KeptAlone
<1>4. req'[w].op # "shifted"
  <2>1. CASE Abandon(w)
    <3>1. req'[w] = Idle
      BY <2>1, FinishedIsIdle DEF Abandon, AloneInv
    <3> QED
      BY <3>1 DEF Idle
  <2>2. CASE ReadEnd(w)
    BY <2>2, RequestTypes DEF ReadEnd, AloneInv, Idle
  <2>3. CASE LoadEntry(w)
    BY <2>3, RequestTypes DEF LoadEntry, AloneInv, Idle
  <2>4. CASE LoadLine(w)
    <3>1. PICK k \in DOMAIN rank : \E t \in Targets(rank) \cup {rank[k]} :
              req' = [req EXCEPT ![w] = [op |-> "edit", id |-> k, rank |-> rank[k], target |-> t]]
      BY <2>4 DEF LoadLine
    <3> QED
      BY <3>1, RequestTypes DEF AloneInv
  <2> QED
    BY <2>1, <2>2, <2>3, <2>4
<1>5. Kept' = DOMAIN rank'
  BY <1>4, KeptAloneNext
<1> QED
  BY <1>1, <1>3, <1>5

--------------------------------------------------------------------------------
(***************************************************************************)
(* Ranks in order stay in order.                                           *)
(***************************************************************************)
Orderless(w) == MergeItems(w) \/ DeleteItem(w) \/ DeletePerson(w) \/ Crash(w)

LEMMA StepKeepsOrder ==
    ASSUME NEW w, Alone(w), AloneInv(w), Ordered, [Next]_vars, ~Orderless(w) PROVE Ordered'
<1>1. CASE UNCHANGED vars
  BY <1>1 DEF vars, Ordered, Kept, Holds, InOrder
<1>2. CASE Next
  <2>1. \/ ReadEnd(w) \/ AddAtEnd(w) \/ AddLine(w)
        \/ PackKit(w) \/ DuplicateTrip(w)
        \/ EditEntry(w) \/ LoadLine(w) \/ EditLine(w)
        \/ LoadEntry(w) \/ CloseUpBehind(w) \/ RemoveEntry(w) \/ DeleteStatus(w)
        \/ Abandon(w) \/ Orderless(w)
    BY <1>2, Zenon DEF Next, Alone, Orderless
  <2>2. CASE ReadEnd(w) \/ LoadLine(w) \/ LoadEntry(w) \/ Abandon(w)
    BY <2>2, QuietShape DEF Ordered, InOrder
  <2> QED
    BY <2>1, <2>2, AddAtEndShape, AddLineShape, PackKitShape, DuplicateTripShape,
       EditShape, DeletionShape, RemoveEntryShape
<1> QED
  BY <1>1, <1>2

\* For a single worker, nothing but lines that leave with their item or person,
\* items merged and a deletion cut in half takes the ranks of a group out of
\* order, whatever happened before: creation, packing, moves and deletions as
\* django-ordered-model runs them keep each other's ranks.
THEOREM StepsAreOrderly == ASSUME NEW w, Alone(w) PROVE Spec => OrderlySteps
<1>1. Init => AloneInv(w)
  BY AloneInductive
<1>2. AloneInv(w) /\ [Next]_vars => AloneInv(w)'
  BY AloneInductive
<1>3. AloneInv(w) /\ [Next]_vars => OrderlyStep
  <2> SUFFICES ASSUME AloneInv(w), [Next]_vars, RanksAreContiguous PROVE OrderlyStep
    BY DEF OrderlyStep
  <2>1. CASE Orderless(w)
    BY <2>1, Zenon DEF Orderless, Alone, OrderlyStep
  <2>2. CASE ~Orderless(w)
    <3>1. Ordered
      BY OrderedIsContiguous
    <3>2. Ordered'
      BY <2>2, <3>1, StepKeepsOrder
    <3> QED
      BY <3>2 DEF Ordered, InOrder, RanksAreContiguous, OrderlyStep
  <2> QED
    BY <2>1, <2>2
<1> QED
  BY <1>1, <1>2, <1>3, PTL DEF Spec, OrderlySteps

\* Nor is any order lost when no such thing happens.
OneByOne(w) ==
    Alone(w) /\ Routes \subseteq {"add", "pack kit", "duplicate trip", "edit", "delete"}

\* Positions go from 0 to the last rank of the group, without a hole or a tie,
\* as long as requests are served one at a time and lines leave by being
\* deleted one by one.
THEOREM RanksStayContiguous ==
    ASSUME NEW w, OneByOne(w) PROVE Spec => [](TypeOK /\ RanksAreContiguous)
<1>0. Alone(w)
  BY DEF OneByOne
<1>1. Init => AloneInv(w)
  BY <1>0, AloneInductive
<1>2. AloneInv(w) /\ [Next]_vars => AloneInv(w)'
  BY <1>0, AloneInductive
<1>3. Init => Ordered
  <2> SUFFICES ASSUME Init PROVE Ordered
    OBVIOUS
  <2>1. Kept = {}
    BY DEF Init, Kept
  <2> QED
    BY <2>1 DEF Ordered, InOrder
<1>4. ~Orderless(w)
  BY Zenon DEF OneByOne, Orderless, MergeItems, DeleteItem, DeletePerson, Crash, Called
<1>5. AloneInv(w) /\ Ordered /\ [Next]_vars => Ordered'
  BY <1>0, <1>4, StepKeepsOrder
<1>6. AloneInv(w) /\ Ordered => TypeOK /\ RanksAreContiguous
  BY OrderedIsContiguous DEF AloneInv, TypeInv, TableFits, RequestsFit, TypeOK
<1> QED
  BY <1>1, <1>2, <1>3, <1>5, <1>6, PTL DEF Spec

--------------------------------------------------------------------------------
(***************************************************************************)
(* Where a line is added, whatever the ranks and the other workers.        *)
(***************************************************************************)
LEMMA AddedLineLeads == ASSUME TypeInv, NEW w \in Worker, AddLine(w) PROVE Leads(next)
<1> DEFINE alike == {j \in DOMAIN about : about[j].item = about'[next].item}
<1>1. /\ next \in Nat /\ next \notin DOMAIN rank
      /\ rank \in [DOMAIN rank -> Nat] /\ about \in [DOMAIN rank -> About]
  BY TableFacts
<1>2. PICK end \in Nat : end = NextRank(rank) /\ \A x \in DOMAIN rank : rank[x] < end
  <2>1. next - 1 \in Nat
    BY DEF TypeInv, TableFits
  <2> QED
    BY <2>1, NextRankIsARank DEF TypeInv, TableFits
<1>3. PICK D : D = DOMAIN rank \cup {next}
  OBVIOUS
<1>4. PICK ranked \in [D -> Nat] : ranked = Put(rank, next, end)
  BY <1>1, <1>2, <1>3, PutFits
<1>5. ranked[next] = end /\ \A x \in DOMAIN rank : ranked[x] = rank[x]
  BY <1>1, <1>3, <1>4 DEF Put
<1>6. PICK a \in About :
          /\ about' = Put(about, next, a)
          /\ rank' = MoveTo(ranked, next, end, HeadOf(ranked, about', next))
  BY <1>2, <1>4 DEF AddLine
<1>7. \A x \in DOMAIN rank : about'[x] = about[x]
  BY <1>1, <1>6 DEF Put
<1>8. PICK head \in Nat :
          /\ head = HeadOf(ranked, about', next)
          /\ IF alike # {}
             THEN /\ \E x \in alike : rank[x] = head
                  /\ \A x \in alike : head <= rank[x]
             ELSE \A x \in D : head <= ranked[x]
  <2>1. D \ {next} = DOMAIN rank /\ D # {} /\ DOMAIN about = DOMAIN rank
    BY <1>1, <1>3
  <2>2. PICK t : t = HeadOf(ranked, about', next)
    OBVIOUS
  <2>3. /\ t \in Nat
        /\ IF \E x \in DOMAIN rank : about'[x].item = about'[next].item
           THEN /\ \E x \in DOMAIN rank : about'[x].item = about'[next].item /\ ranked[x] = t
                /\ \A x \in DOMAIN rank : about'[x].item = about'[next].item => t <= ranked[x]
           ELSE \A x \in D : t <= ranked[x]
    BY <2>1, <2>2, HeadIsLeast
  <2>4. \A x \in DOMAIN rank : x \in alike <=> about'[x].item = about'[next].item
    BY <1>7, <2>1
  <2>5. alike \subseteq DOMAIN rank
    BY <2>1
  <2> HIDE DEF alike
  <2> QED
    BY <1>5, <2>2, <2>3, <2>4, <2>5
<1>9. /\ rank'[next] = head
      /\ \A x \in DOMAIN rank : rank'[x] = IF head <= rank[x] THEN rank[x] + 1 ELSE rank[x]
  <2>1. rank' = MoveTo(ranked, next, end, head)
    BY <1>6, <1>8
  <2>2. rank'[next] = head
    BY <1>3, <1>4, <2>1 DEF MoveTo
  <2>3. ASSUME NEW x \in DOMAIN rank
        PROVE  rank'[x] = IF head <= rank[x] THEN rank[x] + 1 ELSE rank[x]
    <3>1. x \in D /\ x # next /\ ranked[x] = rank[x] /\ rank[x] \in Nat /\ rank[x] < end
      BY <1>1, <1>2, <1>3, <1>5
    <3>2. rank'[x] = IF head <= rank[x] /\ rank[x] < end THEN rank[x] + 1
                     ELSE IF end < rank[x] /\ rank[x] <= head THEN rank[x] - 1
                     ELSE rank[x]
      BY <1>4, <2>1, <3>1 DEF MoveTo
    <3> QED
      BY <1>2, <3>1, <3>2
  <2> QED
    BY <2>2, <2>3
<1>10. alike \subseteq DOMAIN rank
  BY <1>1
<1> HIDE DEF alike
<1>11. \A i, j \in DOMAIN rank : rank'[i] < rank'[j] <=> rank[i] < rank[j]
  BY <1>1, <1>9
<1>12. ASSUME NEW j \in DOMAIN rank
       PROVE  rank'[next] < rank'[j] <=> alike = {} \/ \E h \in alike : rank[h] <= rank[j]
  <2>1. rank'[next] < rank'[j] <=> head <= rank[j]
    BY <1>1, <1>9
  <2>2. CASE alike = {}
    <3>1. head <= rank[j]
      BY <1>3, <1>5, <1>8, <2>2
    <3> QED
      BY <2>1, <2>2, <3>1
  <2>3. CASE alike # {}
    <3>1. head <= rank[j] => \E h \in alike : rank[h] <= rank[j]
      BY <1>8, <2>3
    <3>2. ASSUME NEW h \in alike, rank[h] <= rank[j] PROVE head <= rank[j]
      BY <1>1, <1>8, <1>10, <2>3, <3>2
    <3> QED
      BY <2>1, <2>3, <3>1, <3>2
  <2> QED
    BY <2>2, <2>3
<1> QED
  BY <1>11, <1>12 DEF Leads, alike

\* A line that is added comes before the lines of its item and what is behind
\* them, and nothing else moves: for any number of workers and entries, and from
\* any ranks, those that a merge or a crash left in disorder included.
THEOREM AddedLinesAlwaysLead == Spec => AddedLinesLead
<1>1. TypeInv /\ [Next]_vars => [\A w \in Worker : AddLine(w) => Leads(next)]_vars
  BY AddedLineLeads
<1> QED
  BY <1>1, InitFits, StepFits, PTL DEF Spec, AddedLinesLead
================================================================================
