--------------------------- MODULE OrderedListProofs ---------------------------
(***************************************************************************)
(* The ranks of a group implement the list of OrderedList, for requests    *)
(* served one at a time and any number of entries.  First the list that    *)
(* ranks in order stand for, then what each handler does to it.            *)
(***************************************************************************)
EXTENDS OrderingProofs, SequenceTheorems

--------------------------------------------------------------------------------
(***************************************************************************)
(* Lemmas on the list that ranks in order stand for.                       *)
(***************************************************************************)
Entry == [id : Nat, item : Item]

\* l lists the entries K by the ranks r.
Lists(l, r, a, K) ==
    /\ l \in Seq(Entry) /\ Len(l) = Cardinality(K)
    /\ \A i \in 1 .. Len(l) : l[i].id \in K /\ r[l[i].id] = i - 1 /\ l[i].item = a[l[i].id].item
    /\ \A k \in K : r[k] + 1 \in 1 .. Len(l) /\ l[r[k] + 1].id = k

LEMMA ListingLists ==
    ASSUME NEW K \in SUBSET Nat, IsFiniteSet(K), NEW r, \A x \in K : r[x] \in Nat,
           InOrder(r, K), NEW a, \A x \in K : a[x].item \in Item
    PROVE  Lists(Listing(r, a, K), r, a, K)
<1> DEFINE g == [x \in K |-> r[x]]
           l == Listing(r, a, K)
<1>1. g \in [K -> Nat] /\ \A x \in K : g[x] = r[x]
  OBVIOUS
<1> HIDE DEF g
<1>2. InOrder(g, K)
  BY <1>1 DEF InOrder
<1>3. PICK n \in Nat : n = Cardinality(K)
  BY FS_CardinalityType
<1>4. \A k \in K : r[k] < n
  BY <1>1, <1>2, <1>3, RankBelowCount
<1>5. \A t \in Nat : t < n => \E k \in K : r[k] = t
  <2> SUFFICES ASSUME NEW t \in Nat, t < n PROVE \E k \in K : r[k] = t
    OBVIOUS
  <2>1. \E k \in K : g[k] = t
    BY <1>1, <1>2, <1>3, TargetIsTaken
  <2> QED
    BY <1>1, <2>1
<1> DEFINE at(i) == CHOOSE x \in K : r[x] = i - 1
<1>6. \A i \in 1 .. n : at(i) \in K /\ r[at(i)] = i - 1
  <2> SUFFICES ASSUME NEW i \in 1 .. n PROVE at(i) \in K /\ r[at(i)] = i - 1
    OBVIOUS
  <2>1. i - 1 \in Nat /\ i - 1 < n
    OBVIOUS
  <2>2. \E k \in K : r[k] = i - 1
    BY <1>5, <2>1
  <2> QED
    BY <2>2
<1>7. l = [i \in 1 .. n |-> [id |-> at(i), item |-> a[at(i)].item]]
  BY <1>3 DEF Listing
<1> HIDE DEF l, at
<1>8. \A i \in 1 .. n : [id |-> at(i), item |-> a[at(i)].item] \in Entry
  BY <1>6 DEF Entry
<1>9. l \in [1 .. n -> Entry]
  BY <1>7, <1>8
<1>10. l \in Seq(Entry) /\ Len(l) = n
  BY <1>9
<1>11. \A i \in 1 .. n : l[i].id \in K /\ r[l[i].id] = i - 1 /\ l[i].item = a[l[i].id].item
  <2> SUFFICES ASSUME NEW i \in 1 .. n
               PROVE  l[i].id \in K /\ r[l[i].id] = i - 1 /\ l[i].item = a[l[i].id].item
    OBVIOUS
  <2>1. l[i].id = at(i) /\ l[i].item = a[at(i)].item
    BY <1>7
  <2> QED
    BY <1>6, <2>1
<1>12. ASSUME NEW k \in K PROVE r[k] + 1 \in 1 .. n /\ l[r[k] + 1].id = k
  <2>1. PICK i \in 1 .. n : i = r[k] + 1
    BY <1>3, <1>4
  <2>2. l[i].id \in K /\ r[l[i].id] = r[k]
    <3>1. l[i].id \in K /\ r[l[i].id] = i - 1
      BY <1>11
    <3>2. r[k] \in Nat /\ i - 1 = r[k]
      BY <2>1
    <3> QED
      BY <3>1, <3>2
  <2> QED
    BY <2>1, <2>2 DEF InOrder
<1>13. Lists(l, r, a, K)
  BY <1>3, <1>10, <1>11, <1>12 DEF Lists
<1> QED
  BY <1>13 DEF l

\* Every key is listed, and once.
LEMMA ListedKeys ==
    ASSUME NEW K, NEW r, NEW a, NEW l, Lists(l, r, a, K)
    PROVE  Listed!ToSet(Listed!Keys(l)) = K /\ Listed!IsInjective(Listed!Keys(l))
<1>1. DOMAIN l = 1 .. Len(l)
  BY DEF Lists
<1>2. Listed!Keys(l) = [i \in 1 .. Len(l) |-> l[i].id]
  BY <1>1 DEF Listed!Keys
<1>3. Listed!ToSet(Listed!Keys(l)) = {l[i].id : i \in 1 .. Len(l)}
  BY <1>2 DEF Listed!ToSet
<1>4. \A k \in K : \E i \in 1 .. Len(l) : l[i].id = k
  BY DEF Lists
<1>5. \A i \in 1 .. Len(l) : l[i].id \in K
  BY DEF Lists
<1>6. ASSUME NEW i \in 1 .. Len(l), NEW j \in 1 .. Len(l), l[i].id = l[j].id PROVE i = j
  <2>1. i - 1 = j - 1
    BY <1>6 DEF Lists
  <2>2. i \in Int /\ j \in Int
    BY DEF Lists
  <2> QED
    BY <2>1, <2>2
<1>7. Listed!ToSet(Listed!Keys(l)) = K
  BY <1>3, <1>4, <1>5
<1>8. Listed!IsInjective(Listed!Keys(l))
  BY <1>2, <1>6 DEF Listed!IsInjective
<1> QED
  BY <1>7, <1>8

LEMMA RemoveAtProperties ==
    ASSUME NEW S, NEW s \in Seq(S), NEW i \in 1 .. Len(s)
    PROVE  /\ RemoveAt(s, i) \in Seq(S) /\ Len(RemoveAt(s, i)) = Len(s) - 1
           /\ \A j \in 1 .. Len(s) - 1 : RemoveAt(s, i)[j] = IF j < i THEN s[j] ELSE s[j + 1]
<1>1. PICK n \in Nat : n = Len(s)
  OBVIOUS
<1>2. i \in Int /\ 1 <= i /\ i <= n /\ i - 1 \in Int /\ i + 1 \in Int /\ n \in Int
  BY <1>1
<1>3. \A j \in 1 .. n : s[j] \in S
  BY <1>1, ElementOfSeq
<1> DEFINE p == SubSeq(s, 1, i - 1)
           q == SubSeq(s, i + 1, n)
<1>4. /\ p \in Seq(S) /\ Len(p) = i - 1
      /\ \A j \in 1 .. i - 1 : p[j] = s[j]
  <2>1. \A j \in 1 .. i - 1 : s[j] \in S
    BY <1>2, <1>3
  <2>2. /\ p \in Seq(S)
        /\ Len(p) = IF 1 <= i - 1 THEN i - 1 - 1 + 1 ELSE 0
        /\ \A j \in 1 .. i - 1 - 1 + 1 : p[j] = s[1 + j - 1]
    BY <1>2, <2>1, SubSeqProperties
  <2> HIDE DEF p
  <2>3. Len(p) = i - 1
    BY <1>2, <2>2
  <2>4. ASSUME NEW j \in 1 .. i - 1 PROVE p[j] = s[j]
    <3>1. j \in 1 .. i - 1 - 1 + 1 /\ 1 + j - 1 = j
      BY <1>2
    <3> QED
      BY <2>2, <3>1
  <2> QED
    BY <2>2, <2>3, <2>4
<1>5. /\ q \in Seq(S) /\ Len(q) = n - i
      /\ \A j \in 1 .. n - i : q[j] = s[i + j]
  <2>1. \A j \in i + 1 .. n : s[j] \in S
    BY <1>2, <1>3
  <2>2. /\ q \in Seq(S)
        /\ Len(q) = IF i + 1 <= n THEN n - (i + 1) + 1 ELSE 0
        /\ \A j \in 1 .. n - (i + 1) + 1 : q[j] = s[i + 1 + j - 1]
    BY <1>2, <2>1, SubSeqProperties
  <2> HIDE DEF q
  <2>3. Len(q) = n - i
    BY <1>2, <2>2
  <2>4. ASSUME NEW j \in 1 .. n - i PROVE q[j] = s[i + j]
    <3>1. j \in 1 .. n - (i + 1) + 1 /\ i + 1 + j - 1 = i + j
      BY <1>2
    <3> QED
      BY <2>2, <3>1
  <2> QED
    BY <2>2, <2>3, <2>4
<1>6. RemoveAt(s, i) = p \o q
  BY <1>1 DEF RemoveAt
<1> HIDE DEF p, q
<1>7. /\ p \o q \in Seq(S)
      /\ Len(p \o q) = Len(p) + Len(q)
      /\ \A j \in 1 .. Len(p) + Len(q) : (p \o q)[j] = IF j <= Len(p) THEN p[j] ELSE q[j - Len(p)]
  BY <1>4, <1>5, ConcatProperties
<1>8. Len(p) + Len(q) = n - 1
  BY <1>2, <1>4, <1>5
<1>9. ASSUME NEW j \in 1 .. n - 1 PROVE (p \o q)[j] = IF j < i THEN s[j] ELSE s[j + 1]
  <2>1. (p \o q)[j] = IF j <= i - 1 THEN p[j] ELSE q[j - (i - 1)]
    BY <1>4, <1>7, <1>8
  <2>2. CASE j < i
    <3>1. j \in 1 .. i - 1
      BY <1>2, <2>2
    <3>2. p[j] = s[j]
      BY <1>4, <3>1
    <3> QED
      BY <1>2, <2>1, <2>2, <3>2
  <2>3. CASE ~ (j < i)
    <3>1. PICK m \in 1 .. n - i : m = j - (i - 1)
      BY <1>2, <2>3
    <3>2. q[m] = s[i + m] /\ i + m = j + 1
      BY <1>2, <1>5, <3>1
    <3> QED
      BY <1>2, <2>1, <2>3, <3>1, <3>2
  <2> QED
    BY <2>2, <2>3
<1> QED
  BY <1>1, <1>6, <1>7, <1>8, <1>9

\* Ranks r and subjects a are ranks s and subjects b closed up behind k.
ClosedUp(r, a, s, b, L, k) ==
    \A x \in L \ {k} : /\ r[x] = IF s[x] > s[k] THEN s[x] - 1 ELSE s[x]
                       /\ a[x].item = b[x].item

\* Taking entry k out of a list leaves the list of the others closed up.
LEMMA ListWithoutEntry ==
    ASSUME NEW L, IsFiniteSet(L), NEW k \in L,
           NEW l, NEW r, NEW a, Lists(l, r, a, L \ {k}),
           NEW m, NEW s, NEW b, Lists(m, s, b, L),
           ClosedUp(r, a, s, b, L, k)
    PROVE  s[k] + 1 \in DOMAIN m /\ m[s[k] + 1].id = k /\ RemoveAt(m, s[k] + 1) = l
<1>1. l \in Seq(Entry) /\ m \in Seq(Entry)
  BY DEF Lists
<1>2. Len(l) = Len(m) - 1
  <2>1. Cardinality(L \ {k}) = Cardinality(L) - 1
    BY FS_RemoveElement
  <2> QED
    BY <2>1 DEF Lists
<1>3. PICK i \in 1 .. Len(m) : i = s[k] + 1 /\ m[i].id = k
  BY DEF Lists
<1>4. s[k] = i - 1
  BY <1>3 DEF Lists
<1>5. PICK n \in Nat : n = Len(m)
  BY <1>1
<1>6. /\ RemoveAt(m, i) \in Seq(Entry) /\ Len(RemoveAt(m, i)) = n - 1
      /\ \A j \in 1 .. n - 1 : RemoveAt(m, i)[j] = IF j < i THEN m[j] ELSE m[j + 1]
  BY <1>1, <1>3, <1>5, RemoveAtProperties
<1>7. ASSUME NEW j \in 1 .. n - 1 PROVE RemoveAt(m, i)[j] = l[j]
  <2>1. PICK x \in L \ {k} : x = l[j].id /\ r[x] = j - 1 /\ l[j].item = a[x].item
    BY <1>2, <1>5, <1>7 DEF Lists
  <2>2. s[x] + 1 \in 1 .. n /\ m[s[x] + 1].id = x /\ x \in L
    BY <1>5, <2>1 DEF Lists
  <2>3. PICK v \in 1 .. n : v = s[x] + 1 /\ m[v].id = x
    BY <2>2
  <2>4. s[x] = v - 1 /\ m[v].item = b[x].item
    BY <1>5, <2>3 DEF Lists
  <2>5. v # i
    BY <1>3, <2>1, <2>3
  <2>6. r[x] = IF v - 1 > i - 1 THEN v - 2 ELSE v - 1
    BY <1>4, <2>1, <2>4 DEF ClosedUp
  <2>7. v = IF j < i THEN j ELSE j + 1
    BY <1>5, <2>1, <2>5, <2>6
  <2>8. RemoveAt(m, i)[j] = m[v]
    BY <1>6, <2>7
  <2>9. m[v] \in Entry /\ l[j] \in Entry
    BY <1>1, <1>2, <1>5, ElementOfSeq
  <2>10. m[v].id = l[j].id /\ m[v].item = l[j].item
    BY <2>1, <2>3, <2>4 DEF ClosedUp
  <2>11. m[v] = l[j]
    BY <2>9, <2>10 DEF Entry
  <2> QED
    BY <2>8, <2>11
<1>8. RemoveAt(m, i) = l
  BY <1>1, <1>2, <1>5, <1>6, <1>7, SeqEqual
<1> QED
  BY <1>1, <1>3, <1>8

\* Entries with the same ranks, about the same items, are listed alike.
LEMMA ListedAlike ==
    ASSUME NEW K, NEW L, K \subseteq L,
           NEW l, NEW r, NEW a, Lists(l, r, a, K),
           NEW m, NEW s, NEW b, Lists(m, s, b, L),
           \A x \in K : r[x] = s[x] /\ a[x].item = b[x].item
    PROVE  \A j \in 1 .. Len(l) : l[j] = m[j]
<1> SUFFICES ASSUME NEW j \in 1 .. Len(l) PROVE l[j] = m[j]
  OBVIOUS
<1>1. PICK x \in K : x = l[j].id /\ r[x] = j - 1 /\ l[j].item = a[x].item
  BY DEF Lists
<1>2. l \in Seq(Entry) /\ m \in Seq(Entry)
  BY DEF Lists
<1>3. x \in L /\ s[x] + 1 = j
  BY <1>1, <1>2
<1>4. j \in 1 .. Len(m) /\ m[j].id = x
  BY <1>3 DEF Lists
<1>5. m[j].item = b[x].item
  BY <1>4 DEF Lists
<1>6. l[j] \in Entry /\ m[j] \in Entry
  BY <1>2, <1>4, ElementOfSeq
<1>7. l[j].id = m[j].id /\ l[j].item = m[j].item
  BY <1>1, <1>4, <1>5
<1> QED
  BY <1>6, <1>7 DEF Entry

\* Entries that come after all others make the list longer.
LEMMA ListExtended ==
    ASSUME NEW K, NEW L, IsFiniteSet(L), K \subseteq L,
           NEW l, NEW r, NEW a, Lists(l, r, a, K),
           NEW m, NEW s, NEW b, Lists(m, s, b, L),
           \A x \in K : r[x] = s[x] /\ a[x].item = b[x].item
    PROVE  IsPrefix(l, m) /\ (K # L => IsStrictPrefix(l, m))
<1>1. l \in Seq(Entry) /\ m \in Seq(Entry)
  BY DEF Lists
<1>2. /\ Len(l) \in Nat /\ Len(m) \in Nat /\ Len(l) <= Len(m)
      /\ K # L => Len(l) # Len(m)
  <2>1. Cardinality(K) <= Cardinality(L) /\ (Cardinality(L) = Cardinality(K) => L = K)
    BY FS_Subset
  <2> QED
    BY <1>1, <2>1 DEF Lists
<1>3. PICK n \in Nat : n = Len(l)
  BY <1>2
<1>4. \A j \in 1 .. n : l[j] = m[j]
  BY <1>3, ListedAlike
<1>5. SubSeq(l, 1, n) = SubSeq(m, 1, n)
  <2>1. \A j \in 1 .. n : l[j] \in Entry /\ m[j] \in Entry
    BY <1>1, <1>2, <1>3, ElementOfSeq
  <2>2. /\ SubSeq(l, 1, n) \in Seq(Entry)
        /\ Len(SubSeq(l, 1, n)) = IF 1 <= n THEN n - 1 + 1 ELSE 0
        /\ \A j \in 1 .. n - 1 + 1 : SubSeq(l, 1, n)[j] = l[1 + j - 1]
    BY <2>1, SubSeqProperties
  <2>3. /\ SubSeq(m, 1, n) \in Seq(Entry)
        /\ Len(SubSeq(m, 1, n)) = IF 1 <= n THEN n - 1 + 1 ELSE 0
        /\ \A j \in 1 .. n - 1 + 1 : SubSeq(m, 1, n)[j] = m[1 + j - 1]
    BY <2>1, SubSeqProperties
  <2>4. Len(SubSeq(l, 1, n)) = n /\ Len(SubSeq(m, 1, n)) = n
    BY <2>2, <2>3
  <2>5. ASSUME NEW j \in 1 .. n PROVE SubSeq(l, 1, n)[j] = SubSeq(m, 1, n)[j]
    <3>1. j \in 1 .. n - 1 + 1 /\ 1 + j - 1 = j
      OBVIOUS
    <3> QED
      BY <1>4, <2>2, <2>3, <3>1
  <2> QED
    BY <2>2, <2>3, <2>4, <2>5, SeqEqual
<1>6. IsPrefix(l, m)
  BY <1>2, <1>3, <1>5 DEF IsPrefix
<1> QED
  BY <1>2, <1>6 DEF IsStrictPrefix

--------------------------------------------------------------------------------
(***************************************************************************)
(* The list before and after a step.                                       *)
(***************************************************************************)
LEMMA ListingOf ==
    ASSUME NEW D \in SUBSET Nat, IsFiniteSet(D), NEW r \in [D -> Nat], NEW a \in [D -> About],
           NEW K \in SUBSET D, InOrder(r, K)
    PROVE  IsFiniteSet(K) /\ Lists(Listing(r, a, K), r, a, K)
<1>1. IsFiniteSet(K) /\ K \in SUBSET Nat
  BY FS_Subset
<1>2. \A x \in K : r[x] \in Nat /\ a[x].item \in Item
  BY DEF About
<1> QED
  BY <1>1, <1>2, ListingLists

LEMMA ListNow ==
    ASSUME TypeInv, Ordered
    PROVE  IsFiniteSet(Kept) /\ Lists(ByRank, rank, about, Kept)
<1>1. /\ DOMAIN rank \in SUBSET Nat /\ IsFiniteSet(DOMAIN rank)
      /\ rank \in [DOMAIN rank -> Nat] /\ about \in [DOMAIN rank -> About]
  BY TableFacts
<1>2. Kept \in SUBSET DOMAIN rank
  BY DEF Kept
<1> QED
  BY <1>1, <1>2, ListingOf DEF Ordered, ByRank

LEMMA ListNext ==
    ASSUME TypeInv', Ordered'
    PROVE  IsFiniteSet(Kept') /\ Lists(ByRank', rank', about', Kept')
<1>1. /\ next' \in Nat /\ DOMAIN rank' \in SUBSET (1 .. next' - 1)
      /\ rank' \in [DOMAIN rank' -> Nat] /\ about' \in [DOMAIN rank' -> About]
  BY DEF TypeInv, TableFits
<1>2. IsFiniteSet(DOMAIN rank') /\ DOMAIN rank' \in SUBSET Nat
  <2>1. next' - 1 \in Int
    BY <1>1
  <2>2. IsFiniteSet(1 .. next' - 1)
    BY <2>1, FS_Interval
  <2> QED
    BY <1>1, <2>2, FS_Subset
<1>3. Kept' \in SUBSET DOMAIN rank'
  BY DEF Kept
<1> QED
  BY <1>1, <1>2, <1>3, ListingOf DEF Ordered, ByRank

\* What the list is, before a step and after it
LEMMA TheListIs ==
    /\ Ordered <=> RanksAreContiguous
    /\ Ordered' <=> RanksAreContiguous'
    /\ Ordered => (IF RanksAreContiguous THEN ByRank ELSE <<>>) = ByRank
    /\ Ordered' => (IF RanksAreContiguous THEN ByRank ELSE <<>>)' = ByRank'
BY DEF Ordered, InOrder, RanksAreContiguous

\* When the ranks are in order after a step, the list is complete.
LEMMA ListIsComplete == ASSUME TypeInv', RanksAreContiguous' PROVE Listed!Complete'
<1>1. Ordered'
  BY TheListIs
<1>2. Lists(ByRank', rank', about', Kept')
  BY <1>1, ListNext
<1>3. Listed!ToSet(Listed!Keys(ByRank')) = Kept' /\ Listed!IsInjective(Listed!Keys(ByRank'))
  BY <1>2, ListedKeys
<1>4. ByRank' = (IF RanksAreContiguous THEN ByRank ELSE <<>>)'
  BY <1>1, TheListIs
<1> QED
  BY <1>3, <1>4 DEF Listed!Complete

\* A step that gives out no key
LEMMA OldKeysStep ==
    ASSUME TypeInv', kind' = kind, next' = next,
           Listed!Edit \/ Listed!Leave \/ Listed!ComeBack
    PROVE  Listed!Next
<1>1. (kind \in Lines)' = (kind \in Lines)
  BY DEF Lines
<1>2. (1 .. next - 1)' = 1 .. next - 1
  OBVIOUS
<1>3. RanksAreContiguous' => Listed!Complete'
  BY ListIsComplete
<1> QED
  BY <1>1, <1>2, <1>3 DEF Listed!Next

LEMMA LongerInterval ==
    ASSUME NEW n \in Nat, NEW m \in Nat, 1 <= n, n < m PROVE 1 .. m - 1 # 1 .. n - 1
<1>1. n \in 1 .. m - 1 /\ n \notin 1 .. n - 1
  OBVIOUS
<1> QED
  BY <1>1

LEMMA KeysAreGivenOut ==
    ASSUME TypeInv, TypeInv', next' > next PROVE (1 .. next - 1)' # 1 .. next - 1
<1>1. PICK n \in Nat : n = next /\ n >= 1
  BY DEF TypeInv, TableFits
<1>2. PICK m \in Nat : m = next' /\ m > n
  BY <1>1 DEF TypeInv, TableFits
<1>3. 1 .. m - 1 # 1 .. n - 1
  BY <1>1, <1>2, LongerInterval
<1> QED
  BY <1>1, <1>2, <1>3

\* A step that gives out keys
LEMMA NewKeysStep ==
    ASSUME TypeInv, TypeInv', kind' = kind, next' > next, Kept = Kept' \cap (1 .. next - 1),
           Listed!Lead \/ Listed!JoinTheEnd
    PROVE  Listed!Next
<1>1. (1 .. next - 1)' # 1 .. next - 1
  BY KeysAreGivenOut
<1>2. RanksAreContiguous' => Listed!Complete'
  BY ListIsComplete
<1>3. (kind \in Lines)' = (kind \in Lines)
  BY DEF Lines
<1> QED
  BY <1>1, <1>2, <1>3 DEF Listed!Next

\* Entries that come last join the end.
LEMMA Joining ==
    ASSUME TypeInv, TypeInv', Ordered, Ordered', Kept \subseteq Kept', Kept # Kept',
           \A x \in Kept : rank'[x] = rank[x] /\ about'[x] = about[x],
           kind \in Lines \/ Cardinality(Kept') = Cardinality(Kept) + 1
    PROVE  Listed!JoinTheEnd
<1>1. IsFiniteSet(Kept) /\ Lists(ByRank, rank, about, Kept)
  BY ListNow
<1>2. IsFiniteSet(Kept') /\ Lists(ByRank', rank', about', Kept')
  BY ListNext
<1>3. IsStrictPrefix(ByRank, ByRank')
  BY <1>1, <1>2, ListExtended
<1>4. Len(ByRank) = Cardinality(Kept) /\ Len(ByRank') = Cardinality(Kept')
  BY <1>1, <1>2 DEF Lists
<1>5. /\ (IF RanksAreContiguous THEN ByRank ELSE <<>>) = ByRank
      /\ (IF RanksAreContiguous THEN ByRank ELSE <<>>)' = ByRank'
  BY TheListIs
<1> QED
  BY <1>3, <1>4, <1>5 DEF Listed!JoinTheEnd, Listed!IsStrictPrefix, IsStrictPrefix,
     Listed!IsPrefix, IsPrefix

\* A line that is added leads its item, or the list.
LEMMA AddLineLeads ==
    ASSUME NEW w, Alone(w), AloneInv(w), AloneInv(w)', Ordered, AddLine(w)
    PROVE  Ordered' /\ Listed!Lead
<1>1. /\ Kept = DOMAIN rank /\ Kept' = DOMAIN rank \cup {next}
      /\ rank' \in [Kept' -> Nat] /\ Ordered'
      /\ \E ranked \in [Kept' -> Nat], a \in About :
            /\ InOrder(ranked, Kept')
            /\ \A x \in DOMAIN rank : ranked[x] = rank[x] /\ rank[x] < ranked[next]
            /\ about' = Put(about, next, a)
            /\ HeadOf(ranked, about', next) \in Nat
            /\ rank' = MoveTo(ranked, next, ranked[next], HeadOf(ranked, about', next))
  BY AddLineShape
<1>2. PICK D : D = DOMAIN rank
  OBVIOUS
<1>3. next \notin D /\ IsFiniteSet(D \cup {next}) /\ rank \in [D -> Nat] /\ about \in [D -> About]
  <2>1. next \notin D /\ IsFiniteSet(D) /\ rank \in [D -> Nat] /\ about \in [D -> About]
    BY <1>2, TableFacts DEF AloneInv
  <2> QED
    BY <2>1, FS_AddElement
<1>4. PICK ranked \in [D \cup {next} -> Nat], a \in About :
          /\ InOrder(ranked, D \cup {next})
          /\ \A x \in D : ranked[x] = rank[x] /\ rank[x] < ranked[next]
          /\ about' = Put(about, next, a)
          /\ rank' = MoveTo(ranked, next, ranked[next], HeadOf(ranked, about', next))
  BY <1>1, <1>2
<1>5. about'[next] = a /\ \A x \in D : about'[x] = about[x]
  BY <1>3, <1>4 DEF Put
<1>6. PICK h \in Nat :
          /\ h = HeadOf(ranked, about', next)
          /\ IF \E x \in D : about[x].item = a.item
             THEN /\ \E x \in D : about[x].item = a.item /\ rank[x] = h
                  /\ \A x \in D : about[x].item = a.item => h <= rank[x]
             ELSE /\ \E x \in D \cup {next} : ranked[x] = h
                  /\ \A x \in D \cup {next} : h <= ranked[x]
  <2>1. PICK E : E = D \cup {next} /\ E # {} /\ E \ {next} = D
    BY <1>3
  <2>2. PICK b : b = about'
    OBVIOUS
  <2>3. PICK h : h = HeadOf(ranked, b, next)
    OBVIOUS
  <2>4. /\ h \in Nat
        /\ IF \E x \in D : b[x].item = b[next].item
           THEN /\ \E x \in D : b[x].item = b[next].item /\ ranked[x] = h
                /\ \A x \in D : b[x].item = b[next].item => h <= ranked[x]
           ELSE /\ \E x \in E : ranked[x] = h
                /\ \A x \in E : h <= ranked[x]
    BY <2>1, <2>3, HeadIsLeast
  <2>5. /\ b[next].item = a.item
        /\ \A x \in D : b[x].item = about[x].item /\ ranked[x] = rank[x]
    BY <1>4, <1>5, <2>2
  <2> QED
    BY <2>1, <2>2, <2>3, <2>4, <2>5
<1>7. rank'[next] = h /\ \A x \in D : rank[x] = IF rank'[x] > rank'[next] THEN rank'[x] - 1 ELSE rank'[x]
  <2>1. rank' = MoveTo(ranked, next, ranked[next], h)
    BY <1>4, <1>6
  <2>2. rank'[next] = h
    BY <2>1 DEF MoveTo
  <2>3. ASSUME NEW x \in D PROVE rank[x] = IF rank'[x] > h THEN rank'[x] - 1 ELSE rank'[x]
    <3>1. ranked[x] = rank[x] /\ rank[x] < ranked[next] /\ rank[x] \in Nat /\ ranked[next] \in Nat
      BY <1>3, <1>4
    <3>2. rank'[x] = IF h <= rank[x] THEN rank[x] + 1 ELSE rank[x]
      BY <1>3, <2>1, <3>1 DEF MoveTo
    <3> QED
      BY <3>1, <3>2
  <2> QED
    BY <2>2, <2>3
<1>8. PICK l : l = ByRank /\ Lists(l, rank, about, D)
  BY <1>1, <1>2, ListNow DEF AloneInv
<1>9. PICK m : m = ByRank' /\ Lists(m, rank', about', D \cup {next})
  BY <1>1, <1>2, ListNext DEF AloneInv
<1>10. h + 1 \in DOMAIN m /\ m[h + 1].id = next /\ RemoveAt(m, h + 1) = l
  <2>1. PICK E : E = D \cup {next} /\ E \ {next} = D /\ next \in E /\ IsFiniteSet(E)
    BY <1>3
  <2>2. PICK s, b : s = rank' /\ b = about' /\ Lists(m, s, b, E)
    BY <1>9, <2>1
  <2>3. \A x \in D : /\ rank[x] = IF s[x] > s[next] THEN s[x] - 1 ELSE s[x]
                     /\ about[x].item = b[x].item
    BY <1>5, <1>7, <2>2
  <2>4. /\ Lists(l, rank, about, E \ {next})
        /\ ClosedUp(rank, about, s, b, E, next)
    BY <1>8, <2>1, <2>3 DEF ClosedUp
  <2>5. s[next] + 1 \in DOMAIN m /\ m[s[next] + 1].id = next /\ RemoveAt(m, s[next] + 1) = l
    BY <2>1, <2>2, <2>4, ListWithoutEntry
  <2> QED
    BY <1>7, <2>2, <2>5
<1>11. \A x \in D \cup {next} : rank'[x] \in Nat
  BY <1>1, <1>2
<1>12. h + 1 \in DOMAIN m /\ m[h + 1].item = a.item
  <2>1. PICK i \in 1 .. Len(m) : i = h + 1
    BY <1>9, <1>10 DEF Lists
  <2>2. m[i].item = about'[m[i].id].item
    BY <1>9 DEF Lists
  <2> QED
    BY <1>5, <1>10, <2>1, <2>2
<1> DEFINE alike == {j \in DOMAIN l : l[j].item = a.item}
<1>13. h + 1 = IF alike = {} THEN 1 ELSE Listed!Min(alike)
  <2>1. DOMAIN l = 1 .. Len(l)
    BY <1>8 DEF Lists
  <2>2. ASSUME NEW j \in alike
        PROVE  \E x \in D : about[x].item = a.item /\ rank[x] = j - 1 /\ j \in Nat
    BY <1>8, <2>1, <2>2 DEF Lists
  <2>3. ASSUME NEW x \in D, about[x].item = a.item PROVE rank[x] + 1 \in alike
    BY <1>8, <2>1, <2>3 DEF Lists
  <2>4. CASE alike = {}
    <3>1. ~ \E x \in D : about[x].item = a.item
      BY <2>3, <2>4
    <3>2. \A x \in D \cup {next} : h <= ranked[x]
      BY <1>6, <3>1
    <3>3. \E x \in D \cup {next} : ranked[x] = h
      BY <1>6, <3>1
    <3>4. \E x \in D \cup {next} : ranked[x] = 0
      BY <1>4, <3>3 DEF InOrder
    <3>5. h = 0
      BY <3>2, <3>4
    <3> QED
      BY <2>4, <3>5
  <2>5. CASE alike # {}
    <3>1. \E x \in D : about[x].item = a.item
      BY <2>2, <2>5
    <3>2. \A x \in D : about[x].item = a.item => h <= rank[x]
      BY <1>4, <1>6, <3>1
    <3>3. PICK x \in D : about[x].item = a.item /\ rank[x] = h
      BY <1>4, <1>6, <3>1
    <3>4. h + 1 \in alike
      BY <2>3, <3>3
    <3>5. \A j \in alike : j \in Nat /\ h + 1 <= j
      BY <2>2, <3>2
    <3> HIDE DEF alike
    <3>6. Listed!Min(alike) = h + 1
      <4>1. \A y \in alike : h + 1 <= y
        BY <3>5
      <4>2. Listed!Min(alike) \in alike /\ \A y \in alike : Listed!Min(alike) <= y
        BY <3>4, <4>1 DEF Listed!Min
      <4> QED
        BY <3>4, <3>5, <4>1, <4>2
    <3> QED
      BY <2>5, <3>6
  <2> QED
    BY <2>4, <2>5
<1>14. kind \in Lines
  BY DEF AddLine
<1>15. /\ (IF RanksAreContiguous THEN ByRank ELSE <<>>) = l
       /\ (IF RanksAreContiguous THEN ByRank ELSE <<>>)' = m
  BY <1>1, <1>8, <1>9, TheListIs
<1>16. Listed!RemoveAt(m, h + 1) = l
  BY <1>10 DEF Listed!RemoveAt, RemoveAt
<1>17. Listed!Lead
  <2> HIDE DEF alike
  <2>1. PICK i \in DOMAIN m : i = h + 1
    BY <1>12
  <2>2. alike = {j \in DOMAIN l : l[j].item = m[i].item}
    BY <1>12, <2>1 DEF alike
  <2> QED
    BY <1>13, <1>14, <1>15, <1>16, <2>1, <2>2 DEF Listed!Lead
<1> QED
  BY <1>1, <1>17

--------------------------------------------------------------------------------
(***************************************************************************)
(* Each handler, as a step of the list.                                    *)
(***************************************************************************)
\* An entry that is edited is taken out and put back.
LEMMA EditsMove ==
    ASSUME NEW w, Alone(w), AloneInv(w), AloneInv(w)', Ordered, EditEntry(w) \/ EditLine(w)
    PROVE  Ordered' /\ Listed!Edit
<1>1. PICK D : D = DOMAIN rank
  OBVIOUS
<1>2. /\ Kept = D /\ Kept' = D /\ Ordered'
      /\ rank' \in [D -> Nat]
  BY <1>1, EditShape
<1>3. PICK k \in D, t \in Nat :
          /\ rank' = MoveTo(rank, k, rank[k], t)
          /\ \A x \in D \ {k} : about'[x] = about[x]
  BY <1>1, EditShape
<1>4. /\ IsFiniteSet(D) /\ D \in SUBSET Nat /\ rank \in [D -> Nat] /\ about \in [D -> About]
  BY <1>1, TableFacts DEF AloneInv
<1>5. InOrder(rank, D)
  BY <1>2 DEF Ordered
<1>6. PICK c \in [D -> Nat] : c = CloseUp(rank, rank[k]) /\ InOrder(c, D \ {k})
  BY <1>4, <1>5, CloseUpKeepsOrder
<1>7. PICK rest : Lists(rest, c, about, D \ {k})
  <2>1. D \ {k} \in SUBSET D
    OBVIOUS
  <2> QED
    BY <1>4, <1>6, <2>1, ListingOf
<1>8. PICK l : l = ByRank /\ Lists(l, rank, about, D)
  BY <1>2, ListNow DEF AloneInv
<1>9. PICK m, s, b : m = ByRank' /\ s = rank' /\ b = about' /\ Lists(m, s, b, D)
  BY <1>2, ListNext DEF AloneInv
<1>10. ClosedUp(c, about, rank, about, D, k)
  BY <1>4, <1>6 DEF ClosedUp, CloseUp
<1>11. s[k] = t /\ ClosedUp(c, about, s, b, D, k)
  <2>1. s[k] = t
    BY <1>3, <1>4, <1>9 DEF MoveTo
  <2>2. ASSUME NEW x \in D \ {k} PROVE c[x] = IF s[x] > t THEN s[x] - 1 ELSE s[x]
    <3>1. rank[x] \in Nat /\ rank[k] \in Nat /\ rank[x] # rank[k]
      BY <1>4, <1>5 DEF InOrder
    <3>2. c[x] = IF rank[x] > rank[k] THEN rank[x] - 1 ELSE rank[x]
      BY <1>4, <1>6 DEF CloseUp
    <3>3. s[x] = IF t <= rank[x] /\ rank[x] < rank[k] THEN rank[x] + 1
                 ELSE IF rank[k] < rank[x] /\ rank[x] <= t THEN rank[x] - 1
                 ELSE rank[x]
      BY <1>3, <1>4, <1>9 DEF MoveTo
    <3> QED
      BY <3>1, <3>2, <3>3
  <2> QED
    BY <1>3, <1>9, <2>1, <2>2 DEF ClosedUp
<1>12. PICK i \in DOMAIN l : l[i].id = k /\ RemoveAt(l, i) = rest
  BY <1>4, <1>7, <1>8, <1>10, ListWithoutEntry
<1>13. PICK j \in DOMAIN m : m[j].id = k /\ RemoveAt(m, j) = rest
  BY <1>4, <1>7, <1>9, <1>11, ListWithoutEntry
<1>14. /\ (IF RanksAreContiguous THEN ByRank ELSE <<>>) = l
       /\ (IF RanksAreContiguous THEN ByRank ELSE <<>>)' = m
  BY <1>2, <1>8, <1>9, TheListIs
<1>15. Listed!RemoveAt(l, i) = Listed!RemoveAt(m, j)
  BY <1>12, <1>13 DEF Listed!RemoveAt, RemoveAt
<1>16. Listed!Edit
  BY <1>12, <1>13, <1>14, <1>15 DEF Listed!Edit
<1> QED
  BY <1>2, <1>16

\* Entries leave, and none of those that stay overtakes another.
LEMMA Leaving ==
    ASSUME TypeInv, TypeInv', Ordered, Kept' \subseteq Kept,
           \A x, y \in Kept' :
               /\ rank[x] <= rank[y] => rank'[x] <= rank'[y]
               /\ about[x].item = about[y].item => about'[x].item = about'[y].item,
           Ordered' \/ Cardinality(Kept \ Kept') > 1
    PROVE  Listed!Leave
<1>1. CASE ~Ordered'
  BY <1>1, TheListIs DEF Listed!Leave, Listed!Cardinality, Cardinality
<1>2. CASE Ordered'
  <2>1. PICK l : l = ByRank /\ Lists(l, rank, about, Kept)
    BY ListNow
  <2>2. PICK m : m = ByRank' /\ Lists(m, rank', about', Kept')
    BY <1>2, ListNext
  <2>3. /\ DOMAIN l = 1 .. Len(l) /\ Len(l) \in Nat
        /\ \A p \in DOMAIN l : /\ l[p].id \in Kept /\ rank[l[p].id] = p - 1
                               /\ l[p].item = about[l[p].id].item
    BY <2>1 DEF Lists
  <2>4. /\ DOMAIN m = 1 .. Len(m) /\ Len(m) \in Nat
        /\ \A p \in DOMAIN m : /\ m[p].id \in Kept' /\ rank'[m[p].id] = p - 1
                               /\ m[p].item = about'[m[p].id].item
    BY <2>2 DEF Lists
  <2>5. ASSUME NEW i \in DOMAIN m, NEW j \in DOMAIN m, NEW p \in DOMAIN l, NEW q \in DOMAIN l,
               m[i].id = l[p].id, m[j].id = l[q].id
        PROVE  /\ i < j <=> p < q
               /\ l[p].item = l[q].item => m[i].item = m[j].item
    <3>1. PICK x \in Kept', y \in Kept' : x = m[i].id /\ y = m[j].id
      BY <2>4
    <3>2. /\ rank'[x] = i - 1 /\ rank'[y] = j - 1 /\ rank[x] = p - 1 /\ rank[y] = q - 1
          /\ i \in Int /\ j \in Int /\ p \in Int /\ q \in Int
      BY <2>3, <2>4, <2>5, <3>1
    <3>3. (p - 1 <= q - 1 => i - 1 <= j - 1) /\ (q - 1 <= p - 1 => j - 1 <= i - 1)
      BY <3>1, <3>2
    <3>4. p = q <=> i = j
      <4>1. x = y <=> i = j
        BY <2>4, <3>1, <3>2
      <4>2. x = y <=> p = q
        BY <2>3, <2>5, <3>1, <3>2, <1>2 DEF Ordered, InOrder
      <4> QED
        BY <4>1, <4>2
    <3>5. i < j <=> p < q
      BY <3>2, <3>3, <3>4
    <3>6. l[p].item = l[q].item => m[i].item = m[j].item
      BY <2>3, <2>4, <2>5, <3>1
    <3> QED
      BY <3>5, <3>6
  <2>6. /\ (IF RanksAreContiguous THEN ByRank ELSE <<>>) = l
        /\ (IF RanksAreContiguous THEN ByRank ELSE <<>>)' = m
    BY <1>2, <2>1, <2>2, TheListIs
  <2>7. Listed!Stay
    BY <2>5, <2>6 DEF Listed!Stay
  <2> QED
    BY <1>2, <2>7, TheListIs DEF Listed!Leave
<1> QED
  BY <1>1, <1>2

\* What those that leave together leave behind: DeleteItem, DeletePerson and the
\* merge of trip lines.
LEMMA TogetherLeaves ==
    ASSUME NEW w, Alone(w), AloneInv(w), AloneInv(w)', Ordered,
           req[w] = Idle, req' = req,
           NEW K \in SUBSET DOMAIN rank, NEW ks \in SetToSeqs(K), rank' = LeaveInTurn(rank, ks),
           \A x, y \in DOMAIN rank \ K :
               about[x].item = about[y].item => about'[x].item = about'[y].item
    PROVE  Listed!Leave
<1>1. PICK D : D = DOMAIN rank
  OBVIOUS
<1>2. Kept = D /\ InOrder(rank, D)
  BY <1>1, IdleIsSettled, OrderedWhenSettled
<1>3. IsFiniteSet(D) /\ rank \in [D -> Nat] /\ IsFiniteSet(K) /\ Cardinality(K) \in Nat
  <2>1. IsFiniteSet(D) /\ rank \in [D -> Nat]
    BY <1>1, TableFacts DEF AloneInv
  <2>2. IsFiniteSet(K)
    BY <1>1, <2>1, FS_Subset
  <2> QED
    BY <2>1, <2>2, FS_CardinalityType
<1>4. /\ rank' \in [D \ K -> Nat]
      /\ \A x, y \in D \ K : rank[x] <= rank[y] => rank'[x] <= rank'[y]
  BY <1>1, <1>3, LeavingTogether
<1>5. Kept' = D \ K
  <2>1. Kept' = DOMAIN rank'
    BY KeptWhenOver
  <2> QED
    BY <1>4, <2>1
<1>6. Ordered' \/ Cardinality(Kept \ Kept') > 1
  <2>1. Kept \ Kept' = K
    BY <1>1, <1>2, <1>5
  <2>2. CASE Cardinality(K) > 1
    BY <2>1, <2>2
  <2>3. CASE Cardinality(K) <= 1
    <3>1. \/ K = {} /\ rank' = rank
          \/ \E k \in D : K = {k} /\ rank' = Less(CloseUp(rank, rank[k]), {k})
      <4>1. K \in SUBSET D /\ ks \in SetToSeqs(K) /\ rank \in [D -> Nat]
        BY <1>1, <1>3
      <4>2. \/ K = {} /\ LeaveInTurn(rank, ks) = rank
            \/ \E k \in D : K = {k} /\ LeaveInTurn(rank, ks) = Less(CloseUp(rank, rank[k]), {k})
        BY <1>3, <2>3, <4>1, LeavingAlone, SMTT(30)
      <4> QED
        BY <4>2, Zenon
    <3>2. CASE K = {} /\ rank' = rank
      BY <1>2, <1>5, <3>2 DEF Ordered
    <3>3. CASE \E k \in D : K = {k} /\ rank' = Less(CloseUp(rank, rank[k]), {k})
      <4>1. PICK k \in D : K = {k} /\ rank' = Less(CloseUp(rank, rank[k]), {k})
        BY <3>3
      <4>2. PICK c \in [D -> Nat] : c = CloseUp(rank, rank[k]) /\ InOrder(c, D \ {k})
        BY <1>2, <1>3, CloseUpKeepsOrder
      <4>3. rank' = [x \in D \ {k} |-> c[x]]
        BY <4>1, <4>2 DEF Less, Restrict
      <4>4. InOrder(rank', D \ {k})
        BY <4>2, <4>3 DEF InOrder
      <4> QED
        BY <1>5, <4>1, <4>4 DEF Ordered
    <3> QED
      BY <3>1, <3>2, <3>3
  <2> QED
    BY <1>3, <2>2, <2>3
<1> QED
  BY <1>1, <1>2, <1>4, <1>5, <1>6, Leaving DEF AloneInv

\* Lines of one item go to one item.
LEMMA RetaggedTogether ==
    ASSUME TypeInv, NEW i, NEW j, NEW x \in DOMAIN rank, NEW y \in DOMAIN rank,
           about[x].item = about[y].item
    PROVE  Retagged(i, j)[x].item = Retagged(i, j)[y].item
<1>1. about \in [DOMAIN rank -> About]
  BY DEF TypeInv, TableFits
<1>2. ASSUME NEW k \in DOMAIN rank
      PROVE  Retagged(i, j)[k].item = IF about[k].item = i THEN j ELSE about[k].item
  <2>1. Retagged(i, j)[k] = IF about[k].item = i THEN [about[k] EXCEPT !.item = j] ELSE about[k]
    BY <1>1 DEF Retagged
  <2>2. about[k] \in About
    BY <1>1
  <2> QED
    BY <2>1, <2>2 DEF About
<1> QED
  BY <1>2

LEMMA MergesLeave ==
    ASSUME NEW w, Alone(w), AloneInv(w), AloneInv(w)', Ordered, MergeItems(w)
    PROVE  Listed!Leave
<1>1. req[w] = Idle /\ req' = req
  BY DEF MergeItems, Called
<1>2. PICK i \in Item : \E j \in Item \ {i} :
          \/ /\ kind = "kit line"
             /\ about' = Retagged(i, j)
             /\ UNCHANGED rank
          \/ LET twice == {k \in LinesOf(i) :
                             \E l \in LinesOf(j) : about[l].person = about[k].person}
             IN  /\ kind = "trip line"
                 /\ about' = Less(Retagged(i, j), twice)
                 /\ \E ks \in Turns(twice, rank) :
                       rank' = LeaveInTurn(rank, ks)
  BY DEF MergeItems
<1>3. PICK j \in Item :
          \/ about' = Retagged(i, j) /\ rank' = rank
          \/ \E twice : /\ twice = {k \in LinesOf(i) :
                                      \E l \in LinesOf(j) : about[l].person = about[k].person}
                        /\ about' = Less(Retagged(i, j), twice)
                        /\ \E ks \in Turns(twice, rank) :
                              rank' = LeaveInTurn(rank, ks)
  BY <1>2
<1>4. PICK a : a = Retagged(i, j)
  OBVIOUS
<1>5. about \in [DOMAIN rank -> About] /\ TypeInv
  BY TableFacts DEF AloneInv
<1>6. DOMAIN a = DOMAIN rank
  BY <1>4, <1>5 DEF Retagged
<1>7. \A x, y \in DOMAIN rank : about[x].item = about[y].item => a[x].item = a[y].item
  BY <1>4, <1>5, RetaggedTogether
<1>8. CASE about' = Retagged(i, j) /\ rank' = rank
  <2>1. Kept = DOMAIN rank
    BY <1>1, IdleIsSettled, OrderedWhenSettled
  <2>2. Kept' = DOMAIN rank
    BY <1>1, <1>8, KeptWhenOver
  <2>3. Ordered'
    BY <1>8, <2>1, <2>2 DEF Ordered, InOrder
  <2> QED
    BY <1>4, <1>7, <1>8, <2>1, <2>2, <2>3, Leaving DEF AloneInv
<1>9. CASE \E twice : /\ twice = {k \in LinesOf(i) :
                                    \E l \in LinesOf(j) : about[l].person = about[k].person}
                      /\ about' = Less(Retagged(i, j), twice)
                      /\ \E ks \in Turns(twice, rank) :
                            rank' = LeaveInTurn(rank, ks)
  <2>1. PICK K : /\ K = {k \in LinesOf(i) :
                           \E l \in LinesOf(j) : about[l].person = about[k].person}
                 /\ about' = Less(a, K)
                 /\ \E ks \in Turns(K, rank) :
                       rank' = LeaveInTurn(rank, ks)
    BY <1>4, <1>9
  <2>2. K \in SUBSET DOMAIN rank
    BY <1>5, <2>1 DEF LinesOf
  <2>3. PICK ks \in SetToSeqs(K) : rank' = LeaveInTurn(rank, ks)
    BY <2>1 DEF Turns
  <2>4. \A x \in DOMAIN rank \ K : about'[x] = a[x]
    BY <1>6, <2>1 DEF Less, Restrict
  <2>5. \A x, y \in DOMAIN rank \ K :
            about[x].item = about[y].item => about'[x].item = about'[y].item
    BY <1>7, <2>4
  <2> QED
    BY <1>1, <2>2, <2>3, <2>5, TogetherLeaves
<1> QED
  BY <1>3, <1>8, <1>9

LEMMA CascadesLeave ==
    ASSUME NEW w, Alone(w), AloneInv(w), AloneInv(w)', Ordered, req[w] = Idle, req' = req,
           NEW K \in SUBSET DOMAIN rank, Cascade(K)
    PROVE  Listed!Leave
<1>1. PICK ks \in SetToSeqs(K) : rank' = LeaveInTurn(rank, ks)
  BY DEF Cascade
<1>2. about \in [DOMAIN rank -> About] /\ about' = Less(about, K)
  BY TableFacts DEF AloneInv, Cascade
<1>3. \A x \in DOMAIN rank \ K : about'[x] = about[x]
  BY <1>2 DEF Less, Restrict
<1> QED
  BY <1>1, <1>3, TogetherLeaves

LEMMA DeletionsLeave ==
    ASSUME NEW w, Alone(w), AloneInv(w), AloneInv(w)', Ordered, CloseUpBehind(w) \/ DeleteStatus(w)
    PROVE  Listed!Leave
<1>1. PICK D : D = DOMAIN rank
  OBVIOUS
<1>2. Kept = D /\ Ordered'
  BY <1>1, DeletionShape
<1>3. PICK k \in D :
          /\ Kept' = D \ {k}
          /\ \A x \in Kept' : rank'[x] = CloseUp(rank, rank[k])[x] /\ about'[x] = about[x]
  BY <1>1, DeletionShape
<1>4. rank \in [D -> Nat]
  BY <1>1, TableFacts DEF AloneInv
<1>5. \A x, y \in D : rank[x] <= rank[y] => CloseUp(rank, rank[k])[x] <= CloseUp(rank, rank[k])[y]
  BY <1>4, CloseUpIsMonotone
<1> QED
  BY <1>2, <1>3, <1>5, Leaving DEF AloneInv

\* The entry whose deletion was cut in half comes back.
LEMMA CrashesComeBack ==
    ASSUME NEW w, Alone(w), AloneInv(w), AloneInv(w)', Ordered, Crash(w)
    PROVE  Listed!ComeBack
<1>1. /\ UNCHANGED <<kind, rank, about, next>> /\ Finish(w) /\ ~Settled(w)
      /\ req[w].id \in DOMAIN rank
  BY DEF Crash, Settled, AloneInv, RequestFacts
<1>2. Kept = DOMAIN rank \ {req[w].id} /\ Kept' = DOMAIN rank
  <2>1. Kept' = DOMAIN rank'
    BY <1>1, FinishedIsIdle, KeptWhenOver DEF AloneInv
  <2> QED
    BY <1>1, <2>1, KeptAlone
<1>3. CASE ~Ordered'
  BY <1>1, <1>2, <1>3, TheListIs DEF Listed!ComeBack
<1>4. CASE Ordered'
  <2>1. PICK l : l = ByRank /\ Lists(l, rank, about, Kept)
    BY ListNow DEF AloneInv
  <2>2. PICK m : m = ByRank' /\ Lists(m, rank, about, Kept') /\ IsFiniteSet(Kept')
    BY <1>1, <1>4, ListNext DEF AloneInv
  <2>3. IsPrefix(l, m)
    BY <1>2, <2>1, <2>2, ListExtended
  <2>4. /\ (IF RanksAreContiguous THEN ByRank ELSE <<>>) = l
        /\ (IF RanksAreContiguous THEN ByRank ELSE <<>>)' = m
    BY <1>4, <2>1, <2>2, TheListIs
  <2>5. Listed!IsPrefix(l, m)
    BY <2>3 DEF Listed!IsPrefix, IsPrefix
  <2> QED
    BY <1>1, <1>2, <2>4, <2>5 DEF Listed!ComeBack
<1> QED
  BY <1>3, <1>4

\* A request that reads or gives up, and the second half of a deletion, do
\* nothing that members see.
LEMMA Unseen ==
    ASSUME UNCHANGED <<kind, rank, about, next>>, Kept' = Kept
    PROVE  UNCHANGED Listed!vars
<1>1. RanksAreContiguous' <=> RanksAreContiguous
  BY DEF RanksAreContiguous
<1>2. ByRank' = ByRank
  BY DEF ByRank, Listing
<1>3. (kind \in Lines)' = (kind \in Lines)
  BY DEF Lines
<1> QED
  BY <1>1, <1>2, <1>3 DEF Listed!vars

LEMMA RemovalIsUnseen ==
    ASSUME NEW w, Alone(w), AloneInv(w), AloneInv(w)', Ordered, RemoveEntry(w)
    PROVE  UNCHANGED Listed!vars
<1>1. /\ Kept' = Kept /\ Ordered'
      /\ \A x \in Kept : rank'[x] = rank[x] /\ about'[x] = about[x]
  BY RemoveEntryShape
<1>2. kind' = kind /\ next' = next
  BY DEF RemoveEntry
<1>3. ByRank' = ByRank
  <2>1. PICK l : l = ByRank /\ Lists(l, rank, about, Kept) /\ IsFiniteSet(Kept)
    BY ListNow DEF AloneInv
  <2>2. PICK m, s, b : m = ByRank' /\ s = rank' /\ b = about' /\ Lists(m, s, b, Kept)
    BY <1>1, ListNext DEF AloneInv
  <2>3. \A x \in Kept : rank[x] = s[x] /\ about[x].item = b[x].item
    BY <1>1, <2>2
  <2>4. /\ l \in Seq(Entry) /\ m \in Seq(Entry) /\ Len(l) = Len(m)
    BY <2>1, <2>2 DEF Lists
  <2>5. \A i \in 1 .. Len(l) : l[i] = m[i]
    BY <2>1, <2>2, <2>3, ListedAlike
  <2> QED
    BY <2>1, <2>2, <2>4, <2>5, SeqEqual
<1>4. RanksAreContiguous' = RanksAreContiguous
  BY <1>1, TheListIs
<1>5. (kind \in Lines)' = (kind \in Lines)
  BY <1>2 DEF Lines
<1> QED
  BY <1>1, <1>2, <1>3, <1>4, <1>5 DEF Listed!vars

LEMMA AddAtEndJoins ==
    ASSUME NEW w, Alone(w), AloneInv(w), AloneInv(w)', Ordered, AddAtEnd(w)
    PROVE  Listed!JoinTheEnd
<1>1. /\ Kept = DOMAIN rank /\ Kept' = DOMAIN rank \cup {next} /\ Ordered'
      /\ \A x \in DOMAIN rank : rank'[x] = rank[x]
  BY AddAtEndShape
<1>2. /\ next \notin DOMAIN rank /\ IsFiniteSet(DOMAIN rank)
      /\ about \in [DOMAIN rank -> About]
  BY TableFacts DEF AloneInv
<1>3. \A x \in DOMAIN rank : about'[x] = about[x]
  <2>1. PICK a : about' = Put(about, next, a)
    BY DEF AddAtEnd
  <2> QED
    BY <1>2, <2>1 DEF Put
<1>4. Cardinality(Kept') = Cardinality(Kept) + 1
  BY <1>1, <1>2, FS_AddElement
<1>5. Kept \subseteq Kept' /\ Kept # Kept'
  BY <1>1, <1>2
<1> QED
  BY <1>1, <1>3, <1>4, <1>5, Joining DEF AloneInv

LEMMA PackKitJoins ==
    ASSUME NEW w, Alone(w), AloneInv(w), AloneInv(w)', Ordered, PackKit(w)
    PROVE  /\ Listed!JoinTheEnd
           /\ next' > next /\ Kept = Kept' \cap (1 .. next - 1)
<1>1. PICK n \in Nat : /\ n > 0 /\ next' = next + n
                       /\ Kept' = DOMAIN rank \cup (next .. next + n - 1)
  BY PackKitShape
<1>2. /\ Kept = DOMAIN rank /\ Ordered'
      /\ \A x \in DOMAIN rank : rank'[x] = rank[x] /\ about'[x] = about[x]
  BY PackKitShape
<1>3. next \in Nat /\ DOMAIN rank \subseteq 1 .. next - 1
  BY TableFacts DEF AloneInv
<1>4. next \in next .. next + n - 1 /\ next \notin DOMAIN rank
  BY <1>1, <1>3
<1>5. kind \in Lines
  BY DEF PackKit, Lines
<1>6. Kept \subseteq Kept' /\ Kept # Kept'
  BY <1>1, <1>2, <1>4
<1>7. Listed!JoinTheEnd
  BY <1>2, <1>5, <1>6, Joining DEF AloneInv
<1>8. next' > next
  BY <1>1, <1>3
<1>9. DOMAIN rank = (DOMAIN rank \cup (next .. next + n - 1)) \cap (1 .. next - 1)
  BY <1>1, <1>3
<1> QED
  BY <1>1, <1>2, <1>7, <1>8, <1>9

\* A trip that is duplicated: the list of the copy has the same items in the
\* same order.
LEMMA DuplicateTripCopies ==
    ASSUME NEW w, Alone(w), AloneInv(w), AloneInv(w)', Ordered, DuplicateTrip(w)
    PROVE  Listed!Next \/ UNCHANGED Listed!vars
<1>1. TypeInv /\ TypeInv' /\ w \in Worker
  BY DEF AloneInv, Alone
<1>2. kind \in Lines /\ kind' = kind
  BY DEF DuplicateTrip, Lines
<1>3. Kept = DOMAIN rank /\ Kept' = DOMAIN rank' /\ Ordered'
  BY DuplicateTripShape
<1>4. /\ next \in Nat /\ DOMAIN rank \subseteq 1 .. next - 1
      /\ rank \in [DOMAIN rank -> Nat] /\ about \in [DOMAIN rank -> About]
  BY <1>1, TableFacts
<1>5. PICK n, D, copied : IsTheCopy(n, D, copied)
  BY <1>1, CopiedKeys
<1>6. /\ n \in Nat /\ n = Cardinality(DOMAIN rank)
      /\ next' = next + n /\ D = next .. next + n - 1
      /\ copied \in [D -> DOMAIN rank]
      /\ \A x \in DOMAIN rank : \E k \in D : copied[k] = x
      /\ rank' = [k \in D |-> rank[copied[k]]]
      /\ about' = [k \in D |-> about[copied[k]]]
  BY <1>5 DEF IsTheCopy
<1>7. CASE n = 0
  <2>1. D = {} /\ next' = next
    BY <1>4, <1>6, <1>7
  <2>2. DOMAIN rank = {} /\ DOMAIN rank' = {}
    BY <1>6, <2>1
  <2>3. rank' = rank /\ about' = about
    BY <1>4, <1>6, <2>1, <2>2
  <2> QED
    BY <1>2, <1>3, <2>1, <2>2, <2>3, Unseen
<1>8. CASE n # 0
  <2>2. D \cap (1 .. next - 1) = {} /\ next' > next /\ DOMAIN rank' = D
    BY <1>4, <1>6, <1>8
  <2>3. \A k \in D : /\ copied[k] \in DOMAIN rank
                    /\ rank'[k] = rank[copied[k]] /\ about'[k] = about[copied[k]]
    BY <1>6
  <2>4. Cardinality(D) = n
    <3>1. next \in Int /\ next + n - 1 \in Int
      BY <1>4, <1>6
    <3>2. Cardinality(D) = IF next > next + n - 1 THEN 0 ELSE (next + n - 1) - next + 1
      BY <1>6, <3>1, FS_Interval
    <3> QED
      BY <1>4, <1>6, <1>8, <3>2
  <2>5. Lists(ByRank, rank, about, Kept) /\ Lists(ByRank', rank', about', Kept')
    BY <1>1, <1>3, ListNow, ListNext
  <2>6. PICK l, m : l = ByRank /\ m = ByRank'
    OBVIOUS
  <2>7. Len(l) = n /\ Len(m) = n /\ DOMAIN l = 1 .. n
    BY <1>3, <1>6, <2>2, <2>4, <2>5, <2>6 DEF Lists
  <2>8. ASSUME NEW i \in 1 .. n PROVE m[i].item = l[i].item
    <3>1. PICK k \in D : k = m[i].id /\ rank'[k] = i - 1 /\ m[i].item = about'[k].item
      BY <1>3, <2>2, <2>5, <2>6, <2>7 DEF Lists
    <3>2. PICK x \in DOMAIN rank : x = copied[k] /\ rank[x] = i - 1 /\ m[i].item = about[x].item
      BY <2>3, <3>1
    <3>3. rank[x] + 1 = i
      BY <3>2
    <3>4. l[i].id = x
      BY <1>3, <2>5, <2>6, <3>3 DEF Lists
    <3>5. l[i].item = about[l[i].id].item
      BY <2>5, <2>6, <2>7 DEF Lists
    <3> QED
      BY <3>2, <3>4, <3>5
  <2>9. /\ (IF RanksAreContiguous THEN ByRank ELSE <<>>) = l
        /\ (IF RanksAreContiguous THEN ByRank ELSE <<>>)' = m
    BY <1>3, <2>6, TheListIs
  <2>10. Listed!Copy
    BY <1>2, <1>3, <2>2, <2>7, <2>8, <2>9 DEF Listed!Copy
  <2>11. RanksAreContiguous' => Listed!Complete'
    BY <1>1, ListIsComplete
  <2>12. (1 .. next - 1)' # 1 .. next - 1 /\ (kind \in Lines)' = (kind \in Lines)
    BY <1>1, <1>2, <2>2, KeysAreGivenOut
  <2> QED
    BY <2>10, <2>11, <2>12 DEF Listed!Next
<1> QED
  BY <1>6, <1>7, <1>8

\* One entry was added to those that there were.
LEMMA OneMore ==
    ASSUME TypeInv, next' = next + 1, Kept = DOMAIN rank, Kept' = DOMAIN rank \cup {next}
    PROVE  next' > next /\ Kept = Kept' \cap (1 .. next - 1)
<1>1. next \in Nat /\ DOMAIN rank \subseteq 1 .. next - 1
  BY TableFacts
<1> QED
  BY <1>1

\* A step taken when ranks are in order is a step of the list.
LEMMA StepOfTheList ==
    ASSUME NEW w, Alone(w), AloneInv(w), AloneInv(w)', Ordered, Next
    PROVE  Listed!Next \/ UNCHANGED Listed!vars
<1>1. \/ ReadEnd(w) \/ AddAtEnd(w) \/ AddLine(w)
      \/ PackKit(w) \/ DuplicateTrip(w)
      \/ EditEntry(w) \/ LoadLine(w) \/ EditLine(w)
      \/ LoadEntry(w) \/ CloseUpBehind(w) \/ RemoveEntry(w) \/ DeleteStatus(w)
      \/ MergeItems(w) \/ DeleteItem(w) \/ DeletePerson(w)
      \/ Abandon(w) \/ Crash(w)
  BY Zenon DEF Next, Alone
<1>2. TypeInv /\ TypeInv'
  BY DEF AloneInv
<1>3. CASE ReadEnd(w) \/ LoadLine(w) \/ LoadEntry(w) \/ Abandon(w)
  BY <1>3, QuietShape, Unseen
<1>4. CASE RemoveEntry(w)
  BY <1>4, RemovalIsUnseen
<1>5. CASE AddAtEnd(w)
  <2>1. next' = next + 1 /\ kind' = kind
    BY <1>5 DEF AddAtEnd, UseKeys
  <2>2. Kept = DOMAIN rank /\ Kept' = DOMAIN rank \cup {next}
    BY <1>5, AddAtEndShape
  <2>3. next' > next /\ Kept = Kept' \cap (1 .. next - 1)
    BY <1>2, <2>1, <2>2, OneMore
  <2>4. Listed!JoinTheEnd
    BY <1>5, AddAtEndJoins
  <2> QED
    BY <1>2, <2>1, <2>3, <2>4, NewKeysStep
<1>6. CASE AddLine(w)
  <2>1. next' = next + 1 /\ kind' = kind
    BY <1>6 DEF AddLine, UseKeys
  <2>2. Kept = DOMAIN rank /\ Kept' = DOMAIN rank \cup {next}
    BY <1>6, AddLineShape
  <2>3. next' > next /\ Kept = Kept' \cap (1 .. next - 1)
    BY <1>2, <2>1, <2>2, OneMore
  <2>4. Listed!Lead
    BY <1>6, AddLineLeads
  <2> QED
    BY <1>2, <2>1, <2>3, <2>4, NewKeysStep
<1>7. CASE PackKit(w)
  <2>1. kind' = kind
    BY <1>7 DEF PackKit
  <2>2. Listed!JoinTheEnd /\ next' > next /\ Kept = Kept' \cap (1 .. next - 1)
    BY <1>7, PackKitJoins
  <2> QED
    BY <1>2, <2>1, <2>2, NewKeysStep
<1>8. CASE EditEntry(w) \/ EditLine(w)
  <2>1. kind' = kind /\ next' = next
    BY <1>8 DEF EditEntry, EditLine
  <2>2. Listed!Edit
    BY <1>8, EditsMove
  <2> QED
    BY <1>2, <2>1, <2>2, OldKeysStep
<1>9. CASE CloseUpBehind(w) \/ DeleteStatus(w)
  <2>1. kind' = kind /\ next' = next
    BY <1>9 DEF CloseUpBehind, DeleteStatus
  <2>2. Listed!Leave
    BY <1>9, DeletionsLeave
  <2> QED
    BY <1>2, <2>1, <2>2, OldKeysStep
<1>10. CASE MergeItems(w)
  <2>1. kind' = kind /\ next' = next
    BY <1>10 DEF MergeItems
  <2>2. Listed!Leave
    BY <1>10, MergesLeave
  <2> QED
    BY <1>2, <2>1, <2>2, OldKeysStep
<1>11. CASE DeleteItem(w) \/ DeletePerson(w)
  <2>1. kind' = kind /\ next' = next /\ req' = req /\ req[w] = Idle
    BY <1>11, Zenon DEF DeleteItem, DeletePerson, Called
  <2>2. PICK K \in SUBSET DOMAIN rank : Cascade(K)
    <3>1. DOMAIN about = DOMAIN rank
      BY <1>2, TableFacts
    <3>2. \E K \in SUBSET DOMAIN about : Cascade(K)
      BY <1>11 DEF DeleteItem, DeletePerson, LinesOf
    <3> QED
      BY <3>1, <3>2
  <2>3. Listed!Leave
    BY <2>1, <2>2, CascadesLeave
  <2> QED
    BY <1>2, <2>1, <2>3, OldKeysStep
<1>12. CASE Crash(w)
  <2>1. kind' = kind /\ next' = next
    BY <1>12 DEF Crash
  <2>2. Listed!ComeBack
    BY <1>12, CrashesComeBack
  <2> QED
    BY <1>2, <2>1, <2>2, OldKeysStep
<1> QED
  BY <1>1, <1>3, <1>4, <1>5, <1>6, <1>7, <1>8, <1>9, <1>10, <1>11, <1>12, DuplicateTripCopies

\* For a single worker, whatever handlers do to the column, members see a list,
\* for as long as its order is kept: what is added joins it where it should,
\* what is edited is moved and nothing else with it, what leaves takes only
\* itself out, and only what leaves with others, or comes back, can lose the
\* order.
THEOREM RanksImplementTheList == ASSUME NEW w, Alone(w) PROVE Spec => ImplementsList
<1>1. Init => AloneInv(w)
  BY AloneInductive
<1>2. AloneInv(w) /\ [Next]_vars => AloneInv(w)'
  BY AloneInductive
<1>3. Init => Listed!Init
  <2> SUFFICES ASSUME Init PROVE Listed!Init
    OBVIOUS
  <2>1. Kept = {} /\ Cardinality(Kept) = 0
    BY FS_EmptySet DEF Init, Kept
  <2>2. RanksAreContiguous
    BY <2>1 DEF RanksAreContiguous
  <2>3. ByRank = <<>>
    BY <2>1 DEF ByRank, Listing
  <2> QED
    BY <2>1, <2>2, <2>3 DEF Listed!Init
<1>4. AloneInv(w) /\ AloneInv(w)' /\ [Next]_vars => [RanksAreContiguous => Listed!Next]_(Listed!vars)
  <2> SUFFICES ASSUME AloneInv(w), AloneInv(w)', [Next]_vars, RanksAreContiguous
               PROVE  Listed!Next \/ UNCHANGED Listed!vars
    OBVIOUS
  <2>1. Ordered
    BY TheListIs
  <2>2. CASE UNCHANGED vars
    <3>1. Kept' = Kept
      BY <2>2 DEF vars, Kept, Holds
    <3> QED
      BY <2>2, <3>1, Unseen DEF vars
  <2>3. CASE Next
    BY <2>1, <2>3, StepOfTheList
  <2> QED
    BY <2>2, <2>3
<1> QED
  BY <1>1, <1>2, <1>3, <1>4, PTL DEF Spec, ImplementsList, Listed!Spec
================================================================================
