----------------------------- MODULE PagesProofs -----------------------------
(***************************************************************************)
(* What holds of Pages for any users, documents, sheets and clicks: where  *)
(* signatures and verification codes are drawn, that the layout stays, and *)
(* that a signer who waits for the preview confirms what is shown.         *)
(*                                                                         *)
(* Two sorts have to agree: the page shows the signers by role and then as *)
(* they were added, and the server sorts again what it is sent.  Sorting   *)
(* keeps what is sorted, and that is why the order stored is the one that  *)
(* was seen.                                                               *)
(***************************************************************************)
EXTENDS Pages, FiniteSetTheorems, SequenceTheorems, WellFoundedInduction, TLAPS

-----------------------------------------------------------------------------
(* Sorting *)

\* Among natural numbers there is a least.
LEMMA LeastIs ==
  ASSUME NEW I \in SUBSET Nat, I # {}
  PROVE  Min(I) \in I /\ \A i \in I : Min(I) <= i
<1> DEFINE Below == OpToRel(<, Nat)
<1>1. \A a, b \in Nat : a < b => <<a, b>> \in Below
  BY DEF OpToRel
<1>2. IsWellFoundedOn(Below, Nat)
  BY NatLessThanWellFounded
<1> HIDE DEF Below
<1>3. PICK x \in I : \A y \in I : ~(<<y, x>> \in Below)
  BY <1>2, WFMin
<1>4. ASSUME NEW y \in I PROVE x <= y
  <2>1. x \in Nat /\ y \in Nat
    OBVIOUS
  <2>2. ~(y < x)
    BY <1>1, <1>3, <2>1
  <2> QED BY <2>1, <2>2
<1> QED BY <1>4 DEF Min

\* Any finite set can be listed along a strict total order.
LEMMA Sorting ==
  ASSUME NEW S, IsFiniteSet(S), NEW below \in [S -> SUBSET S],
         \A x \in S : x \notin below[x],
         \A x, y \in S : x = y \/ x \in below[y] \/ y \in below[x],
         \A x, y \in S : x \in below[y] => below[x] \subseteq below[y]
  PROVE  \E s \in [1..Cardinality(S) -> S] :
           \A i, j \in 1..Cardinality(S) : i < j => s[i] \in below[s[j]]
<1> DEFINE n == Cardinality(S)
<1> DEFINE pos == [x \in S |-> Cardinality(below[x]) + 1]
<1>1. n \in Nat
  BY FS_CardinalityType
<1>2. ASSUME NEW x \in S PROVE IsFiniteSet(below[x]) /\ Cardinality(below[x]) \in Nat
  BY FS_Subset, FS_CardinalityType
<1>3. ASSUME NEW x \in S, NEW y \in S, x \in below[y]
      PROVE  Cardinality(below[x]) < Cardinality(below[y])
  <2>1. below[x] \subseteq below[y] /\ x \in below[y] /\ x \notin below[x]
    BY <1>3
  <2>2. Cardinality(below[x]) <= Cardinality(below[y])
        /\ (Cardinality(below[x]) = Cardinality(below[y]) => below[x] = below[y])
    BY <1>2, <2>1, FS_Subset
  <2> QED BY <1>2, <2>1, <2>2
<1>4. ASSUME NEW x \in S PROVE Cardinality(below[x]) < n
  <2>1. Cardinality(below[x]) <= n /\ (Cardinality(below[x]) = n => below[x] = S)
    BY FS_Subset
  <2> QED BY <1>1, <1>2, <2>1
<1>5. pos \in [S -> 1..n]
  BY <1>1, <1>2, <1>4
<1>6. \A x, y \in S : x # y => pos[x] # pos[y]
  BY <1>2, <1>3
<1>7. IsFiniteSet(1..n) /\ Cardinality(1..n) = n
  BY <1>1, FS_Interval
<1>8. pos \in Injection(S, 1..n)
  BY <1>5, <1>6 DEF Injection, IsInjective
<1>9. pos \in Surjection(S, 1..n)
  BY <1>7, <1>8, FS_Injection
<1>10. \A i \in 1..n : \E x \in S : pos[x] = i
  BY <1>9 DEF Surjection
<1> DEFINE s == [i \in 1..n |-> CHOOSE x \in S : pos[x] = i]
<1>11. \A i \in 1..n : s[i] \in S /\ pos[s[i]] = i
  BY <1>10
<1>12. ASSUME NEW i \in 1..n, NEW j \in 1..n, i < j PROVE s[i] \in below[s[j]]
  <2>1. /\ s[i] \in S /\ s[j] \in S
        /\ Cardinality(below[s[i]]) < Cardinality(below[s[j]])
        /\ s[i] # s[j]
    <3>1. s[i] \in S /\ s[j] \in S /\ pos[s[i]] = i /\ pos[s[j]] = j
      BY <1>11
    <3>2. Cardinality(below[s[i]]) + 1 = i /\ Cardinality(below[s[j]]) + 1 = j
      BY <3>1
    <3>3. Cardinality(below[s[i]]) \in Nat /\ Cardinality(below[s[j]]) \in Nat
      BY <1>2, <3>1
    <3> HIDE DEF s, pos, n
    <3>4. i \in Nat /\ j \in Nat
      BY <1>1
    <3> QED BY <1>12, <3>1, <3>2, <3>3, <3>4
  <2>2. ~(s[j] \in below[s[i]])
    BY <1>2, <1>3, <2>1
  <2> QED BY <2>1, <2>2
<1>13. s \in [1..n -> S]
  BY <1>11
<1> HIDE DEF s, pos, n
<1> QED BY <1>12, <1>13 DEF n

\* A list of as many as there are, none of them twice, has them all.
LEMMA Onto ==
  ASSUME NEW S, IsFiniteSet(S), NEW s \in [1..Cardinality(S) -> S],
         \A i, j \in 1..Cardinality(S) : i # j => s[i] # s[j]
  PROVE  \A x \in S : \E i \in 1..Cardinality(S) : s[i] = x
<1> DEFINE n == Cardinality(S)
<1>1. n \in Nat
  BY FS_CardinalityType
<1>2. IsFiniteSet(1..n) /\ Cardinality(1..n) = n
  BY <1>1, FS_Interval
<1>3. s \in Injection(1..n, S)
  BY DEF Injection, IsInjective
<1>4. s \in Surjection(1..n, S)
  BY <1>2, <1>3, FS_Injection
<1> QED BY <1>4 DEF Surjection

\* Positions that only grow, and leave none out, are where they were.
LEMMA Identity ==
  ASSUME NEW n \in Nat, NEW f \in [1..n -> 1..n],
         \A i, j \in 1..n : i < j => f[i] < f[j],
         \A k \in 1..n : \E j \in 1..n : f[j] = k
  PROVE  \A k \in 1..n : f[k] = k
<1> DEFINE K == {k \in 1..n : f[k] # k}
<1>1. SUFFICES ASSUME K # {} PROVE FALSE
  OBVIOUS
<1>2. K \in SUBSET Nat
  OBVIOUS
<1>3. PICK k \in K : \A i \in K : k <= i
  BY <1>1, <1>2, LeastIs
<1>4. k \in 1..n /\ f[k] \in 1..n /\ f[k] # k
  OBVIOUS
<1>5. \A i \in 1..n : i < k => f[i] = i
  BY <1>3, <1>4
<1> HIDE DEF K
<1>6. ~(f[k] < k)
  BY <1>4, <1>5
<1>7. PICK j \in 1..n : f[j] = k
  BY <1>4
<1>8. ~(j < k) /\ j # k
  BY <1>4, <1>5, <1>7
<1>9. f[k] < f[j]
  BY <1>4, <1>7, <1>8
<1> QED BY <1>4, <1>6, <1>7, <1>9

-----------------------------------------------------------------------------
(* Lists of signers *)

NoneTwice(ids) == \A i, j \in DOMAIN ids : i # j => ids[i] # ids[j]
InOrder(ids) == \A i, j \in DOMAIN ids : i < j => Rank[ids[i]] <= Rank[ids[j]]

\* A list of signers as the pages show it and the server keeps it.
Listed(ids) == ids \in Seq(Users) /\ NoneTwice(ids) /\ InOrder(ids)

\* The index of somebody is the first place where they are.
LEMMA IndexIs ==
  ASSUME NEW ids \in Seq(Users), NEW u \in ToSet(ids)
  PROVE  /\ IndexOf(ids, u) \in 1..Len(ids) /\ ids[IndexOf(ids, u)] = u
         /\ \A i \in 1..Len(ids) : ids[i] = u => IndexOf(ids, u) <= i
<1> DEFINE I == {i \in 1..Len(ids) : ids[i] = u}
<1>1. DOMAIN ids = 1..Len(ids) /\ Len(ids) \in Nat
  OBVIOUS
<1>2. I # {}
  BY <1>1 DEF ToSet
<1>3. I \in SUBSET Nat
  BY <1>1
<1>4. Min(I) \in I /\ \A i \in I : Min(I) <= i
  BY <1>2, <1>3, LeastIs
<1>5. IndexOf(ids, u) = Min(I)
  BY <1>2 DEF IndexOf, SelectInSeq
<1> QED BY <1>4, <1>5

\* In a list with nobody twice the index of the one at i is i.
LEMMA IndexInListIs ==
  ASSUME NEW ids \in Seq(Users), NoneTwice(ids), NEW i \in 1..Len(ids)
  PROVE  ids[i] \in ToSet(ids) /\ IndexOf(ids, ids[i]) = i
<1>1. DOMAIN ids = 1..Len(ids)
  OBVIOUS
<1>2. ids[i] \in ToSet(ids)
  BY <1>1 DEF ToSet
<1>3. IndexOf(ids, ids[i]) \in 1..Len(ids) /\ ids[IndexOf(ids, ids[i])] = ids[i]
  BY <1>2, IndexIs
<1> QED BY <1>1, <1>2, <1>3 DEF NoneTwice

\* There are no more signers than entries of a list, and as many if none is twice.
LEMMA HowMany ==
  ASSUME NEW ids \in Seq(Users)
  PROVE  /\ IsFiniteSet(ToSet(ids)) /\ Cardinality(ToSet(ids)) \in Nat
         /\ Cardinality(ToSet(ids)) <= Len(ids)
         /\ NoneTwice(ids) => Cardinality(ToSet(ids)) = Len(ids)
<1>1. DOMAIN ids = 1..Len(ids) /\ Len(ids) \in Nat
  OBVIOUS
<1>2. IsFiniteSet(1..Len(ids)) /\ Cardinality(1..Len(ids)) = Len(ids)
  BY <1>1, FS_Interval
<1>3. ids \in Surjection(1..Len(ids), ToSet(ids))
  <2>1. ids \in [1..Len(ids) -> ToSet(ids)]
    BY <1>1 DEF ToSet
  <2>2. \A x \in ToSet(ids) : \E i \in 1..Len(ids) : ids[i] = x
    BY <1>1 DEF ToSet
  <2> QED BY <2>1, <2>2 DEF Surjection
<1>4. /\ IsFiniteSet(ToSet(ids)) /\ Cardinality(ToSet(ids)) <= Cardinality(1..Len(ids))
      /\ (Cardinality(ToSet(ids)) = Cardinality(1..Len(ids))
            <=> ids \in Injection(1..Len(ids), ToSet(ids)))
  BY <1>2, <1>3, FS_Surjection
<1>5. NoneTwice(ids) => ids \in Injection(1..Len(ids), ToSet(ids))
  BY <1>1, <1>3 DEF NoneTwice, Injection, IsInjective, Surjection
<1>6. Cardinality(ToSet(ids)) \in Nat
  BY <1>4, FS_CardinalityType
<1> QED BY <1>2, <1>4, <1>5, <1>6

\* By role, and then as requested, is a strict total order of those requested.
LEMMA BeforeIsAnOrder ==
  ASSUME NEW ids \in Seq(Users), NEW x \in ToSet(ids), NEW y \in ToSet(ids)
  PROVE  /\ ~Before(ids, x, x)
         /\ x = y \/ Before(ids, x, y) \/ Before(ids, y, x)
         /\ \A z \in ToSet(ids) : Before(ids, x, y) /\ Before(ids, z, x) => Before(ids, z, y)
<1>1. ToSet(ids) \subseteq Users
  BY DEF ToSet
<1>2. \A z \in ToSet(ids) : /\ Rank[z] \in Nat /\ IndexOf(ids, z) \in Nat
                            /\ ids[IndexOf(ids, z)] = z
  BY <1>1, IndexIs, PlacementAssumption
<1> QED BY <1>2 DEF Before

\* The server lists those requested once each, by role.
LEMMA ServerSorts ==
  ASSUME NEW ids \in Seq(Users)
  PROVE  /\ Listed(SortedSigners(ids)) /\ ToSet(SortedSigners(ids)) = ToSet(ids)
         /\ Len(SortedSigners(ids)) = Cardinality(ToSet(ids))
         /\ \A i, j \in 1..Len(SortedSigners(ids)) :
              i < j => Before(ids, SortedSigners(ids)[i], SortedSigners(ids)[j])
<1> DEFINE S == ToSet(ids)
<1> DEFINE n == Cardinality(S)
<1> DEFINE below == [x \in S |-> {y \in S : Before(ids, y, x)}]
<1>1. IsFiniteSet(S) /\ n \in Nat /\ S \subseteq Users
  BY HowMany DEF ToSet
<1>2. below \in [S -> SUBSET S]
  OBVIOUS
<1>3. \A x \in S : x \notin below[x]
  BY BeforeIsAnOrder
<1>4. \A x, y \in S : x = y \/ x \in below[y] \/ y \in below[x]
  BY BeforeIsAnOrder
<1>5. \A x, y \in S : x \in below[y] => below[x] \subseteq below[y]
  BY BeforeIsAnOrder
<1>6. \E s \in [1..n -> S] : \A i, j \in 1..n : i < j => s[i] \in below[s[j]]
  <2> HIDE DEF below
  <2> QED BY <1>1, <1>2, <1>3, <1>4, <1>5, Sorting
<1>7. \E s \in [1..n -> S] : \A i, j \in DOMAIN s : i < j => Before(ids, s[i], s[j])
  BY <1>6
<1> DEFINE s == SortedSigners(ids)
<1>8. s \in [1..n -> S] /\ \A i, j \in DOMAIN s : i < j => Before(ids, s[i], s[j])
  BY <1>7 DEF SortedSigners
<1> HIDE DEF below, s
<1>9. s \in Seq(Users) /\ Len(s) = n /\ DOMAIN s = 1..n
  BY <1>1, <1>8
<1>10. \A i, j \in DOMAIN s : i < j => s[i] # s[j] /\ Rank[s[i]] <= Rank[s[j]]
  <2> TAKE i, j \in DOMAIN s
  <2> HAVE i < j
  <2>1. s[i] \in S /\ s[j] \in S /\ Before(ids, s[i], s[j])
    BY <1>8, <1>9
  <2>2. s[i] # s[j]
    BY <2>1, BeforeIsAnOrder
  <2>3. Rank[s[i]] \in Nat /\ Rank[s[j]] \in Nat
    BY <1>1, <2>1, PlacementAssumption
  <2> QED BY <2>1, <2>2, <2>3 DEF Before
<1>11. NoneTwice(s)
  <2> SUFFICES ASSUME NEW i \in DOMAIN s, NEW j \in DOMAIN s, i # j PROVE s[i] # s[j]
    BY DEF NoneTwice
  <2>1. i \in Nat /\ j \in Nat
    BY <1>1, <1>9
  <2>2. i < j \/ j < i
    BY <2>1
  <2> QED BY <1>10, <2>2
<1>12. ToSet(s) = S
  <2>1. \A x \in S : \E i \in 1..n : s[i] = x
    BY <1>1, <1>8, <1>9, <1>11, Onto DEF NoneTwice
  <2> QED BY <1>8, <1>9, <2>1 DEF ToSet
<1>13. InOrder(s)
  BY <1>10 DEF InOrder
<1> HIDE DEF n, S
<1> QED BY <1>8, <1>9, <1>11, <1>12, <1>13 DEF Listed, s, n, S

\* The server leaves a list as it is.
LEMMA SortedStays ==
  ASSUME NEW ids, Listed(ids)
  PROVE  SortedSigners(ids) = ids
<1> DEFINE n == Len(ids)
<1> DEFINE s == SortedSigners(ids)
<1> DEFINE f == [i \in 1..n |-> IndexOf(ids, s[i])]
<1>1. ids \in Seq(Users) /\ NoneTwice(ids) /\ InOrder(ids) /\ n \in Nat /\ DOMAIN ids = 1..n
  BY DEF Listed
<1>2. /\ s \in Seq(Users) /\ ToSet(s) = ToSet(ids) /\ Len(s) = n
      /\ \A i, j \in 1..n : i < j => Before(ids, s[i], s[j])
  BY <1>1, ServerSorts, HowMany DEF Listed
<1> HIDE DEF s, n
<1>3. DOMAIN s = 1..n
  BY <1>2
<1>4. \A i \in 1..n : s[i] \in ToSet(ids)
  BY <1>2, <1>3 DEF ToSet
<1>5. \A i \in 1..n : IndexOf(ids, s[i]) \in 1..n /\ ids[IndexOf(ids, s[i])] = s[i]
  BY <1>1, <1>4, IndexIs DEF n
<1>6. f \in [1..n -> 1..n]
  BY <1>5
<1>7. \A i, j \in 1..n : i < j => f[i] < f[j]
  <2> TAKE i, j \in 1..n
  <2> HAVE i < j
  <2>1. /\ f[i] \in 1..n /\ f[j] \in 1..n
        /\ f[i] = IndexOf(ids, s[i]) /\ f[j] = IndexOf(ids, s[j])
        /\ ids[f[i]] = s[i] /\ ids[f[j]] = s[j]
    BY <1>5
  <2>2. Before(ids, s[i], s[j]) /\ s[i] \in Users /\ s[j] \in Users
    BY <1>2, <1>3
  <2> HIDE DEF f
  <2>3. f[j] < f[i] => Rank[s[j]] <= Rank[s[i]]
    BY <1>1, <2>1 DEF InOrder
  <2>4. Rank[s[i]] \in Nat /\ Rank[s[j]] \in Nat
    BY <2>2, PlacementAssumption
  <2>5. CASE Rank[s[i]] < Rank[s[j]]
    <3>1. ~(f[j] < f[i]) /\ f[i] # f[j]
      BY <2>1, <2>3, <2>4, <2>5
    <3> QED BY <1>1, <2>1, <3>1
  <2> QED BY <2>1, <2>2, <2>4, <2>5 DEF Before
<1>8. \A k \in 1..n : \E j \in 1..n : f[j] = k
  <2> TAKE k \in 1..n
  <2>1. ids[k] \in ToSet(s) /\ IndexOf(ids, ids[k]) = k
    BY <1>1, <1>2, IndexInListIs DEF n
  <2>2. PICK j \in 1..n : s[j] = ids[k]
    BY <1>3, <2>1 DEF ToSet
  <2> QED BY <2>1, <2>2
<1> HIDE DEF f
<1>9. \A k \in 1..n : f[k] = k
  BY <1>1, <1>6, <1>7, <1>8, Identity
<1>10. \A k \in 1..n : s[k] = ids[k]
  BY <1>5, <1>9 DEF f
<1>11. s = ids
  BY <1>1, <1>2, <1>3, <1>10
<1> QED BY <1>11 DEF s

\* Positions by role and then as they were.
Sorts(p, ids) ==
  \A i, j \in DOMAIN ids : i < j => \/ Rank[ids[p[i]]] < Rank[ids[p[j]]]
                                    \/ Rank[ids[p[i]]] = Rank[ids[p[j]]] /\ p[i] < p[j]

\* The page finds such positions, all of them once.
LEMMA PageSorts ==
  ASSUME NEW ids \in Seq(Users)
  PROVE  \E p \in [DOMAIN ids -> DOMAIN ids] :
           /\ Sorts(p, ids) /\ NormalizeSignerOrder(ids) = [i \in DOMAIN ids |-> ids[p[i]]]
           /\ \A i, j \in DOMAIN ids : i # j => p[i] # p[j]
           /\ \A k \in DOMAIN ids : \E i \in DOMAIN ids : p[i] = k
<1> DEFINE S == DOMAIN ids
<1> DEFINE below == [x \in S |-> {y \in S : \/ Rank[ids[y]] < Rank[ids[x]]
                                            \/ Rank[ids[y]] = Rank[ids[x]] /\ y < x}]
<1>1. S = 1..Len(ids) /\ Len(ids) \in Nat
  OBVIOUS
<1>2. IsFiniteSet(S) /\ Cardinality(S) = Len(ids)
  <2> DEFINE n == Len(ids)
  <2>1. S = 1..n /\ n \in Nat
    BY <1>1
  <2> HIDE DEF n, S
  <2> QED BY <2>1, FS_Interval DEF n
<1>3. \A x \in S : Rank[ids[x]] \in Nat /\ x \in Nat
  BY <1>1, PlacementAssumption
<1>4. below \in [S -> SUBSET S]
  OBVIOUS
<1>5. /\ \A x \in S : x \notin below[x]
      /\ \A x, y \in S : x = y \/ x \in below[y] \/ y \in below[x]
      /\ \A x, y \in S : x \in below[y] => below[x] \subseteq below[y]
  <2> HIDE DEF S
  <2> QED BY <1>3
<1>6. \E s \in [1..Cardinality(S) -> S] :
        \A i, j \in 1..Cardinality(S) : i < j => s[i] \in below[s[j]]
  <2> HIDE DEF below, S
  <2> QED BY <1>2, <1>4, <1>5, Sorting
<1>7. \E s \in [S -> S] : Sorts(s, ids)
  <2>1. PICK s \in [S -> S] : \A i, j \in S : i < j => s[i] \in below[s[j]]
    BY <1>1, <1>2, <1>6
  <2>2. Sorts(s, ids)
    BY <2>1 DEF Sorts
  <2> QED BY <2>2
<1> DEFINE p == CHOOSE s \in [S -> S] : Sorts(s, ids)
<1>8. p \in [S -> S] /\ Sorts(p, ids)
  BY <1>7
<1>9. NormalizeSignerOrder(ids) = [i \in S |-> ids[p[i]]]
  BY DEF NormalizeSignerOrder, Sorts
<1> HIDE DEF p, below
<1>10. \A i, j \in S : i < j => p[i] # p[j]
  <2> TAKE i, j \in S
  <2> HAVE i < j
  <2>1. p[i] \in S /\ p[j] \in S
    BY <1>8
  <2>2. Rank[ids[p[i]]] \in Nat /\ Rank[ids[p[j]]] \in Nat /\ p[i] \in Nat /\ p[j] \in Nat
    BY <1>3, <2>1
  <2>3. \/ Rank[ids[p[i]]] < Rank[ids[p[j]]]
        \/ Rank[ids[p[i]]] = Rank[ids[p[j]]] /\ p[i] < p[j]
    BY <1>8 DEF Sorts
  <2> HIDE DEF S
  <2> QED BY <2>2, <2>3
<1>11. \A i, j \in S : i # j => p[i] # p[j]
  <2> TAKE i, j \in S
  <2> HAVE i # j
  <2>1. i < j \/ j < i
    BY <1>1
  <2> QED BY <1>10, <2>1
<1>12. \A k \in S : \E i \in S : p[i] = k
  <2>1. p \in [1..Cardinality(S) -> S] /\ S = 1..Cardinality(S)
    BY <1>1, <1>2, <1>8
  <2> HIDE DEF S
  <2>2. \A i, j \in 1..Cardinality(S) : i # j => p[i] # p[j]
    BY <1>11, <2>1
  <2>3. \A k \in S : \E i \in 1..Cardinality(S) : p[i] = k
    BY <1>2, <2>1, <2>2, Onto
  <2> QED BY <2>1, <2>3
<1> QED BY <1>8, <1>9, <1>11, <1>12

\* What the page makes of signers none of whom is twice is a list of the same.
LEMMA NormalizedIsListed ==
  ASSUME NEW ids \in Seq(Users), NoneTwice(ids)
  PROVE  /\ Listed(NormalizeSignerOrder(ids)) /\ Len(NormalizeSignerOrder(ids)) = Len(ids)
         /\ ToSet(NormalizeSignerOrder(ids)) = ToSet(ids)
<1> DEFINE new == NormalizeSignerOrder(ids)
<1>1. PICK p \in [DOMAIN ids -> DOMAIN ids] :
        /\ Sorts(p, ids) /\ new = [i \in DOMAIN ids |-> ids[p[i]]]
        /\ \A i, j \in DOMAIN ids : i # j => p[i] # p[j]
        /\ \A k \in DOMAIN ids : \E i \in DOMAIN ids : p[i] = k
  BY PageSorts
<1> HIDE DEF new
<1>2. DOMAIN ids = 1..Len(ids) /\ Len(ids) \in Nat
  OBVIOUS
<1>3. new \in Seq(Users) /\ Len(new) = Len(ids) /\ DOMAIN new = DOMAIN ids
  BY <1>1, <1>2
<1>4. NoneTwice(new)
  BY <1>1, <1>3 DEF NoneTwice
<1>5. \A i \in DOMAIN ids : Rank[ids[i]] \in Nat
  BY <1>2, PlacementAssumption
<1>6. InOrder(new)
  <2> SUFFICES ASSUME NEW i \in DOMAIN ids, NEW j \in DOMAIN ids, i < j
               PROVE  Rank[ids[p[i]]] <= Rank[ids[p[j]]]
    BY <1>1, <1>3 DEF InOrder
  <2>1. p[i] \in DOMAIN ids /\ p[j] \in DOMAIN ids
    OBVIOUS
  <2>2. Rank[ids[p[i]]] \in Nat /\ Rank[ids[p[j]]] \in Nat
    BY <1>5, <2>1
  <2>3. Rank[ids[p[i]]] < Rank[ids[p[j]]] \/ Rank[ids[p[i]]] = Rank[ids[p[j]]]
    BY <1>1 DEF Sorts
  <2> QED BY <2>2, <2>3
<1>7. ToSet(new) = ToSet(ids)
  BY <1>1, <1>3 DEF ToSet
<1> QED BY <1>3, <1>4, <1>6, <1>7 DEF Listed, new

\* The page leaves a list as it is.
LEMMA NormalizedStays ==
  ASSUME NEW ids, Listed(ids)
  PROVE  NormalizeSignerOrder(ids) = ids
<1>1. ids \in Seq(Users) /\ InOrder(ids)
  BY DEF Listed
<1>2. DOMAIN ids = 1..Len(ids) /\ Len(ids) \in Nat
  BY <1>1
<1>3. PICK p \in [DOMAIN ids -> DOMAIN ids] :
        /\ Sorts(p, ids) /\ NormalizeSignerOrder(ids) = [i \in DOMAIN ids |-> ids[p[i]]]
        /\ \A k \in DOMAIN ids : \E i \in DOMAIN ids : p[i] = k
  BY <1>1, PageSorts
<1>4. \A i \in DOMAIN ids : Rank[ids[i]] \in Nat
  BY <1>1, <1>2, PlacementAssumption
<1>5. \A i, j \in DOMAIN ids : i < j => p[i] < p[j]
  <2> TAKE i, j \in DOMAIN ids
  <2> HAVE i < j
  <2>1. p[i] \in DOMAIN ids /\ p[j] \in DOMAIN ids
    OBVIOUS
  <2>2. Rank[ids[p[i]]] \in Nat /\ Rank[ids[p[j]]] \in Nat
    BY <1>4, <2>1
  <2>3. \/ Rank[ids[p[i]]] < Rank[ids[p[j]]]
        \/ Rank[ids[p[i]]] = Rank[ids[p[j]]] /\ p[i] < p[j]
    BY <1>3 DEF Sorts
  <2>4. p[j] < p[i] => Rank[ids[p[j]]] <= Rank[ids[p[i]]]
    BY <1>1, <2>1 DEF InOrder
  <2>5. p[i] \in Nat /\ p[j] \in Nat
    BY <1>2, <2>1
  <2>6. p[i] # p[j]
    BY <2>2, <2>3, <2>5
  <2> QED BY <2>2, <2>3, <2>4, <2>5, <2>6
<1>6. \A k \in DOMAIN ids : p[k] = k
  <2>1. p \in [1..Len(ids) -> 1..Len(ids)]
    BY <1>2
  <2>2. \A i, j \in 1..Len(ids) : i < j => p[i] < p[j]
    BY <1>2, <1>5
  <2>3. \A k \in 1..Len(ids) : \E i \in 1..Len(ids) : p[i] = k
    BY <1>2, <1>3
  <2>4. \A k \in 1..Len(ids) : p[k] = k
    BY <1>2, <2>1, <2>2, <2>3, Identity
  <2> QED BY <1>2, <2>4
<1>7. [i \in DOMAIN ids |-> ids[p[i]]] = ids
  BY <1>1, <1>2, <1>6
<1> QED BY <1>3, <1>7

-----------------------------------------------------------------------------
(* What the pages do to a list *)

\* Somebody new is added once.
LEMMA AddedOnce ==
  ASSUME NEW ids, Listed(ids), NEW u \in Users, u \notin ToSet(ids)
  PROVE  /\ Append(ids, u) \in Seq(Users) /\ NoneTwice(Append(ids, u))
         /\ Len(Append(ids, u)) = Len(ids) + 1
<1>1. ids \in Seq(Users) /\ NoneTwice(ids) /\ DOMAIN ids = 1..Len(ids) /\ Len(ids) \in Nat
  BY DEF Listed
<1> DEFINE new == Append(ids, u)
<1>2. /\ new \in Seq(Users) /\ Len(new) = Len(ids) + 1 /\ DOMAIN new = 1..(Len(ids) + 1)
      /\ new[Len(ids) + 1] = u /\ \A i \in 1..Len(ids) : new[i] = ids[i]
  BY <1>1
<1>3. \A i \in 1..Len(ids) : ids[i] # u
  BY <1>1 DEF ToSet
<1> HIDE DEF new
<1>4. NoneTwice(new)
  <2> SUFFICES ASSUME NEW i \in 1..(Len(ids) + 1), NEW j \in 1..(Len(ids) + 1), i # j
               PROVE  new[i] # new[j]
    BY <1>2 DEF NoneTwice
  <2>1. CASE i \in 1..Len(ids) /\ j \in 1..Len(ids)
    BY <1>1, <1>2, <2>1 DEF NoneTwice
  <2>2. CASE i = Len(ids) + 1
    <3>1. j \in 1..Len(ids)
      BY <1>1, <2>2
    <3> QED BY <1>2, <1>3, <2>2, <3>1
  <2>3. CASE j = Len(ids) + 1
    <3>1. i \in 1..Len(ids)
      BY <1>1, <2>3
    <3> QED BY <1>2, <1>3, <2>3, <3>1
  <2> QED BY <1>1, <2>1, <2>2, <2>3
<1> QED BY <1>2, <1>4 DEF new

\* Two neighbours of one role may change places.
LEMMA MovedIsListed ==
  ASSUME NEW ids, Listed(ids), NEW i \in DOMAIN ids, i + 1 <= Len(ids),
         Rank[ids[i]] = Rank[ids[i + 1]],
         NEW new, new = [ids EXCEPT ![i] = ids[i + 1], ![i + 1] = ids[i]]
  PROVE  Listed(new) /\ Len(new) = Len(ids)
<1>1. /\ ids \in Seq(Users) /\ NoneTwice(ids) /\ InOrder(ids)
      /\ DOMAIN ids = 1..Len(ids) /\ Len(ids) \in Nat
  BY DEF Listed
<1> DEFINE f == [k \in 1..Len(ids) |-> IF k = i THEN i + 1 ELSE IF k = i + 1 THEN i ELSE k]
<1>2. i \in 1..Len(ids) /\ i + 1 \in 1..Len(ids) /\ i # i + 1
  BY <1>1
<1>3. /\ DOMAIN new = 1..Len(ids)
      /\ \A k \in 1..Len(ids) : f[k] \in 1..Len(ids) /\ new[k] = ids[f[k]]
  BY <1>1, <1>2
<1>4. new \in Seq(Users) /\ Len(new) = Len(ids)
  <2>1. \A k \in 1..Len(ids) : new[k] \in Users
    BY <1>1, <1>3
  <2>2. new = [k \in 1..Len(ids) |-> new[k]]
    BY <1>1, <1>2
  <2> HIDE DEF f
  <2> QED BY <1>1, <2>1, <2>2
<1>5. NoneTwice(new)
  <2>1. \A k, l \in 1..Len(ids) : k # l => f[k] # f[l]
    BY <1>1, <1>2
  <2> HIDE DEF f
  <2> QED BY <1>1, <1>3, <2>1 DEF NoneTwice
<1>6. \A k \in 1..Len(ids) : Rank[ids[k]] \in Nat /\ Rank[new[k]] = Rank[ids[k]]
  <2> TAKE k \in 1..Len(ids)
  <2>1. Rank[ids[k]] \in Nat
    BY <1>1, PlacementAssumption
  <2>2. Rank[ids[f[k]]] = Rank[ids[k]]
    OBVIOUS
  <2> HIDE DEF f
  <2> QED BY <1>3, <2>1, <2>2
<1>7. InOrder(new)
  <2> HIDE DEF f
  <2> QED BY <1>1, <1>3, <1>6 DEF InOrder
<1> QED BY <1>4, <1>5, <1>7 DEF Listed

\* A list stays one without somebody.
LEMMA RemovedIsListed ==
  ASSUME NEW ids, Listed(ids), NEW u \in ToSet(ids)
  PROVE  Listed(RemoveFirst(ids, u)) /\ Len(RemoveFirst(ids, u)) = Len(ids) - 1
<1>1. /\ ids \in Seq(Users) /\ NoneTwice(ids) /\ InOrder(ids)
      /\ DOMAIN ids = 1..Len(ids) /\ Len(ids) \in Nat
  BY DEF Listed
<1> DEFINE i == IndexOf(ids, u)
<1>2. i \in 1..Len(ids) /\ ids[i] = u
  BY <1>1, IndexIs
<1>3. RemoveFirst(ids, u) = SubSeq(ids, 1, i - 1) \o SubSeq(ids, i + 1, Len(ids))
  <2>1. \E j \in 1..Len(ids) : ids[j] = u
    BY <1>2
  <2> QED BY <2>1 DEF RemoveFirst, RemoveAt, IndexOf
<1> HIDE DEF i
<1> DEFINE left == SubSeq(ids, 1, i - 1)
<1> DEFINE right == SubSeq(ids, i + 1, Len(ids))
<1> DEFINE new == left \o right
<1> DEFINE f == [k \in 1..(Len(ids) - 1) |-> IF k < i THEN k ELSE k + 1]
<1>4. left \in Seq(Users) /\ Len(left) = i - 1 /\ \A k \in 1..(i - 1) : left[k] = ids[k]
  BY <1>1, <1>2
<1>5. /\ right \in Seq(Users) /\ Len(right) = Len(ids) - i
      /\ \A k \in 1..(Len(ids) - i) : right[k] = ids[i + k]
  <2> DEFINE m == i + 1
  <2>1. m \in Int /\ Len(ids) \in Int /\ \A k \in m..Len(ids) : ids[k] \in Users
    BY <1>1, <1>2
  <2>2. /\ SubSeq(ids, m, Len(ids)) \in Seq(Users)
        /\ Len(SubSeq(ids, m, Len(ids))) = IF m <= Len(ids) THEN Len(ids) - m + 1 ELSE 0
        /\ \A k \in 1..(Len(ids) - m + 1) : SubSeq(ids, m, Len(ids))[k] = ids[m + k - 1]
    <3> HIDE DEF m
    <3> QED BY <2>1, SubSeqProperties
  <2>3. Len(right) = Len(ids) - i
    <3>1. Len(right) = IF m <= Len(ids) THEN Len(ids) - m + 1 ELSE 0
      BY <2>2
    <3>2. m \in Int /\ i \in Int /\ Len(ids) \in Int /\ m = i + 1 /\ i <= Len(ids)
      BY <1>1, <1>2
    <3> HIDE DEF m, right
    <3> QED BY <3>1, <3>2
  <2>4. ASSUME NEW k \in 1..(Len(ids) - i) PROVE right[k] = ids[i + k]
    <3>1. m + k - 1 = i + k /\ k \in 1..(Len(ids) - m + 1)
      BY <1>1, <1>2
    <3> QED BY <2>2, <3>1
  <2> QED BY <2>2, <2>3, <2>4
<1> HIDE DEF left, right
<1>6. /\ new \in Seq(Users) /\ Len(new) = Len(ids) - 1
      /\ \A k \in 1..(Len(ids) - 1) : new[k] = ids[IF k < i THEN k ELSE k + 1]
  <2>1. /\ new \in Seq(Users) /\ Len(new) = Len(left) + Len(right)
        /\ \A k \in 1..(Len(left) + Len(right)) :
             new[k] = IF k <= Len(left) THEN left[k] ELSE right[k - Len(left)]
    BY <1>4, <1>5, ConcatProperties
  <2> HIDE DEF new
  <2>2. Len(left) + Len(right) = Len(ids) - 1
    BY <1>1, <1>2, <1>4, <1>5
  <2>3. ASSUME NEW k \in 1..(Len(ids) - 1) PROVE new[k] = ids[IF k < i THEN k ELSE k + 1]
    <3>1. CASE k < i
      <4>1. k \in 1..(i - 1)
        BY <1>1, <1>2, <3>1
      <4> QED BY <1>1, <1>2, <1>4, <2>1, <2>2, <3>1, <4>1
    <3>2. CASE ~(k < i)
      <4>1. k - (i - 1) \in 1..(Len(ids) - i) /\ i + (k - (i - 1)) = k + 1 /\ ~(k <= i - 1)
        BY <1>1, <1>2, <3>2
      <4>2. new[k] = right[k - (i - 1)]
        BY <1>4, <2>1, <2>2, <4>1
      <4> QED BY <1>5, <3>2, <4>1, <4>2
    <3> QED BY <3>1, <3>2
  <2> QED BY <2>1, <2>2, <2>3
<1> HIDE DEF new
<1>7. /\ \A k \in 1..(Len(ids) - 1) : f[k] \in 1..Len(ids) /\ new[k] = ids[f[k]]
      /\ \A k, l \in 1..(Len(ids) - 1) : k < l => f[k] < f[l]
  <2>1. ASSUME NEW k \in 1..(Len(ids) - 1)
        PROVE  f[k] \in 1..Len(ids) /\ new[k] = ids[f[k]]
    BY <1>1, <1>2, <1>6
  <2>2. \A k, l \in 1..(Len(ids) - 1) : k < l => f[k] < f[l]
    BY <1>1, <1>2
  <2> QED BY <2>1, <2>2
<1>8. DOMAIN new = 1..(Len(ids) - 1)
  <2>1. DOMAIN new = 1..Len(new)
    BY <1>6
  <2> QED BY <1>6, <2>1
<1> HIDE DEF f
<1>9. NoneTwice(new)
  <2>1. \A k, l \in 1..(Len(ids) - 1) : k # l => f[k] # f[l]
    <3> TAKE k, l \in 1..(Len(ids) - 1)
    <3> HAVE k # l
    <3>1. k < l \/ l < k
      BY <1>1
    <3> QED BY <1>1, <1>7, <3>1
  <2> QED BY <1>1, <1>7, <1>8, <2>1 DEF NoneTwice
<1>10. InOrder(new)
  BY <1>1, <1>7, <1>8 DEF InOrder
<1>11. Listed(new)
  BY <1>6, <1>9, <1>10 DEF Listed
<1> QED BY <1>3, <1>6, <1>11 DEF new, left, right

-----------------------------------------------------------------------------
(* Places on the sheets *)

\* Sheets have sizes, and there is a first one.
LEMMA Sheets ==
  /\ 1 \in DOMAIN Pages
  /\ \A p \in DOMAIN Pages : Pages[p].w \in Nat /\ Pages[p].h \in Nat
<1> DEFINE Sizes == [w : Nat, h : Nat]
<1>1. Pages \in Seq(Sizes) /\ Pages # <<>>
  BY PlacementAssumption
<1>2. Len(Pages) \in Nat /\ Len(Pages) # 0 /\ DOMAIN Pages = 1..Len(Pages)
  BY <1>1, EmptySeq
<1>3. \A p \in DOMAIN Pages : Pages[p] \in Sizes
  <2> HIDE DEF Sizes
  <2> QED BY <1>1, <1>2, ElementOfSeq
<1> QED BY <1>2, <1>3

\* A position on a sheet is a place.
LEMMA AtIsPlace ==
  ASSUME NEW p \in DOMAIN Pages, NEW x \in Nat, NEW y \in Nat
  PROVE  /\ At(p, x, y) \in Place /\ At(p, x, y) # None
         /\ At(p, x, y).page = p /\ At(p, x, y).x = x /\ At(p, x, y).y = y
BY NoneIsNoPlace DEF At, Place

\* What is moved onto a sheet is at a natural distance.
LEMMA ClampIs ==
  ASSUME NEW v \in Int, NEW hi \in Int
  PROVE  /\ AtLeastZero(v) \in Nat /\ Clamp(v, hi) \in Nat
         /\ hi >= 0 => Clamp(v, hi) <= hi
BY DEF AtLeastZero, Clamp

\* The corners of a sheet are places on it.
LEMMA CornersArePlaces ==
  ASSUME NEW p \in DOMAIN Pages
  PROVE  /\ Corners(p) \in Seq(Place) /\ Len(Corners(p)) = 4
         /\ \A i \in 1..4 : Corners(p)[i] \in Place /\ Corners(p)[i].page = p
<1> DEFINE right == AtLeastZero(Pages[p].w - QrSize - Margin)
<1> DEFINE top == AtLeastZero(Pages[p].h - QrSize - Margin)
<1>1. right \in Nat /\ top \in Nat /\ Margin \in Nat
  BY Sheets DEF AtLeastZero, QrSize, Margin
<1>2. Corners(p) = <<At(p, right, Margin), At(p, Margin, Margin),
                     At(p, right, top), At(p, Margin, top)>>
  BY DEF Corners
<1> HIDE DEF right, top
<1>3. /\ At(p, right, Margin) \in Place /\ At(p, right, Margin).page = p
      /\ At(p, Margin, Margin) \in Place /\ At(p, Margin, Margin).page = p
      /\ At(p, right, top) \in Place /\ At(p, right, top).page = p
      /\ At(p, Margin, top) \in Place /\ At(p, Margin, top).page = p
  BY <1>1, AtIsPlace
<1> QED BY <1>2, <1>3

\* The code goes to a corner of the sheet of the signature, and to one that the
\* signature leaves free if there is any.
LEMMA CodeIsClear ==
  ASSUME NEW place \in Place \cup {None}
  PROVE  /\ AutomaticQr(place) \in Place /\ AutomaticQr(place) # None
         /\ (place # None /\ \E c \in ToSet(Corners(place.page)) : ~Covers(place, c))
              => ~Covers(place, AutomaticQr(place))
<1> DEFINE p == IF place = None THEN 1 ELSE place.page
<1> DEFINE corners == Corners(p)
<1> DEFINE Free(c) == place = None \/ ~Covers(place, c)
<1> DEFINE I == {i \in 1..Len(corners) : Free(corners[i])}
<1>1. p \in DOMAIN Pages
  BY Sheets DEF Place
<1>2. /\ corners \in Seq(Place) /\ Len(corners) = 4
      /\ \A i \in 1..4 : corners[i] \in Place
  BY <1>1, CornersArePlaces
<1>3. AutomaticQr(place) = corners[IF I # {} THEN Min(I) ELSE 1]
  <2>1. I \in SUBSET Nat
    BY <1>2
  <2>2. I # {} => Min(I) \in I /\ Min(I) # 0
    <3> HIDE DEF I
    <3>1. I # {} => Min(I) \in I
      BY <2>1, LeastIs
    <3>2. 0 \notin I
      BY <1>2 DEF I
    <3> QED BY <3>1, <3>2
  <2>3. SelectInSeq(corners, Free) = IF I # {} THEN Min(I) ELSE 0
    BY DEF SelectInSeq
  <2>4. AutomaticQr(place) =
          corners[IF SelectInSeq(corners, Free) = 0 THEN 1 ELSE SelectInSeq(corners, Free)]
    BY DEF AutomaticQr
  <2> HIDE DEF I, corners, Free
  <2> QED BY <2>2, <2>3, <2>4
<1>4. I # {} => Min(I) \in I
  <2>1. I \in SUBSET Nat
    BY <1>2
  <2> HIDE DEF I
  <2> QED BY <2>1, LeastIs
<1>5. (IF I # {} THEN Min(I) ELSE 1) \in 1..4
  <2>1. I \subseteq 1..4
    BY <1>2
  <2> HIDE DEF I
  <2>2. I # {} => Min(I) \in 1..4
    BY <1>4, <2>1
  <2>3. 1 \in 1..4
    OBVIOUS
  <2> QED BY <2>2, <2>3
<1>6. AutomaticQr(place) \in Place
  BY <1>2, <1>3, <1>5
<1>7. ASSUME place # None, NEW c \in ToSet(Corners(place.page)), ~Covers(place, c)
      PROVE  ~Covers(place, AutomaticQr(place))
  <2>1. c \in ToSet(corners)
    BY <1>7
  <2>2. PICK i \in 1..Len(corners) : corners[i] = c
    BY <1>2, <2>1 DEF ToSet
  <2>3. i \in I
    BY <1>7, <2>2
  <2>4. Min(I) \in I
    BY <1>4, <2>3
  <2>5. ~Covers(place, corners[Min(I)])
    BY <1>7, <2>4
  <2> QED BY <1>3, <2>3, <2>5
<1> QED BY <1>6, <1>7, NoneIsNoPlace

\* The place the code keeps clear of is a place or none, and that of the first
\* signer if that signer has one.
LEMMA FirstPlacedIs ==
  ASSUME NEW row \in Document
  PROVE  /\ FirstPlaced(row) \in Place \cup {None}
         /\ row.order # <<>> /\ row.place[row.order[1]] # None
              => FirstPlaced(row) = row.place[row.order[1]]
<1> DEFINE Has(u) == row.place[u] # None
<1> DEFINE I == {i \in 1..Len(row.order) : Has(row.order[i])}
<1> DEFINE first == SelectInSeq(row.order, Has)
<1>1. row.order \in Seq(Users) /\ row.place \in [Users -> Place \cup {None}]
  BY DEF Document
<1>2. first = IF I # {} THEN Min(I) ELSE 0
  BY DEF SelectInSeq
<1>3. FirstPlaced(row) = IF first = 0 THEN None ELSE row.place[row.order[first]]
  BY DEF FirstPlaced
<1>4. I # {} => Min(I) \in I /\ \A i \in I : Min(I) <= i
  <2>1. I \in SUBSET Nat
    BY <1>1
  <2> HIDE DEF I
  <2> QED BY <2>1, LeastIs
<1>5. I \subseteq 1..Len(row.order)
  OBVIOUS
<1> HIDE DEF first
<1>6. FirstPlaced(row) \in Place \cup {None}
  <2>1. CASE I = {}
    BY <1>2, <1>3, <2>1
  <2>2. CASE I # {}
    <3>1. first \in 1..Len(row.order) /\ first # 0
      BY <1>1, <1>2, <1>4, <1>5, <2>2
    <3>2. row.order[first] \in Users
      BY <1>1, <3>1
    <3> QED BY <1>1, <1>3, <3>1, <3>2
  <2> QED BY <2>1, <2>2
<1>7. ASSUME row.order # <<>>, row.place[row.order[1]] # None
      PROVE  FirstPlaced(row) = row.place[row.order[1]]
  <2>1. Len(row.order) \in Nat /\ Len(row.order) # 0
    BY <1>1, <1>7
  <2>2. 1 \in I
    BY <1>7, <2>1
  <2>3. Min(I) \in I /\ Min(I) <= 1 /\ Min(I) \in 1..Len(row.order)
    BY <1>4, <1>5, <2>2
  <2>4. Min(I) = 1
    BY <2>1, <2>3
  <2>5. first = 1
    BY <1>2, <2>2, <2>4
  <2> QED BY <1>3, <2>5
<1> QED BY <1>6, <1>7

-----------------------------------------------------------------------------
(* What a document's rows and file are like *)

Places == [Users -> Place \cup {None}]

\* The signatures given are those of the first of the list, each where it was
\* put, and a file made from the rows as they are shows all images and the code.
RowIs(row, late) ==
  /\ Listed(row.order)
  /\ Len(row.signed) <= Len(row.order)
  /\ \A i \in 1..Len(row.signed) : row.signed[i] = row.order[i]
  /\ row.signed # <<>> => row.qr # None
  /\ \A u \in ToSet(row.signed) : row.place[u] # None =>
       row.widget[u] = [x |-> row.place[u].x, y |-> row.place[u].y]
  /\ ~late => PreRendered(row) \subseteq row.images
  /\ ~late /\ row.order # <<>> => row.qr = AutomaticQr(FirstPlaced(row))

\* The images and the place of the code depend on nothing but signers and places.
LEMMA SameLayout ==
  ASSUME NEW r1, NEW r2, r1.order = r2.order, r1.place = r2.place
  PROVE  FirstPlaced(r1) = FirstPlaced(r2) /\ PreRendered(r1) = PreRendered(r2)
<1>1. FirstPlaced(r1) = FirstPlaced(r2)
  <2> DEFINE I1 == {i \in 1..Len(r1.order) : r1.place[r1.order[i]] # None}
  <2> DEFINE I2 == {i \in 1..Len(r2.order) : r2.place[r2.order[i]] # None}
  <2>1. I1 = I2
    OBVIOUS
  <2>2. FirstPlaced(r1) = LET first == IF I1 # {} THEN Min(I1) ELSE 0
                          IN IF first = 0 THEN None ELSE r1.place[r1.order[first]]
    BY DEF FirstPlaced, SelectInSeq
  <2>3. FirstPlaced(r2) = LET first == IF I2 # {} THEN Min(I2) ELSE 0
                          IN IF first = 0 THEN None ELSE r2.place[r2.order[first]]
    BY DEF FirstPlaced, SelectInSeq
  <2> HIDE DEF I1, I2
  <2> QED BY <2>1, <2>2, <2>3
<1>2. PreRendered(r1) = PreRendered(r2)
  BY DEF PreRendered
<1> QED BY <1>1, <1>2

\* All images are of users, at places.
LEMMA PreRenderedIs ==
  ASSUME NEW row \in Document
  PROVE  PreRendered(row) \in SUBSET Image
<1>1. row.place \in Places /\ row.order \in Seq(Users)
  BY DEF Document, Places
<1>2. \A u \in ToSet(row.order) : u \in Users
  BY <1>1 DEF ToSet
<1>3. At(1, Edge, Edge) \in Place
  BY AtIsPlace, Sheets DEF Edge
<1>4. \A u \in ToSet(row.order) :
        (IF row.place[u] = None THEN At(1, Edge, Edge) ELSE row.place[u]) \in Place
  BY <1>1, <1>2, <1>3 DEF Places
<1> QED BY <1>2, <1>4 DEF PreRendered, Image

\* A file made from the rows shows all they say.
LEMMA RenderedIs ==
  ASSUME NEW row \in Document, Listed(row.order), row.signed = <<>>
  PROVE  /\ Rendered(row) \in Document /\ RowIs(Rendered(row), FALSE)
         /\ Rendered(row).order = row.order /\ Rendered(row).place = row.place
<1> DEFINE qr == AutomaticQr(FirstPlaced(row))
<1> DEFINE images == PreRendered(row)
<1> DEFINE new == [[row EXCEPT !.qr = qr] EXCEPT !.images = images]
<1>1. qr \in Place /\ qr # None
  BY FirstPlacedIs, CodeIsClear
<1>2. images \in SUBSET Image
  BY PreRenderedIs
<1>3. Rendered(row) = new
  BY DEF Rendered, WithQr
<1> HIDE DEF qr, images
<1>4. /\ new \in Document /\ new.order = row.order /\ new.place = row.place
      /\ new.signed = row.signed /\ new.qr = qr /\ new.images = images
  BY <1>1, <1>2 DEF Document
<1> HIDE DEF new
<1>5. FirstPlaced(new) = FirstPlaced(row) /\ PreRendered(new) = PreRendered(row)
  BY <1>4, SameLayout
<1>6. Len(new.signed) = 0 /\ ToSet(new.signed) = {} /\ Len(new.order) \in Nat
  <2>1. new.order \in Seq(Users)
    BY <1>4 DEF Document
  <2> QED BY <1>4, <2>1 DEF ToSet
<1>7. RowIs(new, FALSE)
  BY <1>4, <1>5, <1>6 DEF RowIs, qr, images
<1> QED BY <1>3, <1>4, <1>7

\* The rows requestSigners commits, while nobody has signed.
LEMMA ConfiguredIs ==
  ASSUME NEW row \in Document, row.signed = <<>>, NEW ids \in Seq(Users), NEW places \in Places
  PROVE  /\ Configured(row, ids, places) \in Document
         /\ Configured(row, ids, places).order = SortedSigners(ids)
         /\ Configured(row, ids, places).place =
              [u \in Users |-> IF u \in ToSet(ids) THEN places[u] ELSE None]
         /\ Configured(row, ids, places).signed = <<>>
         /\ RowIs(Configured(row, ids, places), TRUE)
<1> DEFINE status == IF row.status = "DRAFT" THEN "PENDING_SIGNATURES" ELSE row.status
<1> DEFINE order == SortedSigners(ids)
<1> DEFINE place == [u \in Users |-> IF u \in ToSet(ids) THEN places[u] ELSE None]
<1> DEFINE new == [[[row EXCEPT !.status = status] EXCEPT !.order = order] EXCEPT !.place = place]
<1>1. Listed(order) /\ order \in Seq(Users)
  BY ServerSorts DEF Listed
<1>2. place \in Places
  BY DEF Places
<1>3. status \in Status
  BY DEF Document, Status
<1>4. Configured(row, ids, places) = new
  BY DEF Configured
<1> HIDE DEF status, order, place
<1>5. /\ new \in Document /\ new.order = order /\ new.place = place /\ new.signed = <<>>
  BY <1>1, <1>2, <1>3 DEF Document, Places
<1> HIDE DEF new
<1>6. Len(new.signed) = 0 /\ ToSet(new.signed) = {} /\ Len(new.order) \in Nat
  BY <1>1, <1>5 DEF ToSet
<1>7. RowIs(new, TRUE)
  BY <1>1, <1>5, <1>6 DEF RowIs
<1> QED BY <1>4, <1>5, <1>7 DEF order, place

\* The next to sign is the one listed after those who have.
LEMMA NextIs ==
  ASSUME NEW d \in Docs, doc[d] \in Document, RowIs(doc[d], behind[d]),
         NEW u \in Users, IsNext(d, u)
  PROVE  /\ Len(doc[d].signed) + 1 \in 1..Len(doc[d].order)
         /\ doc[d].order[Len(doc[d].signed) + 1] = u /\ u \notin ToSet(doc[d].signed)
<1> DEFINE order == doc[d].order
<1> DEFINE signed == doc[d].signed
<1>1. /\ order \in Seq(Users) /\ Len(order) \in Nat /\ DOMAIN order = 1..Len(order)
      /\ signed \in Seq(Users) /\ Len(signed) \in Nat /\ DOMAIN signed = 1..Len(signed)
  BY DEF Document
<1>2. /\ NoneTwice(order) /\ Len(signed) <= Len(order)
      /\ \A i \in 1..Len(signed) : signed[i] = order[i]
  BY DEF RowIs, Listed
<1>3. \A x : x \in Pending(d) <=> x \in ToSet(order) /\ x \notin ToSet(signed)
  BY DEF Pending
<1>4. PICK i \in DOMAIN order : /\ order[i] = u /\ u \in Pending(d)
                                /\ \A j \in 1..(i - 1) : order[j] \notin Pending(d)
  BY DEF IsNext
<1> HIDE DEF order, signed
<1>5. \A j \in 1..Len(signed) : order[j] \in ToSet(signed)
  BY <1>1, <1>2 DEF ToSet
<1>6. ~(i <= Len(signed))
  BY <1>1, <1>3, <1>4, <1>5
<1>7. ASSUME Len(signed) + 1 < i PROVE FALSE
  <2> DEFINE n == Len(signed) + 1
  <2>1. n \in 1..(i - 1) /\ n \in 1..Len(order)
    BY <1>1, <1>4, <1>7
  <2>2. order[n] \in ToSet(order)
    BY <1>1, <2>1 DEF ToSet
  <2>3. order[n] \in ToSet(signed)
    BY <1>3, <1>4, <2>1, <2>2
  <2>4. PICK j \in 1..Len(signed) : signed[j] = order[n]
    BY <1>1, <2>3 DEF ToSet
  <2>5. order[j] = order[n] /\ j # n /\ j \in 1..Len(order)
    BY <1>1, <1>2, <2>4
  <2> QED BY <1>1, <1>2, <2>1, <2>5 DEF NoneTwice
<1>8. i = Len(signed) + 1
  BY <1>1, <1>4, <1>6, <1>7
<1> QED BY <1>1, <1>3, <1>4, <1>8 DEF order, signed

\* Whoever is listed after those who have signed.
Follows(row, u) ==
  Len(row.signed) + 1 \in 1..Len(row.order) /\ row.order[Len(row.signed) + 1] = u

\* The row and the file after a signature.
GivenRow(row, u, place, status) ==
  [QrOnce(row, place) EXCEPT
     !.status = status, !.signed = Append(@, u), !.images = @ \cup FirstImage(row, u, place),
     !.widget[u] = WidgetRect(place)]

\* A signature by the next of the list is drawn where it is stored, and leaves
\* the layout, the images and the code there are.
LEMMA GivenIs ==
  ASSUME NEW row \in Document, NEW late, RowIs(row, late), NEW u \in Users,
         Follows(row, u), NEW status \in {"PARTIALLY_SIGNED", "FULLY_SIGNED"},
         NEW place \in Place \cup {None}, row.place[u] # None => place = row.place[u]
  PROVE  /\ GivenRow(row, u, place, status) \in Document
         /\ GivenRow(row, u, place, status).order = row.order
         /\ GivenRow(row, u, place, status).place = row.place
         /\ RowIs(GivenRow(row, u, place, status), late)
<1> DEFINE qr == IF row.qr = None THEN AutomaticQr(place) ELSE row.qr
<1> DEFINE signed == Append(row.signed, u)
<1> DEFINE images == row.images \cup FirstImage(row, u, place)
<1> DEFINE rect == WidgetRect(place)
<1> DEFINE widget == [row.widget EXCEPT ![u] = rect]
<1> DEFINE new == [[[[[row EXCEPT !.qr = qr] EXCEPT !.status = status] EXCEPT !.signed = signed]
                     EXCEPT !.images = images] EXCEPT !.widget = widget]
<1>1. /\ row.order \in Seq(Users) /\ row.signed \in Seq(Users) /\ row.place \in Places
      /\ row.images \in SUBSET Image /\ row.widget \in [Users -> Corner \cup {None}]
      /\ row.qr \in Place \cup {None}
  BY DEF Document, Places
<1>2. Len(row.signed) + 1 \in 1..Len(row.order) /\ row.order[Len(row.signed) + 1] = u
  BY DEF Follows
<1>3. qr \in Place /\ qr # None /\ (row.qr # None => qr = row.qr)
  BY <1>1, CodeIsClear
<1>4. /\ rect \in Corner
      /\ row.place[u] # None => rect = [x |-> row.place[u].x, y |-> row.place[u].y]
  <2>1. place # None => place.x \in Nat /\ place.y \in Nat
    BY DEF Place
  <2>2. Edge \in Nat
    BY DEF Edge
  <2> QED BY <2>1, <2>2 DEF WidgetRect, Corner
<1>5. images \in SUBSET Image /\ row.images \subseteq images
  <2> DEFINE right == AtLeastZero(Pages[1].w - SignatureWidth - Edge)
  <2>1. right \in Nat /\ Edge \in Nat
    BY Sheets DEF AtLeastZero, SignatureWidth, Edge
  <2>2. At(1, right, Edge) \in Place
    BY <2>1, AtIsPlace, Sheets
  <2>3. (IF place = None THEN At(1, right, Edge) ELSE place) \in Place
    BY <2>2
  <2>4. FirstImage(row, u, place) \subseteq Image
    BY <2>3 DEF FirstImage, Image
  <2> QED BY <1>1, <2>4
<1>6. GivenRow(row, u, place, status) = new
  <2>1. QrOnce(row, place) = [row EXCEPT !.qr = qr]
    BY DEF QrOnce, WithQr, Document
  <2> HIDE DEF qr
  <2> QED BY <2>1 DEF GivenRow, Document
<1>7. widget \in [Users -> Corner \cup {None}] /\ widget[u] = rect
      /\ \A v \in Users : v # u => widget[v] = row.widget[v]
  BY <1>1, <1>4
<1>8. /\ signed \in Seq(Users) /\ Len(signed) = Len(row.signed) + 1 /\ signed # <<>>
      /\ signed[Len(row.signed) + 1] = u
      /\ \A i \in 1..Len(row.signed) : signed[i] = row.signed[i]
  BY <1>1, AppendProperties
<1> HIDE DEF qr, signed, images, rect, widget
<1>9. /\ new \in Document /\ new.order = row.order /\ new.place = row.place
      /\ new.qr = qr /\ new.signed = signed /\ new.images = images /\ new.widget = widget
  BY <1>3, <1>5, <1>7, <1>8 DEF Document, Status
<1> HIDE DEF new
<1>10. FirstPlaced(new) = FirstPlaced(row) /\ PreRendered(new) = PreRendered(row)
  BY <1>9, SameLayout
<1>11. Len(row.signed) \in Nat /\ Len(row.order) \in Nat
  BY <1>1
<1>12. \A i \in 1..Len(signed) : signed[i] = row.order[i]
  <2> TAKE i \in 1..Len(signed)
  <2>1. i \in 1..Len(row.signed) \/ i = Len(row.signed) + 1
    BY <1>8, <1>11
  <2> QED BY <1>2, <1>8, <2>1 DEF RowIs
<1>13. ToSet(signed) \subseteq ToSet(row.signed) \cup {u}
  <2> SUFFICES ASSUME NEW i \in 1..Len(signed) PROVE signed[i] \in ToSet(row.signed) \cup {u}
    BY <1>8 DEF ToSet
  <2>1. i \in 1..Len(row.signed) \/ i = Len(row.signed) + 1
    BY <1>8, <1>11
  <2> QED BY <1>1, <1>8, <2>1 DEF ToSet
<1>14. ASSUME NEW v \in ToSet(signed), row.place[v] # None
       PROVE  widget[v] = [x |-> row.place[v].x, y |-> row.place[v].y]
  <2>1. CASE v = u
    BY <1>4, <1>7, <1>14, <2>1
  <2>2. CASE v # u
    <3>1. v \in ToSet(row.signed) /\ v \in Users
      BY <1>1, <1>13, <2>2 DEF ToSet
    <3> QED BY <1>7, <1>14, <2>2, <3>1 DEF RowIs
  <2> QED BY <2>1, <2>2
<1>15. row.order # <<>>
  BY <1>1, <1>2, <1>11
<1>16. ~late => qr = AutomaticQr(FirstPlaced(row))
  BY <1>3, <1>15, FirstPlacedIs, CodeIsClear DEF RowIs
<1>17. /\ Listed(row.order) /\ (~late => PreRendered(row) \subseteq row.images)
       /\ Len(signed) <= Len(row.order)
  BY <1>2, <1>8, <1>11 DEF RowIs
<1>18. RowIs(new, late)
  BY <1>3, <1>5, <1>9, <1>10, <1>12, <1>14, <1>16, <1>17 DEF RowIs
<1> QED BY <1>6, <1>9, <1>18

-----------------------------------------------------------------------------
(* Rows: what the requests do to them *)

RowsInv == \A d \in Docs : RowIs(doc[d], behind[d])

\* A step that shows a document, or loads one, has one of the owner's.
WizardInv ==
  /\ wizard.step # "away" \/ wizard.loading => wizard.doc \in Own
  /\ Listed(wizard.order)

LayoutInv == TypeOK /\ RowsInv /\ WizardInv

\* What each step does to rows and files.
RowsStep ==
  /\ doc' \in [Docs -> Document] /\ behind' \in [Docs -> BOOLEAN] /\ RowsInv'
  /\ ShownOrderIsSaved /\ SignedLayoutStays

\* A step that leaves the rows alone.
LEMMA RowsAlone ==
  ASSUME LayoutInv, UNCHANGED <<doc, behind>>
  PROVE  RowsStep
BY DEF LayoutInv, TypeOK, RowsInv, RowsStep, ShownOrderIsSaved, SignedLayoutStays

\* Only the row of one document changes, and it keeps its layout.
LEMMA RowKeepsLayout ==
  ASSUME LayoutInv, NEW d \in Docs, NEW new \in Document, doc' = [doc EXCEPT ![d] = new],
         UNCHANGED behind, new.order = doc[d].order, new.place = doc[d].place,
         RowIs(new, behind[d])
  PROVE  RowsStep
<1>1. doc \in [Docs -> Document] /\ behind \in [Docs -> BOOLEAN] /\ RowsInv
  BY DEF LayoutInv, TypeOK
<1>2. doc' \in [Docs -> Document] /\ doc'[d] = new /\ \A e \in Docs : e # d => doc'[e] = doc[e]
  BY <1>1
<1>3. RowsInv'
  <2> SUFFICES ASSUME NEW e \in Docs PROVE RowIs(doc'[e], behind'[e])
    BY DEF RowsInv
  <2>1. CASE e = d
    BY <1>2, <2>1
  <2>2. CASE e # d
    BY <1>1, <1>2, <2>2 DEF RowsInv
  <2> QED BY <2>1, <2>2
<1>4. \A e \in Docs : doc'[e].order = doc[e].order /\ doc'[e].place = doc[e].place
  BY <1>2
<1>5. ShownOrderIsSaved /\ SignedLayoutStays
  BY <1>4 DEF ShownOrderIsSaved, SignedLayoutStays
<1> QED BY <1>1, <1>2, <1>3, <1>5 DEF RowsStep

\* Requested signers are stored as the owner sees them if they are sent so.
LEMMA Requested ==
  ASSUME LayoutInv, NEW d \in Docs, NEW places \in Places, NEW fails \in BOOLEAN,
         RequestSigners(d, wizard.order, places, fails)
  PROVE  /\ RowsStep /\ doc'[d].order = wizard.order
         /\ doc'[d].place =
              [u \in Users |-> IF u \in ToSet(wizard.order) THEN places[u] ELSE None]
         /\ \A e \in Docs : e # d => doc'[e] = doc[e]
<1> DEFINE ids == wizard.order
<1> DEFINE row == Configured(doc[d], ids, places)
<1> DEFINE new == IF fails THEN row ELSE Rendered(row)
<1>1. doc \in [Docs -> Document] /\ behind \in [Docs -> BOOLEAN] /\ RowsInv /\ Listed(ids)
  BY DEF LayoutInv, TypeOK, WizardInv
<1>2. /\ doc[d].signed = <<>> /\ doc' = [doc EXCEPT ![d] = new]
      /\ behind' = [behind EXCEPT ![d] = fails]
  BY DEF RequestSigners, MayRequestSigners
<1>3. /\ row \in Document /\ row.order = ids /\ row.signed = <<>> /\ RowIs(row, TRUE)
      /\ row.place = [u \in Users |-> IF u \in ToSet(ids) THEN places[u] ELSE None]
  <2>1. ids \in Seq(Users) /\ SortedSigners(ids) = ids
    BY <1>1, SortedStays DEF Listed
  <2>2. doc[d] \in Document
    BY <1>1
  <2> QED BY <1>2, <2>1, <2>2, ConfiguredIs
<1> HIDE DEF ids, row
<1>4. /\ Rendered(row) \in Document /\ RowIs(Rendered(row), FALSE)
      /\ Rendered(row).order = ids /\ Rendered(row).place = row.place
  BY <1>1, <1>3, RenderedIs
<1>5. /\ new \in Document /\ RowIs(new, fails) /\ new.order = ids /\ new.place = row.place
  BY <1>3, <1>4
<1> HIDE DEF new
<1>6. /\ doc' \in [Docs -> Document] /\ behind' \in [Docs -> BOOLEAN]
      /\ doc'[d] = new /\ behind'[d] = fails
      /\ \A e \in Docs : e # d => doc'[e] = doc[e] /\ behind'[e] = behind[e]
  BY <1>1, <1>2, <1>5
<1>7. RowsInv'
  <2> SUFFICES ASSUME NEW e \in Docs PROVE RowIs(doc'[e], behind'[e])
    BY DEF RowsInv
  <2>1. CASE e = d
    BY <1>5, <1>6, <2>1
  <2>2. CASE e # d
    BY <1>1, <1>6, <2>2 DEF RowsInv
  <2> QED BY <2>1, <2>2
<1>8. ShownOrderIsSaved
  BY <1>5, <1>6 DEF ShownOrderIsSaved, ids
<1>9. SignedLayoutStays
  BY <1>2, <1>6 DEF SignedLayoutStays
<1>10. RowsStep
  BY <1>6, <1>7, <1>8, <1>9 DEF RowsStep
<1> QED BY <1>3, <1>5, <1>6, <1>10 DEF ids

\* A document that is started or declined keeps all but its status.
LEMMA StatusChanged ==
  ASSUME LayoutInv, NEW d \in Docs,
         NEW status \in Status,
         doc' = [doc EXCEPT ![d] = [doc[d] EXCEPT !.status = status]], UNCHANGED behind
  PROVE  /\ RowsStep
         /\ \A e \in Docs : doc'[e].order = doc[e].order /\ doc'[e].place = doc[e].place
<1> DEFINE new == [doc[d] EXCEPT !.status = status]
<1>1. doc \in [Docs -> Document] /\ RowIs(doc[d], behind[d])
  BY DEF LayoutInv, TypeOK, RowsInv
<1>2. doc[d] \in Document
  BY <1>1
<1>3. /\ new \in Document /\ new.order = doc[d].order /\ new.place = doc[d].place
      /\ new.signed = doc[d].signed /\ new.qr = doc[d].qr /\ new.images = doc[d].images
      /\ new.widget = doc[d].widget
  BY <1>2 DEF Document
<1>4. doc' = [doc EXCEPT ![d] = new]
  OBVIOUS
<1> HIDE DEF new
<1>5. FirstPlaced(new) = FirstPlaced(doc[d]) /\ PreRendered(new) = PreRendered(doc[d])
  BY <1>3, SameLayout
<1>6. RowIs(new, behind[d])
  BY <1>1, <1>3, <1>5 DEF RowIs
<1>7. RowsStep
  BY <1>3, <1>4, <1>6, RowKeepsLayout
<1> QED BY <1>1, <1>3, <1>4, <1>7

\* A signature keeps the layout.
LEMMA Given ==
  ASSUME LayoutInv, NEW d \in Docs, NEW u \in Users, NEW sent \in Place \cup {None},
         SignDocument(d, u, sent)
  PROVE  /\ RowsStep
         /\ \A e \in Docs : doc'[e].order = doc[e].order /\ doc'[e].place = doc[e].place
<1> DEFINE row == doc[d]
<1> DEFINE place == EffectivePlace(row, u, sent)
<1> DEFINE status == IF Pending(d) = {u} THEN "FULLY_SIGNED" ELSE "PARTIALLY_SIGNED"
<1> DEFINE new == GivenRow(row, u, place, status)
<1>1. doc \in [Docs -> Document] /\ behind \in [Docs -> BOOLEAN] /\ RowsInv
  BY DEF LayoutInv, TypeOK
<1>2. row \in Document /\ behind[d] \in BOOLEAN /\ RowIs(row, behind[d])
  BY <1>1 DEF RowsInv
<1>3. IsNext(d, u) /\ doc' = [doc EXCEPT ![d] = new] /\ UNCHANGED behind
  BY DEF SignDocument, MaySign, GivenRow
<1>4. Follows(row, u)
  BY <1>2, <1>3, NextIs DEF Follows
<1>5. status \in {"PARTIALLY_SIGNED", "FULLY_SIGNED"}
  OBVIOUS
<1>6. place \in Place \cup {None} /\ (row.place[u] # None => place = row.place[u])
  BY <1>2 DEF EffectivePlace, Document
<1> HIDE DEF row, place, status
<1>7. /\ new \in Document /\ new.order = row.order /\ new.place = row.place
      /\ RowIs(new, behind[d])
  BY <1>2, <1>4, <1>5, <1>6, GivenIs
<1> HIDE DEF new
<1>8. RowsStep
  BY <1>3, <1>7, RowKeepsLayout DEF row
<1> QED BY <1>1, <1>3, <1>7, <1>8 DEF row

-----------------------------------------------------------------------------
(* Room *)

\* A signature at this place does not reach over the border.
Fits(p) == p.x + SignatureWidth <= Pages[p.page].w /\ p.y + SignatureHeight <= Pages[p.page].h

AllFit(places) == \A u \in Users : places[u] # None => Fits(places[u])

\* Every sheet is large enough for a signature, the first for a column of one per
\* signer, and there are no more signers on documents that were sent before.
HasRoom ==
  /\ \A p \in DOMAIN Pages : Pages[p].w >= SignatureWidth /\ Pages[p].h >= SignatureHeight
  /\ Pages[1].w >= Edge + SignatureWidth
  /\ Pages[1].h >= Edge + (MaxSigners - 1) * 80 + SignatureHeight
  /\ \A d \in Docs : Len(SentTo[d]) <= MaxSigners

RoomInv ==
  /\ \A d \in Docs : Len(doc[d].order) <= MaxSigners /\ AllFit(doc[d].place)
  /\ Len(wizard.order) <= MaxSigners /\ AllFit(wizard.place)

\* The default places are places, one for each of the list, and there is room for them.
LEMMA PlacedIs ==
  ASSUME NEW ids \in Seq(Users)
  PROVE  /\ Placed(ids) \in Places
         /\ HasRoom /\ Len(ids) <= MaxSigners => AllFit(Placed(ids))
<1>1. ASSUME NEW u \in ToSet(ids)
      PROVE  /\ DefaultPlaceholder(IndexOf(ids, u)) \in Place
             /\ HasRoom /\ Len(ids) <= MaxSigners => Fits(DefaultPlaceholder(IndexOf(ids, u)))
  <2> DEFINE i == IndexOf(ids, u)
  <2> DEFINE y == Edge + (i - 1) * 80
  <2>1. i \in 1..Len(ids) /\ Len(ids) \in Nat
    BY IndexIs
  <2> HIDE DEF i
  <2>2. Edge \in Nat /\ y \in Nat
    BY <2>1 DEF Edge
  <2>3. Len(ids) <= MaxSigners => y <= Edge + (MaxSigners - 1) * 80
    BY <2>1, WizardAssumption DEF Edge
  <2> HIDE DEF y
  <2>4. /\ At(1, Edge, y) \in Place
        /\ At(1, Edge, y).page = 1 /\ At(1, Edge, y).x = Edge /\ At(1, Edge, y).y = y
    BY <2>2, AtIsPlace, Sheets
  <2>5. DefaultPlaceholder(i) = At(1, Edge, y)
    BY DEF DefaultPlaceholder, y
  <2>6. HasRoom /\ Len(ids) <= MaxSigners => Fits(At(1, Edge, y))
    <3> SUFFICES ASSUME HasRoom, Len(ids) <= MaxSigners PROVE Fits(At(1, Edge, y))
      OBVIOUS
    <3>1. /\ Pages[1].w \in Nat /\ Pages[1].h \in Nat /\ MaxSigners \in Nat
          /\ Pages[1].w >= Edge + SignatureWidth
          /\ Pages[1].h >= Edge + (MaxSigners - 1) * 80 + SignatureHeight
          /\ y <= Edge + (MaxSigners - 1) * 80
      BY <2>3, Sheets, WizardAssumption DEF HasRoom
    <3> DEFINE far == Edge + (MaxSigners - 1) * 80
    <3>2. far \in Int
      BY <3>1 DEF Edge
    <3>3. SignatureWidth \in Nat /\ SignatureHeight \in Nat
      BY DEF SignatureWidth, SignatureHeight
    <3> HIDE DEF far
    <3>4. Pages[1].h >= far + SignatureHeight /\ y <= far
      BY <3>1 DEF far
    <3>5. Edge + SignatureWidth <= Pages[1].w
      BY <2>2, <3>1, <3>3
    <3>6. y + SignatureHeight <= Pages[1].h
      BY <2>2, <3>1, <3>2, <3>3, <3>4
    <3> QED BY <2>4, <3>5, <3>6 DEF Fits
  <2> QED BY <2>4, <2>5, <2>6 DEF i
<1> QED BY <1>1 DEF Placed, Places, AllFit

\* Filling in the places that are not set keeps the rest of the page.
LEMMA DefaultsAre ==
  ASSUME NEW page \in WizardState
  PROVE  /\ WithDefaults(page) \in WizardState /\ WithDefaults(page).place \in Places
         /\ WithDefaults(page).step = page.step /\ WithDefaults(page).doc = page.doc
         /\ WithDefaults(page).order = page.order
         /\ WithDefaults(page).loading = page.loading
         /\ HasRoom /\ Len(page.order) <= MaxSigners /\ AllFit(page.place)
              => AllFit(WithDefaults(page).place)
<1> DEFINE place == [u \in Users |-> IF page.place[u] = None THEN Placed(page.order)[u]
                                     ELSE page.place[u]]
<1>1. page.place \in Places /\ page.order \in Seq(Users)
  BY DEF WizardState, Places
<1>2. Placed(page.order) \in Places
  BY <1>1, PlacedIs
<1>3. place \in Places
  BY <1>1, <1>2 DEF Places
<1>4. WithDefaults(page) = [page EXCEPT !.place = place]
  BY DEF WithDefaults
<1>5. HasRoom /\ Len(page.order) <= MaxSigners /\ AllFit(page.place) => AllFit(place)
  BY <1>1, PlacedIs DEF AllFit
<1> HIDE DEF place
<1> QED BY <1>3, <1>4, <1>5 DEF WizardState, Places

\* The place a click is moved to is on its sheet.
LEMMA PickedIs ==
  ASSUME NEW click \in Clicks,
         NEW place, place = At(click.page, Inside(click.x, SignatureWidth, Pages[click.page].w),
                               Inside(click.y, SignatureHeight, Pages[click.page].h))
  PROVE  place \in Place /\ (HasRoom => Fits(place))
<1> DEFINE p == click.page
<1> DEFINE x == Inside(click.x, SignatureWidth, Pages[p].w)
<1> DEFINE y == Inside(click.y, SignatureHeight, Pages[p].h)
<1>1. p \in DOMAIN Pages /\ click.x \in Nat /\ click.y \in Nat
  BY WizardAssumption DEF Place
<1>2. Pages[p].w \in Nat /\ Pages[p].h \in Nat
  BY <1>1, Sheets
<1>3. /\ click.x - SignatureWidth \div 2 \in Int /\ Pages[p].w - SignatureWidth \in Int
      /\ click.y - SignatureHeight \div 2 \in Int /\ Pages[p].h - SignatureHeight \in Int
  BY <1>1, <1>2 DEF SignatureWidth, SignatureHeight
<1>4. /\ x \in Nat /\ y \in Nat
      /\ Pages[p].w - SignatureWidth >= 0 => x <= Pages[p].w - SignatureWidth
      /\ Pages[p].h - SignatureHeight >= 0 => y <= Pages[p].h - SignatureHeight
  BY <1>3, ClampIs DEF Inside
<1> HIDE DEF p, x, y
<1>5. place = At(p, x, y)
  BY DEF p, x, y
<1>6. place \in Place /\ place.page = p /\ place.x = x /\ place.y = y
  BY <1>1, <1>4, <1>5, AtIsPlace
<1>7. ASSUME HasRoom PROVE Fits(place)
  <2>1. Pages[p].w >= SignatureWidth /\ Pages[p].h >= SignatureHeight
    BY <1>1, <1>7 DEF HasRoom
  <2>2. SignatureWidth \in Nat /\ SignatureHeight \in Nat
    BY DEF SignatureWidth, SignatureHeight
  <2> QED BY <1>2, <1>4, <1>6, <2>1, <2>2 DEF Fits
<1> QED BY <1>6, <1>7

-----------------------------------------------------------------------------
(* The owner's pages *)

\* What each step of the owner's pages keeps.
WizardStep ==
  /\ RowsStep /\ wizard' \in WizardState /\ saves' \in 0..MaxSaves /\ WizardInv'
  /\ HasRoom /\ RoomInv => RoomInv'

\* A list of nobody, and pages that show nobody's places.
LEMMA Nobody ==
  /\ Listed(<<>>) /\ Len(<<>>) = 0 /\ NoPlaces \in Places /\ AllFit(NoPlaces)
BY DEF Listed, NoneTwice, InOrder, NoPlaces, Places, AllFit

\* A step is opened with a document of the owner's.
LEMMA Opened ==
  ASSUME NEW step \in {"away", "signers", "placeholders", "review"}, NEW d \in Own \cup {None}
  PROVE  /\ On(step, d) \in WizardState /\ On(step, d).step = step /\ On(step, d).doc = d
         /\ On(step, d).order = <<>> /\ On(step, d).place = NoPlaces
         /\ On(step, d).loading = (d # None)
<1>1. <<>> \in Seq(Users) /\ NoPlaces \in [Users -> Place \cup {None}]
  BY Nobody DEF Places
<1>2. (d # None) \in BOOLEAN
  OBVIOUS
<1> QED BY <1>1, <1>2 DEF On, WizardState

\* A step that only changes the pages.
LEMMA PageOnly ==
  ASSUME LayoutInv, NEW next \in WizardState, OnPage(next), Listed(next.order),
         next.step # "away" \/ next.loading => next.doc \in Own,
         HasRoom /\ RoomInv => Len(next.order) <= MaxSigners /\ AllFit(next.place)
  PROVE  WizardStep
<1>1. wizard' = next /\ UNCHANGED <<doc, behind, saves>>
  BY DEF OnPage
<1>2. RowsStep
  BY <1>1, RowsAlone
<1>3. saves' \in 0..MaxSaves
  BY <1>1 DEF LayoutInv, TypeOK
<1>4. WizardInv'
  BY <1>1 DEF WizardInv
<1>5. HasRoom /\ RoomInv => RoomInv'
  BY <1>1 DEF RoomInv
<1> QED BY <1>1, <1>2, <1>3, <1>4, <1>5 DEF WizardStep

\* What the tab holds.
LEMMA TabIs ==
  ASSUME LayoutInv
  PROVE  /\ wizard \in WizardState /\ Listed(wizard.order) /\ wizard.place \in Places
         /\ wizard.order \in Seq(Users) /\ wizard.doc \in Own \cup {None}
         /\ wizard.step # "away" \/ wizard.loading => wizard.doc \in Own
BY DEF LayoutInv, TypeOK, WizardInv, WizardState, Places

\* The upload page goes on with a draft.
LEMMA ContinueStep ==
  ASSUME LayoutInv, NEW d \in Own, ContinueWithDraft(d)
  PROVE  WizardStep
<1>1. OnPage(On("signers", d))
  BY DEF ContinueWithDraft
<1>2. /\ On("signers", d) \in WizardState /\ On("signers", d).doc = d
      /\ On("signers", d).order = <<>> /\ On("signers", d).place = NoPlaces
  BY Opened
<1> QED BY <1>1, <1>2, Nobody, PageOnly, WizardAssumption

\* A step is opened by its address or the back button.
LEMMA OpenStepStep ==
  ASSUME LayoutInv, NEW step \in {"signers", "placeholders", "review"}, OpenStep(step)
  PROVE  WizardStep
<1>1. PICK d \in Own : OnPage(On(step, d))
  BY DEF OpenStep
<1>2. /\ On(step, d) \in WizardState /\ On(step, d).doc = d
      /\ On(step, d).order = <<>> /\ On(step, d).place = NoPlaces
  BY Opened
<1> QED BY <1>1, <1>2, Nobody, PageOnly, WizardAssumption

\* The signers of the shown document arrive.
LEMMA ArriveStep ==
  ASSUME LayoutInv, StoredSignersArrive
  PROVE  WizardStep
<1> DEFINE row == doc[wizard.doc]
<1> DEFINE bare == [wizard EXCEPT !.loading = FALSE]
<1> DEFINE full == [[[wizard EXCEPT !.order = row.order] EXCEPT !.place = row.place]
                    EXCEPT !.loading = FALSE]
<1>1. /\ wizard.loading
      /\ OnPage(IF row.order = <<>> THEN bare
                ELSE IF wizard.step = "signers" THEN WithDefaults(full) ELSE full)
  BY DEF StoredSignersArrive, Loaded
<1>2. /\ wizard \in WizardState /\ Listed(wizard.order) /\ wizard.place \in Places
      /\ wizard.doc \in Own /\ wizard.doc \in Docs
  BY <1>1, TabIs DEF Own
<1>3. row \in Document /\ Listed(row.order) /\ row.order \in Seq(Users) /\ row.place \in Places
  BY <1>2 DEF LayoutInv, TypeOK, RowsInv, RowIs, Document, Places
<1>4. HasRoom /\ RoomInv => Len(row.order) <= MaxSigners /\ AllFit(row.place)
  BY <1>2 DEF RoomInv
<1> HIDE DEF row
<1>5. /\ bare \in WizardState /\ bare.order = wizard.order /\ bare.place = wizard.place
      /\ bare.doc = wizard.doc
  BY <1>2 DEF WizardState
<1>6. /\ full \in WizardState /\ full.order = row.order /\ full.place = row.place
      /\ full.doc = wizard.doc
  BY <1>2, <1>3 DEF WizardState, Places
<1> HIDE DEF bare, full
<1>7. CASE row.order = <<>>
  <2>1. OnPage(bare)
    BY <1>1, <1>7
  <2>2. HasRoom /\ RoomInv => Len(bare.order) <= MaxSigners /\ AllFit(bare.place)
    BY <1>5 DEF RoomInv
  <2> QED BY <1>2, <1>5, <2>1, <2>2, PageOnly
<1>8. CASE row.order # <<>> /\ wizard.step = "signers"
  <2>1. OnPage(WithDefaults(full))
    BY <1>1, <1>8
  <2>2. /\ WithDefaults(full) \in WizardState /\ WithDefaults(full).order = row.order
        /\ WithDefaults(full).doc = wizard.doc
        /\ HasRoom /\ RoomInv => AllFit(WithDefaults(full).place)
    BY <1>4, <1>6, DefaultsAre
  <2> QED BY <1>2, <1>3, <1>4, <2>1, <2>2, PageOnly
<1>9. CASE row.order # <<>> /\ wizard.step # "signers"
  <2>1. OnPage(full)
    BY <1>1, <1>9
  <2> QED BY <1>2, <1>3, <1>4, <1>6, <2>1, PageOnly
<1> QED BY <1>7, <1>8, <1>9

\* They do not.
LEMMA FailStep ==
  ASSUME LayoutInv, StoredSignersFail
  PROVE  WizardStep
<1> DEFINE next == [wizard EXCEPT !.loading = FALSE]
<1>1. wizard.loading /\ OnPage(next)
  BY DEF StoredSignersFail
<1>2. /\ next \in WizardState /\ next.order = wizard.order /\ next.place = wizard.place
      /\ next.doc = wizard.doc
  BY TabIs DEF WizardState
<1>3. HasRoom /\ RoomInv => Len(next.order) <= MaxSigners /\ AllFit(next.place)
  BY <1>2 DEF RoomInv
<1> HIDE DEF next
<1> QED BY <1>1, <1>2, <1>3, TabIs, PageOnly

\* A step that changes the list of the page with the signers.
LEMMA ListStep ==
  ASSUME LayoutInv, wizard.step = "signers", NEW order, Listed(order),
         RoomInv => Len(order) <= MaxSigners,
         NEW place \in Places, RoomInv => AllFit(place),
         OnPage([[wizard EXCEPT !.order = order] EXCEPT !.place = place])
  PROVE  WizardStep
<1> DEFINE next == [[wizard EXCEPT !.order = order] EXCEPT !.place = place]
<1>1. /\ next \in WizardState /\ next.order = order /\ next.place = place
      /\ next.doc = wizard.doc /\ next.step = "signers"
  BY TabIs DEF WizardState, Listed, Places
<1>2. OnPage(next)
  OBVIOUS
<1> HIDE DEF next
<1> QED BY <1>1, <1>2, TabIs, PageOnly

\* Somebody is added to the list, which is sorted then.
LEMMA AddStep ==
  ASSUME LayoutInv, NEW u \in Users, AddSigner(u)
  PROVE  WizardStep
<1> DEFINE ids == Append(wizard.order, u)
<1> DEFINE order == NormalizeSignerOrder(ids)
<1>1. /\ wizard.step = "signers" /\ u \notin ToSet(wizard.order)
      /\ Len(wizard.order) < MaxSigners /\ OnPage([wizard EXCEPT !.order = order])
  BY DEF AddSigner
<1>2. ids \in Seq(Users) /\ NoneTwice(ids) /\ Len(ids) = Len(wizard.order) + 1
  BY <1>1, TabIs, AddedOnce
<1> HIDE DEF ids
<1>3. Listed(order) /\ Len(order) = Len(ids)
  BY <1>2, NormalizedIsListed
<1> HIDE DEF order
<1>4. Len(order) <= MaxSigners
  BY <1>1, <1>2, <1>3, TabIs, WizardAssumption
<1>5. [wizard EXCEPT !.order = order] =
        [[wizard EXCEPT !.order = order] EXCEPT !.place = wizard.place]
  BY TabIs DEF WizardState
<1>6. OnPage([[wizard EXCEPT !.order = order] EXCEPT !.place = wizard.place])
  BY <1>1, <1>5
<1>7. RoomInv => AllFit(wizard.place)
  BY DEF RoomInv
<1> QED BY <1>1, <1>3, <1>4, <1>6, <1>7, TabIs, ListStep

\* Neighbours change places.
LEMMA MoveStep ==
  ASSUME LayoutInv, MoveSigner
  PROVE  WizardStep
<1>1. PICK i \in DOMAIN wizard.order :
        /\ wizard.step = "signers" /\ CanMoveSigner(i)
        /\ OnPage([wizard EXCEPT !.order[i] = wizard.order[i + 1],
                                 !.order[i + 1] = wizard.order[i]])
  BY DEF MoveSigner
<1> DEFINE order == [wizard.order EXCEPT ![i] = wizard.order[i + 1], ![i + 1] = wizard.order[i]]
<1>2. Listed(order) /\ Len(order) = Len(wizard.order)
  BY <1>1, TabIs, MovedIsListed DEF CanMoveSigner
<1>3. [wizard EXCEPT !.order[i] = wizard.order[i + 1], !.order[i + 1] = wizard.order[i]] =
        [[wizard EXCEPT !.order = order] EXCEPT !.place = wizard.place]
  BY TabIs DEF WizardState
<1> HIDE DEF order
<1>4. OnPage([[wizard EXCEPT !.order = order] EXCEPT !.place = wizard.place])
  BY <1>1, <1>3
<1>5. RoomInv => AllFit(wizard.place) /\ Len(order) <= MaxSigners
  BY <1>2 DEF RoomInv
<1> QED BY <1>1, <1>2, <1>4, <1>5, TabIs, ListStep

\* Somebody is removed, with their place.
LEMMA RemoveStep ==
  ASSUME LayoutInv, NEW u \in Users, RemoveSigner(u)
  PROVE  WizardStep
<1> DEFINE order == RemoveFirst(wizard.order, u)
<1> DEFINE place == [wizard.place EXCEPT ![u] = None]
<1>1. /\ wizard.step = "signers" /\ u \in ToSet(wizard.order)
      /\ OnPage([wizard EXCEPT !.order = order, !.place[u] = None])
  BY DEF RemoveSigner
<1>2. Listed(order) /\ Len(order) = Len(wizard.order) - 1
  BY <1>1, TabIs, RemovedIsListed
<1>3. place \in Places /\ (RoomInv => AllFit(place))
  BY TabIs DEF Places, AllFit, RoomInv
<1>4. [wizard EXCEPT !.order = order, !.place[u] = None] =
        [[wizard EXCEPT !.order = order] EXCEPT !.place = place]
  <2> HIDE DEF order
  <2> QED BY TabIs DEF WizardState
<1> HIDE DEF order, place
<1>5. OnPage([[wizard EXCEPT !.order = order] EXCEPT !.place = place])
  BY <1>1, <1>4
<1>6. RoomInv => Len(order) <= MaxSigners
  BY <1>2, TabIs, WizardAssumption DEF RoomInv
<1> QED BY <1>1, <1>2, <1>3, <1>5, <1>6, ListStep

\* A click places somebody's signature.
LEMMA PickStep ==
  ASSUME LayoutInv, NEW u \in Users, NEW click \in Clicks, PickPosition(u, click)
  PROVE  WizardStep
<1> DEFINE spot == At(click.page, Inside(click.x, SignatureWidth, Pages[click.page].w),
                      Inside(click.y, SignatureHeight, Pages[click.page].h))
<1> DEFINE place == [wizard.place EXCEPT ![u] = spot]
<1> DEFINE next == [wizard EXCEPT !.place[u] = spot]
<1>1. wizard.step = "placeholders" /\ OnPage(next)
  BY DEF PickPosition
<1>2. spot \in Place /\ (HasRoom => Fits(spot))
  BY PickedIs
<1> HIDE DEF spot
<1>3. place \in Places /\ (HasRoom /\ RoomInv => AllFit(place))
  BY <1>2, TabIs DEF Places, AllFit, RoomInv
<1>4. /\ next \in WizardState /\ next.order = wizard.order /\ next.place = place
      /\ next.doc = wizard.doc
  BY <1>2, TabIs DEF WizardState
<1> HIDE DEF next, place
<1>5. HasRoom /\ RoomInv => Len(next.order) <= MaxSigners /\ AllFit(next.place)
  BY <1>3, <1>4 DEF RoomInv
<1> QED BY <1>1, <1>4, <1>5, TabIs, PageOnly

\* Saving stores what is shown, and then goes on to the next step or stays.
LEMMA SavedStep ==
  ASSUME LayoutInv, wizard.step # "away", NEW places \in Places, NEW fails \in BOOLEAN,
         HasRoom /\ RoomInv => AllFit(places), Saved,
         RequestSigners(wizard.doc, wizard.order, places, fails),
         NEW step \in {"placeholders", "review"},
         wizard' = IF fails THEN wizard ELSE On(step, wizard.doc)
  PROVE  WizardStep
<1>1. wizard.doc \in Own /\ wizard.doc \in Docs
  BY TabIs DEF Own
<1>2. /\ RowsStep /\ doc'[wizard.doc].order = wizard.order
      /\ doc'[wizard.doc].place =
           [u \in Users |-> IF u \in ToSet(wizard.order) THEN places[u] ELSE None]
      /\ \A e \in Docs : e # wizard.doc => doc'[e] = doc[e]
  BY <1>1, Requested
<1>3. /\ On(step, wizard.doc) \in WizardState /\ On(step, wizard.doc).doc = wizard.doc
      /\ On(step, wizard.doc).order = <<>> /\ On(step, wizard.doc).place = NoPlaces
  BY <1>1, Opened
<1>4. /\ wizard' \in WizardState /\ wizard'.doc = wizard.doc
      /\ wizard'.order = wizard.order \/ wizard'.order = <<>>
      /\ wizard'.place = wizard.place \/ wizard'.place = NoPlaces
  BY <1>3, TabIs
<1>5. saves' \in 0..MaxSaves
  BY WizardAssumption DEF Saved, LayoutInv, TypeOK
<1>6. WizardInv'
  BY <1>1, <1>4, TabIs, Nobody DEF WizardInv
<1>7. ASSUME HasRoom, RoomInv PROVE RoomInv'
  <2>1. \A e \in Docs : Len(doc'[e].order) <= MaxSigners /\ AllFit(doc'[e].place)
    <3> TAKE e \in Docs
    <3>1. CASE e = wizard.doc
      BY <1>2, <1>7, <3>1 DEF RoomInv, AllFit
    <3>2. CASE e # wizard.doc
      BY <1>2, <1>7, <3>2 DEF RoomInv
    <3> QED BY <3>1, <3>2
  <2>2. Len(wizard'.order) <= MaxSigners /\ AllFit(wizard'.place)
    BY <1>4, <1>7, Nobody, WizardAssumption DEF RoomInv
  <2> QED BY <2>1, <2>2 DEF RoomInv
<1> QED BY <1>2, <1>4, <1>5, <1>6, <1>7 DEF WizardStep

\* Only statuses and signatures change, and the pages stay.
LEMMA LayoutKept ==
  ASSUME LayoutInv, RowsStep, UNCHANGED wizard, saves' \in 0..MaxSaves,
         \A e \in Docs : doc'[e].order = doc[e].order /\ doc'[e].place = doc[e].place
  PROVE  WizardStep
<1>1. wizard' \in WizardState /\ WizardInv'
  BY TabIs DEF LayoutInv, WizardInv
<1>2. RoomInv => RoomInv'
  BY DEF RoomInv
<1> QED BY <1>1, <1>2 DEF WizardStep

\* handleContinue on the page with the signers.
LEMMA SaveSignersStep ==
  ASSUME LayoutInv, SaveSigners
  PROVE  WizardStep
<1>1. Saved /\ wizard.step = "signers" /\ NormalizeSignerOrder(wizard.order) = wizard.order
  BY TabIs, NormalizedStays DEF SaveSigners
<1>2. CASE \E fails \in BOOLEAN :
             /\ RequestSigners(wizard.doc, NormalizeSignerOrder(wizard.order), NoPlaces, fails)
             /\ wizard' = IF fails THEN wizard ELSE On("placeholders", wizard.doc)
  <2>1. PICK fails \in BOOLEAN :
          /\ RequestSigners(wizard.doc, wizard.order, NoPlaces, fails)
          /\ wizard' = IF fails THEN wizard ELSE On("placeholders", wizard.doc)
    BY <1>1, <1>2
  <2> QED BY <1>1, <2>1, Nobody, SavedStep
<1>3. CASE Start(wizard.doc) /\ UNCHANGED wizard
  <2> DEFINE d == wizard.doc
  <2> DEFINE status == IF doc[d].status = "DRAFT" THEN "PENDING_SIGNATURES" ELSE doc[d].status
  <2>1. d \in Docs
    BY <1>1, TabIs DEF Own
  <2>2. doc[d] \in Document
    BY <2>1 DEF LayoutInv, TypeOK
  <2>3. doc[d].status \in Status
    BY <2>2 DEF Document
  <2>4. status \in Status
    BY <2>3 DEF Status
  <2>5. doc' = [doc EXCEPT ![d] = [doc[d] EXCEPT !.status = status]] /\ UNCHANGED behind
    BY <1>3, <2>1 DEF Start, LayoutInv, TypeOK
  <2> HIDE DEF status, d
  <2>6. /\ RowsStep
        /\ \A e \in Docs : doc'[e].order = doc[e].order /\ doc'[e].place = doc[e].place
    BY <2>1, <2>4, <2>5, StatusChanged
  <2>7. saves' \in 0..MaxSaves
    BY <1>1, WizardAssumption DEF Saved, LayoutInv, TypeOK
  <2> QED BY <1>3, <2>6, <2>7, LayoutKept
<1> QED BY <1>1, <1>2, <1>3 DEF SaveSigners

\* The page with the places sends the list it shows, with all places.
LEMMA SavePlaceholdersStep ==
  ASSUME LayoutInv, SavePlaceholders
  PROVE  WizardStep
<1> DEFINE places == WithDefaults(wizard).place
<1>1. /\ Saved /\ wizard.step = "placeholders"
      /\ \E fails \in BOOLEAN :
           /\ RequestSigners(wizard.doc, wizard.order, places, fails)
           /\ wizard' = IF fails THEN wizard ELSE On("review", wizard.doc)
  BY DEF SavePlaceholders
<1>2. places \in Places /\ (HasRoom /\ RoomInv => AllFit(places))
  BY TabIs, DefaultsAre DEF RoomInv
<1> HIDE DEF places
<1>3. PICK fails \in BOOLEAN :
        /\ RequestSigners(wizard.doc, wizard.order, places, fails)
        /\ wizard' = IF fails THEN wizard ELSE On("review", wizard.doc)
  BY <1>1
<1> QED BY <1>1, <1>2, <1>3, SavedStep

\* handleOwnerSign.
LEMMA OwnerSignStep ==
  ASSUME LayoutInv, OwnerSign
  PROVE  WizardStep
<1>1. /\ wizard.step = "review" /\ SignDocument(wizard.doc, Owner, None)
      /\ UNCHANGED <<wizard, saves>>
  BY DEF OwnerSign
<1>2. wizard.doc \in Docs /\ Owner \in Users
  BY <1>1, TabIs, PlacementAssumption DEF Own
<1>3. /\ RowsStep
      /\ \A e \in Docs : doc'[e].order = doc[e].order /\ doc'[e].place = doc[e].place
  BY <1>1, <1>2, Given
<1>4. saves' \in 0..MaxSaves
  BY <1>1 DEF LayoutInv, TypeOK
<1> QED BY <1>1, <1>3, <1>4, LayoutKept

\* Any step of the owner's pages.
LEMMA WizardSteps ==
  ASSUME LayoutInv, WizardNext
  PROVE  WizardStep
BY ContinueStep, OpenStepStep, ArriveStep, FailStep, AddStep, RemoveStep, PickStep, MoveStep,
   SaveSignersStep, SavePlaceholdersStep, OwnerSignStep DEF WizardNext

-----------------------------------------------------------------------------
(* The pages of the signers *)

\* The list of what a signer is to sign.
LEMMA AssignedIs ==
  ASSUME NEW u \in Users, doc \in [Docs -> Document]
  PROVE  Assigned(u) \in [Docs -> Assignment \cup {None}]
<1> SUFFICES ASSUME NEW d \in Docs
             PROVE  Assigned(u)[d] \in Assignment \cup {None}
  BY DEF Assigned
<1>1. Assigned(u)[d] \in {[place |-> doc[d].place[u]], None}
  BY DEF Assigned
<1>2. doc[d].place[u] \in Place \cup {None}
  BY DEF Document
<1> QED BY <1>1, <1>2 DEF Assignment

\* The list is made from the rows after a step.
LEMMA AssignedNext ==
  ASSUME NEW u \in Users, doc' \in [Docs -> Document]
  PROVE  Assigned(u)' \in [Docs -> Assignment \cup {None}]
<1> SUFFICES ASSUME NEW d \in Docs
             PROVE  Assigned(u)'[d] \in Assignment \cup {None}
  BY DEF Assigned
<1>1. Assigned(u)'[d] \in {[place |-> doc'[d].place[u]], None}
  BY DEF Assigned
<1>2. doc'[d].place[u] \in Place \cup {None}
  BY DEF Document
<1> QED BY <1>1, <1>2 DEF Assignment

\* Only an open dialog is confirmed; unless a late preview arrived in it, it shows
\* nothing and is not confirmed, or shows its document and awaits no preview.
PageIs(p) ==
  /\ p.dialog = None => ~p.confirmed
  /\ p.dialog # None /\ ~p.mixed => \/ p.shown = None /\ ~p.confirmed
                                    \/ p.shown = p.dialog.doc /\ ~p.own

PortalInv == \A u \in Signers : PageIs(portal[u])

LayoutAlone == \A d \in Docs : doc'[d].order = doc[d].order /\ doc'[d].place = doc[d].place

\* What each step of a signer's page keeps.
PortalStep ==
  /\ RowsStep /\ LayoutAlone /\ portal' \in [Signers -> PortalState]
  /\ PortalInv => PortalInv'

\* A step of one signer's page changes no other's.
LEMMA OneSigner ==
  ASSUME LayoutInv, NEW u \in Signers, NEW next \in PortalState,
         portal' = [portal EXCEPT ![u] = next], RowsStep, LayoutAlone,
         PageIs(portal[u]) => PageIs(next)
  PROVE  PortalStep
<1>1. portal \in [Signers -> PortalState]
  BY DEF LayoutInv, TypeOK
<1>2. /\ portal' \in [Signers -> PortalState] /\ portal'[u] = next
      /\ \A v \in Signers : v # u => portal'[v] = portal[v]
  BY <1>1
<1>3. PortalInv => PortalInv'
  <2> SUFFICES ASSUME PortalInv, NEW v \in Signers PROVE PageIs(portal'[v])
    BY DEF PortalInv
  <2>1. CASE v = u
    BY <1>2, <2>1 DEF PortalInv
  <2>2. CASE v # u
    BY <1>2, <2>2 DEF PortalInv
  <2> QED BY <2>1, <2>2
<1> QED BY <1>2, <1>3 DEF PortalStep

\* A step that leaves the rows alone.
LEMMA PageAlone ==
  ASSUME LayoutInv, NEW u \in Signers, NEW next \in PortalState, OnPortal(u, next),
         PageIs(portal[u]) => PageIs(next)
  PROVE  PortalStep
<1>1. portal' = [portal EXCEPT ![u] = next] /\ UNCHANGED <<doc, behind>>
  BY DEF OnPortal
<1>2. RowsStep /\ LayoutAlone
  BY <1>1, RowsAlone DEF LayoutAlone
<1> QED BY <1>1, <1>2, OneSigner

\* What a signer's page holds.
LEMMA PortalIs ==
  ASSUME LayoutInv, NEW u \in Signers
  PROVE  u \in Users /\ portal[u] \in PortalState
BY PortalAssumption DEF LayoutInv, TypeOK

\* A page whose dialog is left.
LEMMA ResetIs ==
  ASSUME LayoutInv, NEW u \in Signers
  PROVE  /\ Reset(portal[u]) \in PortalState /\ Reset(portal[u]).list = portal[u].list
         /\ Reset(portal[u]).shown = None /\ ~Reset(portal[u]).confirmed
<1> DEFINE p == portal[u]
<1> DEFINE late == Late(p)
<1>1. p \in PortalState
  BY PortalIs
<1>2. p.late \in [Docs -> Nat] /\ p.dialog \in Dialog \cup {None}
  BY <1>1 DEF PortalState
<1>3. late \in [Docs -> Nat]
  <2>1. CASE p.own /\ p.dialog # None
    <3>1. p.dialog.doc \in Docs
      BY <1>2, <2>1 DEF Dialog
    <3>2. late = [p.late EXCEPT ![p.dialog.doc] = p.late[p.dialog.doc] + 1]
      BY <2>1 DEF Late
    <3>3. p.late[p.dialog.doc] + 1 \in Nat
      BY <1>2, <3>1
    <3> QED BY <1>2, <3>2, <3>3
  <2>2. CASE ~(p.own /\ p.dialog # None)
    BY <1>2, <2>2 DEF Late
  <2> QED BY <2>1, <2>2
<1>4. Reset(p) = [p EXCEPT !.own = FALSE, !.late = late, !.mixed = FALSE, !.shown = None,
                           !.loading = FALSE, !.confirmed = FALSE]
  BY DEF Reset
<1> HIDE DEF late, p
<1>5. /\ Reset(p) \in PortalState /\ Reset(p).list = p.list /\ Reset(p).shown = None
      /\ ~Reset(p).confirmed
  BY <1>1, <1>3, <1>4 DEF PortalState
<1> QED BY <1>5 DEF p

\* The list is loaded, and the page is as new.
LEMMA LoadListStep ==
  ASSUME LayoutInv, NEW u \in Signers, LoadList(u)
  PROVE  PortalStep
<1> DEFINE list == Assigned(u)
<1> DEFINE next == [Empty EXCEPT !.list = list]
<1>1. OnPortal(u, next)
  BY DEF LoadList
<1>2. list \in [Docs -> Assignment \cup {None}]
  BY PortalIs, AssignedIs DEF LayoutInv, TypeOK
<1> HIDE DEF list
<1>3. next \in PortalState /\ next.dialog = None /\ ~next.confirmed
  BY <1>2 DEF Empty, PortalState
<1> HIDE DEF next
<1> QED BY <1>1, <1>3, PageAlone DEF PageIs

\* A dialog is opened, and its preview asked for.
LEMMA OpenDialogStep ==
  ASSUME LayoutInv, NEW u \in Signers, NEW d \in Docs, OpenSignDialog(u, d)
  PROVE  PortalStep
<1> DEFINE a == portal[u].list[d]
<1> DEFINE dialog == [doc |-> d, place |-> a.place]
<1> DEFINE p == Reset(portal[u])
<1> DEFINE next == [[[p EXCEPT !.dialog = dialog] EXCEPT !.own = TRUE] EXCEPT !.loading = TRUE]
<1>1. a # None /\ OnPortal(u, next)
  BY DEF OpenSignDialog
<1>2. a \in Assignment
  BY <1>1, PortalIs DEF PortalState
<1>3. dialog \in Dialog /\ dialog # None
  BY <1>2, NoneIsNoDialog DEF Assignment, Dialog
<1> HIDE DEF a, dialog
<1>4. p \in PortalState /\ p.shown = None /\ ~p.confirmed
  BY ResetIs
<1> HIDE DEF p
<1>5. /\ next \in PortalState /\ next.dialog = dialog /\ next.shown = None
      /\ ~next.confirmed
  BY <1>3, <1>4 DEF PortalState
<1> HIDE DEF next
<1> QED BY <1>1, <1>3, <1>5, PageAlone DEF PageIs

\* A dialog is closed, also while its preview is loading.
LEMMA CloseDialogStep ==
  ASSUME LayoutInv, NEW u \in Signers, CloseSignDialog(u)
  PROVE  PortalStep
<1> DEFINE p == Reset(portal[u])
<1> DEFINE next == [p EXCEPT !.dialog = None]
<1>1. OnPortal(u, next)
  BY DEF CloseSignDialog
<1>2. p \in PortalState /\ ~p.confirmed
  BY ResetIs
<1> HIDE DEF p
<1>3. next \in PortalState /\ next.dialog = None /\ ~next.confirmed
  BY <1>2 DEF PortalState
<1> HIDE DEF next
<1> QED BY <1>1, <1>3, PageAlone DEF PageIs

\* The preview of the open dialog arrives or fails.
LEMMA OwnPreviewStep ==
  ASSUME LayoutInv, NEW u \in Signers, OwnPreviewArrives(u)
  PROVE  PortalStep
<1> DEFINE p == portal[u]
<1>1. p.own /\ p.dialog # None
  BY DEF OwnPreviewArrives
<1>2. PICK shown \in {p.dialog.doc, None} :
        OnPortal(u, [p EXCEPT !.own = FALSE, !.shown = shown, !.loading = FALSE])
  BY DEF OwnPreviewArrives
<1> DEFINE next == [p EXCEPT !.own = FALSE, !.shown = shown, !.loading = FALSE]
<1>3. p \in PortalState /\ p.dialog \in Dialog
  BY <1>1, PortalIs DEF PortalState
<1>4. shown \in Docs \cup {None}
  BY <1>3 DEF Dialog
<1>5. OnPortal(u, next)
  BY <1>2
<1> HIDE DEF p
<1>6. /\ next \in PortalState /\ next.dialog = p.dialog /\ next.mixed = p.mixed
      /\ next.shown = shown /\ next.own = FALSE /\ next.confirmed = p.confirmed
  BY <1>3, <1>4 DEF PortalState
<1> HIDE DEF next
<1>7. PageIs(p) => PageIs(next)
  <2> SUFFICES ASSUME PageIs(p) PROVE PageIs(next)
    OBVIOUS
  <2>1. CASE p.mixed
    BY <1>1, <1>6, <2>1 DEF PageIs
  <2>2. CASE ~p.mixed
    <3>1. ~p.confirmed \/ ~p.own
      BY <1>1, <2>2 DEF PageIs
    <3>2. ~p.confirmed
      BY <1>1, <3>1
    <3> QED BY <1>1, <1>6, <3>2 DEF PageIs
  <2> QED BY <2>1, <2>2
<1> QED BY <1>5, <1>6, <1>7, PageAlone DEF p

\* That of a closed dialog arrives: the open one, if any, is marked as mixed.
LEMMA LatePreviewStep ==
  ASSUME LayoutInv, NEW u \in Signers, LatePreviewArrives(u)
  PROVE  PortalStep
<1> DEFINE p == portal[u]
<1>1. PICK d \in Docs :
        /\ p.late[d] > 0
        /\ LET left == [p EXCEPT !.late[d] = @ - 1]
           IN \/ p.dialog = None /\ OnPortal(u, left)
              \/ /\ p.dialog # None
                 /\ \E shown \in {d, None} :
                      OnPortal(u, [left EXCEPT !.shown = shown, !.loading = FALSE,
                                               !.mixed = TRUE])
  BY DEF LatePreviewArrives
<1> DEFINE late == [p.late EXCEPT ![d] = p.late[d] - 1]
<1> DEFINE next == [p EXCEPT !.late = late]
<1>2. p \in PortalState /\ p.late \in [Docs -> Nat]
  BY PortalIs DEF PortalState
<1>3. next = [p EXCEPT !.late[d] = @ - 1]
  BY <1>2 DEF PortalState
<1>4. late \in [Docs -> Nat]
  <2>1. p.late[d] - 1 \in Nat
    BY <1>1, <1>2
  <2> QED BY <1>2, <2>1
<1>5. \/ p.dialog = None /\ OnPortal(u, next)
      \/ /\ p.dialog # None
         /\ \E shown \in {d, None} :
              OnPortal(u, [next EXCEPT !.shown = shown, !.loading = FALSE, !.mixed = TRUE])
  BY <1>1, <1>3
<1> HIDE DEF late, p
<1>6. /\ next \in PortalState /\ next.dialog = p.dialog /\ next.mixed = p.mixed
      /\ next.confirmed = p.confirmed
  BY <1>2, <1>4 DEF PortalState
<1> HIDE DEF next
<1>7. CASE p.dialog = None
  <2>1. PageIs(p) => PageIs(next)
    BY <1>6, <1>7 DEF PageIs
  <2> QED BY <1>5, <1>6, <1>7, <2>1, PageAlone DEF p
<1>8. CASE p.dialog # None
  <2>1. PICK shown \in {d, None} :
          OnPortal(u, [next EXCEPT !.shown = shown, !.loading = FALSE, !.mixed = TRUE])
    BY <1>5, <1>8
  <2> DEFINE drawn == [next EXCEPT !.shown = shown, !.loading = FALSE, !.mixed = TRUE]
  <2>2. drawn \in PortalState /\ drawn.dialog # None /\ drawn.mixed
    BY <1>6, <1>8 DEF PortalState
  <2>3. OnPortal(u, drawn)
    BY <2>1
  <2> HIDE DEF drawn
  <2> QED BY <2>2, <2>3, PageAlone DEF PageIs
<1> QED BY <1>7, <1>8

\* A click confirms what is shown, or takes that back.
LEMMA ClickStep ==
  ASSUME LayoutInv, NEW u \in Signers, ClickArea(u)
  PROVE  PortalStep
<1> DEFINE p == portal[u]
<1>1. PICK inside \in BOOLEAN :
        /\ p.dialog # None /\ p.shown # None /\ OnPortal(u, [p EXCEPT !.confirmed = inside])
  BY DEF ClickArea
<1> DEFINE next == [p EXCEPT !.confirmed = inside]
<1>2. p \in PortalState
  BY PortalIs
<1>3. OnPortal(u, next)
  BY <1>1
<1> HIDE DEF p
<1>4. /\ next \in PortalState /\ next.shown = p.shown /\ next.dialog = p.dialog
      /\ next.own = p.own /\ next.mixed = p.mixed
  BY <1>2 DEF PortalState
<1> HIDE DEF next
<1>5. PageIs(p) => PageIs(next)
  BY <1>1, <1>4 DEF PageIs
<1> QED BY <1>3, <1>4, <1>5, PageAlone DEF p

\* The confirmed document is signed.
LEMMA AssignedSignStep ==
  ASSUME LayoutInv, NEW u \in Signers, AssignedSign(u)
  PROVE  PortalStep
<1> DEFINE p == Reset(portal[u])
<1> DEFINE dialog == portal[u].dialog
<1> DEFINE list == Assigned(u)'
<1> DEFINE next == [[p EXCEPT !.dialog = None] EXCEPT !.list = list]
<1>1. /\ dialog # None /\ SignDocument(dialog.doc, u, dialog.place)
      /\ portal' = [portal EXCEPT ![u] = next]
  BY DEF AssignedSign, LayoutInv, TypeOK
<1>2. u \in Users /\ p \in PortalState /\ ~p.confirmed
  BY PortalIs, ResetIs
<1>3. dialog.doc \in Docs /\ dialog.place \in Place \cup {None}
  BY <1>1, PortalIs DEF PortalState, Dialog
<1>4. RowsStep /\ LayoutAlone
  BY <1>1, <1>2, <1>3, Given DEF LayoutAlone
<1>5. list \in [Docs -> Assignment \cup {None}]
  <2>1. doc' \in [Docs -> Document]
    BY <1>4 DEF RowsStep
  <2> QED BY <1>2, <2>1, AssignedNext
<1> HIDE DEF p, list
<1>6. next \in PortalState /\ next.dialog = None /\ ~next.confirmed
  BY <1>2, <1>5 DEF PortalState
<1> HIDE DEF next
<1>7. PageIs(next)
  BY <1>6 DEF PageIs
<1> QED BY <1>1, <1>4, <1>6, <1>7, OneSigner

\* A document is declined from the list.
LEMMA AssignedDeclineStep ==
  ASSUME LayoutInv, NEW u \in Signers, NEW d \in Docs, AssignedDecline(u, d)
  PROVE  PortalStep
<1> DEFINE p == portal[u]
<1> DEFINE list == Assigned(u)'
<1> DEFINE next == [p EXCEPT !.list = list]
<1>1. p.dialog = None /\ Decline(d, u) /\ portal' = [portal EXCEPT ![u] = next]
  BY DEF AssignedDecline, LayoutInv, TypeOK
<1>2. u \in Users /\ p \in PortalState
  BY PortalIs
<1>3. doc' = [doc EXCEPT ![d] = [doc[d] EXCEPT !.status = "REVOKED"]] /\ UNCHANGED behind
  BY <1>1 DEF Decline, LayoutInv, TypeOK
<1>4. "REVOKED" \in Status
  BY DEF Status
<1>5. RowsStep /\ LayoutAlone
  BY <1>3, <1>4, StatusChanged DEF LayoutAlone
<1>6. list \in [Docs -> Assignment \cup {None}]
  BY <1>2, <1>5, AssignedNext DEF RowsStep
<1> HIDE DEF list
<1>7. next \in PortalState /\ next.confirmed = p.confirmed /\ next.dialog = p.dialog
  BY <1>2, <1>6 DEF PortalState
<1> HIDE DEF next
<1>8. PageIs(p) => PageIs(next)
  <2> HIDE DEF p
  <2> QED BY <1>1, <1>7 DEF PageIs
<1> QED BY <1>1, <1>5, <1>7, <1>8, OneSigner

\* Any step of a signer's page.
LEMMA PortalSteps ==
  ASSUME LayoutInv, PortalNext
  PROVE  PortalStep
BY LoadListStep, CloseDialogStep, OwnPreviewStep, LatePreviewStep, ClickStep,
   AssignedSignStep, OpenDialogStep, AssignedDeclineStep DEF PortalNext

-----------------------------------------------------------------------------
(* The inductive invariant *)

AllInv == LayoutInv /\ (HasRoom => RoomInv) /\ PortalInv

\* A document that was just uploaded.
LEMMA UploadedIs ==
  /\ Uploaded \in Document /\ Uploaded.signed = <<>> /\ RowIs(Uploaded, FALSE)
  /\ Uploaded.order = <<>> /\ Uploaded.place = NoPlaces
<1>1. <<>> \in Seq(Users) /\ Len(<<>>) = 0 /\ ToSet(<<>>) = {}
  BY DEF ToSet
<1>2. NoPlaces \in [Users -> Place \cup {None}] /\ NoPlaces \in [Users -> Corner \cup {None}]
  BY DEF NoPlaces
<1>3. /\ Uploaded \in Document /\ Uploaded.signed = <<>> /\ Uploaded.order = <<>>
      /\ Uploaded.place = NoPlaces
  BY <1>1, <1>2 DEF Uploaded, Document, Status
<1>4. PreRendered(Uploaded) = {}
  BY <1>1, <1>3 DEF PreRendered
<1>5. RowIs(Uploaded, FALSE)
  BY <1>1, <1>3, <1>4, Nobody DEF RowIs
<1> QED BY <1>3, <1>5

\* A document another owner has sent.
LEMMA SentIs ==
  ASSUME NEW d \in Docs, NEW row,
         row = Rendered(Configured(Uploaded, SentTo[d], Placed(SentTo[d])))
  PROVE  /\ row \in Document /\ RowIs(row, FALSE)
         /\ HasRoom => Len(row.order) <= MaxSigners /\ AllFit(row.place)
<1> DEFINE ids == SentTo[d]
<1> DEFINE bare == Configured(Uploaded, ids, Placed(ids))
<1>1. ids \in Seq(Users)
  BY PlacementAssumption
<1>2. Placed(ids) \in Places /\ (HasRoom /\ Len(ids) <= MaxSigners => AllFit(Placed(ids)))
  BY <1>1, PlacedIs
<1>3. row = Rendered(bare)
  OBVIOUS
<1> HIDE DEF ids
<1>4. /\ bare \in Document /\ bare.order = SortedSigners(ids) /\ bare.signed = <<>>
      /\ bare.place = [u \in Users |-> IF u \in ToSet(ids) THEN Placed(ids)[u] ELSE None]
  BY <1>1, <1>2, UploadedIs, ConfiguredIs
<1> HIDE DEF bare
<1>5. Listed(bare.order) /\ Len(bare.order) = Cardinality(ToSet(ids))
  BY <1>1, <1>4, ServerSorts
<1>6. row \in Document /\ RowIs(row, FALSE) /\ row.order = bare.order /\ row.place = bare.place
  BY <1>3, <1>4, <1>5, RenderedIs
<1>7. ASSUME HasRoom PROVE Len(row.order) <= MaxSigners /\ AllFit(row.place)
  <2>1. Len(ids) <= MaxSigners /\ Len(ids) \in Nat
    BY <1>1, <1>7 DEF HasRoom, ids
  <2>2. Cardinality(ToSet(ids)) <= Len(ids) /\ Cardinality(ToSet(ids)) \in Nat
    BY <1>1, HowMany
  <2>3. AllFit(Placed(ids))
    BY <1>2, <1>7, <2>1
  <2>4. AllFit(bare.place)
    BY <1>4, <2>3 DEF AllFit
  <2> QED BY <1>5, <1>6, <2>1, <2>2, <2>4, WizardAssumption
<1> QED BY <1>6, <1>7

\* It holds at the start.
LEMMA InitiallyAll == Init => AllInv
<1> SUFFICES ASSUME Init PROVE AllInv
  OBVIOUS
<1>1. /\ doc = [d \in Docs |-> IF d \in Own THEN Uploaded
                 ELSE Rendered(Configured(Uploaded, SentTo[d], Placed(SentTo[d])))]
      /\ behind = [d \in Docs |-> FALSE] /\ wizard = On("away", None) /\ saves = 0
      /\ portal = [u \in Signers |-> Empty]
  BY DEF Init, PlacementInit, WizardInit, PortalInit
<1>2. \A d \in Docs : /\ doc[d] \in Document /\ RowIs(doc[d], behind[d])
                      /\ HasRoom => Len(doc[d].order) <= MaxSigners /\ AllFit(doc[d].place)
  <2> TAKE d \in Docs
  <2>1. CASE d \in Own
    <3>1. doc[d] = Uploaded /\ behind[d] = FALSE
      BY <1>1, <2>1
    <3>2. doc[d] \in Document /\ RowIs(doc[d], behind[d])
      BY <3>1, UploadedIs
    <3>3. Len(doc[d].order) <= MaxSigners /\ AllFit(doc[d].place)
      BY <3>1, UploadedIs, Nobody, WizardAssumption
    <3> QED BY <3>2, <3>3
  <2>2. CASE d \notin Own
    <3>1. /\ doc[d] = Rendered(Configured(Uploaded, SentTo[d], Placed(SentTo[d])))
          /\ behind[d] = FALSE
      BY <1>1, <2>2
    <3> QED BY <3>1, SentIs
  <2> QED BY <2>1, <2>2
<1>3. doc \in [Docs -> Document] /\ behind \in [Docs -> BOOLEAN]
  BY <1>1, <1>2
<1>4. /\ wizard \in WizardState /\ wizard.step = "away" /\ ~wizard.loading
      /\ wizard.order = <<>> /\ wizard.place = NoPlaces
  BY <1>1, Opened
<1>5. Empty \in PortalState /\ PageIs(Empty)
  BY DEF Empty, PortalState, PageIs
<1>6. LayoutInv
  <2>1. TypeOK
    BY <1>1, <1>3, <1>4, <1>5, WizardAssumption DEF TypeOK
  <2> QED BY <1>2, <1>4, <2>1, Nobody DEF LayoutInv, RowsInv, WizardInv
<1>7. HasRoom => RoomInv
  BY <1>2, <1>4, Nobody, WizardAssumption DEF RoomInv
<1>8. PortalInv
  BY <1>1, <1>5 DEF PortalInv
<1> QED BY <1>6, <1>7, <1>8 DEF AllInv

\* Every step keeps it, and leaves the layout as the owner saw it.
LEMMA StepKeepsAll ==
  ASSUME AllInv, [Next]_vars
  PROVE  AllInv' /\ (UNCHANGED vars \/ (ShownOrderIsSaved /\ SignedLayoutStays))
<1>1. CASE WizardNext /\ UNCHANGED portal
  <2>1. WizardStep
    BY <1>1, WizardSteps DEF AllInv
  <2>2. LayoutInv'
    BY <1>1, <2>1 DEF WizardStep, RowsStep, AllInv, LayoutInv, TypeOK
  <2>3. (HasRoom => RoomInv')
    BY <2>1 DEF WizardStep, AllInv
  <2>4. PortalInv'
    BY <1>1 DEF AllInv, PortalInv
  <2> QED BY <2>1, <2>2, <2>3, <2>4 DEF AllInv, WizardStep, RowsStep
<1>2. CASE PortalNext /\ UNCHANGED <<wizard, saves>>
  <2>1. PortalStep
    BY <1>2, PortalSteps DEF AllInv
  <2>2. LayoutInv'
    BY <1>2, <2>1 DEF PortalStep, RowsStep, AllInv, LayoutInv, TypeOK, WizardInv
  <2>3. (HasRoom => RoomInv')
    BY <1>2, <2>1 DEF PortalStep, LayoutAlone, AllInv, RoomInv
  <2>4. PortalInv'
    BY <2>1 DEF PortalStep, AllInv
  <2> QED BY <2>1, <2>2, <2>3, <2>4 DEF AllInv, PortalStep, RowsStep
<1>3. CASE UNCHANGED vars
  BY <1>3 DEF vars, AllInv, LayoutInv, TypeOK, RowsInv, WizardInv, RoomInv, PortalInv
<1> QED BY <1>1, <1>2, <1>3 DEF Next

\* What every reachable state of the pages satisfies.
THEOREM AllAlways == Spec => []AllInv
<1>1. AllInv /\ [Next]_vars => AllInv'
  BY StepKeepsAll
<1> QED BY <1>1, InitiallyAll, PTL DEF Spec

-----------------------------------------------------------------------------
(* The properties *)

\* Whoever signed is seen where the owner put them, whatever the sheets are like.
LEMMA DrawnAndTyped == AllInv => TypeOK /\ DrawnWhereStored
<1> SUFFICES ASSUME AllInv PROVE TypeOK /\ DrawnWhereStored
  OBVIOUS
<1>1. TypeOK /\ RowsInv
  BY DEF AllInv, LayoutInv
<1>2. DrawnWhereStored
  <2> SUFFICES ASSUME NEW d \in Docs, NEW u \in ToSet(doc[d].signed), doc[d].place[u] # None
               PROVE  /\ doc[d].widget[u] = [x |-> doc[d].place[u].x, y |-> doc[d].place[u].y]
                      /\ ~behind[d] => [user |-> u, place |-> doc[d].place[u]] \in doc[d].images
    BY DEF DrawnWhereStored
  <2>1. RowIs(doc[d], behind[d])
    BY <1>1 DEF RowsInv
  <2>2. /\ doc[d].order \in Seq(Users) /\ doc[d].signed \in Seq(Users)
    BY <1>1 DEF TypeOK, Document
  <2>3. u \in ToSet(doc[d].order)
    <3>1. PICK i \in 1..Len(doc[d].signed) : doc[d].signed[i] = u
      BY <2>2 DEF ToSet
    <3>2. i \in 1..Len(doc[d].order) /\ doc[d].order[i] = u
      BY <2>1, <2>2, <3>1 DEF RowIs
    <3> QED BY <2>2, <3>2 DEF ToSet
  <2>4. [user |-> u, place |-> doc[d].place[u]] \in PreRendered(doc[d])
    BY <2>3 DEF PreRendered
  <2> QED BY <2>1, <2>4 DEF RowIs
<1> QED BY <1>1, <1>2

\* What the pages hold and where signatures are drawn, also without such room.
THEOREM DrawnAlways == Spec => [](TypeOK /\ DrawnWhereStored)
BY DrawnAndTyped, AllAlways, PTL

\* Rows, pages and the drawn file agree on where the signatures are, and none
\* reaches over the border of a sheet that has room for them.
THEOREM DrawingsAgreeHolds == ASSUME HasRoom PROVE Spec => []DrawingsAgree
<1>1. AllInv => DrawingsAgree
  <2> SUFFICES ASSUME AllInv PROVE PlacedInsidePage
    BY DrawnAndTyped DEF DrawingsAgree
  <2>1. \A d \in Docs : AllFit(doc[d].place)
    BY DEF AllInv, RoomInv
  <2> QED BY <2>1 DEF PlacedInsidePage, AllFit, Fits
<1> QED BY <1>1, AllAlways, PTL

\* The verification code of a signed document is there, and clear of the first
\* signature wherever a corner is.
THEOREM QrIsFoundHolds == Spec => []QrIsFound
<1>1. AllInv => QrIsFound
  <2> SUFFICES ASSUME AllInv, NEW d \in Docs, doc[d].signed # <<>>
               PROVE  /\ doc[d].qr # None
                      /\ ~behind[d] =>
                           LET p == doc[d].place[doc[d].signed[1]]
                               corners == IF p = None THEN <<>> ELSE Corners(p.page)
                           IN (\E c \in ToSet(corners) : ~Covers(p, c)) =>
                                doc[d].qr.page # p.page \/ ~Covers(p, doc[d].qr)
    BY DEF QrIsFound, SignedHasQr, QrIsClear
  <2> DEFINE p == doc[d].place[doc[d].signed[1]]
  <2>1. RowIs(doc[d], behind[d]) /\ doc[d] \in Document
    BY DEF AllInv, LayoutInv, RowsInv, TypeOK
  <2>2. /\ doc[d].order \in Seq(Users) /\ doc[d].signed \in Seq(Users)
        /\ doc[d].place \in Places
    BY <2>1 DEF Document, Places
  <2>3. Len(doc[d].signed) \in Nat \ {0} /\ Len(doc[d].order) \in Nat
    BY <2>2, EmptySeq
  <2>4. doc[d].signed[1] = doc[d].order[1] /\ doc[d].order # <<>> /\ doc[d].signed[1] \in Users
    BY <2>1, <2>2, <2>3 DEF RowIs
  <2>5. doc[d].qr # None
    BY <2>1 DEF RowIs
  <2>6. ASSUME ~behind[d], p # None, NEW c \in ToSet(Corners(p.page)), ~Covers(p, c)
        PROVE  ~Covers(p, doc[d].qr)
    <3>1. FirstPlaced(doc[d]) = p
      BY <2>1, <2>4, <2>6, FirstPlacedIs
    <3>2. doc[d].qr = AutomaticQr(p)
      BY <2>1, <2>4, <2>6, <3>1 DEF RowIs
    <3>3. p \in Place \cup {None}
      BY <2>2, <2>4 DEF Places
    <3> QED BY <2>6, <3>2, <3>3, CodeIsClear
  <2>7. ToSet(<<>>) = {}
    BY DEF ToSet
  <2> QED BY <2>5, <2>6, <2>7
<1> QED BY <1>1, AllAlways, PTL

\* A confirmation belongs to the open dialog and to what this shows, for any
\* number of signers, documents and late previews.
THEOREM ConfirmedUnlessLateHolds == Spec => []ConfirmedUnlessLate
<1>1. AllInv => ConfirmedUnlessLate
  BY DEF AllInv, PortalInv, PageIs, ConfirmedUnlessLate
<1> QED BY <1>1, AllAlways, PTL

\* The order stored is the one the owner saw, and after the first signature the
\* signers, their order and their places stay.
THEOREM LayoutStaysHolds == Spec => LayoutStays
<1>1. AllInv /\ [Next]_vars => [ShownOrderIsSaved /\ SignedLayoutStays]_vars
  BY StepKeepsAll
<1> QED BY <1>1, AllAlways, PTL DEF Spec, LayoutStays
=============================================================================
