------------------------- MODULE DecisionTreeProofs -------------------------
(***************************************************************************)
(* What buildDTree makes of any list of candlesticks and any list of       *)
(* features: the leaves of the tree partition the instances at every       *)
(* moment of the recursion, every test separates what is below it, and     *)
(* findMatch leads a training instance astray only where it ties with the  *)
(* threshold; and every split is one no feature's cut gains more than, so  *)
(* that the leaves end up pure.                                            *)
(***************************************************************************)
EXTENDS DecisionTree, FiniteSetTheorems, SequenceTheorems, WellFoundedInduction, TLAPS

(* A list of instances is a sequence of positions in the training list.    *)
Lists == Seq(DOMAIN training)
SortedBy(s, f) ==
  \A a, b \in DOMAIN s : a < b => Feature(training[s[a]], f) <= Feature(training[s[b]], f)

-----------------------------------------------------------------------------
(* The sort.                                                               *)

LEMMA FeatureType == ASSUME NEW c \in CandleStick, NEW f \in Features PROVE Feature(c, f) \in Int
<1>1. f = 0 \/ f = 1 \/ f = 2 \/ f = 3
  BY DEF Features
<1> QED
  BY <1>1 DEF Feature, CandleStick

LEMMA ListType ==
  ASSUME training \in Seq(CandleStick), NEW s \in Lists
  PROVE  /\ Len(s) \in Nat /\ DOMAIN s = 1..Len(s)
         /\ \A i \in DOMAIN s : s[i] \in DOMAIN training /\ training[s[i]] \in CandleStick
         /\ Range(s) \subseteq DOMAIN training
<1>1. Len(s) \in Nat /\ DOMAIN s = 1..Len(s) /\ s \in [1..Len(s) -> DOMAIN training]
  BY LenProperties DEF Lists
<1>2. \A i \in DOMAIN training : training[i] \in CandleStick
  BY LenProperties, ElementOfSeq
<1> QED
  BY <1>1, <1>2 DEF Range

(* Before is a strict total order on the places of a list.                 *)
LEMMA BeforeOrder ==
  ASSUME training \in Seq(CandleStick), NEW s \in Lists, NEW f \in Features
  PROVE  /\ \A i \in DOMAIN s : ~Before(s, f, i, i)
         /\ \A i, j \in DOMAIN s : i # j => Before(s, f, i, j) \/ Before(s, f, j, i)
         /\ \A i, j, k \in DOMAIN s : Before(s, f, i, j) /\ Before(s, f, j, k) => Before(s, f, i, k)
<1> DEFINE v(i) == Feature(training[s[i]], f)
<1>1. \A i \in DOMAIN s : v(i) \in Int /\ i \in Int
  BY ListType, FeatureType
<1>2. \A i, j \in DOMAIN s : Before(s, f, i, j) <=> v(i) < v(j) \/ (v(i) = v(j) /\ i < j)
  BY DEF Before
<1> HIDE DEF v
<1> QED
  BY <1>1, <1>2

(* The rank is a bijection of the places.                                  *)
LEMMA RankOrder ==
  ASSUME training \in Seq(CandleStick), NEW s \in Lists, NEW f \in Features
  PROVE  /\ \A i \in DOMAIN s : Rank(s, f, i) \in DOMAIN s
         /\ \A i, j \in DOMAIN s : Before(s, f, i, j) <=> Rank(s, f, i) < Rank(s, f, j)
         /\ \A i, j \in DOMAIN s : Rank(s, f, i) = Rank(s, f, j) => i = j
         /\ \A r \in DOMAIN s : \E i \in DOMAIN s : Rank(s, f, i) = r
<1> DEFINE D == DOMAIN s
           B(i) == {j \in D : Before(s, f, j, i)}
           n == Len(s)
<1>1. D = 1..n /\ n \in Nat /\ IsFiniteSet(D) /\ Cardinality(D) = n
  <2>1. D = 1..n /\ n \in Nat
    BY ListType
  <2> HIDE DEF n
  <2>2. IsFiniteSet(1..n) /\ Cardinality(1..n) = n
    BY <2>1, FS_Interval
  <2> QED
    BY <2>1, <2>2
<1> HIDE DEF D, n
<1>2. \A i : IsFiniteSet(B(i)) /\ Cardinality(B(i)) \in Nat
  <2> SUFFICES ASSUME NEW i PROVE IsFiniteSet(B(i)) /\ Cardinality(B(i)) \in Nat
    OBVIOUS
  <2>1. B(i) \subseteq D
    OBVIOUS
  <2> HIDE DEF B
  <2>2. IsFiniteSet(B(i))
    BY <1>1, <2>1, FS_Subset
  <2> QED
    BY <2>2, FS_CardinalityType
<1>3. \A i \in D : Rank(s, f, i) = Cardinality(B(i)) + 1
  BY DEF Rank, D
<1>4. ASSUME NEW i \in D PROVE Rank(s, f, i) \in 1..n
  <2>1. B(i) \subseteq D \ {i}
    BY BeforeOrder DEF D
  <2>2. IsFiniteSet(D \ {i}) /\ Cardinality(D \ {i}) = n - 1
    BY <1>1, FS_RemoveElement
  <2> HIDE DEF B
  <2>3. Cardinality(B(i)) <= n - 1
    BY <2>1, <2>2, FS_Subset
  <2> QED
    BY <1>1, <1>2, <1>3, <2>3
<1>5. ASSUME NEW i \in D, NEW j \in D, Before(s, f, i, j) PROVE Rank(s, f, i) < Rank(s, f, j)
  <2>1. B(i) \subseteq B(j) /\ i \in B(j) /\ i \notin B(i)
    BY <1>5, BeforeOrder DEF D
  <2> HIDE DEF B
  <2>2. B(i) # B(j)
    BY <2>1
  <2>3. Cardinality(B(i)) <= Cardinality(B(j)) /\ Cardinality(B(i)) # Cardinality(B(j))
    BY <1>2, <2>1, <2>2, FS_Subset
  <2>4. Cardinality(B(i)) < Cardinality(B(j))
    BY <1>2, <2>3
  <2> QED
    BY <1>2, <1>3, <2>4
<1>6. \A i, j \in D : Rank(s, f, i) = Rank(s, f, j) => i = j
  <2> SUFFICES ASSUME NEW i \in D, NEW j \in D, Rank(s, f, i) = Rank(s, f, j), i # j PROVE FALSE
    OBVIOUS
  <2>1. Before(s, f, i, j) \/ Before(s, f, j, i)
    BY BeforeOrder DEF D
  <2>2. Rank(s, f, i) \in 1..n /\ Rank(s, f, j) \in 1..n
    BY <1>4
  <2> QED
    BY <1>1, <1>5, <2>1, <2>2
<1>7. \A i, j \in D : Before(s, f, i, j) <=> Rank(s, f, i) < Rank(s, f, j)
  <2> SUFFICES ASSUME NEW i \in D, NEW j \in D, Rank(s, f, i) < Rank(s, f, j) PROVE Before(s, f, i, j)
    BY <1>5
  <2>1. Rank(s, f, i) \in 1..n /\ Rank(s, f, j) \in 1..n
    BY <1>4
  <2>2. i # j /\ ~Before(s, f, j, i)
    BY <1>1, <1>5, <2>1
  <2> QED
    BY <2>2, BeforeOrder DEF D
<1>8. \A r \in D : \E i \in D : Rank(s, f, i) = r
  <2> DEFINE R == [i \in D |-> Rank(s, f, i)]
  <2>1. R \in [D -> D]
    BY <1>1, <1>4
  <2>2. IsInjective(R)
    BY <1>6 DEF IsInjective
  <2>3. R \in Injection(D, D)
    BY <2>1, <2>2 DEF Injection
  <2> HIDE DEF R
  <2>4. R \in Surjection(D, D)
    BY <1>1, <2>3, FS_Injection
  <2> QED
    BY <2>4 DEF Surjection, R
<1> QED
  BY <1>1, <1>4, <1>6, <1>7, <1>8 DEF D

(* List.sort orders the list and keeps what is in it, once if it was there *)
(* once.                                                                   *)
LEMMA SortProperties ==
  ASSUME training \in Seq(CandleStick), NEW s \in Lists, NEW f \in Features
  PROVE  /\ StableSort(s, f) \in Lists /\ Len(StableSort(s, f)) = Len(s)
         /\ Range(StableSort(s, f)) = Range(s)
         /\ IsInjective(s) => IsInjective(StableSort(s, f))
         /\ SortedBy(StableSort(s, f), f)
<1> DEFINE D == DOMAIN s
           at(r) == CHOOSE i \in D : Rank(s, f, i) = r
           t == StableSort(s, f)
<1>1. D = 1..Len(s) /\ Len(s) \in Nat /\ \A i \in D : s[i] \in DOMAIN training
  BY ListType
<1>2. \A r \in D : at(r) \in D /\ Rank(s, f, at(r)) = r
  BY RankOrder
<1>3. t = [r \in D |-> s[at(r)]]
  BY DEF StableSort
<1> HIDE DEF at, t
<1>4. DOMAIN t = D /\ \A r \in D : t[r] = s[at(r)]
  BY <1>3
<1>5. t \in Lists /\ Len(t) = Len(s)
  <2>1. t \in [1..Len(s) -> DOMAIN training]
    BY <1>1, <1>2, <1>3
  <2> QED
    BY <1>1, <2>1 DEF Lists
<1>6. Range(t) = Range(s)
  <2>1. Range(t) \subseteq Range(s)
    BY <1>2, <1>4 DEF Range
  <2>2. ASSUME NEW i \in D PROVE s[i] \in Range(t)
    <3>1. Rank(s, f, i) \in D
      BY RankOrder
    <3>2. at(Rank(s, f, i)) = i
      BY <1>2, <3>1, RankOrder
    <3> QED
      BY <1>4, <3>1, <3>2 DEF Range
  <2> QED
    BY <2>1, <2>2 DEF Range
<1>7. IsInjective(s) => IsInjective(t)
  <2> SUFFICES ASSUME IsInjective(s), NEW a \in D, NEW b \in D, t[a] = t[b] PROVE a = b
    BY <1>4 DEF IsInjective
  <2>1. at(a) = at(b)
    BY <1>2, <1>4 DEF IsInjective
  <2> QED
    BY <1>2, <2>1
<1>8. SortedBy(t, f)
  <2> SUFFICES ASSUME NEW a \in D, NEW b \in D, a < b
               PROVE  Feature(training[t[a]], f) <= Feature(training[t[b]], f)
    BY <1>4 DEF SortedBy
  <2>1. Before(s, f, at(a), at(b))
    BY <1>2, RankOrder
  <2>2. /\ Feature(training[s[at(a)]], f) \in Int
        /\ Feature(training[s[at(b)]], f) \in Int
    BY <1>2, ListType, FeatureType
  <2>3. Feature(training[s[at(a)]], f) <= Feature(training[s[at(b)]], f)
    BY <2>1, <2>2 DEF Before
  <2> QED
    BY <1>4, <2>3
<1> QED
  BY <1>5, <1>6, <1>7, <1>8 DEF t

-----------------------------------------------------------------------------
(* The splits.                                                             *)

(* t separates the instances A from the instances B, to which it belongs.  *)
Separates(f, t, A, B) ==
  /\ \A i \in A : Feature(training[i], f) <= Feature(training[t], f)
  /\ \A i \in B : Feature(training[t], f) <= Feature(training[i], f)
  /\ t \in B

(* Split c divides the list s in two that are not empty.                   *)
GoodSplit(c, s) ==
  /\ c.attr \in Features /\ c.left \in Lists /\ c.right \in Lists
  /\ Len(c.left) >= 1 /\ Len(c.right) >= 1 /\ Len(c.left) + Len(c.right) = Len(s)
  /\ IsInjective(c.left) /\ IsInjective(c.right)
  /\ Range(s) = Range(c.left) \cup Range(c.right)
  /\ Range(c.left) \cap Range(c.right) = {}
  /\ Separates(c.attr, c.thresholdInstance, Range(c.left), Range(c.right))

LEMMA SplitProperties ==
  ASSUME training \in Seq(CandleStick), NEW s \in Lists, NEW f \in Features,
         IsInjective(s), SortedBy(s, f), NEW k \in 1..(Len(s) - 1)
  PROVE  GoodSplit(Split(s, f, k), s)
<1> DEFINE n == Len(s)
           a == SubSeq(s, 1, k)
           b == SubSeq(s, k + 1, n)
<1>1. n \in Nat /\ DOMAIN s = 1..n /\ \A i \in 1..n : s[i] \in DOMAIN training
  BY ListType
<1>2. /\ a \in Lists /\ Len(a) = k /\ DOMAIN a = 1..k /\ \A i \in 1..k : a[i] = s[i]
  <2>1. \A i \in 1..k : s[i] \in DOMAIN training
    BY <1>1
  <2>2. a \in Lists /\ Len(a) = k /\ \A i \in 1..k : a[i] = s[1 + i - 1]
    BY <1>1, <2>1, SubSeqProperties DEF Lists
  <2>3. DOMAIN a = 1..k
    BY <2>2, ListType
  <2> QED
    BY <2>2, <2>3
<1>3. /\ b \in Lists /\ Len(b) = n - k /\ DOMAIN b = 1..(n - k)
      /\ \A i \in 1..(n - k) : b[i] = s[k + i]
  <2>1. \A i \in (k + 1)..n : s[i] \in DOMAIN training
    BY <1>1
  <2>2. k + 1 \in Int /\ n \in Int /\ k + 1 <= n
    BY <1>1
  <2>3. b \in Lists /\ Len(b) = n - (k + 1) + 1 /\ \A i \in 1..(n - (k + 1) + 1) : b[i] = s[(k + 1) + i - 1]
    BY <2>1, <2>2, SubSeqProperties DEF Lists
  <2>4. DOMAIN b = 1..Len(b)
    BY <2>3, ListType
  <2>5. Len(b) = n - k /\ \A i \in 1..(n - k) : b[i] = s[k + i]
    BY <2>2, <2>3
  <2> QED
    BY <2>3, <2>4, <2>5
<1> HIDE DEF a, b, n
<1>4. k \in Int /\ k >= 1 /\ n - k >= 1
  BY <1>1 DEF n
<1>5. IsInjective(a)
  <2> SUFFICES ASSUME NEW i \in 1..k, NEW j \in 1..k, a[i] = a[j] PROVE i = j
    BY <1>2 DEF IsInjective
  <2>1. i \in 1..n /\ j \in 1..n /\ s[i] = s[j]
    BY <1>1, <1>2, <1>4
  <2> QED
    BY <1>1, <2>1 DEF IsInjective
<1>6. IsInjective(b)
  <2> SUFFICES ASSUME NEW i \in 1..(n - k), NEW j \in 1..(n - k), b[i] = b[j] PROVE i = j
    BY <1>3 DEF IsInjective
  <2>1. k + i \in 1..n /\ k + j \in 1..n /\ s[k + i] = s[k + j]
    BY <1>1, <1>3, <1>4
  <2>2. k + i = k + j
    BY <1>1, <2>1 DEF IsInjective
  <2> QED
    BY <1>1, <1>4, <2>2
<1>7. \A x \in Range(a) : \E i \in 1..k : x = s[i]
  BY <1>2 DEF Range
<1>8. \A x \in Range(b) : \E i \in (k + 1)..n : x = s[i]
  <2> SUFFICES ASSUME NEW j \in 1..(n - k) PROVE \E i \in (k + 1)..n : b[j] = s[i]
    BY <1>3 DEF Range
  <2>1. k + j \in (k + 1)..n /\ b[j] = s[k + j]
    BY <1>1, <1>3, <1>4
  <2> QED
    BY <2>1
<1>9. \A i \in 1..k : s[i] \in Range(a)
  BY <1>2 DEF Range
<1>10. \A i \in (k + 1)..n : s[i] \in Range(b)
  <2> SUFFICES ASSUME NEW i \in (k + 1)..n PROVE s[i] \in Range(b)
    OBVIOUS
  <2>1. i - k \in 1..(n - k) /\ k + (i - k) = i
    BY <1>1, <1>4
  <2>2. b[i - k] = s[i]
    BY <1>3, <2>1
  <2> QED
    BY <1>3, <2>1, <2>2 DEF Range
<1>11. Range(s) = Range(a) \cup Range(b)
  <2>1. \A x \in Range(s) : \E i \in 1..n : x = s[i]
    BY <1>1 DEF Range
  <2>2. \A i \in 1..n : s[i] \in Range(s)
    BY <1>1 DEF Range
  <2>3. \A i \in 1..n : i \in 1..k \/ i \in (k + 1)..n
    BY <1>1, <1>4
  <2>4. (\A i \in 1..k : i \in 1..n) /\ \A i \in (k + 1)..n : i \in 1..n
    BY <1>1, <1>4
  <2>5. Range(s) \subseteq Range(a) \cup Range(b)
    BY <1>9, <1>10, <2>1, <2>3
  <2>6. Range(a) \subseteq Range(s) /\ Range(b) \subseteq Range(s)
    BY <1>7, <1>8, <2>2, <2>4
  <2> QED
    BY <2>5, <2>6
<1>12. Range(a) \cap Range(b) = {}
  <2> SUFFICES ASSUME NEW x \in Range(a), x \in Range(b) PROVE FALSE
    OBVIOUS
  <2>1. PICK i \in 1..k : x = s[i]
    BY <1>7
  <2>2. PICK j \in (k + 1)..n : x = s[j]
    BY <1>8
  <2>3. i \in 1..n /\ j \in 1..n /\ i # j
    BY <1>1, <1>4
  <2> QED
    BY <1>1, <2>1, <2>2, <2>3 DEF IsInjective
<1>13. Separates(f, s[k + 1], Range(a), Range(b))
  <2>1. k + 1 \in 1..n /\ k + 1 \in (k + 1)..n
    BY <1>1, <1>4
  <2>2. s[k + 1] \in Range(b)
    BY <1>10, <2>1
  <2>3. ASSUME NEW x \in Range(a) PROVE Feature(training[x], f) <= Feature(training[s[k + 1]], f)
    <3>1. PICK i \in 1..k : x = s[i]
      BY <1>7
    <3>2. i \in 1..n /\ i < k + 1
      BY <1>1, <1>4
    <3> QED
      BY <1>1, <2>1, <3>1, <3>2 DEF SortedBy
  <2>4. ASSUME NEW x \in Range(b) PROVE Feature(training[s[k + 1]], f) <= Feature(training[x], f)
    <3>1. PICK i \in (k + 1)..n : x = s[i]
      BY <1>8
    <3>2. i \in 1..n /\ (i = k + 1 \/ k + 1 < i)
      BY <1>1, <1>4
    <3>3. Feature(training[s[k + 1]], f) \in Int
      BY <1>1, <2>1, ListType, FeatureType
    <3> QED
      BY <1>1, <2>1, <3>1, <3>2, <3>3 DEF SortedBy
  <2> QED
    BY <2>2, <2>3, <2>4 DEF Separates
<1> DEFINE c == Split(s, f, k)
<1>14. c.attr = f /\ c.thresholdInstance = s[k + 1] /\ c.left = a /\ c.right = b
  BY DEF Split, a, b, n
<1>15. Len(a) + Len(b) = Len(s) /\ Len(a) >= 1 /\ Len(b) >= 1
  <2>1. k + (n - k) = n
    BY <1>1, <1>4
  <2> QED
    BY <1>2, <1>3, <1>4, <2>1 DEF n
<1> HIDE DEF c
<1> QED
  BY <1>2, <1>3, <1>5, <1>6, <1>11, <1>12, <1>13, <1>14, <1>15 DEF GoodSplit, c

(* The best split after the thresholds of a feature were tried is the one  *)
(* before or one of the list.                                              *)
LEMMA BestIsSplit ==
  ASSUME NEW s, NEW f, NEW c \in BestAfter(s, f)
  PROVE  c = best \/ \E k \in 1..(Len(s) - 1) : c = Split(s, f, k)
BY DEF BestAfter

-----------------------------------------------------------------------------
(* Paths, and the stack of calls.                                          *)

Paths == Seq({0, 1})

LEMMA PathFacts ==
  ASSUME NEW p \in Paths, NEW q \in Paths
  PROVE  /\ Left(p) \in Paths /\ Right(p) \in Paths
         /\ Len(p) \in Nat /\ Len(Left(p)) = Len(p) + 1 /\ Len(Right(p)) = Len(p) + 1
         /\ Left(p) = Left(q) => p = q
         /\ Right(p) = Right(q) => p = q
         /\ Left(p) # Right(q) /\ Left(p) # p /\ Right(p) # p
<1>1. 0 \in {0, 1} /\ 1 \in {0, 1} /\ Len(p) \in Nat
  BY LenProperties DEF Paths
<1>2. Left(p) \in Paths /\ Len(Left(p)) = Len(p) + 1
  BY <1>1, AppendProperties DEF Paths, Left
<1>3. Right(p) \in Paths /\ Len(Right(p)) = Len(p) + 1
  BY <1>1, AppendProperties DEF Paths, Right
<1>4. Left(p) = Left(q) => p = q
  BY <1>1, AppendInjective DEF Paths, Left
<1>5. Right(p) = Right(q) => p = q
  BY <1>1, AppendInjective DEF Paths, Right
<1>6. Left(p) # Right(q)
  BY <1>1, AppendInjective DEF Paths, Left, Right
<1> QED
  BY <1>1, <1>2, <1>3, <1>4, <1>5, <1>6

(* The ancestors of a child are those of its parent, and its parent.       *)
LEMMA AncestorsOfChild ==
  ASSUME NEW p \in Paths, NEW x \in {0, 1}
  PROVE  Ancestors(p) \cup {p} \subseteq Ancestors(Append(p, x))
<1> DEFINE c == Append(p, x)
           n == Len(p)
<1>1. n \in Nat /\ c \in Paths /\ Len(c) = n + 1 /\ \A i \in 1..n : c[i] = p[i]
  BY LenProperties, AppendProperties DEF Paths
<1>2. \A i \in 1..n : p[i] \in {0, 1}
  BY ElementOfSeq DEF Paths
<1> HIDE DEF c
<1>3. ASSUME NEW k \in 0..n PROVE SubSeq(p, 1, k) = SubSeq(c, 1, k)
  <2>1. k \in Int /\ 1 \in Int /\ \A i \in 1..k : p[i] \in {0, 1} /\ c[i] \in {0, 1} /\ c[i] = p[i]
    BY <1>1, <1>2
  <2>2. /\ SubSeq(p, 1, k) \in Paths
        /\ Len(SubSeq(p, 1, k)) = IF 1 <= k THEN k - 1 + 1 ELSE 0
        /\ \A i \in 1..(k - 1 + 1) : SubSeq(p, 1, k)[i] = p[1 + i - 1]
    BY <2>1, SubSeqProperties DEF Paths
  <2>3. /\ SubSeq(c, 1, k) \in Paths
        /\ Len(SubSeq(c, 1, k)) = IF 1 <= k THEN k - 1 + 1 ELSE 0
        /\ \A i \in 1..(k - 1 + 1) : SubSeq(c, 1, k)[i] = c[1 + i - 1]
    BY <2>1, SubSeqProperties DEF Paths
  <2>4. Len(SubSeq(p, 1, k)) = k /\ Len(SubSeq(c, 1, k)) = k
    BY <1>1, <2>2, <2>3
  <2>5. \A i \in 1..k : SubSeq(p, 1, k)[i] = SubSeq(c, 1, k)[i]
    BY <1>1, <2>1, <2>2, <2>3
  <2> QED
    BY <2>2, <2>3, <2>4, <2>5, SeqEqual DEF Paths
<1>4. SubSeq(c, 1, n) = p
  BY <1>1, <1>3, SubSeqFull DEF Paths
<1>5. Ancestors(c) = {SubSeq(c, 1, k) : k \in 0..n}
  BY <1>1 DEF Ancestors
<1>6. \A k \in 0..(n - 1) : k \in 0..n
  BY <1>1
<1>7. n \in 0..n
  BY <1>1
<1>8. p \in Ancestors(c)
  BY <1>4, <1>5, <1>7
<1>9. ASSUME NEW q \in Ancestors(p) PROVE q \in Ancestors(c)
  <2>1. PICK k \in 0..(n - 1) : q = SubSeq(p, 1, k)
    BY DEF Ancestors
  <2>2. k \in 0..n
    BY <1>6
  <2> QED
    BY <1>3, <1>5, <2>1, <2>2
<1> QED
  BY <1>8, <1>9 DEF c

(* The stack when a call returns, ...                                      *)
LEMMA ReturnedStack ==
  ASSUME NEW S, NEW st \in Seq(S), st # <<>>
  PROVE  /\ Len(st) \in Nat /\ Len(st) >= 1 /\ Head(st) = st[1] /\ Head(st) \in S
         /\ Tail(st) \in Seq(S) /\ DOMAIN Tail(st) = 1..(Len(st) - 1)
         /\ \A k \in 1..(Len(st) - 1) : Tail(st)[k] = st[k + 1]
         /\ Tail(st) = <<>> <=> Len(st) = 1
<1>1. Len(st) \in Nat \ {0} /\ DOMAIN st = 1..Len(st)
  BY EmptySeq, LenProperties
<1>2. Head(st) \in S /\ Tail(st) \in Seq(S) /\ Len(Tail(st)) = Len(st) - 1
      /\ \A i \in 1..Len(Tail(st)) : Tail(st)[i] = st[i + 1]
  BY HeadTailProperties
<1>3. DOMAIN Tail(st) = 1..Len(Tail(st))
  BY <1>2, LenProperties
<1>4. Tail(st) = <<>> <=> Len(Tail(st)) = 0
  BY <1>2, EmptySeq
<1> QED
  BY <1>1, <1>2, <1>3, <1>4

(* ... and when it calls itself on two children.                           *)
LEMMA GrownStack ==
  ASSUME NEW S, NEW st \in Seq(S), st # <<>>, NEW l \in S, NEW r \in S
  PROVE  LET new == <<l, r>> \o Tail(st)
         IN  /\ new \in Seq(S) /\ new # <<>> /\ DOMAIN new = 1..(Len(st) + 1)
             /\ new[1] = l /\ new[2] = r
             /\ \A k \in 3..(Len(st) + 1) : new[k] = st[k - 1]
<1> DEFINE two == <<l, r>>
           rest == Tail(st)
           new == two \o rest
           n == Len(st)
<1>1. two \in Seq(S) /\ Len(two) = 2 /\ two[1] = l /\ two[2] = r
  OBVIOUS
<1>2. n \in Nat /\ n >= 1 /\ rest \in Seq(S) /\ \A k \in 1..(n - 1) : rest[k] = st[k + 1]
  BY ReturnedStack
<1>3. Len(rest) = n - 1
  BY HeadTailProperties
<1> HIDE DEF two, rest, n
<1>4. /\ new \in Seq(S) /\ Len(new) = 2 + (n - 1)
      /\ \A i \in 1..(2 + (n - 1)) : new[i] = IF i <= 2 THEN two[i] ELSE rest[i - 2]
  <2>1. /\ new \in Seq(S) /\ Len(new) = Len(two) + Len(rest)
        /\ \A i \in 1..(Len(two) + Len(rest)) :
             new[i] = IF i <= Len(two) THEN two[i] ELSE rest[i - Len(two)]
    BY <1>1, <1>2, ConcatProperties
  <2> HIDE DEF new
  <2> QED
    BY <1>1, <1>3, <2>1
<1> HIDE DEF new
<1>5. DOMAIN new = 1..(n + 1)
  <2>1. DOMAIN new = 1..Len(new)
    BY <1>4, LenProperties
  <2> QED
    BY <1>2, <1>4, <2>1
<1>6. new[1] = l /\ new[2] = r
  BY <1>1, <1>2, <1>4
<1>7. ASSUME NEW k \in 3..(n + 1) PROVE new[k] = st[k - 1]
  <2>1. k \in 1..(2 + (n - 1)) /\ ~(k <= 2) /\ k - 2 \in 1..(n - 1) /\ (k - 2) + 1 = k - 1
    BY <1>2
  <2>2. new[k] = rest[k - 2]
    BY <1>4, <2>1
  <2>3. rest[k - 2] = st[(k - 2) + 1]
    BY <1>2, <2>1
  <2> QED
    BY <2>1, <2>2, <2>3
<1>8. new # <<>>
  BY <1>2, <1>4, EmptySeq
<1> QED
  BY <1>4, <1>5, <1>6, <1>7, <1>8 DEF new, two, rest, n

-----------------------------------------------------------------------------
(* The inductive invariant.                                                *)

Inst(p) == nodes[p].instances

(* The values have their types; the node table is a function.              *)
Typed == TypeOK /\ nodes \in [DOMAIN nodes -> Node]

(* The paths form a tree: a child has a parent, and a sibling.             *)
Shape ==
  /\ root \in DOMAIN nodes
  /\ \A p \in Paths :
       Left(p) \in DOMAIN nodes \/ Right(p) \in DOMAIN nodes => p \in DOMAIN nodes
  /\ \A p \in DOMAIN nodes : HasChildren(p) <=> Right(p) \in DOMAIN nodes

(* The root has every instance and a node with children shares its own     *)
(* among them: findMatch cannot leave the instances at a node without      *)
(* leaving them to the other child.                                        *)
Covering ==
  /\ InstancesOf(root) = DOMAIN training
  /\ \A p \in DOMAIN nodes : HasChildren(p) =>
       InstancesOf(p) = InstancesOf(Left(p)) \cup InstancesOf(Right(p))

(* Every instance is in a leaf, in one only, and there only once.          *)
Partition ==
  /\ \A p \in DOMAIN nodes : IsInjective(Inst(p))
  /\ \A i \in DOMAIN training : \E p \in Leaves : i \in InstancesOf(p)
  /\ \A p, q \in Leaves : InstancesOf(p) \cap InstancesOf(q) # {} => p = q

(* The pending calls are about different leaves.                           *)
Pending ==
  /\ \A k \in DOMAIN stack : stack[k] \in Leaves
  /\ IsInjective(stack)

(* What the search of the current call knows.                              *)
Search ==
  /\ fi # 0 => stack # <<>> /\ (best.attr = -1 \/ GoodSplit(best, Inst(Head(stack))))
  /\ sorted => fi \in 1..Len(featureIdx) /\ SortedBy(Inst(Head(stack)), featureIdx[fi])

(* findMatch starts at the root.                                           *)
Walk == pc \in {"training", "trained"} => cursor = root

Tree == Shape /\ Covering /\ Partition /\ SplitsOrdered /\ DepthBounded
IInv == Typed /\ Tree /\ Pending /\ Search /\ Walk /\ MisroutedOnlyByTies

-----------------------------------------------------------------------------
(* The tree parts of the invariant, step by step.                          *)

LEMMA ChildrenInTree ==
  ASSUME Typed, Shape, NEW p \in DOMAIN nodes
  PROVE  /\ p \in Paths
         /\ HasChildren(p) <=> Left(p) \in DOMAIN nodes
         /\ HasChildren(p) <=> Right(p) \in DOMAIN nodes
BY DEF Typed, TypeOK, Shape, HasChildren, Paths

(* A step that only reorders lists of instances keeps the tree.            *)
LEMMA SameTree ==
  ASSUME Typed, Tree, training' = training, DOMAIN nodes' = DOMAIN nodes,
         \A p \in DOMAIN nodes :
           /\ nodes'[p].testCond = nodes[p].testCond
           /\ nodes'[p].thresholdIns = nodes[p].thresholdIns
           /\ Range(nodes'[p].instances) = Range(nodes[p].instances)
           /\ Len(nodes'[p].instances) = Len(nodes[p].instances)
           /\ IsInjective(nodes[p].instances) => IsInjective(nodes'[p].instances)
  PROVE  Tree' /\ Leaves' = Leaves
<1>1. \A p \in DOMAIN nodes : InstancesOf(p)' = InstancesOf(p)
  BY DEF InstancesOf
<1>2. \A p \in Paths : HasChildren(p)' <=> HasChildren(p)
  BY DEF HasChildren
<1>3. DOMAIN nodes \subseteq Paths
  BY DEF Typed, TypeOK, Paths
<1>4. Leaves' = Leaves
  BY <1>2, <1>3 DEF Leaves
<1>5. Shape'
  BY <1>2, <1>3 DEF Tree, Shape
<1>6. \A p \in DOMAIN nodes : HasChildren(p) => Left(p) \in DOMAIN nodes /\ Right(p) \in DOMAIN nodes
  BY ChildrenInTree DEF Tree
<1>7. Covering'
  <2>1. InstancesOf(root)' = DOMAIN training'
    BY <1>1 DEF Tree, Covering, Shape
  <2>2. ASSUME NEW p \in DOMAIN nodes, HasChildren(p)'
        PROVE  InstancesOf(p)' = InstancesOf(Left(p))' \cup InstancesOf(Right(p))'
    <3>1. HasChildren(p)
      BY <1>2, <1>3, <2>2
    <3> QED
      BY <1>1, <1>6, <3>1 DEF Tree, Covering
  <2> QED
    BY <2>1, <2>2 DEF Covering
<1>8. Partition'
  <2>1. \A p \in DOMAIN nodes' : IsInjective(Inst(p)')
    BY DEF Tree, Partition, Inst
  <2>2. \A p \in Leaves : p \in DOMAIN nodes
    BY DEF Leaves
  <2>3. \A i \in DOMAIN training' : \E p \in Leaves' : i \in InstancesOf(p)'
    BY <1>1, <1>4, <2>2 DEF Tree, Partition
  <2>4. \A p, q \in Leaves' : InstancesOf(p)' \cap InstancesOf(q)' # {} => p = q
    BY <1>1, <1>4, <2>2 DEF Tree, Partition
  <2> QED
    BY <2>1, <2>3, <2>4 DEF Partition
<1>9. SplitsOrdered'
  <2> SUFFICES ASSUME NEW p \in DOMAIN nodes, HasChildren(p)'
               PROVE  LET val(i) == Feature(training[i], nodes'[p].testCond)
                      IN  /\ \A i \in InstancesOf(Left(p))' : val(i) <= val(nodes'[p].thresholdIns)
                          /\ \A i \in InstancesOf(Right(p))' : val(nodes'[p].thresholdIns) <= val(i)
                          /\ nodes'[p].thresholdIns \in InstancesOf(Right(p))'
    BY DEF SplitsOrdered
  <2>1. HasChildren(p)
    BY <1>2, <1>3
  <2>2. InstancesOf(Left(p))' = InstancesOf(Left(p)) /\ InstancesOf(Right(p))' = InstancesOf(Right(p))
    BY <1>1, <1>6, <2>1
  <2> QED
    BY <2>1, <2>2 DEF Tree, SplitsOrdered
<1>10. DepthBounded'
  BY DEF Tree, DepthBounded
<1> QED
  BY <1>4, <1>5, <1>7, <1>8, <1>9, <1>10 DEF Tree

(* A leaf gets two children that share its instances.                      *)
LEMMA GrownTree ==
  ASSUME Typed, Tree, training' = training, NEW p \in Leaves, NEW c,
         GoodSplit(c, Inst(p)),
         DOMAIN nodes' = DOMAIN nodes \cup {Left(p), Right(p)},
         \A q \in DOMAIN nodes : nodes'[q].instances = nodes[q].instances,
         \A q \in DOMAIN nodes \ {p} : nodes'[q] = nodes[q],
         nodes'[p].testCond = c.attr, nodes'[p].thresholdIns = c.thresholdInstance,
         nodes'[Left(p)].instances = c.left, nodes'[Right(p)].instances = c.right
  PROVE  /\ Tree'
         /\ Leaves' = (Leaves \ {p}) \cup {Left(p), Right(p)}
         /\ Left(p) \notin DOMAIN nodes /\ Right(p) \notin DOMAIN nodes
<1> DEFINE D == DOMAIN nodes
           l == Left(p)
           r == Right(p)
<1>1. D \subseteq Paths /\ p \in D /\ p \in Paths /\ ~HasChildren(p)
  BY DEF Typed, TypeOK, Leaves, Paths
<1>2. l \in Paths /\ r \in Paths /\ l # r /\ l # p /\ r # p
  BY <1>1, PathFacts
<1>3. l \notin D /\ r \notin D
  BY <1>1, ChildrenInTree DEF Tree
<1>4. \A q \in Paths : (Left(q) = l <=> q = p) /\ (Right(q) = r <=> q = p) /\ Left(q) # r /\ Right(q) # l
  BY <1>1, PathFacts
<1>5. \A q \in Paths : (Left(q) \in D => q \in D) /\ (Right(q) \in D => q \in D)
  BY DEF Tree, Shape
<1>6. \A q \in D : (HasChildren(q) <=> Left(q) \in D) /\ (HasChildren(q) <=> Right(q) \in D)
  BY ChildrenInTree DEF Tree
<1>7. \A q \in D : HasChildren(q)' <=> HasChildren(q) \/ q = p
  BY <1>1, <1>4 DEF HasChildren
<1>8. ~HasChildren(l)' /\ ~HasChildren(r)'
  <2>1. Left(l) \notin D /\ Left(r) \notin D
    BY <1>2, <1>3, <1>5
  <2>2. Left(l) # l /\ Left(l) # r /\ Left(r) # l /\ Left(r) # r
    BY <1>2, <1>4
  <2> QED
    BY <2>1, <2>2 DEF HasChildren
<1>9. Leaves' = (Leaves \ {p}) \cup {l, r}
  BY <1>1, <1>3, <1>7, <1>8 DEF Leaves
<1>10. \A q \in D : InstancesOf(q)' = InstancesOf(q)
  BY DEF InstancesOf
<1>11. /\ InstancesOf(l)' = Range(c.left) /\ InstancesOf(r)' = Range(c.right)
       /\ InstancesOf(p) = Range(c.left) \cup Range(c.right)
       /\ Range(c.left) \cap Range(c.right) = {}
  BY DEF InstancesOf, GoodSplit, Inst
<1> HIDE DEF D, l, r
<1>12. DOMAIN nodes' = D \cup {l, r}
  BY DEF D, l, r
<1>13. Shape'
  <2>1. root \in DOMAIN nodes'
    BY DEF Tree, Shape
  <2>2. ASSUME NEW q \in Paths, Left(q) \in DOMAIN nodes' \/ Right(q) \in DOMAIN nodes'
        PROVE  q \in DOMAIN nodes'
    BY <1>1, <1>4, <1>5, <1>12, <2>2
  <2>3. ASSUME NEW q \in DOMAIN nodes'
        PROVE  Left(q) \in DOMAIN nodes' <=> Right(q) \in DOMAIN nodes'
    <3>1. CASE q \in D
      <4>1. q \in Paths
        BY <1>1, <3>1
      <4>2. Left(q) \in D <=> Right(q) \in D
        BY <1>6, <3>1
      <4> QED
        BY <1>4, <1>12, <4>1, <4>2
    <3>2. CASE q \in {l, r}
      <4>1. q \in Paths /\ q # p /\ q \notin D
        BY <1>2, <1>3, <3>2
      <4> QED
        BY <1>4, <1>5, <1>12, <4>1
    <3> QED
      BY <1>12, <3>1, <3>2
  <2> QED
    BY <2>1, <2>2, <2>3 DEF Shape, HasChildren
<1>14. Covering'
  <2>1. InstancesOf(root)' = DOMAIN training'
    BY <1>10 DEF Tree, Covering, Shape, D
  <2>2. ASSUME NEW q \in DOMAIN nodes', HasChildren(q)'
        PROVE  InstancesOf(q)' = InstancesOf(Left(q))' \cup InstancesOf(Right(q))'
    <3>1. q \in D
      BY <1>8, <1>12, <2>2
    <3>2. CASE q = p
      BY <1>1, <1>10, <1>11, <3>2 DEF l, r
    <3>3. CASE q # p
      <4>1. HasChildren(q) /\ Left(q) \in D /\ Right(q) \in D
        BY <1>6, <1>7, <2>2, <3>1, <3>3
      <4> QED
        BY <1>10, <3>1, <4>1 DEF Tree, Covering, D
    <3> QED
      BY <3>2, <3>3
  <2> QED
    BY <2>1, <2>2 DEF Covering
<1>15. Partition'
  <2>1. \A q \in DOMAIN nodes' : IsInjective(Inst(q)')
    <3>1. \A q \in D : IsInjective(Inst(q)')
      BY DEF Tree, Partition, Inst, D
    <3>2. IsInjective(Inst(l)') /\ IsInjective(Inst(r)')
      BY DEF GoodSplit, Inst, l, r
    <3> QED
      BY <1>12, <3>1, <3>2
  <2>2. ASSUME NEW i \in DOMAIN training PROVE \E q \in Leaves' : i \in InstancesOf(q)'
    <3>1. PICK q \in Leaves : i \in InstancesOf(q)
      BY DEF Tree, Partition
    <3>2. q \in D
      BY DEF Leaves, D
    <3>3. CASE q = p
      BY <1>9, <1>11, <3>1, <3>3
    <3>4. CASE q # p
      BY <1>9, <1>10, <3>1, <3>2, <3>4
    <3> QED
      BY <3>3, <3>4
  <2>3. ASSUME NEW u \in Leaves', NEW v \in Leaves', InstancesOf(u)' \cap InstancesOf(v)' # {}
        PROVE  u = v
    <3>1. PICK i : i \in InstancesOf(u)' /\ i \in InstancesOf(v)'
      BY <2>3
    <3>2. \A q \in Leaves \ {p} : i \in InstancesOf(q)' => i \in InstancesOf(q)
      BY <1>10 DEF Leaves, D
    <3>3. \A q \in Leaves : i \in InstancesOf(q) /\ i \in InstancesOf(p) => q = p
      BY DEF Tree, Partition
    <3>4. \A q \in Leaves \ {p} : i \in InstancesOf(q)' => i \notin InstancesOf(p)
      BY <3>2, <3>3
    <3>5. \A q \in {l, r} : i \in InstancesOf(q)' => i \in InstancesOf(p)
      BY <1>11
    <3>6. CASE u \in Leaves \ {p} /\ v \in Leaves \ {p}
      BY <3>1, <3>2, <3>6 DEF Tree, Partition
    <3>7. CASE u \in {l, r} /\ v \in {l, r}
      BY <1>11, <3>1, <3>7
    <3> QED
      BY <1>9, <3>1, <3>4, <3>5, <3>6, <3>7
  <2> QED
    BY <2>1, <2>2, <2>3 DEF Partition
<1>16. SplitsOrdered'
  <2>1. ASSUME NEW q \in DOMAIN nodes', HasChildren(q)'
        PROVE  Separates(nodes'[q].testCond, nodes'[q].thresholdIns,
                         InstancesOf(Left(q))', InstancesOf(Right(q))')
    <3>1. q \in D
      BY <1>8, <1>12, <2>1
    <3>2. CASE q = p
      BY <1>11, <3>2 DEF GoodSplit, l, r
    <3>3. CASE q # p
      <4>1. HasChildren(q) /\ Left(q) \in D /\ Right(q) \in D
        BY <1>6, <1>7, <2>1, <3>1, <3>3
      <4>2. Separates(nodes[q].testCond, nodes[q].thresholdIns, InstancesOf(Left(q)), InstancesOf(Right(q)))
        BY <3>1, <4>1 DEF Tree, SplitsOrdered, Separates, D
      <4>3. nodes'[q] = nodes[q]
        BY <3>1, <3>3 DEF D
      <4> QED
        BY <1>10, <4>1, <4>2, <4>3
    <3> QED
      BY <3>2, <3>3
  <2> QED
    BY <2>1 DEF SplitsOrdered, Separates
<1>17. DepthBounded'
  <2> SUFFICES ASSUME training # <<>>, NEW q \in DOMAIN nodes'
               PROVE  /\ Len(nodes'[q].instances) >= 1
                      /\ Len(q) + Len(nodes'[q].instances) <= Len(training)
    BY DEF DepthBounded
  <2>1. CASE q \in D
    BY <2>1 DEF Tree, DepthBounded, D
  <2>2. CASE q \in {l, r}
    <3>1. Len(p) + Len(Inst(p)) <= Len(training)
      BY <1>1 DEF Tree, DepthBounded, D, Inst
    <3>2. Len(p) \in Nat /\ Len(q) = Len(p) + 1
      BY <1>1, <2>2, PathFacts DEF l, r
    <3>3. Len(c.left) \in Nat /\ Len(c.right) \in Nat
      BY LenProperties DEF GoodSplit, Lists
    <3>4. Len(training) \in Nat
      BY LenProperties DEF Typed, TypeOK
    <3>5. Len(c.left) >= 1 /\ Len(c.right) >= 1 /\ Len(c.left) + Len(c.right) = Len(Inst(p))
      BY DEF GoodSplit
    <3>6. nodes'[q].instances = c.left \/ nodes'[q].instances = c.right
      BY <2>2 DEF l, r
    <3> DEFINE a == Len(c.left)
               b == Len(c.right)
               d == Len(p)
               n == Len(training)
    <3>7. a \in Nat /\ b \in Nat /\ d \in Nat /\ n \in Nat /\ a >= 1 /\ b >= 1 /\ d + (a + b) <= n
      BY <3>1, <3>2, <3>3, <3>4, <3>5
    <3> HIDE DEF a, b, d, n
    <3>8. (d + 1) + a <= n /\ (d + 1) + b <= n
      BY <3>7
    <3> USE DEF a, b, d, n
    <3>9. Len(q) + Len(c.left) <= Len(training) /\ Len(q) + Len(c.right) <= Len(training)
      BY <3>2, <3>8
    <3> QED
      BY <3>5, <3>6, <3>9
  <2> QED
    BY <1>12, <2>1, <2>2
<1> QED
  BY <1>3, <1>9, <1>13, <1>14, <1>15, <1>16, <1>17 DEF Tree, D, l, r

-----------------------------------------------------------------------------
(* The steps of buildDTree.                                                *)

(* The types, name by name.                                                *)
LEMMA TypedFacts ==
  ASSUME Typed
  PROVE  /\ training \in Seq(CandleStick) /\ featureIdx \in Seq(Features)
         /\ Len(featureIdx) \in Nat /\ fi \in Int
         /\ DOMAIN nodes \subseteq Paths /\ nodes \in [DOMAIN nodes -> Node]
         /\ \A p \in DOMAIN nodes : nodes[p] \in Node /\ Inst(p) \in Lists
         /\ stack \in Seq(DOMAIN nodes) /\ (pc = "training" <=> stack # <<>>)
         /\ stack # <<>> => Head(stack) = stack[1] /\ Head(stack) \in DOMAIN nodes
<1>1. Len(featureIdx) \in Nat
  BY LenProperties DEF Typed, TypeOK
<1>2. stack # <<>> => Head(stack) = stack[1] /\ Head(stack) \in DOMAIN nodes
  BY ReturnedStack DEF Typed, TypeOK
<1>3. \A p \in DOMAIN nodes : nodes[p] \in Node /\ Inst(p) \in Lists
  BY DEF Typed, TypeOK, Node, Inst, Lists
<1>4. fi \in Int
  BY <1>1 DEF Typed, TypeOK
<1> QED
  BY <1>1, <1>2, <1>3, <1>4 DEF Typed, TypeOK, Paths

(* The current call is about a leaf.                                       *)
LEMMA CurrentCall ==
  ASSUME Typed, Pending, pc = "training"
  PROVE  stack # <<>> /\ Head(stack) \in Leaves /\ Head(stack) \in DOMAIN nodes
<1>1. stack # <<>> /\ stack \in Seq(DOMAIN nodes)
  BY TypedFacts
<1>2. Head(stack) = stack[1] /\ Len(stack) \in Nat /\ Len(stack) >= 1 /\ Head(stack) \in DOMAIN nodes
  BY <1>1, ReturnedStack
<1>3. 1 \in DOMAIN stack
  BY <1>1, <1>2, LenProperties
<1> QED
  BY <1>1, <1>2, <1>3 DEF Pending

(* A call returns: the others stay pending.                                *)
LEMMA ReturnStep ==
  ASSUME Typed, Pending, pc = "training", Return,
         DOMAIN nodes' = DOMAIN nodes, Leaves' = Leaves
  PROVE  /\ stack' \in Seq(DOMAIN nodes') /\ Pending'
         /\ pc' = "training" <=> stack' # <<>>
         /\ pc' \in {"training", "trained"} /\ fi' = 0
<1> DEFINE n == Len(stack)
           rest == Tail(stack)
<1>1. stack \in Seq(DOMAIN nodes) /\ stack # <<>>
  BY TypedFacts
<1>2. /\ n \in Nat /\ n >= 1 /\ rest \in Seq(DOMAIN nodes) /\ DOMAIN rest = 1..(n - 1)
      /\ \A k \in 1..(n - 1) : rest[k] = stack[k + 1]
      /\ rest = <<>> <=> n = 1
  BY <1>1, ReturnedStack
<1>3. DOMAIN stack = 1..n
  BY <1>1, LenProperties
<1>4. stack' = rest /\ fi' = 0 /\ pc' = IF n = 1 THEN "trained" ELSE pc
  BY DEF Return
<1> HIDE DEF n, rest
<1>5. \A k \in 1..(n - 1) : k + 1 \in DOMAIN stack
  BY <1>2, <1>3
<1>6. \A k \in DOMAIN stack' : stack'[k] \in Leaves'
  BY <1>2, <1>4, <1>5 DEF Pending
<1>7. IsInjective(stack')
  <2> SUFFICES ASSUME NEW i \in 1..(n - 1), NEW j \in 1..(n - 1), rest[i] = rest[j] PROVE i = j
    BY <1>2, <1>4 DEF IsInjective
  <2>1. i + 1 = j + 1
    BY <1>2, <1>5 DEF Pending, IsInjective
  <2> QED
    BY <1>2, <2>1
<1> QED
  BY <1>2, <1>4, <1>6, <1>7 DEF Pending

LEMMA CallOnLeafStep == IInv /\ CallOnLeaf => IInv'
<1> SUFFICES ASSUME IInv, CallOnLeaf PROVE IInv'
  OBVIOUS
<1> DEFINE h == Head(stack)
<1>1. Typed /\ Tree /\ Pending /\ Search /\ Walk
  BY DEF IInv
<1>2. pc = "training" /\ fi = 0 /\ Return /\ nodes' = [nodes EXCEPT ![h].pure = TRUE]
      /\ UNCHANGED <<training, featureIdx, sorted, best, matchVars>>
  BY DEF CallOnLeaf
<1>3. h \in DOMAIN nodes
  BY <1>1, <1>2, CurrentCall
<1> HIDE DEF h
<1>4. DOMAIN nodes' = DOMAIN nodes /\ \A p \in DOMAIN nodes :
        /\ nodes'[p].instances = nodes[p].instances /\ nodes'[p].testCond = nodes[p].testCond
        /\ nodes'[p].thresholdIns = nodes[p].thresholdIns
  <2>1. nodes \in [DOMAIN nodes -> Node]
    BY <1>1, TypedFacts
  <2> QED
    BY <1>2, <1>3, <2>1 DEF Node
<1>5. Tree' /\ Leaves' = Leaves
  BY <1>1, <1>2, <1>4, SameTree
<1>6. /\ stack' \in Seq(DOMAIN nodes') /\ Pending'
      /\ pc' = "training" <=> stack' # <<>>
      /\ pc' \in {"training", "trained"} /\ fi' = 0
  BY <1>1, <1>2, <1>4, <1>5, ReturnStep
<1>7. Typed'
  <2>1. Node' = Node
    BY <1>2 DEF Node
  <2>2. nodes' \in [DOMAIN nodes' -> Node']
    BY <1>1, <1>2, <1>3, <2>1, TypedFacts DEF Node
  <2>3. 0 \in 0..(Len(featureIdx) + 1)
    BY <1>1, TypedFacts
  <2> QED
    BY <1>1, <1>2, <1>4, <1>6, <2>2, <2>3 DEF Typed, TypeOK, matchVars
<1>8. ~sorted /\ Search'
  <2>1. ~sorted
    BY <1>1, <1>2, TypedFacts DEF Search
  <2> QED
    BY <1>2, <1>6, <2>1 DEF Search
<1>9. Walk' /\ MisroutedOnlyByTies'
  BY <1>1, <1>2, <1>6 DEF Walk, MisroutedOnlyByTies, matchVars
<1> QED
  BY <1>5, <1>6, <1>7, <1>8, <1>9 DEF IInv

LEMMA CallOnNodeStep == IInv /\ CallOnNode => IInv'
<1> SUFFICES ASSUME IInv, CallOnNode PROVE IInv'
  OBVIOUS
<1> DEFINE h == Head(stack)
<1>1. Typed /\ Tree /\ Pending /\ Search /\ Walk
  BY DEF IInv
<1>2. pc = "training" /\ fi = 0 /\ nodes' = [nodes EXCEPT ![h].pure = FALSE] /\ fi' = 1
      /\ best' = NoSplit(nodes[h].instances)
      /\ UNCHANGED <<training, featureIdx, stack, sorted, pc, matchVars>>
  BY DEF CallOnNode
<1>3. h \in DOMAIN nodes /\ stack # <<>>
  BY <1>1, <1>2, CurrentCall
<1> HIDE DEF h
<1>4. DOMAIN nodes' = DOMAIN nodes /\ \A p \in DOMAIN nodes :
        /\ nodes'[p].instances = nodes[p].instances /\ nodes'[p].testCond = nodes[p].testCond
        /\ nodes'[p].thresholdIns = nodes[p].thresholdIns
  <2>1. nodes \in [DOMAIN nodes -> Node]
    BY <1>1, TypedFacts
  <2> QED
    BY <1>2, <1>3, <2>1 DEF Node
<1>5. Tree' /\ Leaves' = Leaves
  BY <1>1, <1>2, <1>4, SameTree
<1>6. best'.attr = -1 /\ best' \in [attr : Features \cup {-1}, thresholdInstance : DOMAIN training \cup {0},
                                    left : Seq(DOMAIN training), right : Seq(DOMAIN training)]
  <2>1. nodes[h].instances \in Seq(DOMAIN training) /\ <<>> \in Seq(DOMAIN training)
    BY <1>1, <1>3, TypedFacts DEF Lists, Inst
  <2> QED
    BY <1>2, <2>1 DEF NoSplit
<1>7. Typed'
  <2>1. Node' = Node
    BY <1>2 DEF Node
  <2>2. nodes' \in [DOMAIN nodes' -> Node']
    BY <1>1, <1>2, <1>3, <2>1, TypedFacts DEF Node
  <2>3. 1 \in 0..(Len(featureIdx) + 1)
    BY <1>1, TypedFacts
  <2> QED
    BY <1>1, <1>2, <1>4, <1>6, <2>2, <2>3 DEF Typed, TypeOK, matchVars
<1>8. Search'
  <2>1. ~sorted
    BY <1>1, <1>2, TypedFacts DEF Search
  <2> QED
    BY <1>2, <1>3, <1>6, <2>1 DEF Search
<1>9. Pending' /\ Walk' /\ MisroutedOnlyByTies'
  BY <1>1, <1>2, <1>5 DEF Pending, Walk, MisroutedOnlyByTies, matchVars
<1> QED
  BY <1>5, <1>7, <1>8, <1>9 DEF IInv

(* A split of a list is one of the same list in another order.             *)
LEMMA SplitKept ==
  ASSUME training' = training, NEW s, GoodSplit(best', s),
         Range(Inst(Head(stack))') = Range(s), Len(Inst(Head(stack))') = Len(s)
  PROVE  GoodSplit(best, Inst(Head(stack)))'
BY DEF GoodSplit, Separates, Lists

LEMMA SortStep == IInv /\ SortByFeature => IInv'
<1> SUFFICES ASSUME IInv, SortByFeature PROVE IInv'
  OBVIOUS
<1> DEFINE h == Head(stack)
           f == featureIdx[fi]
<1>1. Typed /\ Tree /\ Pending /\ Search /\ Walk
  BY DEF IInv
<1>2. /\ pc = "training" /\ fi \in 1..Len(featureIdx)
      /\ nodes' = [nodes EXCEPT ![h].instances = StableSort(@, f)]
      /\ sorted' = TRUE
      /\ UNCHANGED <<training, featureIdx, stack, fi, best, pc, matchVars>>
  BY DEF SortByFeature
<1>3. h \in DOMAIN nodes /\ stack # <<>> /\ training \in Seq(CandleStick) /\ Inst(h) \in Lists
  BY <1>1, <1>2, CurrentCall, TypedFacts
<1>4. f \in Features
  BY <1>1, <1>2, TypedFacts, ElementOfSeq
<1> HIDE DEF h, f
<1> DEFINE s == Inst(h)
           t == StableSort(s, f)
<1>5. /\ t \in Lists /\ Len(t) = Len(s) /\ Range(t) = Range(s)
      /\ IsInjective(s) => IsInjective(t)
      /\ SortedBy(t, f)
  BY <1>3, <1>4, SortProperties
<1>6. nodes' = [nodes EXCEPT ![h].instances = t]
  BY <1>2 DEF Inst
<1> HIDE DEF s, t
<1>7. /\ DOMAIN nodes' = DOMAIN nodes
      /\ \A p \in DOMAIN nodes : /\ nodes'[p].testCond = nodes[p].testCond
                                 /\ nodes'[p].thresholdIns = nodes[p].thresholdIns
                                 /\ nodes'[p].instances = IF p = h THEN t ELSE nodes[p].instances
  <2>1. nodes \in [DOMAIN nodes -> Node]
    BY <1>1, TypedFacts
  <2> QED
    BY <1>3, <1>6, <2>1 DEF Node
<1>8. nodes[h].instances = s
  BY DEF s, Inst
<1>9. Tree' /\ Leaves' = Leaves
  BY <1>1, <1>2, <1>5, <1>7, <1>8, SameTree
<1>10. Typed'
  <2>1. Node' = Node
    BY <1>2 DEF Node
  <2>2. nodes' \in [DOMAIN nodes' -> Node']
    BY <1>1, <1>3, <1>5, <1>6, <2>1, TypedFacts DEF Node, Lists
  <2> QED
    BY <1>1, <1>2, <1>7, <2>2 DEF Typed, TypeOK, matchVars
<1>11. Search'
  <2>1. nodes'[Head(stack')].instances = t /\ Head(stack') = h
    BY <1>2, <1>3, <1>7 DEF h
  <2>2. best.attr = -1 \/ GoodSplit(best, s)
    BY <1>1, <1>2, <1>3 DEF Search, s, h
  <2>3. Inst(Head(stack))' = t
    BY <2>1 DEF Inst
  <2>4. (best.attr = -1 \/ GoodSplit(best, Inst(Head(stack))))'
    <3>1. best' = best
      BY <1>2
    <3>2. GoodSplit(best, s) => GoodSplit(best, Inst(Head(stack)))'
      BY <1>2, <1>5, <2>3, <3>1, SplitKept
    <3> QED
      BY <2>2, <3>1, <3>2
  <2>5. SortedBy(Inst(Head(stack)), featureIdx[fi])'
    BY <1>2, <1>5, <2>1 DEF SortedBy, Inst, f
  <2> QED
    BY <1>2, <1>3, <2>4, <2>5 DEF Search
<1>12. Pending' /\ Walk' /\ MisroutedOnlyByTies'
  BY <1>1, <1>2, <1>9 DEF Pending, Walk, MisroutedOnlyByTies, matchVars
<1> QED
  BY <1>9, <1>10, <1>11, <1>12 DEF IInv

LEMMA TryStep == IInv /\ TryThresholds => IInv'
<1> SUFFICES ASSUME IInv, TryThresholds PROVE IInv'
  OBVIOUS
<1> DEFINE h == Head(stack)
           f == featureIdx[fi]
           s == Inst(h)
<1>1. Typed /\ Tree /\ Pending /\ Search /\ Walk
  BY DEF IInv
<1>2. /\ pc = "training" /\ fi \in 1..Len(featureIdx) /\ sorted
      /\ best' \in BestAfter(s, f) /\ fi' = fi + 1 /\ sorted' = FALSE
      /\ UNCHANGED <<training, featureIdx, nodes, stack, pc, matchVars>>
  BY DEF TryThresholds, Inst
<1>3. h \in DOMAIN nodes /\ stack # <<>> /\ training \in Seq(CandleStick) /\ s \in Lists
      /\ Len(featureIdx) \in Nat
  BY <1>1, <1>2, CurrentCall, TypedFacts
<1>4. f \in Features
  BY <1>1, <1>2, TypedFacts, ElementOfSeq
<1>5. IsInjective(s) /\ SortedBy(s, f) /\ fi # 0 /\ (best.attr = -1 \/ GoodSplit(best, s))
  BY <1>1, <1>2, <1>3 DEF Tree, Partition, Search
<1> HIDE DEF h, f, s
<1> DEFINE Splits == [attr : Features \cup {-1}, thresholdInstance : DOMAIN training \cup {0},
                      left : Seq(DOMAIN training), right : Seq(DOMAIN training)]
<1>6. best' \in Splits /\ (best'.attr = -1 \/ GoodSplit(best', s))
  <2>1. CASE best' = best
    <3>1. best \in Splits
      BY <1>1 DEF Typed, TypeOK
    <3> QED
      BY <1>5, <2>1, <3>1
  <2>2. CASE \E k \in 1..(Len(s) - 1) : best' = Split(s, f, k)
    <3>1. PICK k \in 1..(Len(s) - 1) : best' = Split(s, f, k)
      BY <2>2
    <3> DEFINE c == Split(s, f, k)
    <3>2. GoodSplit(c, s)
      BY <1>3, <1>4, <1>5, SplitProperties
    <3>3. c = [attr |-> f, thresholdInstance |-> c.thresholdInstance,
               left |-> c.left, right |-> c.right]
      BY DEF Split
    <3> HIDE DEF c
    <3>4. c.thresholdInstance \in DOMAIN training
      <4>1. c.thresholdInstance \in Range(c.right) /\ c.right \in Lists
        BY <3>2 DEF GoodSplit, Separates
      <4> QED
        BY <1>3, <4>1, ListType
    <3>5. c.left \in Seq(DOMAIN training) /\ c.right \in Seq(DOMAIN training)
      BY <3>2 DEF GoodSplit, Lists
    <3>6. c \in Splits
      BY <1>4, <3>3, <3>4, <3>5
    <3> QED
      BY <3>1, <3>2, <3>6 DEF c
  <2> QED
    BY <1>2, <2>1, <2>2, BestIsSplit
<1> HIDE DEF Splits
<1>7. Typed'
  <2>1. Node' = Node
    BY <1>2 DEF Node
  <2>2. fi + 1 \in 0..(Len(featureIdx) + 1)
    BY <1>2, <1>3
  <2>3. best' \in Splits
    BY <1>6
  <2> QED
    BY <1>1, <1>2, <2>1, <2>2, <2>3 DEF Typed, TypeOK, matchVars, Splits
<1>8. Tree' /\ Leaves' = Leaves
  BY <1>1, <1>2, SameTree
<1>9. Search'
  <2>1. Inst(Head(stack))' = s
    BY <1>2 DEF Inst, s, h
  <2>2. (best.attr = -1 \/ GoodSplit(best, Inst(Head(stack))))'
    BY <1>2, <1>6, <2>1, SplitKept
  <2> QED
    BY <1>2, <1>3, <2>2 DEF Search
<1>10. Pending' /\ Walk' /\ MisroutedOnlyByTies'
  BY <1>1, <1>2, <1>8 DEF Pending, Walk, MisroutedOnlyByTies, matchVars
<1> QED
  BY <1>7, <1>8, <1>9, <1>10 DEF IInv

LEMMA NoBestSplitStep == IInv /\ NoBestSplit => IInv'
<1> SUFFICES ASSUME IInv, NoBestSplit PROVE IInv'
  OBVIOUS
<1>1. Typed /\ Tree /\ Pending /\ Search /\ Walk
  BY DEF IInv
<1>2. pc = "training" /\ fi = Len(featureIdx) + 1 /\ Return
      /\ UNCHANGED <<training, featureIdx, nodes, sorted, best, matchVars>>
  BY DEF NoBestSplit
<1>3. Tree' /\ Leaves' = Leaves
  BY <1>1, <1>2, SameTree
<1>4. /\ stack' \in Seq(DOMAIN nodes') /\ Pending'
      /\ pc' = "training" <=> stack' # <<>>
      /\ pc' \in {"training", "trained"} /\ fi' = 0
  BY <1>1, <1>2, <1>3, ReturnStep
<1>5. Len(featureIdx) \in Nat
  BY <1>1, TypedFacts
<1>6. Typed'
  <2>1. Node' = Node
    BY <1>2 DEF Node
  <2>2. 0 \in 0..(Len(featureIdx) + 1)
    BY <1>5
  <2> QED
    BY <1>1, <1>2, <1>4, <2>1, <2>2 DEF Typed, TypeOK, matchVars
<1>7. Search'
  <2>1. ~sorted
    BY <1>1, <1>2, <1>5 DEF Search
  <2> QED
    BY <1>2, <1>4, <2>1 DEF Search
<1>8. Walk' /\ MisroutedOnlyByTies'
  BY <1>1, <1>2, <1>4 DEF Walk, MisroutedOnlyByTies, matchVars
<1> QED
  BY <1>3, <1>4, <1>6, <1>7, <1>8 DEF IInv

LEMMA GrowStep == IInv /\ Grow => IInv'
<1> SUFFICES ASSUME IInv, Grow PROVE IInv'
  OBVIOUS
<1> DEFINE p == Head(stack)
           l == Left(p)
           r == Right(p)
           D == DOMAIN nodes
<1>1. Typed /\ Tree /\ Pending /\ Search /\ Walk
  BY DEF IInv
<1>2. /\ pc = "training" /\ fi = Len(featureIdx) + 1 /\ best.attr # -1
      /\ nodes' = [q \in D \cup {l, r} |->
                     CASE q = p -> [nodes[p] EXCEPT
                                      !.testCond = best.attr,
                                      !.thresholdIns = best.thresholdInstance]
                       [] q = l -> DTNode(best.left)
                       [] q = r -> DTNode(best.right)
                       [] OTHER -> nodes[q]]
      /\ stack' = <<l, r>> \o Tail(stack)
      /\ fi' = 0
      /\ UNCHANGED <<training, featureIdx, sorted, best, pc, matchVars>>
  BY DEF Grow
<1>3. p \in Leaves /\ p \in D /\ stack # <<>> /\ D \subseteq Paths /\ nodes \in [D -> Node]
      /\ stack \in Seq(D) /\ Len(featureIdx) \in Nat /\ p = stack[1]
  BY <1>1, <1>2, CurrentCall, TypedFacts
<1>4. GoodSplit(best, Inst(p))
  <2>1. fi # 0
    BY <1>2, <1>3
  <2> QED
    BY <1>1, <1>2, <2>1 DEF Search
<1>5. l # r /\ l # p /\ r # p /\ l \in Paths /\ r \in Paths
  BY <1>3, PathFacts
<1>6. l \notin D /\ r \notin D
  BY <1>1, <1>3, ChildrenInTree DEF Tree, Leaves
<1> HIDE DEF p, l, r, D
<1>7. /\ DOMAIN nodes' = D \cup {l, r}
      /\ nodes'[p] = [nodes[p] EXCEPT !.testCond = best.attr, !.thresholdIns = best.thresholdInstance]
      /\ nodes'[l] = DTNode(best.left) /\ nodes'[r] = DTNode(best.right)
      /\ \A q \in D \ {p} : nodes'[q] = nodes[q]
  BY <1>2, <1>3, <1>5, <1>6
<1>8. nodes[p] \in Node
  BY <1>3
<1>9. /\ nodes'[p].testCond = best.attr /\ nodes'[p].thresholdIns = best.thresholdInstance
      /\ nodes'[p].instances = nodes[p].instances
      /\ nodes'[l].instances = best.left /\ nodes'[r].instances = best.right
  BY <1>7, <1>8 DEF Node, DTNode
<1>10. \A q \in D : nodes'[q].instances = nodes[q].instances
  BY <1>7, <1>9
<1>11. Tree' /\ Leaves' = (Leaves \ {p}) \cup {l, r}
  <2> USE DEF D, l, r
  <2>1. /\ DOMAIN nodes' = DOMAIN nodes \cup {Left(p), Right(p)}
        /\ \A q \in DOMAIN nodes : nodes'[q].instances = nodes[q].instances
        /\ \A q \in DOMAIN nodes \ {p} : nodes'[q] = nodes[q]
        /\ nodes'[Left(p)].instances = best.left /\ nodes'[Right(p)].instances = best.right
    BY <1>7, <1>9, <1>10
  <2> QED
    BY <1>1, <1>2, <1>3, <1>4, <1>9, <2>1, GrownTree
<1>12. /\ stack' \in Seq(DOMAIN nodes') /\ stack' # <<>> /\ DOMAIN stack' = 1..(Len(stack) + 1)
       /\ stack'[1] = l /\ stack'[2] = r
       /\ \A k \in 3..(Len(stack) + 1) : stack'[k] = stack[k - 1]
  <2>1. stack \in Seq(DOMAIN nodes') /\ l \in DOMAIN nodes' /\ r \in DOMAIN nodes'
    BY <1>3, <1>7, LenProperties
  <2> QED
    BY <1>2, <1>3, <2>1, GrownStack
<1>13. Len(stack) \in Nat /\ DOMAIN stack = 1..Len(stack)
  BY <1>3, LenProperties
<1>14. Len(stack) >= 1
  BY <1>3, ReturnedStack
<1>15. ASSUME NEW k \in 3..(Len(stack) + 1)
       PROVE  k - 1 \in DOMAIN stack /\ stack'[k] = stack[k - 1] /\ stack'[k] \in Leaves \ {p}
              /\ stack'[k] \in D
  <2>1. k - 1 \in DOMAIN stack /\ 1 \in DOMAIN stack /\ k - 1 # 1
    BY <1>13, <1>14
  <2>2. stack[k - 1] \in Leaves /\ stack[k - 1] # stack[1]
    BY <1>1, <2>1 DEF Pending, IsInjective
  <2>3. stack'[k] = stack[k - 1]
    BY <1>12
  <2> QED
    BY <1>3, <2>1, <2>2, <2>3 DEF Leaves, D
<1>16. Pending'
  <2>1. \A k \in DOMAIN stack' : k = 1 \/ k = 2 \/ k \in 3..(Len(stack) + 1)
    BY <1>12, <1>13
  <2>2. \A k \in DOMAIN stack' : stack'[k] \in Leaves'
    BY <1>11, <1>12, <1>15, <2>1
  <2>3. ASSUME NEW i \in DOMAIN stack', NEW j \in DOMAIN stack', stack'[i] = stack'[j] PROVE i = j
    <3>1. CASE i \in 3..(Len(stack) + 1) /\ j \in 3..(Len(stack) + 1)
      <4>1. i - 1 = j - 1
        BY <1>1, <1>15, <2>3, <3>1 DEF Pending, IsInjective
      <4> QED
        BY <1>13, <3>1, <4>1
    <3>2. CASE i \in {1, 2} /\ j \in {1, 2}
      BY <1>5, <1>12, <2>3, <3>2
    <3>3. CASE i \in {1, 2} /\ j \in 3..(Len(stack) + 1)
      BY <1>6, <1>12, <1>15, <2>3, <3>3
    <3>4. CASE j \in {1, 2} /\ i \in 3..(Len(stack) + 1)
      BY <1>6, <1>12, <1>15, <2>3, <3>4
    <3> QED
      BY <2>1, <3>1, <3>2, <3>3, <3>4
  <2> QED
    BY <2>2, <2>3 DEF Pending, IsInjective
<1>17. Typed'
  <2>1. Node' = Node
    BY <1>2 DEF Node
  <2>2. best.attr \in Features /\ best.thresholdInstance \in DOMAIN training \cup {0}
        /\ best.left \in Seq(DOMAIN training) /\ best.right \in Seq(DOMAIN training)
    BY <1>1, <1>2 DEF Typed, TypeOK
  <2>3. DTNode(best.left) \in Node /\ DTNode(best.right) \in Node
    BY <2>2 DEF DTNode, Node, Features
  <2>4. nodes'[p] \in Node
    BY <1>7, <1>8, <2>2 DEF Node
  <2>5. \A q \in D \cup {l, r} : nodes'[q] \in Node
    BY <1>3, <1>7, <2>3, <2>4
  <2>6. nodes' \in [DOMAIN nodes' -> Node']
    <3> DEFINE g(q) == CASE q = p -> [nodes[p] EXCEPT !.testCond = best.attr,
                                                     !.thresholdIns = best.thresholdInstance]
                         [] q = l -> DTNode(best.left)
                         [] q = r -> DTNode(best.right)
                         [] OTHER -> nodes[q]
    <3>1. nodes' = [q \in D \cup {l, r} |-> g(q)]
      BY <1>2
    <3> HIDE DEF g
    <3> QED
      BY <2>1, <2>5, <3>1
  <2>7. DOMAIN nodes' \subseteq Seq({0, 1})
    BY <1>3, <1>5, <1>7 DEF Paths
  <2>8. cursor \in DOMAIN nodes'
    BY <1>1, <1>7 DEF Typed, TypeOK, D
  <2>9. 0 \in 0..(Len(featureIdx) + 1)
    BY <1>3
  <2> QED
    BY <1>1, <1>2, <1>7, <1>12, <2>1, <2>5, <2>6, <2>7, <2>8, <2>9 DEF Typed, TypeOK, matchVars
<1>18. Search'
  <2>1. ~sorted
    BY <1>1, <1>2, <1>3 DEF Search
  <2> QED
    BY <1>2, <2>1 DEF Search
<1>19. Walk' /\ MisroutedOnlyByTies'
  BY <1>1, <1>2 DEF Walk, MisroutedOnlyByTies, matchVars
<1> QED
  BY <1>11, <1>16, <1>17, <1>18, <1>19 DEF IInv

-----------------------------------------------------------------------------
(* The steps of findMatch.                                                 *)

(* They leave the tree alone.                                              *)
LEMMA FixedTree ==
  ASSUME IInv, UNCHANGED <<training, featureIdx, treeVars>>
  PROVE  /\ Tree' /\ Pending' /\ Search'
         /\ \A p : (InstancesOf(p)' = InstancesOf(p)) /\ (HasChildren(p)' <=> HasChildren(p))
<1>1. Typed /\ Tree /\ Pending /\ Search /\ UNCHANGED <<nodes, stack, fi, sorted, best>>
  BY DEF IInv, treeVars
<1>2. Tree' /\ Leaves' = Leaves
  BY <1>1, SameTree
<1>3. Pending'
  BY <1>1, <1>2 DEF Pending
<1>4. Search'
  <2>1. Inst(Head(stack))' = Inst(Head(stack))
    BY <1>1 DEF Inst
  <2>2. (best.attr = -1 \/ GoodSplit(best, Inst(Head(stack))))'
        <=> (best.attr = -1 \/ GoodSplit(best, Inst(Head(stack))))
    BY <1>1, <2>1 DEF GoodSplit, Separates, Lists
  <2>3. SortedBy(Inst(Head(stack)), featureIdx[fi])' <=> SortedBy(Inst(Head(stack)), featureIdx[fi])
    BY <1>1, <2>1 DEF SortedBy
  <2> QED
    BY <1>1, <2>2, <2>3 DEF Search
<1> QED
  BY <1>1, <1>2, <1>3, <1>4 DEF InstancesOf, HasChildren

LEMMA ClassifyStep == ASSUME NEW cs \in TestInstances PROVE IInv /\ classify(cs) => IInv'
<1> SUFFICES ASSUME IInv, classify(cs) PROVE IInv'
  OBVIOUS
<1>1. /\ Typed /\ Tree /\ Walk /\ pc = "trained" /\ query' = cs /\ pc' = "matching"
      /\ UNCHANGED <<training, featureIdx, treeVars, cursor, predicted>>
  BY DEF IInv, classify
<1>2. UNCHANGED <<nodes, stack, fi, sorted, best>>
  BY <1>1 DEF treeVars
<1>3. cs \in CandleStick
  BY DecisionTreeAssumption
<1>4. Typed'
  <2>1. Node' = Node
    BY <1>1 DEF Node
  <2> QED
    BY <1>1, <1>2, <1>3, <2>1 DEF Typed, TypeOK
<1>5. Tree' /\ Pending' /\ Search' /\ InstancesOf(root)' = InstancesOf(root)
  BY <1>1, FixedTree
<1>6. cursor' = root /\ InstancesOf(root) = DOMAIN training
  BY <1>1 DEF Walk, Tree, Covering
<1>7. \A i \in DOMAIN training' : i \in InstancesOf(cursor)'
  BY <1>1, <1>2, <1>6 DEF InstancesOf
<1> QED
  BY <1>1, <1>4, <1>5, <1>7 DEF IInv, Walk, MisroutedOnlyByTies

LEMMA DescendStep == IInv /\ Descend => IInv'
<1> SUFFICES ASSUME IInv, Descend PROVE IInv'
  OBVIOUS
<1> DEFINE l == Left(cursor)
           r == Right(cursor)
<1>1. /\ Typed /\ Tree /\ MisroutedOnlyByTies /\ pc = "matching" /\ HasChildren(cursor)
      /\ cursor' = IF inLeftBranch(cursor, query) THEN l ELSE r
      /\ UNCHANGED <<training, featureIdx, treeVars, pc, query, predicted>>
  BY DEF IInv, Descend, AtLeaf
<1>2. UNCHANGED <<nodes, stack, fi, sorted, best>>
  BY <1>1 DEF treeVars
<1>3. cursor \in DOMAIN nodes /\ cursor \in Paths /\ query \in CandleStick
      /\ training \in Seq(CandleStick)
  BY <1>1 DEF Typed, TypeOK, Paths
<1>4. l \in DOMAIN nodes /\ r \in DOMAIN nodes /\ InstancesOf(cursor) = InstancesOf(l) \cup InstancesOf(r)
  BY <1>1, <1>3, ChildrenInTree DEF Tree, Covering
<1>5. Typed'
  <2>1. Node' = Node
    BY <1>1 DEF Node
  <2> QED
    BY <1>1, <1>2, <1>4, <2>1 DEF Typed, TypeOK
<1>6. Tree' /\ Pending' /\ Search' /\ \A p : InstancesOf(p)' = InstancesOf(p)
  BY <1>1, FixedTree
<1>7. Ancestors(cursor) \cup {cursor} \subseteq Ancestors(cursor')
  <2>1. Ancestors(cursor) \cup {cursor} \subseteq Ancestors(l)
    BY <1>3, AncestorsOfChild DEF Left
  <2>2. Ancestors(cursor) \cup {cursor} \subseteq Ancestors(r)
    BY <1>3, AncestorsOfChild DEF Right
  <2> QED
    BY <1>1, <2>1, <2>2
<1>8. ASSUME NEW i \in DOMAIN training, SameFeatures(query, i), i \notin InstancesOf(cursor')
      PROVE  \E p \in Ancestors(cursor') :
               /\ i \in InstancesOf(Left(p))
               /\ Feature(query, nodes[p].testCond) =
                    Feature(training[nodes[p].thresholdIns], nodes[p].testCond)
  <2>1. CASE i \notin InstancesOf(cursor)
    <3>1. PICK p \in Ancestors(cursor) :
               /\ i \in InstancesOf(Left(p))
               /\ Feature(query, nodes[p].testCond) =
                    Feature(training[nodes[p].thresholdIns], nodes[p].testCond)
      BY <1>1, <1>8, <2>1 DEF MisroutedOnlyByTies
    <3> QED
      BY <1>7, <3>1
  <2>2. CASE i \in InstancesOf(cursor)
    <3> DEFINE f == nodes[cursor].testCond
               t == nodes[cursor].thresholdIns
    <3>1. f \in Features
      BY <1>1, <1>3, TypedFacts DEF Node
    <3>2. Separates(f, t, InstancesOf(l), InstancesOf(r))
      BY <1>1, <1>3 DEF Tree, SplitsOrdered, Separates
    <3>3. Feature(query, f) = Feature(training[i], f)
      BY <1>8, <3>1 DEF SameFeatures
    <3>4. Feature(training[t], f) \in Int
      <4>1. t \in DOMAIN training
        <5>1. Inst(r) \in Lists /\ t \in Range(Inst(r))
          BY <1>1, <1>4, <3>2, TypedFacts DEF Separates, InstancesOf, Inst
        <5> QED
          BY <1>3, <5>1, ListType
      <4>2. training[t] \in CandleStick
        BY <1>3, <4>1, LenProperties, ElementOfSeq
      <4> QED
        BY <3>1, <4>2, FeatureType
    <3>5. Feature(query, f) \in Int
      BY <1>3, <3>1, FeatureType
    <3>6. CASE inLeftBranch(cursor, query)
      <4>1. i \in InstancesOf(r) /\ Feature(query, f) < Feature(training[t], f)
        BY <1>1, <1>4, <1>8, <2>2, <3>6 DEF inLeftBranch
      <4>2. Feature(training[t], f) <= Feature(training[i], f)
        BY <3>2, <4>1 DEF Separates
      <4> HIDE DEF f, t
      <4> QED
        BY <3>3, <3>4, <3>5, <4>1, <4>2
    <3>7. CASE ~inLeftBranch(cursor, query)
      <4>1. i \in InstancesOf(l) /\ ~(Feature(query, f) < Feature(training[t], f))
        BY <1>1, <1>4, <1>8, <2>2, <3>7 DEF inLeftBranch
      <4>2. Feature(training[i], f) <= Feature(training[t], f)
        BY <3>2, <4>1 DEF Separates
      <4>3. Feature(query, f) = Feature(training[t], f)
        <5> HIDE DEF f, t
        <5> QED
          BY <3>3, <3>4, <3>5, <4>1, <4>2
      <4>4. cursor \in Ancestors(cursor')
        BY <1>7
      <4> QED
        BY <4>1, <4>3, <4>4
    <3> QED
      BY <3>6, <3>7
  <2> QED
    BY <2>1, <2>2
<1>9. MisroutedOnlyByTies'
  <2>1. \A i : SameFeatures(query, i)' <=> SameFeatures(query, i)
    BY <1>1 DEF SameFeatures
  <2>2. \A p : InstancesOf(p)' = InstancesOf(p)
    BY <1>6
  <2>3. InstancesOf(cursor)' = InstancesOf(cursor')
    BY <1>2 DEF InstancesOf
  <2> QED
    BY <1>1, <1>2, <1>8, <2>1, <2>2, <2>3 DEF MisroutedOnlyByTies
<1> QED
  BY <1>1, <1>5, <1>6, <1>9 DEF IInv, Walk

(* Answer, EmptyLeaf, NextInstance, a stopped program.                     *)
LEMMA OtherSteps == IInv /\ (Answer \/ EmptyLeaf \/ NextInstance \/ Died \/ UNCHANGED vars) => IInv'
<1> SUFFICES ASSUME IInv, Answer \/ EmptyLeaf \/ NextInstance \/ Died \/ UNCHANGED vars PROVE IInv'
  OBVIOUS
<1>1. UNCHANGED <<training, featureIdx, treeVars>>
  BY DEF Answer, EmptyLeaf, NextInstance, Died, vars
<1>2. UNCHANGED <<nodes, stack, fi, sorted, best>>
  BY <1>1 DEF treeVars
<1>3. Typed /\ Walk /\ MisroutedOnlyByTies /\ Shape
  BY DEF IInv, Tree
<1>4. Tree' /\ Pending' /\ Search'
  BY <1>1, FixedTree
<1>5. Node' = Node
  BY <1>1 DEF Node
<1>6. CASE Answer
  <2>1. pc = "matching" /\ pc' = "answered" /\ query' = query /\ cursor' = cursor
        /\ nodes[cursor].instances # <<>> /\ predicted' = training[nodes[cursor].instances[1]].label
    BY <1>6 DEF Answer
  <2>2. predicted' \in Labels
    <3>1. Inst(cursor) \in Lists /\ cursor \in DOMAIN nodes
      BY <1>3, TypedFacts DEF Typed, TypeOK
    <3>2. 1 \in DOMAIN Inst(cursor)
      <4>1. Len(Inst(cursor)) \in Nat \ {0}
        BY <2>1, <3>1, EmptySeq DEF Inst, Lists
      <4> QED
        BY <3>1, <4>1, LenProperties DEF Lists
    <3>3. training[Inst(cursor)[1]] \in CandleStick
      BY <1>3, <3>1, <3>2, ListType DEF Typed, TypeOK
    <3> QED
      BY <2>1, <3>3 DEF CandleStick, Inst
  <2>3. Typed'
    BY <1>1, <1>2, <1>3, <1>5, <2>1, <2>2 DEF Typed, TypeOK
  <2>4. MisroutedOnlyByTies'
    BY <1>1, <1>2, <1>3, <2>1 DEF MisroutedOnlyByTies, SameFeatures, InstancesOf
  <2> QED
    BY <1>4, <2>1, <2>3, <2>4 DEF IInv, Walk
<1>7. CASE EmptyLeaf
  BY <1>1, <1>2, <1>3, <1>4, <1>5, <1>7
     DEF IInv, Typed, TypeOK, Walk, MisroutedOnlyByTies, EmptyLeaf, matchVars
<1>8. CASE NextInstance
  <2>1. noQuery \in CandleStick /\ 0 \in Labels /\ root \in DOMAIN nodes
    BY <1>3 DEF noQuery, CandleStick, Labels, Shape
  <2> QED
    BY <1>1, <1>2, <1>3, <1>4, <1>5, <1>8, <2>1
       DEF IInv, Typed, TypeOK, Walk, MisroutedOnlyByTies, NextInstance
<1>9. CASE Died \/ UNCHANGED vars
  <2>1. UNCHANGED <<pc, query, cursor, predicted>>
    BY <1>9 DEF Died, vars, matchVars
  <2>2. Typed'
    BY <1>1, <1>2, <1>3, <1>5, <2>1 DEF Typed, TypeOK
  <2>3. MisroutedOnlyByTies'
    BY <1>1, <1>2, <1>3, <2>1 DEF MisroutedOnlyByTies, SameFeatures, InstancesOf
  <2> QED
    BY <1>3, <1>4, <2>1, <2>2, <2>3 DEF IInv, Walk
<1> QED
  BY <1>6, <1>7, <1>8, <1>9

-----------------------------------------------------------------------------
(* The theorems.                                                           *)

LEMMA InitHolds == Init => IInv
<1> SUFFICES ASSUME Init PROVE IInv
  OBVIOUS
<1> DEFINE all == [k \in DOMAIN training |-> k]
<1>1. training \in Seq(CandleStick) /\ featureIdx \in Seq(Features) /\ Len(featureIdx) \in Nat
  BY DecisionTreeAssumption, LenProperties DEF Init
<1>2. /\ DOMAIN nodes = {root} /\ nodes = [p \in {root} |-> DTNode(all)]
      /\ nodes[root] = DTNode(all)
  BY DEF Init
<1>3. Len(training) \in Nat /\ DOMAIN training = 1..Len(training)
  BY <1>1, LenProperties
<1>4. all \in Seq(DOMAIN training) /\ Len(all) = Len(training) /\ Range(all) = DOMAIN training
      /\ IsInjective(all)
  <2>1. all \in [1..Len(training) -> DOMAIN training]
    BY <1>3
  <2>2. all \in Seq(DOMAIN training) /\ Len(all) = Len(training)
    BY <1>3, <2>1
  <2>3. Range(all) = DOMAIN training
    BY DEF Range
  <2>4. IsInjective(all)
    BY DEF IsInjective
  <2> QED
    BY <2>2, <2>3, <2>4
<1> HIDE DEF all
<1>5. DTNode(all) \in Node /\ DTNode(all).instances = all
  BY <1>4 DEF DTNode, Node, Features
<1>6. root \in Paths /\ Len(root) = 0
  BY EmptySeq DEF root, Paths
<1>7. \A p \in Paths : Left(p) # root /\ Right(p) # root
  BY <1>6, PathFacts
<1>8. Leaves = {root} /\ ~HasChildren(root)
  BY <1>2, <1>6, <1>7 DEF Leaves, HasChildren
<1>9. stack = <<root>> /\ fi = 0 /\ sorted = FALSE /\ best = NoSplit(<<>>) /\ pc = "training"
      /\ query = noQuery /\ cursor = root /\ predicted = 0
  BY DEF Init
<1>10. Typed
  <2>1. stack \in Seq({root}) /\ stack # <<>>
    BY <1>9
  <2>2. 0 \in 0..(Len(featureIdx) + 1)
    BY <1>1
  <2>3. best \in [attr : Features \cup {-1}, thresholdInstance : DOMAIN training \cup {0},
                  left : Seq(DOMAIN training), right : Seq(DOMAIN training)]
    BY <1>9, EmptySeq DEF NoSplit
  <2>4. noQuery \in CandleStick /\ 0 \in Labels
    BY DEF noQuery, CandleStick, Labels
  <2>5. nodes \in [DOMAIN nodes -> Node] /\ \A p \in DOMAIN nodes : nodes[p] \in Node
    BY <1>2, <1>5
  <2>6. DOMAIN nodes \subseteq Seq({0, 1})
    BY <1>2, <1>6 DEF Paths
  <2> QED
    BY <1>1, <1>2, <1>9, <2>1, <2>2, <2>3, <2>4, <2>5, <2>6 DEF Typed, TypeOK
<1>11. Shape
  BY <1>2, <1>6, <1>7, <1>8 DEF Shape
<1>12. Covering
  BY <1>2, <1>4, <1>5, <1>8 DEF Covering, InstancesOf
<1>13. Partition
  BY <1>2, <1>4, <1>5, <1>8 DEF Partition, InstancesOf, Inst
<1>14. SplitsOrdered
  BY <1>2, <1>8 DEF SplitsOrdered
<1>15. DepthBounded
  <2>1. training # <<>> => Len(training) >= 1
    BY <1>1, <1>3, EmptySeq
  <2> QED
    BY <1>2, <1>3, <1>4, <1>5, <1>6, <2>1 DEF DepthBounded
<1>16. Pending
  BY <1>8, <1>9 DEF Pending, IsInjective
<1>17. Search /\ Walk /\ MisroutedOnlyByTies
  BY <1>9 DEF Search, Walk, MisroutedOnlyByTies
<1> QED
  BY <1>10, <1>11, <1>12, <1>13, <1>14, <1>15, <1>16, <1>17 DEF IInv, Tree

LEMMA NextHolds == IInv /\ [Next]_vars => IInv'
<1> SUFFICES ASSUME IInv, [Next]_vars PROVE IInv'
  OBVIOUS
<1> QED
  BY CallOnLeafStep, CallOnNodeStep, SortStep, TryStep, NoBestSplitStep, GrowStep,
     ClassifyStep, DescendStep, OtherSteps DEF Next

(* Partition says of the leaves what LeavesPartition counts.               *)
LEMMA InvariantImplies == IInv => TreeSound /\ MisroutedOnlyByTies
<1> SUFFICES ASSUME IInv PROVE TreeSound /\ MisroutedOnlyByTies
  OBVIOUS
<1>1. TypeOK /\ SplitsOrdered /\ DepthBounded /\ MisroutedOnlyByTies /\ Shape /\ Partition
  BY DEF IInv, Tree, Typed
<1>2. ASSUME NEW i \in DOMAIN training
      PROVE  Cardinality({p \in Leaves : i \in InstancesOf(p)}) = 1
  <2>1. PICK q \in Leaves : i \in InstancesOf(q)
    BY <1>1 DEF Partition
  <2>2. {p \in Leaves : i \in InstancesOf(p)} = {q}
    BY <1>1, <2>1 DEF Partition
  <2> QED
    BY <2>2, FS_Singleton
<1>3. LeavesPartition
  BY <1>1, <1>2 DEF LeavesPartition, Shape, Partition, Inst
<1> QED
  BY <1>1, <1>3 DEF TreeSound

LEMMA Invariant == Spec => []IInv
<1> QED
  BY InitHolds, NextHolds, PTL DEF Spec

(* At every moment of buildDTree, for any list of candlesticks: every      *)
(* instance is in exactly one leaf and there once, every test condition    *)
(* separates the two sides below it, and the tree is no deeper than the    *)
(* list is long.  (buildDTree)                                             *)
THEOREM TreeIsSound == Spec => []TreeSound
<1> QED
  BY Invariant, InvariantImplies, PTL

(* findMatch leads a training instance away from its own leaf only at a    *)
(* node where it ties with the threshold instance.  (findMatch,            *)
(* inLeftBranch)                                                           *)
THEOREM OnlyTiesMisroute == Spec => []MisroutedOnlyByTies
<1> QED
  BY Invariant, InvariantImplies, PTL
-----------------------------------------------------------------------------
(* Powers.                                                                 *)

(* A set of numbers that is not empty has a least one, and so a set that   *)
(* has 0 and the successors of its members has all.                        *)
LEMMA LeastOf ==
  ASSUME NEW S, S \subseteq Nat, S # {}
  PROVE  \E x \in S : \A y \in S : x <= y
<1>1. PICK x \in S : \A y \in S : <<y, x>> \notin OpToRel(<, Nat)
  BY NatLessThanWellFounded, WFMin
<1>2. \A y \in S : ~(y < x)
  BY <1>1 DEF OpToRel
<1> QED
  BY <1>2

LEMMA Induction ==
  ASSUME NEW S, 0 \in S, \A n \in Nat : n \in S => n + 1 \in S
  PROVE  \A n \in Nat : n \in S
<1> SUFFICES ASSUME NEW n \in Nat, n \notin S PROVE FALSE
  OBVIOUS
<1>1. PICK x \in Nat \ S : \A y \in Nat \ S : x <= y
  <2>1. Nat \ S \subseteq Nat /\ Nat \ S # {}
    OBVIOUS
  <2> QED
    BY <2>1, LeastOf
<1>2. x # 0 /\ x - 1 \in Nat /\ ~(x <= x - 1)
  BY <1>1
<1>3. x - 1 \in S
  BY <1>1, <1>2
<1>4. (x - 1) + 1 \in S
  BY <1>2, <1>3
<1> QED
  BY <1>1, <1>2, <1>4

(* The recursion that defines Exp has a solution.                          *)
LEMMA ExpExists ==
  ASSUME NEW b \in Nat
  PROVE  \E p : p = [i \in Nat |-> IF i = 0 THEN 1 ELSE b * p[i - 1]]
<1> DEFINE Upto(n, g) == g[0] = 1 /\ \A i \in 1..n : g[i] = b * g[i - 1]
           S == {n \in Nat : \E g \in [0..n -> Nat] : Upto(n, g)}
           at(n) == CHOOSE g \in [0..n -> Nat] : Upto(n, g)
           p == [n \in Nat |-> at(n)[n]]
<1>1. 0 \in S
  <2> DEFINE g == [i \in 0..0 |-> 1]
  <2>1. g \in [0..0 -> Nat] /\ g[0] = 1
    OBVIOUS
  <2>2. \A i \in 1..0 : g[i] = b * g[i - 1]
    OBVIOUS
  <2> QED
    BY <2>1, <2>2
<1>2. ASSUME NEW n \in Nat, n \in S PROVE n + 1 \in S
  <2>1. PICK g \in [0..n -> Nat] : Upto(n, g)
    BY <1>2
  <2> DEFINE h == [i \in 0..(n + 1) |-> IF i = n + 1 THEN b * g[n] ELSE g[i]]
  <2>2. g[n] \in Nat /\ b * g[n] \in Nat
    OBVIOUS
  <2>3. \A i \in 0..(n + 1) : i = n + 1 \/ i \in 0..n
    OBVIOUS
  <2>4. h \in [0..(n + 1) -> Nat]
    BY <2>2, <2>3
  <2>5. h[0] = 1 /\ h[n + 1] = b * g[n] /\ \A i \in 0..n : h[i] = g[i]
    BY <2>1
  <2>6. ASSUME NEW i \in 1..(n + 1) PROVE h[i] = b * h[i - 1]
    <3>1. CASE i = n + 1
      BY <2>5, <3>1
    <3>2. CASE i # n + 1
      <4>1. i \in 1..n /\ i - 1 \in 0..n /\ i \in 0..n
        BY <3>2
      <4> QED
        BY <2>1, <2>5, <4>1
    <3> QED
      BY <3>1, <3>2
  <2> HIDE DEF h
  <2>7. Upto(n + 1, h)
    BY <2>5, <2>6
  <2>8. n + 1 \in Nat
    OBVIOUS
  <2> QED
    BY <2>4, <2>7, <2>8
<1>3. \A n \in Nat : n \in S
  <2> HIDE DEF S
  <2> QED
    BY <1>1, <1>2, Induction
<1>4. \A n \in Nat : at(n) \in [0..n -> Nat] /\ Upto(n, at(n))
  BY <1>3
<1> HIDE DEF S, at
<1>5. ASSUME NEW n \in Nat PROVE at(n + 1)[n] = at(n)[n]
  <2> DEFINE g == at(n)
             h == at(n + 1)
             E == {i \in Nat : i <= n => g[i] = h[i]}
  <2>0. n + 1 \in Nat
    OBVIOUS
  <2>1. Upto(n, g) /\ Upto(n + 1, h)
    BY <1>4, <2>0
  <2> HIDE DEF g, h
  <2>2. 0 \in E
    BY <2>1
  <2>3. ASSUME NEW i \in Nat, i \in E PROVE i + 1 \in E
    <3> SUFFICES ASSUME i + 1 <= n PROVE g[i + 1] = h[i + 1]
      OBVIOUS
    <3>1. i + 1 \in 1..n /\ i + 1 \in 1..(n + 1) /\ (i + 1) - 1 = i /\ i <= n
      OBVIOUS
    <3>2. g[i + 1] = b * g[i] /\ h[i + 1] = b * h[i]
      BY <2>1, <3>1
    <3> QED
      BY <2>3, <3>1, <3>2
  <2>4. n \in E
    <3> HIDE DEF E
    <3> QED
      BY <2>2, <2>3, Induction
  <2> QED
    BY <2>4 DEF g, h
<1>6. \A n \in Nat : p[n] = at(n)[n]
  OBVIOUS
<1>7. ASSUME NEW n \in Nat PROVE p[n] = IF n = 0 THEN 1 ELSE b * p[n - 1]
  <2>1. CASE n = 0
    BY <1>4, <1>6, <2>1
  <2>2. CASE n # 0
    <3>1. n - 1 \in Nat /\ (n - 1) + 1 = n /\ n \in 1..n
      BY <2>2
    <3>2. at(n)[n - 1] = at(n - 1)[n - 1]
      BY <1>5, <3>1
    <3>3. at(n)[n] = b * at(n)[n - 1]
      BY <1>4, <3>1
    <3> QED
      BY <1>6, <2>2, <3>1, <3>2, <3>3
  <2> QED
    BY <2>1, <2>2
<1>8. p = [n \in Nat |-> p[n]]
  OBVIOUS
<1> HIDE DEF p
<1> DEFINE q == [n \in Nat |-> IF n = 0 THEN 1 ELSE b * p[n - 1]]
<1>9. p = q
  <2>1. \A n \in Nat : p[n] = q[n]
    BY <1>7
  <2>2. DOMAIN q = Nat /\ q = [n \in Nat |-> q[n]]
    OBVIOUS
  <2> HIDE DEF q
  <2> QED
    BY <1>8, <2>1, <2>2
<1> QED
  BY <1>9 DEF q

(* Its equations, and its type.                                            *)
LEMMA ExpDef ==
  ASSUME NEW b \in Nat
  PROVE  /\ Exp(b, 0) = 1
         /\ \A k \in Nat : Exp(b, k) \in Nat /\ Exp(b, k + 1) = b * Exp(b, k)
<1> DEFINE Def(p) == p = [i \in Nat |-> IF i = 0 THEN 1 ELSE b * p[i - 1]]
           f == CHOOSE p : Def(p)
<1>1. Def(f)
  <2>1. \E p : Def(p)
    BY ExpExists
  <2> HIDE DEF Def
  <2> QED
    BY <2>1
<1>2. \A k : Exp(b, k) = f[k]
  BY DEF Exp
<1> HIDE DEF f
<1>3. f[0] = 1 /\ \A k \in Nat : f[k + 1] = b * f[k]
  <2>1. \A k \in Nat : f[k] = IF k = 0 THEN 1 ELSE b * f[k - 1]
    BY <1>1
  <2>2. \A k \in Nat : k + 1 \in Nat /\ k + 1 # 0 /\ (k + 1) - 1 = k
    OBVIOUS
  <2> QED
    BY <2>1, <2>2
<1> DEFINE S == {k \in Nat : f[k] \in Nat}
<1>4. \A k \in Nat : k \in S
  <2>1. 0 \in S
    BY <1>3
  <2>2. ASSUME NEW k \in Nat, k \in S PROVE k + 1 \in S
    <3>1. k + 1 \in Nat /\ b * f[k] \in Nat
      BY <2>2
    <3> QED
      BY <1>3, <3>1
  <2> HIDE DEF S
  <2> QED
    BY <2>1, <2>2, Induction
<1> QED
  BY <1>2, <1>3, <1>4

LEMMA ExpPositive ==
  ASSUME NEW b \in Nat, b > 0
  PROVE  \A k \in Nat : Exp(b, k) \in Nat /\ Exp(b, k) > 0
<1> DEFINE S == {k \in Nat : Exp(b, k) > 0}
<1>1. 0 \in S
  BY ExpDef
<1>2. ASSUME NEW k \in Nat, k \in S PROVE k + 1 \in S
  <2> DEFINE x == Exp(b, k)
  <2>1. x \in Nat /\ x > 0 /\ Exp(b, k + 1) = b * x
    BY <1>2, ExpDef
  <2> HIDE DEF x
  <2>2. b * x > 0
    BY <2>1
  <2> QED
    BY <2>1, <2>2
<1>3. \A k \in Nat : k \in S
  <2> HIDE DEF S
  <2> QED
    BY <1>1, <1>2, Induction
<1> QED
  BY <1>3, ExpDef

LEMMA ExpProduct ==
  ASSUME NEW a \in Nat, NEW b \in Nat
  PROVE  \A k \in Nat : Exp(a * b, k) = Exp(a, k) * Exp(b, k)
<1> DEFINE S == {k \in Nat : Exp(a * b, k) = Exp(a, k) * Exp(b, k)}
<1>0. a * b \in Nat
  OBVIOUS
<1>1. 0 \in S
  BY <1>0, ExpDef
<1>2. ASSUME NEW k \in Nat, k \in S PROVE k + 1 \in S
  <2> DEFINE x == Exp(a, k)
             y == Exp(b, k)
  <2>1. x \in Nat /\ y \in Nat /\ Exp(a, k + 1) = a * x /\ Exp(b, k + 1) = b * y
        /\ Exp(a * b, k + 1) = (a * b) * Exp(a * b, k) /\ Exp(a * b, k) = x * y
    BY <1>0, <1>2, ExpDef
  <2> HIDE DEF x, y
  <2>2. (a * b) * (x * y) = (a * x) * (b * y)
    BY <2>1
  <2> QED
    BY <2>1, <2>2
<1> HIDE DEF S
<1>3. \A k \in Nat : k \in S
  BY <1>1, <1>2, Induction
<1> QED
  BY <1>3 DEF S

(* Bernoulli's inequality, multiplied out.                                 *)
LEMMA Bernoulli ==
  ASSUME NEW m \in Nat, m >= 1
  PROVE  \A k \in Nat : m * Exp(m, k) <= m * Exp(m - 1, k) + k * Exp(m, k)
<1> DEFINE S == {k \in Nat : m * Exp(m, k) <= m * Exp(m - 1, k) + k * Exp(m, k)}
<1>0. m - 1 \in Nat
  OBVIOUS
<1>1. 0 \in S
  BY <1>0, ExpDef
<1>2. ASSUME NEW k \in Nat, k \in S PROVE k + 1 \in S
  <2> DEFINE x == Exp(m, k)
             y == Exp(m - 1, k)
  <2>1. x \in Nat /\ y \in Nat /\ Exp(m, k + 1) = m * x /\ Exp(m - 1, k + 1) = (m - 1) * y
        /\ m * x <= m * y + k * x
    BY <1>0, <1>2, ExpDef
  <2> HIDE DEF x, y
  <2> DEFINE u == m * x
             v == m * y
             w == k * x
  <2>2. u \in Nat /\ v \in Nat /\ w \in Nat /\ u <= v + w
    BY <2>1
  <2>3. (m - 1) * u <= (m - 1) * (v + w)
    <3> HIDE DEF u, v, w
    <3>1. v + w - u \in Nat
      BY <2>2
    <3>2. (m - 1) * (v + w - u) \in Nat
      BY <1>0, <3>1
    <3> QED
      BY <2>2, <3>2
  <2>4. m * ((m - 1) * y) = (m - 1) * v
    BY <2>1
  <2>5. (k + 1) * (m * x) = k * u + u /\ k * u = m * w
    BY <2>1
  <2>6. (m - 1) * (v + w) = (m - 1) * v + (m * w - w) /\ (m - 1) * u = m * u - u
    BY <2>1
  <2>7. m * u <= m * ((m - 1) * y) + (k + 1) * (m * x)
    <3> HIDE DEF u, v, w
    <3> DEFINE c == (m - 1) * v
               d == m * w
               e == m * u
    <3>1. c \in Int /\ d \in Int /\ e \in Int
      BY <2>2
    <3>2. e - u <= c + (d - w)
      BY <2>3, <2>6
    <3> HIDE DEF c, d, e
    <3>3. e <= c + (d + u)
      BY <2>2, <3>1, <3>2
    <3> QED
      BY <2>4, <2>5, <3>3 DEF c, d, e
  <2> QED
    BY <2>1, <2>7
<1> HIDE DEF S
<1>3. \A k \in Nat : k \in S
  BY <1>1, <1>2, Induction
<1> QED
  BY <1>3 DEF S

LEMMA PowerType ==
  \A n \in Nat : Power(n) \in Nat /\ Power(n) > 0
<1> SUFFICES ASSUME NEW n \in Nat PROVE Power(n) \in Nat /\ Power(n) > 0
  OBVIOUS
<1>1. CASE n = 0
  BY <1>1, ExpDef DEF Power
<1>2. CASE n > 0
  BY <1>2, ExpPositive DEF Power
<1> QED
  BY <1>1, <1>2

(* Power is strictly log-convex.                                           *)
LEMMA PowerConvex ==
  ASSUME NEW n \in Nat, n >= 1
  PROVE  Power(n) * Power(n) < Power(n + 1) * Power(n - 1)
<1> DEFINE k == n - 1
           m == n * n
           a == Exp(m - 1, k)
           b == Exp(m, k)
           x == Exp(n, k)
           y == Exp(n + 1, k)
           z == Exp(n - 1, k)
<1>1. k \in Nat /\ n + 1 \in Nat /\ k + 1 = n /\ m \in Nat /\ m >= 1 /\ m - 1 \in Nat
  <2>1. n * n >= 1
    OBVIOUS
  <2> QED
    BY <2>1
<1>2. a \in Nat /\ b \in Nat /\ b > 0 /\ x \in Nat /\ y \in Nat /\ z \in Nat
  <2>1. \A c, i \in Nat : Exp(c, i) \in Nat
    BY ExpDef
  <2>2. m > 0
    BY <1>1
  <2> HIDE DEF m
  <2>3. b > 0
    BY <1>1, <2>2, ExpPositive
  <2> QED
    BY <1>1, <2>1, <2>3
<1>3. Power(n) = n * x
  BY <1>1, ExpDef DEF Power
<1>4. Power(n + 1) = (n + 1) * ((n + 1) * y)
  BY <1>1, ExpDef DEF Power
<1>5. Power(n - 1) = z
  BY DEF Power
<1>6. b = x * x
  BY <1>1, ExpProduct
<1>7. a = y * z
  <2>1. m - 1 = (n + 1) * k
    OBVIOUS
  <2> QED
    BY <1>1, <2>1, ExpProduct
<1>8. m * b <= m * a + k * b
  BY <1>1, Bernoulli
<1>9. Power(n) * Power(n) = m * b
  <2> HIDE DEF x, b
  <2>1. (n * x) * (n * x) = (n * n) * (x * x)
    BY <1>2
  <2> QED
    BY <1>3, <1>6, <2>1
<1>10. Power(n + 1) * Power(n - 1) = ((n + 1) * (n + 1)) * a
  <2> HIDE DEF y, z, a
  <2>1. ((n + 1) * ((n + 1) * y)) * z = ((n + 1) * (n + 1)) * (y * z)
    BY <1>2
  <2> QED
    BY <1>4, <1>5, <1>7, <2>1
<1> HIDE DEF a, b, x, y, z
<1>11. m * b < ((n + 1) * (n + 1)) * a
  <2>1. (n + 1) * (n + 1) = m + (2 * n + 1)
    OBVIOUS
  <2>2. m - k \in Nat /\ (m - k) * b <= m * a
    <3>1. n * n >= n
      OBVIOUS
    <3>2. m - k \in Nat
      BY <1>1, <3>1
    <3>3. (m - k) * b = m * b - k * b
      BY <1>1, <1>2
    <3>4. m * b \in Int /\ k * b \in Int /\ m * a \in Int
      BY <1>1, <1>2
    <3> QED
      BY <1>8, <3>2, <3>3, <3>4
  <2> DEFINE q == (n + 1) * (n + 1)
             d == m - k
  <2>3. q * (d * b) <= q * (m * a)
    <3>1. m * a - d * b \in Nat
      BY <1>1, <1>2, <2>2
    <3>2. q \in Nat
      OBVIOUS
    <3> HIDE DEF q, d
    <3>3. q * (m * a - d * b) \in Nat
      BY <3>1, <3>2
    <3>4. d \in Nat
      BY <2>2 DEF d
    <3>5. q * (m * a - d * b) = q * (m * a) - q * (d * b)
      BY <1>1, <1>2, <3>2, <3>4
    <3>6. q * (m * a) \in Int /\ q * (d * b) \in Int
      BY <1>1, <1>2, <3>2, <3>4
    <3> QED
      BY <3>3, <3>5, <3>6
  <2>4. q * d > m * m
    <3>1. q * d = (n + 1) * (n * n * n + 1)
      OBVIOUS
    <3>2. (n + 1) * (n * n * n + 1) = m * m + (n * n * n + n + 1)
      OBVIOUS
    <3>3. n * n * n \in Nat /\ m * m \in Nat
      OBVIOUS
    <3> QED
      BY <3>1, <3>2, <3>3
  <2>5. q \in Nat /\ d \in Nat
    BY <2>2
  <2> HIDE DEF q, d
  <2> HIDE DEF m
  <2>6. (q * d) * b > (m * m) * b
    <3> DEFINE g == q * d - m * m
    <3>1. g \in Nat /\ g > 0
      BY <1>1, <2>4, <2>5
    <3>2. g * b = (q * d) * b - (m * m) * b
      BY <1>1, <1>2, <2>5
    <3> HIDE DEF g
    <3>3. g * b > 0
      BY <1>2, <3>1
    <3>4. (q * d) * b \in Int /\ (m * m) * b \in Int
      BY <1>1, <1>2, <2>5
    <3> QED
      BY <3>2, <3>3, <3>4
  <2>7. (q * d) * b = q * (d * b) /\ (m * m) * b = m * (m * b) /\ q * (m * a) = m * (q * a)
    BY <1>1, <1>2, <2>5
  <2>8. m * (m * b) < m * (q * a)
    <3>1. q * (d * b) \in Int /\ m * (m * b) \in Int /\ m * (q * a) \in Int
      BY <1>1, <1>2, <2>5
    <3> QED
      BY <2>3, <2>6, <2>7, <3>1
  <2>9. m * b \in Int /\ q * a \in Int
    BY <1>1, <1>2, <2>5
  <2>10. ~(m * b >= q * a)
    <3> SUFFICES ASSUME m * b >= q * a PROVE FALSE
      OBVIOUS
    <3> DEFINE g == m * b - q * a
    <3>1. g \in Nat
      BY <2>9
    <3>2. m * g = m * (m * b) - m * (q * a)
      BY <1>1, <2>9
    <3>3. m * (m * b) \in Int /\ m * (q * a) \in Int
      BY <1>1, <2>9
    <3> HIDE DEF g
    <3>4. m * g >= 0
      BY <1>1, <3>1
    <3> QED
      BY <2>8, <3>2, <3>3, <3>4
  <2> QED
    BY <2>9, <2>10 DEF q
<1> QED
  BY <1>9, <1>10, <1>11

(* The quotients of neighbouring powers grow.                              *)
LEMMA PowerChain ==
  ASSUME NEW n \in Nat, NEW c \in Nat, 1 <= c, c < n
  PROVE  Power(n - 1) * Power(c) < Power(n) * Power(c - 1)
<1> DEFINE S == {d \in Nat : Power(c + d) * Power(c) < Power(c + d + 1) * Power(c - 1)}
<1>1. 0 \in S
  <2>1. c + 0 = c
    OBVIOUS
  <2> QED
    BY <2>1, PowerConvex
<1>2. ASSUME NEW d \in Nat, d \in S PROVE d + 1 \in S
  <2> DEFINE e == c + d
             x == Power(e)
             y == Power(e + 1)
             z == Power(e + 2)
             u == Power(c)
             v == Power(c - 1)
  <2>1. e \in Nat /\ e + 1 \in Nat /\ e + 2 \in Nat /\ c - 1 \in Nat /\ e + 1 >= 1
        /\ (e + 1) + 1 = e + 2 /\ (e + 1) - 1 = e /\ c + (d + 1) = e + 1
    OBVIOUS
  <2>2. x \in Nat /\ x > 0 /\ y \in Nat /\ y > 0 /\ z \in Nat /\ z > 0
        /\ u \in Nat /\ u > 0 /\ v \in Nat /\ v > 0
    <3> HIDE DEF e
    <3> QED
      BY <2>1, PowerType
  <2>3. x * u < y * v
    BY <1>2
  <2>4. y * y < z * x
    <3> HIDE DEF e
    <3>1. Power(e + 1) * Power(e + 1) < Power((e + 1) + 1) * Power((e + 1) - 1)
      BY <2>1, PowerConvex
    <3> QED
      BY <2>1, <3>1
  <2> HIDE DEF x, y, z, u, v
  <2>5. y * u < z * v
    <3> SUFFICES ASSUME z * v <= y * u PROVE FALSE
      <4>1. y * u \in Int /\ z * v \in Int
        BY <2>2
      <4> QED
        BY <4>1
    <3>1. x * (z * v) <= x * (y * u)
      <4>1. y * u - z * v \in Nat
        BY <2>2
      <4>2. x * (y * u - z * v) >= 0
        BY <2>2, <4>1
      <4>3. x * (y * u - z * v) = x * (y * u) - x * (z * v)
        BY <2>2
      <4>4. x * (y * u) \in Int /\ x * (z * v) \in Int
        BY <2>2
      <4> QED
        BY <4>2, <4>3, <4>4
    <3>2. y * (x * u) < y * (y * v)
      <4>1. y * v - x * u \in Nat /\ y * v - x * u > 0
        BY <2>2, <2>3
      <4>2. y * (y * v - x * u) > 0
        BY <2>2, <4>1
      <4>3. y * (y * v - x * u) = y * (y * v) - y * (x * u)
        BY <2>2
      <4>4. y * (y * v) \in Int /\ y * (x * u) \in Int
        BY <2>2
      <4> QED
        BY <4>2, <4>3, <4>4
    <3>3. v * (y * y) < v * (z * x)
      <4>1. z * x - y * y \in Nat /\ z * x - y * y > 0
        BY <2>2, <2>4
      <4>2. v * (z * x - y * y) > 0
        BY <2>2, <4>1
      <4>3. v * (z * x - y * y) = v * (z * x) - v * (y * y)
        BY <2>2
      <4>4. v * (z * x) \in Int /\ v * (y * y) \in Int
        BY <2>2
      <4> QED
        BY <4>2, <4>3, <4>4
    <3>4. v * (z * x) = x * (z * v) /\ v * (y * y) = y * (y * v) /\ x * (y * u) = y * (x * u)
      BY <2>2
    <3>5. x * (z * v) \in Int /\ y * (y * v) \in Int /\ y * (x * u) \in Int
      BY <2>2
    <3> QED
      BY <3>1, <3>2, <3>3, <3>4, <3>5
  <2> QED
    BY <2>1, <2>5 DEF y, z, u, v
<1> HIDE DEF S
<1>3. \A d \in Nat : d \in S
  BY <1>1, <1>2, Induction
<1>4. n - 1 - c \in Nat
  OBVIOUS
<1>5. n - 1 - c \in S
  BY <1>3, <1>4
<1>6. c + (n - 1 - c) = n - 1 /\ (n - 1) + 1 = n
  OBVIOUS
<1> QED
  BY <1>5, <1>6 DEF S

-----------------------------------------------------------------------------
(* The gain of a split depends on the two sets of instances only.  T is    *)
(* the training list.                                                      *)

Count(T, A, l) == Cardinality({i \in A : T[i].label = l})
WeightOf(T, A) == Power(Count(T, A, -1)) * Power(Count(T, A, 0)) * Power(Count(T, A, 1))
PowerOf(A) == Power(Cardinality(A))

(* Instances of more than one label.                                       *)
Mixed(T, A) == \A l \in Labels : Count(T, A, l) # Cardinality(A)

(* The split in A and B gains more than the split in C and D.              *)
Gains(T, A, B, C, D) ==
  (PowerOf(A) * PowerOf(B)) * (WeightOf(T, C) * WeightOf(T, D))
    < (PowerOf(C) * PowerOf(D)) * (WeightOf(T, A) * WeightOf(T, B))

(* Those of A with a smaller value of feature f than instance t.           *)
Below(T, A, f, t) == {i \in A : Feature(T[i], f) < Feature(T[t], f)}

(* No cut of A between two values of feature f gains more than the split   *)
(* in C and D.                                                             *)
NoWorse(T, A, f, C, D) ==
  \A t \in A : ~Gains(T, Below(T, A, f, t), A \ Below(T, A, f, t), C, D)

LEMMA ImageCardinality ==
  ASSUME NEW A, IsFiniteSet(A), NEW s, \A a, b \in A : s[a] = s[b] => a = b
  PROVE  Cardinality({s[i] : i \in A}) = Cardinality(A)
<1> DEFINE T == {s[i] : i \in A}
           F == [i \in A |-> s[i]]
<1>1. F \in Surjection(A, T) /\ F \in Injection(A, T)
  BY DEF Surjection, Injection, IsInjective
<1> HIDE DEF F
<1>2. Cardinality(T) = Cardinality(A)
  BY <1>1, FS_Surjection
<1> QED
  BY <1>2

LEMMA CountsByRange ==
  ASSUME NEW s, IsFiniteSet(DOMAIN s), IsInjective(s)
  PROVE  /\ \A l \in Labels : Counts(s)[l] = Count(training, Range(s), l)
         /\ Size(s) = Cardinality(Range(s))
<1> DEFINE D == DOMAIN s
<1>1. ASSUME NEW A \in SUBSET D PROVE Cardinality({s[i] : i \in A}) = Cardinality(A)
  <2>1. IsFiniteSet(A)
    BY FS_Subset
  <2>2. \A a, b \in A : s[a] = s[b] => a = b
    BY DEF IsInjective
  <2> QED
    BY <2>1, <2>2, ImageCardinality
<1>2. ASSUME NEW l \in Labels PROVE Counts(s)[l] = Count(training, Range(s), l)
  <2> DEFINE A == {k \in D : training[s[k]].label = l}
  <2>1. Counts(s)[l] = Cardinality(A)
    BY DEF Counts
  <2>2. {i \in Range(s) : training[i].label = l} = {s[k] : k \in A}
    BY DEF Range
  <2>3. A \in SUBSET D
    OBVIOUS
  <2> HIDE DEF A
  <2>4. Cardinality({s[k] : k \in A}) = Cardinality(A)
    BY <1>1, <2>3
  <2> QED
    BY <2>1, <2>2, <2>4 DEF Count
<1>3. Range(s) = {s[k] : k \in D}
  BY DEF Range
<1>4. Size(s) = Cardinality(Range(s))
  BY <1>1, <1>3 DEF Size
<1> QED
  BY <1>2, <1>4

(* An injective list of instances has as many as it is long.               *)
LEMMA ListSize ==
  ASSUME training \in Seq(CandleStick), NEW s \in Lists, IsInjective(s)
  PROVE  /\ IsFiniteSet(DOMAIN s) /\ Size(s) = Len(s)
         /\ IsFiniteSet(Range(s)) /\ Cardinality(Range(s)) = Len(s)
<1>1. DOMAIN s = 1..Len(s) /\ Len(s) \in Nat
  BY ListType
<1>2. IsFiniteSet(1..Len(s)) /\ Cardinality(1..Len(s)) = Len(s)
  <2> DEFINE n == Len(s)
  <2>1. n \in Nat
    BY <1>1
  <2> HIDE DEF n
  <2>2. IsFiniteSet(1..n) /\ Cardinality(1..n) = n
    BY <2>1, FS_Interval
  <2> QED
    BY <2>2 DEF n
<1>3. Size(s) = Len(s)
  BY <1>1, <1>2 DEF Size
<1>4. Cardinality(Range(s)) = Len(s)
  BY <1>1, <1>2, <1>3, CountsByRange
<1>5. Range(s) \subseteq DOMAIN training /\ IsFiniteSet(DOMAIN training)
  <2>1. DOMAIN training = 1..Len(training) /\ Len(training) \in Nat
    BY LenProperties
  <2>2. IsFiniteSet(1..Len(training))
    BY <2>1, FS_Interval
  <2> QED
    BY <2>1, <2>2, ListType
<1>6. IsFiniteSet(Range(s))
  BY <1>5, FS_Subset
<1> QED
  BY <1>1, <1>2, <1>3, <1>4, <1>6

LEMMA GainsByRange ==
  ASSUME NEW c, NEW d,
         IsFiniteSet(DOMAIN c.left), IsInjective(c.left),
         IsFiniteSet(DOMAIN c.right), IsInjective(c.right),
         IsFiniteSet(DOMAIN d.left), IsInjective(d.left),
         IsFiniteSet(DOMAIN d.right), IsInjective(d.right)
  PROVE  GainsMore(c, d) <=> Gains(training, Range(c.left), Range(c.right), Range(d.left), Range(d.right))
<1>1. ASSUME NEW s, IsFiniteSet(DOMAIN s), IsInjective(s)
      PROVE  Weight(s) = WeightOf(training, Range(s)) /\ Power(Size(s)) = PowerOf(Range(s))
  <2>1. -1 \in Labels /\ 0 \in Labels /\ 1 \in Labels
    BY DEF Labels
  <2>2. /\ Counts(s)[-1] = Count(training, Range(s), -1) /\ Counts(s)[0] = Count(training, Range(s), 0)
        /\ Counts(s)[1] = Count(training, Range(s), 1) /\ Size(s) = Cardinality(Range(s))
    BY <1>1, <2>1, CountsByRange
  <2> QED
    BY <2>2 DEF Weight, WeightOf, PowerOf
<1> QED
  BY <1>1 DEF GainsMore, Numerator, Denominator, Gains

(* The powers and weights of sets of instances are positive numbers.       *)
LEMMA Positive ==
  ASSUME NEW A, IsFiniteSet(A)
  PROVE  /\ PowerOf(A) \in Nat /\ PowerOf(A) > 0
         /\ WeightOf(training, A) \in Nat /\ WeightOf(training, A) > 0
         /\ \A l : Count(training, A, l) \in Nat /\ Count(training, A, l) <= Cardinality(A)
<1>1. ASSUME NEW l PROVE Count(training, A, l) \in Nat /\ Count(training, A, l) <= Cardinality(A)
  <2> DEFINE B == {i \in A : training[i].label = l}
  <2>1. B \in SUBSET A
    OBVIOUS
  <2> HIDE DEF B
  <2>2. IsFiniteSet(B) /\ Cardinality(B) <= Cardinality(A)
    BY <2>1, FS_Subset
  <2>3. Cardinality(B) \in Nat
    BY <2>2, FS_CardinalityType
  <2> QED
    BY <2>2, <2>3 DEF Count, B
<1>2. PowerOf(A) \in Nat /\ PowerOf(A) > 0
  BY FS_CardinalityType, PowerType DEF PowerOf
<1>3. WeightOf(training, A) \in Nat /\ WeightOf(training, A) > 0
  <2> DEFINE x == Power(Count(training, A, -1))
             y == Power(Count(training, A, 0))
             z == Power(Count(training, A, 1))
  <2>1. x \in Nat /\ x > 0 /\ y \in Nat /\ y > 0 /\ z \in Nat /\ z > 0
    BY <1>1, PowerType
  <2> HIDE DEF x, y, z
  <2>2. x * y \in Nat /\ x * y > 0
    BY <2>1
  <2>3. (x * y) * z \in Nat /\ (x * y) * z > 0
    BY <2>1, <2>2
  <2> QED
    BY <2>3 DEF WeightOf, x, y, z
<1> QED
  BY <1>1, <1>2, <1>3

(* Fractions of positive numbers are in order.                             *)
LEMMA Fractions ==
  ASSUME NEW m \in Nat, NEW x \in Nat, NEW n \in Nat, NEW y \in Nat, NEW o \in Nat, NEW z \in Nat,
         y > 0, ~(m * y < n * x), ~(n * z < o * y)
  PROVE  ~(m * z < o * x)
<1>1. m * y - n * x \in Nat /\ n * z - o * y \in Nat
  OBVIOUS
<1>2. z * (m * y - n * x) >= 0 /\ x * (n * z - o * y) >= 0
  BY <1>1
<1>3. z * (m * y - n * x) = y * (m * z) - x * (n * z) /\ x * (n * z - o * y) = x * (n * z) - y * (o * x)
  OBVIOUS
<1>4. y * (m * z) \in Int /\ x * (n * z) \in Int /\ y * (o * x) \in Int
  OBVIOUS
<1>5. y * (m * z) - y * (o * x) >= 0
  BY <1>2, <1>3, <1>4
<1>6. y * (m * z) - y * (o * x) = y * (m * z - o * x)
  OBVIOUS
<1> DEFINE g == m * z - o * x
<1>7. g \in Int /\ y * g >= 0
  BY <1>5, <1>6
<1> HIDE DEF g
<1>8. g >= 0
  BY <1>7
<1>9. m * z \in Int /\ o * x \in Int
  OBVIOUS
<1> QED
  BY <1>8, <1>9 DEF g

(* "Gains no more" is transitive, and total.                               *)
LEMMA GainsOrder ==
  ASSUME NEW A, NEW B, NEW C, NEW D, NEW E, NEW F,
         IsFiniteSet(A), IsFiniteSet(B), IsFiniteSet(C), IsFiniteSet(D), IsFiniteSet(E), IsFiniteSet(F),
         ~Gains(training, A, B, C, D), ~Gains(training, C, D, E, F)
  PROVE  ~Gains(training, A, B, E, F)
<1> DEFINE m == PowerOf(A) * PowerOf(B)
           x == WeightOf(training, A) * WeightOf(training, B)
           n == PowerOf(C) * PowerOf(D)
           y == WeightOf(training, C) * WeightOf(training, D)
           o == PowerOf(E) * PowerOf(F)
           z == WeightOf(training, E) * WeightOf(training, F)
<1>1. ASSUME NEW S, NEW T, IsFiniteSet(S), IsFiniteSet(T)
      PROVE  /\ PowerOf(S) * PowerOf(T) \in Nat
             /\ WeightOf(training, S) * WeightOf(training, T) \in Nat /\ WeightOf(training, S) * WeightOf(training, T) > 0
  <2> DEFINE a == PowerOf(S)
             b == PowerOf(T)
             c == WeightOf(training, S)
             d == WeightOf(training, T)
  <2>1. a \in Nat /\ b \in Nat /\ c \in Nat /\ c > 0 /\ d \in Nat /\ d > 0
    BY <1>1, Positive
  <2> HIDE DEF a, b, c, d
  <2>2. a * b \in Nat /\ c * d \in Nat /\ c * d > 0
    BY <2>1
  <2> QED
    BY <2>2 DEF a, b, c, d
<1>2. m \in Nat /\ x \in Nat /\ n \in Nat /\ y \in Nat /\ y > 0 /\ o \in Nat /\ z \in Nat
  BY <1>1
<1>3. ~(m * y < n * x) /\ ~(n * z < o * y)
  BY DEF Gains
<1> HIDE DEF m, x, n, y, o, z
<1>4. ~(m * z < o * x)
  BY <1>2, <1>3, Fractions
<1> QED
  BY <1>4 DEF Gains, m, x, o, z

LEMMA PureByRange ==
  ASSUME training \in Seq(CandleStick), NEW s \in Lists, IsInjective(s), s # <<>>
  PROVE  Pure(s) <=> ~Mixed(training, Range(s))
<1>1. IsFiniteSet(DOMAIN s) /\ Cardinality(Range(s)) = Len(s)
  BY ListSize
<1>2. \A l \in Labels : Counts(s)[l] = Count(training, Range(s), l)
  BY <1>1, CountsByRange
<1> QED
  BY <1>1, <1>2 DEF Pure, Mixed

LEMMA SmallPowers ==
  /\ Power(0) = 1 /\ Power(1) = 1
  /\ PowerOf({}) = 1 /\ WeightOf(training, {}) = 1
  /\ \A x : PowerOf({x}) = 1 /\ WeightOf(training, {x}) = 1
<1>1. Power(0) = 1
  BY ExpDef DEF Power
<1>2. Power(1) = 1
  <2>1. Exp(1, 0 + 1) = 1 * Exp(1, 0) /\ Exp(1, 0) = 1
    BY ExpDef
  <2> QED
    BY <2>1 DEF Power
<1>3. Cardinality({}) = 0 /\ \A x : Cardinality({x}) = 1
  BY FS_EmptySet, FS_Singleton
<1>4. \A l : Count(training, {}, l) = 0
  <2>1. \A l : {i \in {} : training[i].label = l} = {}
    OBVIOUS
  <2> QED
    BY <1>3, <2>1 DEF Count
<1>5. ASSUME NEW x, NEW l PROVE Count(training, {x}, l) = 0 \/ Count(training, {x}, l) = 1
  <2>1. CASE training[x].label = l
    <3>1. {i \in {x} : training[i].label = l} = {x}
      BY <2>1
    <3> QED
      BY <1>3, <3>1 DEF Count
  <2>2. CASE training[x].label # l
    <3>1. {i \in {x} : training[i].label = l} = {}
      BY <2>2
    <3> QED
      BY <1>3, <3>1 DEF Count
  <2> QED
    BY <2>1, <2>2
<1>6. \A x, l : Power(Count(training, {x}, l)) = 1
  BY <1>1, <1>2, <1>5
<1>7. WeightOf(training, {}) = 1
  BY <1>1, <1>4 DEF WeightOf
<1>8. ASSUME NEW x PROVE WeightOf(training, {x}) = 1
  <2>1. WeightOf(training, {x}) = 1 * 1 * 1
    BY <1>6 DEF WeightOf
  <2> QED
    BY <2>1
<1> QED
  BY <1>1, <1>2, <1>3, <1>7, <1>8 DEF PowerOf

(* Taking one instance from a mixed set gains: the search never ends       *)
(* without a split.                                                        *)
LEMMA OneOutGains ==
  ASSUME training \in Seq(CandleStick), NEW A \in SUBSET DOMAIN training, IsFiniteSet(A),
         NEW x \in A, Mixed(training, A)
  PROVE  Gains(training, {x}, A \ {x}, A, {})
<1> DEFINE n == Cardinality(A)
           B == A \ {x}
           m == training[x].label
<1>1. m \in Labels /\ Labels = {-1, 0, 1}
  <2>1. training[x] \in CandleStick
    BY LenProperties, ElementOfSeq
  <2> QED
    BY <2>1 DEF CandleStick, Labels
<1>2. n \in Nat /\ IsFiniteSet(B) /\ Cardinality(B) = n - 1 /\ n - 1 \in Nat
  <2>1. IsFiniteSet(B) /\ Cardinality(B) = n - 1
    BY FS_RemoveElement
  <2> QED
    BY <2>1, FS_CardinalityType
<1>3. \A l : Count(training, A, l) \in Nat /\ Count(training, A, l) <= n
  BY Positive
<1>4. ASSUME NEW l PROVE Count(training, B, l) = IF l = m THEN Count(training, A, l) - 1 ELSE Count(training, A, l)
  <2> DEFINE C == {i \in A : training[i].label = l}
  <2>1. C \in SUBSET A /\ (x \in C <=> l = m) /\ {i \in B : training[i].label = l} = C \ {x}
    OBVIOUS
  <2> HIDE DEF C
  <2>2. IsFiniteSet(C)
    BY <2>1, FS_Subset
  <2>3. Cardinality(C \ {x}) = IF x \in C THEN Cardinality(C) - 1 ELSE Cardinality(C)
    BY <2>2, FS_RemoveElement
  <2> QED
    BY <2>1, <2>3 DEF Count, C
<1>5. 1 <= Count(training, A, m) /\ Count(training, A, m) < n
  <2> DEFINE C == {i \in A : training[i].label = m}
  <2>1. C \in SUBSET A /\ x \in C
    OBVIOUS
  <2> HIDE DEF C
  <2>2. IsFiniteSet(C) /\ C # {}
    BY <2>1, FS_Subset
  <2>3. Cardinality(C) \in Nat /\ Cardinality(C) # 0
    BY <2>2, FS_CardinalityType, FS_EmptySet
  <2>4. Count(training, A, m) = Cardinality(C)
    BY DEF Count, C
  <2>5. Count(training, A, m) # n
    BY <1>1 DEF Mixed
  <2> HIDE DEF n, m
  <2> QED
    BY <1>2, <1>3, <2>3, <2>4, <2>5
<1> DEFINE c == Count(training, A, m)
<1>6. Power(n - 1) * Power(c) < Power(n) * Power(c - 1)
  <2>1. n \in Nat /\ c \in Nat /\ 1 <= c /\ c < n
    BY <1>2, <1>3, <1>5
  <2> HIDE DEF n, c
  <2> QED
    BY <2>1, PowerChain
<1>7. PowerOf(A) = Power(n) /\ PowerOf(B) = Power(n - 1)
  BY <1>2 DEF PowerOf
<1> DEFINE P(l) == Power(Count(training, A, l))
           Q(l) == Power(Count(training, B, l))
<1>8. /\ Q(m) = Power(c - 1) /\ P(m) = Power(c)
      /\ \A l \in Labels : l # m => Q(l) = P(l)
  BY <1>4
<1>9. \A l \in Labels : P(l) \in Nat /\ P(l) > 0
  BY <1>3, PowerType
<1>10. Power(c - 1) \in Nat /\ Power(n) \in Nat /\ Power(n - 1) \in Nat
  <2>1. c - 1 \in Nat
    BY <1>3, <1>5
  <2> QED
    BY <1>2, <2>1, PowerType
<1>11. \E r \in Nat : r > 0 /\ WeightOf(training, A) = r * Power(c) /\ WeightOf(training, B) = r * Power(c - 1)
  <2>1. WeightOf(training, A) = P(-1) * P(0) * P(1) /\ WeightOf(training, B) = Q(-1) * Q(0) * Q(1)
    BY DEF WeightOf
  <2> HIDE DEF P, Q, c, m
  <2>2. P(-1) \in Nat /\ P(0) \in Nat /\ P(1) \in Nat /\ P(-1) > 0 /\ P(0) > 0 /\ P(1) > 0
    BY <1>1, <1>9
  <2>3. P(0) * P(1) > 0 /\ P(-1) * P(1) > 0 /\ P(-1) * P(0) > 0
        /\ P(0) * P(1) \in Nat /\ P(-1) * P(1) \in Nat /\ P(-1) * P(0) \in Nat
    BY <2>2
  <2>4. CASE m = -1
    <3>1. WeightOf(training, A) = (P(0) * P(1)) * Power(c) /\ WeightOf(training, B) = (P(0) * P(1)) * Power(c - 1)
      <4>1. P(-1) = Power(c) /\ Q(-1) = Power(c - 1) /\ Q(0) = P(0) /\ Q(1) = P(1)
        BY <1>1, <1>8, <2>4
      <4> QED
        BY <1>10, <2>1, <2>2, <4>1
    <3> QED
      BY <2>3, <3>1
  <2>5. CASE m = 0
    <3>1. WeightOf(training, A) = (P(-1) * P(1)) * Power(c) /\ WeightOf(training, B) = (P(-1) * P(1)) * Power(c - 1)
      <4>1. P(0) = Power(c) /\ Q(0) = Power(c - 1) /\ Q(-1) = P(-1) /\ Q(1) = P(1)
        BY <1>1, <1>8, <2>5
      <4> QED
        BY <1>10, <2>1, <2>2, <4>1
    <3> QED
      BY <2>3, <3>1
  <2>6. CASE m = 1
    <3>1. WeightOf(training, A) = (P(-1) * P(0)) * Power(c) /\ WeightOf(training, B) = (P(-1) * P(0)) * Power(c - 1)
      <4>1. P(1) = Power(c) /\ Q(1) = Power(c - 1) /\ Q(-1) = P(-1) /\ Q(0) = P(0)
        BY <1>1, <1>8, <2>6
      <4> QED
        BY <1>10, <2>1, <2>2, <4>1
    <3> QED
      BY <2>3, <3>1
  <2> QED
    BY <1>1, <2>4, <2>5, <2>6
<1>12. PICK r \in Nat : r > 0 /\ WeightOf(training, A) = r * Power(c) /\ WeightOf(training, B) = r * Power(c - 1)
  BY <1>11
<1> DEFINE a == Power(n - 1)
           b == Power(c)
           d == Power(n)
           e == Power(c - 1)
<1>13. a \in Nat /\ b \in Nat /\ d \in Nat /\ e \in Nat /\ a * b < d * e
  <2>1. b \in Nat
    BY <1>3, PowerType
  <2> QED
    BY <1>6, <1>10, <2>1
<1>14. (1 * a) * ((r * b) * 1) < (d * 1) * (1 * (r * e))
  <2> HIDE DEF a, b, d, e
  <2>1. d * e - a * b \in Nat /\ d * e - a * b > 0
    BY <1>13
  <2>2. r * (d * e - a * b) > 0
    BY <1>12, <2>1
  <2>3. r * (d * e - a * b) = d * (r * e) - a * (r * b)
    BY <1>13
  <2>4. d * (r * e) \in Int /\ a * (r * b) \in Int /\ r * b \in Int /\ r * e \in Int
    BY <1>13
  <2>5. (1 * a) * ((r * b) * 1) = a * (r * b) /\ (d * 1) * (1 * (r * e)) = d * (r * e)
    BY <1>13, <2>4
  <2> QED
    BY <2>2, <2>3, <2>4, <2>5
<1>15. PowerOf({x}) = 1 /\ WeightOf(training, {x}) = 1 /\ PowerOf({}) = 1 /\ WeightOf(training, {}) = 1
  BY SmallPowers
<1> HIDE DEF n, m, c
<1> QED
  BY <1>7, <1>12, <1>14, <1>15 DEF Gains

LEMMA GainsSwap ==
  ASSUME NEW A, NEW B, NEW C, NEW D, IsFiniteSet(A), IsFiniteSet(B)
  PROVE  Gains(training, A, B, C, D) <=> Gains(training, B, A, C, D)
<1>1. PowerOf(A) * PowerOf(B) = PowerOf(B) * PowerOf(A)
      /\ WeightOf(training, A) * WeightOf(training, B) = WeightOf(training, B) * WeightOf(training, A)
  <2> DEFINE a == PowerOf(A)
             b == PowerOf(B)
             c == WeightOf(training, A)
             d == WeightOf(training, B)
  <2>1. a \in Nat /\ b \in Nat /\ c \in Nat /\ d \in Nat
    BY Positive
  <2> HIDE DEF a, b, c, d
  <2>2. a * b = b * a /\ c * d = d * c
    BY <2>1
  <2> QED
    BY <2>2 DEF a, b, c, d
<1> QED
  BY <1>1 DEF Gains

(* A split gains no more than itself.                                      *)
LEMMA GainsNotItself ==
  ASSUME NEW A, NEW B, IsFiniteSet(A), IsFiniteSet(B)
  PROVE  ~Gains(training, A, B, A, B)
<1> DEFINE a == PowerOf(A)
           b == PowerOf(B)
           c == WeightOf(training, A)
           d == WeightOf(training, B)
<1>1. a \in Nat /\ b \in Nat /\ c \in Nat /\ d \in Nat
  BY Positive
<1> HIDE DEF a, b, c, d
<1>2. (a * b) * (c * d) \in Nat
  BY <1>1
<1>3. ~((a * b) * (c * d) < (a * b) * (c * d))
  BY <1>2
<1> QED
  BY <1>3 DEF Gains, a, b, c, d

(* A split that gains no less than another is no worse than any cut the    *)
(* other is no worse than.                                                 *)
LEMMA NoWorseStep ==
  ASSUME NEW A, NEW f, NEW C, NEW D, NEW E, NEW F,
         IsFiniteSet(A), IsFiniteSet(C), IsFiniteSet(D), IsFiniteSet(E), IsFiniteSet(F),
         NoWorse(training, A, f, C, D), ~Gains(training, C, D, E, F)
  PROVE  NoWorse(training, A, f, E, F)
<1> SUFFICES ASSUME NEW t \in A
             PROVE  ~Gains(training, Below(training, A, f, t), A \ Below(training, A, f, t), E, F)
  BY DEF NoWorse
<1> DEFINE B == Below(training, A, f, t)
<1>1. B \in SUBSET A /\ A \ B \in SUBSET A
  BY DEF Below
<1>2. ~Gains(training, B, A \ B, C, D)
  BY DEF NoWorse
<1> HIDE DEF B
<1>3. IsFiniteSet(B) /\ IsFiniteSet(A \ B)
  BY <1>1, FS_Subset
<1>4. ~Gains(training, B, A \ B, E, F)
  BY <1>2, <1>3, GainsOrder
<1> QED
  BY <1>4 DEF B

(* The two sides of a split of a list.                                     *)
LEMMA SplitRanges ==
  ASSUME training \in Seq(CandleStick), NEW s \in Lists, NEW f \in Features,
         NEW k \in 1..(Len(s) - 1)
  PROVE  /\ \A x \in Range(Split(s, f, k).left) : \E i \in 1..k : x = s[i]
         /\ \A x \in Range(Split(s, f, k).right) : \E i \in (k + 1)..Len(s) : x = s[i]
<1> DEFINE n == Len(s)
           a == SubSeq(s, 1, k)
           b == SubSeq(s, k + 1, n)
<1>1. n \in Nat /\ \A i \in 1..n : s[i] \in DOMAIN training
  BY ListType
<1>2. a \in Lists /\ Len(a) = k /\ \A i \in 1..k : a[i] = s[i]
  <2>1. \A i \in 1..k : s[i] \in DOMAIN training
    BY <1>1
  <2>2. a \in Lists /\ Len(a) = k /\ \A i \in 1..k : a[i] = s[1 + i - 1]
    BY <1>1, <2>1, SubSeqProperties DEF Lists
  <2> QED
    BY <2>2
<1>3. b \in Lists /\ Len(b) = n - k /\ \A i \in 1..(n - k) : b[i] = s[k + i]
  <2>1. \A i \in (k + 1)..n : s[i] \in DOMAIN training
    BY <1>1
  <2>2. k + 1 \in Int /\ n \in Int /\ k + 1 <= n
    BY <1>1
  <2>3. b \in Lists /\ Len(b) = n - (k + 1) + 1 /\ \A i \in 1..(n - (k + 1) + 1) : b[i] = s[(k + 1) + i - 1]
    BY <2>1, <2>2, SubSeqProperties DEF Lists
  <2> QED
    BY <2>2, <2>3
<1>4. DOMAIN a = 1..k /\ DOMAIN b = 1..(n - k)
  BY <1>2, <1>3, ListType
<1>5. Split(s, f, k).left = a /\ Split(s, f, k).right = b
  BY DEF Split
<1> HIDE DEF a, b
<1>6. \A x \in Range(a) : \E i \in 1..k : x = s[i]
  BY <1>2, <1>4 DEF Range
<1>7. ASSUME NEW x \in Range(b) PROVE \E i \in (k + 1)..n : x = s[i]
  <2>1. PICK i \in 1..(n - k) : x = s[k + i]
    BY <1>3, <1>4 DEF Range
  <2>2. k + i \in (k + 1)..n
    BY <1>1
  <2> QED
    BY <2>1, <2>2
<1> QED
  BY <1>5, <1>6, <1>7

(* Every cut of a sorted list between two values is one of the splits the  *)
(* loop over the thresholds tries.                                         *)
LEMMA CutIsSplit ==
  ASSUME training \in Seq(CandleStick), NEW s \in Lists, NEW f \in Features,
         IsInjective(s), SortedBy(s, f), NEW t \in Range(s),
         Below(training, Range(s), f, t) # {}
  PROVE  \E k \in 1..(Len(s) - 1) :
           /\ Range(Split(s, f, k).left) = Below(training, Range(s), f, t)
           /\ Range(Split(s, f, k).right) = Range(s) \ Below(training, Range(s), f, t)
<1> DEFINE n == Len(s)
           v(x) == Feature(training[x], f)
           V == {i \in 1..n : ~(v(s[i]) < v(t))}
           B == Below(training, Range(s), f, t)
<1>1. DOMAIN s = 1..n /\ n \in Nat /\ Range(s) = {s[i] : i \in 1..n}
  BY ListType DEF Range
<1>2. \A x \in Range(s) : v(x) \in Int
  BY ListType, FeatureType DEF Range
<1>3. V \subseteq Nat /\ V # {}
  <2>1. PICK i \in 1..n : t = s[i]
    BY <1>1
  <2>2. ~(v(s[i]) < v(t))
    BY <1>2, <2>1
  <2> QED
    BY <2>2
<1>4. PICK m \in V : \A i \in V : m <= i
  <2> HIDE DEF V
  <2> QED
    BY <1>3, LeastOf
<1>5. \A i \in 1..n : i < m => v(s[i]) < v(t)
  <2>1. \A i \in 1..n : i < m => ~(m <= i)
    BY <1>1
  <2> QED
    BY <1>4, <2>1
<1>6. \A i \in 1..n : m <= i => ~(v(s[i]) < v(t))
  <2> SUFFICES ASSUME NEW i \in 1..n, m <= i, i # m PROVE ~(v(s[i]) < v(t))
    BY <1>4
  <2>1. m \in 1..n /\ m < i /\ ~(v(s[m]) < v(t))
    BY <1>1
  <2>2. v(s[m]) <= v(s[i])
    BY <1>1, <2>1 DEF SortedBy
  <2>3. v(s[m]) \in Int /\ v(s[i]) \in Int /\ v(t) \in Int
    BY <1>1, <1>2, <2>1
  <2> HIDE DEF v
  <2> QED
    BY <2>1, <2>2, <2>3
<1> DEFINE k == m - 1
<1>7. k \in 1..(n - 1) /\ k + 1 = m
  <2>1. PICK x \in Range(s) : v(x) < v(t)
    BY DEF Below
  <2>2. PICK i \in 1..n : x = s[i]
    BY <1>1
  <2>3. ~(m <= i)
    BY <1>6, <2>1, <2>2
  <2> QED
    BY <1>1, <2>3
<1> HIDE DEF k
<1> DEFINE C == Range(Split(s, f, k).left)
           D == Range(Split(s, f, k).right)
<1>8. C \cup D = Range(s)
  BY <1>7, SplitProperties DEF GoodSplit
<1>13. /\ \A x \in C : \E i \in 1..k : x = s[i]
       /\ \A x \in D : \E i \in (k + 1)..n : x = s[i]
  <2>1. k \in 1..(Len(s) - 1)
    BY <1>7
  <2> HIDE DEF v, V, B, C, D, n
  <2>2. /\ \A x \in Range(Split(s, f, k).left) : \E i \in 1..k : x = s[i]
        /\ \A x \in Range(Split(s, f, k).right) : \E i \in (k + 1)..Len(s) : x = s[i]
    BY <2>1, SplitRanges
  <2> QED
    BY <2>2 DEF C, D, n
<1>9. \A x \in C : v(x) < v(t)
  <2>1. \A x \in C : \E i \in 1..k : x = s[i]
    BY <1>13
  <2>2. \A i \in 1..k : i \in 1..n /\ i < m
    BY <1>1, <1>7
  <2> QED
    BY <1>5, <2>1, <2>2
<1>10. \A x \in D : ~(v(x) < v(t))
  <2>1. \A x \in D : \E i \in (k + 1)..n : x = s[i]
    BY <1>13
  <2>2. \A i \in (k + 1)..n : i \in 1..n /\ m <= i
    BY <1>1, <1>7
  <2> QED
    BY <1>6, <2>1, <2>2
<1> HIDE DEF C, D, v
<1>11. B = {x \in Range(s) : v(x) < v(t)}
  BY DEF Below, v
<1> HIDE DEF B
<1>12. C = B /\ D = Range(s) \ B
  BY <1>8, <1>9, <1>10, <1>11
<1> QED
  BY <1>7, <1>12 DEF B, C, D

(* What the loop over the thresholds ends with gains no less than what it  *)
(* began with, and no less than any split it tried.                        *)
LEMMA BestAfterGains ==
  ASSUME NEW s, NEW f, NEW c \in BestAfter(s, f)
  PROVE  ~GainsMore(best, c) /\ \A k \in 1..(Len(s) - 1) : ~GainsMore(Split(s, f, k), c)
<1> DEFINE cand == [k \in 1..(Len(s) - 1) |-> Split(s, f, k)]
<1>1. ~GainsMore(best, c) /\ \A k \in DOMAIN cand : ~GainsMore(cand[k], c)
  BY DEF BestAfter
<1>2. \A k \in 1..(Len(s) - 1) : k \in DOMAIN cand /\ cand[k] = Split(s, f, k)
  OBVIOUS
<1> HIDE DEF cand
<1> QED
  BY <1>1, <1>2

-----------------------------------------------------------------------------
(* The search.                                                             *)

(* What the search of the current call knows of the best split: it gains   *)
(* no less than no split and every cut by a feature that was tried, and    *)
(* it is a split as soon as one feature was.                               *)
SearchedBest ==
  fi # 0 =>
    LET A == InstancesOf(Head(stack))
        C == Range(best.left)
        D == Range(best.right)
    IN  /\ training # <<>> => Mixed(training, A)
        /\ IsInjective(best.left) /\ IsInjective(best.right)
        /\ ~Gains(training, A, {}, C, D)
        /\ \A j \in 1..(fi - 1) : NoWorse(training, A, featureIdx[j], C, D)
        /\ best.attr = -1 => C = A /\ D = {} /\ (fi = 1 \/ training = <<>>)

(* A node with children was split as well as any feature could split it.   *)
GrownBest ==
  \A p \in DOMAIN nodes : HasChildren(p) =>
    \A f \in Range(featureIdx) :
      NoWorse(training, InstancesOf(p), f, InstancesOf(Left(p)), InstancesOf(Right(p)))

(* A leaf with no call pending is pure.                                    *)
LeavesDone ==
  training # <<>> =>
    \A p \in Leaves :
      (\A k \in DOMAIN stack : stack[k] # p) => nodes[p].pure /\ ~Mixed(training, InstancesOf(p))

BestInv == featureIdx # <<>> /\ SearchedBest /\ GrownBest /\ LeavesDone

(* The instances of a node, and the lists of the best split.               *)
LEMMA InstanceFacts ==
  ASSUME IInv, NEW p \in DOMAIN nodes
  PROVE  /\ training \in Seq(CandleStick)
         /\ Inst(p) \in Lists /\ IsInjective(Inst(p)) /\ InstancesOf(p) = Range(Inst(p))
         /\ InstancesOf(p) \in SUBSET DOMAIN training /\ IsFiniteSet(InstancesOf(p))
         /\ training # <<>> => Inst(p) # <<>> /\ Len(Inst(p)) >= 1
<1>1. Typed /\ Tree
  BY DEF IInv
<1>2. training \in Seq(CandleStick) /\ Inst(p) \in Lists
  BY <1>1, TypedFacts
<1>3. IsInjective(Inst(p)) /\ InstancesOf(p) = Range(Inst(p))
  BY <1>1 DEF Tree, Partition, InstancesOf, Inst
<1>4. InstancesOf(p) \in SUBSET DOMAIN training
  BY <1>2, <1>3, ListType
<1>5. IsFiniteSet(InstancesOf(p))
  BY <1>2, <1>3, ListSize
<1>6. training # <<>> => Inst(p) # <<>> /\ Len(Inst(p)) >= 1
  <2>1. training # <<>> => Len(Inst(p)) >= 1
    BY <1>1 DEF Tree, DepthBounded, Inst
  <2>2. Inst(p) = <<>> => Len(Inst(p)) = 0
    OBVIOUS
  <2> QED
    BY <2>1, <2>2
<1> QED
  BY <1>2, <1>3, <1>4, <1>5, <1>6

(* A step that keeps the instances of every node keeps the grown splits.   *)
LEMMA GrownBestKept ==
  ASSUME IInv, GrownBest, training' = training, featureIdx' = featureIdx,
         DOMAIN nodes' = DOMAIN nodes,
         \A p \in DOMAIN nodes : Range(nodes'[p].instances) = InstancesOf(p)
  PROVE  GrownBest' /\ Leaves' = Leaves /\ \A p \in DOMAIN nodes : InstancesOf(p)' = InstancesOf(p)
<1>1. Typed /\ Shape
  BY DEF IInv, Tree
<1>2. \A p \in DOMAIN nodes : InstancesOf(p)' = InstancesOf(p)
  BY DEF InstancesOf
<1>3. \A p : HasChildren(p)' <=> HasChildren(p)
  BY DEF HasChildren
<1>4. Leaves' = Leaves
  BY <1>3 DEF Leaves
<1>5. ASSUME NEW p \in DOMAIN nodes, HasChildren(p), NEW f \in Range(featureIdx)
      PROVE  NoWorse(training, InstancesOf(p)', f, InstancesOf(Left(p))', InstancesOf(Right(p))')
  <2>1. Left(p) \in DOMAIN nodes /\ Right(p) \in DOMAIN nodes
    BY <1>1, <1>5, ChildrenInTree
  <2>2. NoWorse(training, InstancesOf(p), f, InstancesOf(Left(p)), InstancesOf(Right(p)))
    BY <1>5 DEF GrownBest
  <2>3. InstancesOf(p)' = InstancesOf(p) /\ InstancesOf(Left(p))' = InstancesOf(Left(p))
        /\ InstancesOf(Right(p))' = InstancesOf(Right(p))
    BY <1>2, <2>1
  <2> QED
    BY <2>2, <2>3
<1>6. GrownBest'
  BY <1>3, <1>5 DEF GrownBest
<1> QED
  BY <1>2, <1>4, <1>6

(* Only the current call returns.                                          *)
LEMMA PendingAfterReturn ==
  ASSUME Typed, pc = "training", Return
  PROVE  \A p : (\A k \in DOMAIN stack' : stack'[k] # p) =>
                  p = Head(stack) \/ \A k \in DOMAIN stack : stack[k] # p
<1> SUFFICES ASSUME NEW p, \A k \in DOMAIN stack' : stack'[k] # p, p # Head(stack),
                    NEW k \in DOMAIN stack
             PROVE  stack[k] # p
  OBVIOUS
<1>1. stack \in Seq(DOMAIN nodes) /\ stack # <<>>
  BY TypedFacts
<1>2. Len(stack) \in Nat /\ DOMAIN stack = 1..Len(stack)
  BY <1>1, LenProperties
<1>3. stack' = Tail(stack) /\ DOMAIN Tail(stack) = 1..(Len(stack) - 1) /\ Head(stack) = stack[1]
      /\ \A i \in 1..(Len(stack) - 1) : Tail(stack)[i] = stack[i + 1]
  BY <1>1, ReturnedStack DEF Return
<1>4. CASE k = 1
  BY <1>3, <1>4
<1>5. CASE k # 1
  <2>1. k - 1 \in 1..(Len(stack) - 1) /\ (k - 1) + 1 = k
    BY <1>2, <1>5
  <2> QED
    BY <1>3, <2>1
<1> QED
  BY <1>4, <1>5

LEMMA CallOnLeafBest == IInv /\ IInv' /\ BestInv /\ CallOnLeaf => BestInv'
<1> SUFFICES ASSUME IInv, IInv', BestInv, CallOnLeaf PROVE BestInv'
  OBVIOUS
<1> DEFINE h == Head(stack)
<1>1. Typed /\ Pending /\ featureIdx # <<>> /\ GrownBest /\ LeavesDone
  BY DEF IInv, BestInv
<1>2. pc = "training" /\ fi = 0 /\ Pure(Inst(h)) /\ Return /\ nodes' = [nodes EXCEPT ![h].pure = TRUE]
      /\ UNCHANGED <<training, featureIdx, sorted, best, matchVars>>
  BY DEF CallOnLeaf, Inst
<1>3. h \in DOMAIN nodes
  BY <1>1, <1>2, CurrentCall
<1> HIDE DEF h
<1>4. DOMAIN nodes' = DOMAIN nodes /\ nodes'[h].pure = TRUE /\ \A p \in DOMAIN nodes :
        /\ nodes'[p].instances = nodes[p].instances
        /\ p # h => nodes'[p] = nodes[p]
  <2>1. nodes \in [DOMAIN nodes -> Node]
    BY <1>1, TypedFacts
  <2> QED
    BY <1>2, <1>3, <2>1 DEF Node
<1>5. \A p \in DOMAIN nodes : Range(nodes'[p].instances) = InstancesOf(p)
  BY <1>4 DEF InstancesOf
<1>6. GrownBest' /\ Leaves' = Leaves /\ \A p \in DOMAIN nodes : InstancesOf(p)' = InstancesOf(p)
  BY <1>1, <1>2, <1>4, <1>5, GrownBestKept
<1>7. training # <<>> => ~Mixed(training, InstancesOf(h))
  <2>1. training \in Seq(CandleStick) /\ Inst(h) \in Lists /\ IsInjective(Inst(h))
        /\ InstancesOf(h) = Range(Inst(h)) /\ (training # <<>> => Inst(h) # <<>>)
    BY <1>3, InstanceFacts
  <2> QED
    BY <1>2, <2>1, PureByRange
<1>8. LeavesDone'
  <2> SUFFICES ASSUME training # <<>>, NEW p \in Leaves, \A k \in DOMAIN stack' : stack'[k] # p
               PROVE  nodes'[p].pure /\ ~Mixed(training, InstancesOf(p)')
    BY <1>2, <1>6 DEF LeavesDone
  <2>1. p \in DOMAIN nodes
    BY DEF Leaves
  <2>2. p = h \/ \A k \in DOMAIN stack : stack[k] # p
    BY <1>1, <1>2, PendingAfterReturn DEF h
  <2>3. CASE p = h
    BY <1>4, <1>6, <1>7, <2>1, <2>3
  <2>4. CASE p # h
    <3>1. nodes[p].pure /\ ~Mixed(training, InstancesOf(p))
      BY <1>1, <2>2, <2>4 DEF LeavesDone
    <3> QED
      BY <1>4, <1>6, <2>1, <2>4, <3>1
  <2> QED
    BY <2>3, <2>4
<1>9. SearchedBest'
  BY <1>2 DEF SearchedBest, Return
<1> QED
  BY <1>1, <1>2, <1>6, <1>8, <1>9 DEF BestInv

LEMMA CallOnNodeBest == IInv /\ IInv' /\ BestInv /\ CallOnNode => BestInv'
<1> SUFFICES ASSUME IInv, IInv', BestInv, CallOnNode PROVE BestInv'
  OBVIOUS
<1> DEFINE h == Head(stack)
<1>1. Typed /\ Pending /\ featureIdx # <<>> /\ GrownBest /\ LeavesDone
  BY DEF IInv, BestInv
<1>2. pc = "training" /\ fi = 0 /\ ~Pure(Inst(h)) /\ nodes' = [nodes EXCEPT ![h].pure = FALSE] /\ fi' = 1
      /\ best' = NoSplit(Inst(h))
      /\ UNCHANGED <<training, featureIdx, stack, sorted, pc, matchVars>>
  BY DEF CallOnNode, Inst
<1>3. h \in DOMAIN nodes /\ stack # <<>>
  BY <1>1, <1>2, CurrentCall
<1>4. 1 \in DOMAIN stack /\ stack[1] = h
  <2>1. Len(stack) \in Nat /\ Len(stack) >= 1 /\ Head(stack) = stack[1] /\ DOMAIN stack = 1..Len(stack)
    BY <1>1, <1>3, TypedFacts, ReturnedStack, LenProperties
  <2> QED
    BY <2>1
<1> HIDE DEF h
<1>5. DOMAIN nodes' = DOMAIN nodes /\ \A p \in DOMAIN nodes :
        /\ nodes'[p].instances = nodes[p].instances
        /\ p # h => nodes'[p] = nodes[p]
  <2>1. nodes \in [DOMAIN nodes -> Node]
    BY <1>1, TypedFacts
  <2> QED
    BY <1>2, <1>3, <2>1 DEF Node
<1>6. \A p \in DOMAIN nodes : Range(nodes'[p].instances) = InstancesOf(p)
  BY <1>5 DEF InstancesOf
<1>7. GrownBest' /\ Leaves' = Leaves /\ \A p \in DOMAIN nodes : InstancesOf(p)' = InstancesOf(p)
  BY <1>1, <1>2, <1>5, <1>6, GrownBestKept
<1>8. LeavesDone'
  <2> SUFFICES ASSUME training # <<>>, NEW p \in Leaves, \A k \in DOMAIN stack : stack[k] # p
               PROVE  nodes'[p].pure /\ ~Mixed(training, InstancesOf(p)')
    BY <1>2, <1>7 DEF LeavesDone
  <2>1. p \in DOMAIN nodes /\ p # h
    BY <1>4 DEF Leaves
  <2>2. nodes[p].pure /\ ~Mixed(training, InstancesOf(p))
    BY <1>1 DEF LeavesDone
  <2> QED
    BY <1>5, <1>7, <2>1, <2>2
<1>9. SearchedBest'
  <2> DEFINE A == InstancesOf(h)
  <2>1. training \in Seq(CandleStick) /\ Inst(h) \in Lists /\ IsInjective(Inst(h))
        /\ A = Range(Inst(h)) /\ (training # <<>> => Inst(h) # <<>>) /\ IsFiniteSet(A)
    BY <1>3, InstanceFacts
  <2>2. training # <<>> => Mixed(training, A)
    BY <1>2, <2>1, PureByRange
  <2>3. best'.left = Inst(h) /\ best'.right = <<>> /\ Range(best'.left) = A /\ Range(best'.right) = {}
    BY <1>2, <2>1 DEF NoSplit, Range
  <2>4. IsInjective(best'.left) /\ IsInjective(best'.right)
    BY <2>1, <2>3 DEF IsInjective
  <2>5. ~Gains(training, A, {}, A, {})
    BY <2>1, FS_EmptySet, GainsNotItself
  <2>6. InstancesOf(Head(stack))' = A
    BY <1>2, <1>3, <1>7 DEF h
  <2>7. 1..(fi' - 1) = {}
    BY <1>2
  <2> HIDE DEF A
  <2> QED
    BY <1>2, <2>2, <2>3, <2>4, <2>5, <2>6, <2>7 DEF SearchedBest
<1> QED
  BY <1>1, <1>2, <1>7, <1>8, <1>9 DEF BestInv

LEMMA SortBest == IInv /\ IInv' /\ BestInv /\ SortByFeature => BestInv'
<1> SUFFICES ASSUME IInv, IInv', BestInv, SortByFeature PROVE BestInv'
  OBVIOUS
<1> DEFINE h == Head(stack)
           f == featureIdx[fi]
           t == StableSort(Inst(h), f)
<1>1. Typed /\ Pending /\ featureIdx # <<>> /\ GrownBest /\ LeavesDone /\ SearchedBest
  BY DEF IInv, BestInv
<1>2. /\ pc = "training" /\ fi \in 1..Len(featureIdx)
      /\ nodes' = [nodes EXCEPT ![h].instances = t]
      /\ UNCHANGED <<training, featureIdx, stack, fi, best, pc, matchVars>>
  BY DEF SortByFeature, Inst
<1>3. h \in DOMAIN nodes /\ training \in Seq(CandleStick) /\ Inst(h) \in Lists
  BY <1>1, <1>2, CurrentCall, TypedFacts
<1>4. f \in Features
  BY <1>1, <1>2, TypedFacts, ElementOfSeq
<1> HIDE DEF h, f
<1>5. Range(t) = Range(Inst(h))
  BY <1>3, <1>4, SortProperties
<1> HIDE DEF t
<1>6. DOMAIN nodes' = DOMAIN nodes /\ \A p \in DOMAIN nodes :
        /\ nodes'[p].instances = IF p = h THEN t ELSE nodes[p].instances
        /\ nodes'[p].pure = nodes[p].pure
  <2>1. nodes \in [DOMAIN nodes -> Node]
    BY <1>1, TypedFacts
  <2> QED
    BY <1>2, <1>3, <2>1 DEF Node
<1>7. \A p \in DOMAIN nodes : Range(nodes'[p].instances) = InstancesOf(p)
  BY <1>5, <1>6 DEF InstancesOf, Inst
<1>8. GrownBest' /\ Leaves' = Leaves /\ \A p \in DOMAIN nodes : InstancesOf(p)' = InstancesOf(p)
  BY <1>1, <1>2, <1>6, <1>7, GrownBestKept
<1>9. LeavesDone'
  <2>1. \A p \in Leaves : p \in DOMAIN nodes
    BY DEF Leaves
  <2> QED
    BY <1>1, <1>2, <1>6, <1>8, <2>1 DEF LeavesDone
<1>10. SearchedBest'
  <2>1. InstancesOf(Head(stack))' = InstancesOf(Head(stack))
    BY <1>2, <1>3, <1>8 DEF h
  <2> QED
    BY <1>1, <1>2, <2>1 DEF SearchedBest
<1> QED
  BY <1>1, <1>2, <1>8, <1>9, <1>10 DEF BestInv

LEMMA NoBestSplitBest == IInv /\ IInv' /\ BestInv /\ NoBestSplit => BestInv'
<1> SUFFICES ASSUME IInv, IInv', BestInv, NoBestSplit PROVE BestInv'
  OBVIOUS
<1>1. Typed /\ featureIdx # <<>> /\ GrownBest /\ LeavesDone /\ SearchedBest
  BY DEF IInv, BestInv
<1>2. pc = "training" /\ fi = Len(featureIdx) + 1 /\ best.attr = -1 /\ Return
      /\ UNCHANGED <<training, featureIdx, nodes, sorted, best, matchVars>>
  BY DEF NoBestSplit
<1>3. fi # 0 /\ fi # 1
  <2>1. Len(featureIdx) \in Nat /\ Len(featureIdx) # 0
    BY <1>1, TypedFacts, EmptySeq
  <2> QED
    BY <1>2, <2>1
<1>4. training = <<>>
  BY <1>1, <1>2, <1>3 DEF SearchedBest
<1>5. GrownBest'
  <2>1. \A p \in DOMAIN nodes : Range(nodes'[p].instances) = InstancesOf(p)
    BY <1>2 DEF InstancesOf
  <2> QED
    BY <1>1, <1>2, <2>1, GrownBestKept
<1>6. SearchedBest' /\ LeavesDone'
  BY <1>2, <1>4 DEF SearchedBest, LeavesDone, Return
<1> QED
  BY <1>1, <1>2, <1>5, <1>6 DEF BestInv

(* A mixed list is longer than one instance.                               *)
LEMMA MixedIsLong ==
  ASSUME training \in Seq(CandleStick), NEW s \in Lists, IsInjective(s), Len(s) >= 1,
         Mixed(training, Range(s))
  PROVE  1 \in 1..(Len(s) - 1)
<1>1. Len(s) \in Nat /\ DOMAIN s = 1..Len(s) /\ \A i \in DOMAIN s : training[s[i]] \in CandleStick
  BY ListType
<1> SUFFICES ASSUME Len(s) = 1 PROVE FALSE
  BY <1>1
<1> DEFINE x == s[1]
<1>2. Range(s) = {x}
  BY <1>1 DEF Range
<1>3. training[x].label \in Labels
  BY <1>1 DEF CandleStick
<1> HIDE DEF x
<1>4. {i \in {x} : training[i].label = training[x].label} = {x}
  OBVIOUS
<1>5. Count(training, {x}, training[x].label) = Cardinality({x})
  BY <1>4 DEF Count
<1> QED
  BY <1>2, <1>3, <1>5 DEF Mixed

(* The first of the splits divides one instance off.                       *)
LEMMA FirstSplit ==
  ASSUME training \in Seq(CandleStick), NEW s \in Lists, NEW f \in Features,
         IsInjective(s), SortedBy(s, f), 1 \in 1..(Len(s) - 1)
  PROVE  /\ s[1] \in Range(s)
         /\ Range(Split(s, f, 1).left) = {s[1]} /\ Range(Split(s, f, 1).right) = Range(s) \ {s[1]}
<1> DEFINE c == Split(s, f, 1)
<1>1. GoodSplit(c, s)
  BY SplitProperties
<1>2. \A x \in Range(c.left) : \E i \in 1..1 : x = s[i]
  BY SplitRanges
<1> HIDE DEF c
<1>3. Range(c.left) # {}
  <2>1. c.left \in Lists /\ Len(c.left) >= 1
    BY <1>1 DEF GoodSplit
  <2>2. 1 \in DOMAIN c.left
    BY <2>1, ListType
  <2> QED
    BY <2>2 DEF Range
<1>4. Range(c.left) = {s[1]}
  BY <1>2, <1>3
<1> QED
  BY <1>1, <1>4 DEF GoodSplit, c

LEMMA TryBest == IInv /\ IInv' /\ BestInv /\ TryThresholds => BestInv'
<1> SUFFICES ASSUME IInv, IInv', BestInv, TryThresholds PROVE BestInv'
  OBVIOUS
<1> DEFINE h == Head(stack)
           f == featureIdx[fi]
           s == Inst(h)
           A == InstancesOf(h)
           C == Range(best.left)
           D == Range(best.right)
           E == Range(best'.left)
           F == Range(best'.right)
<1>1. Typed /\ Pending /\ Search /\ featureIdx # <<>> /\ GrownBest /\ LeavesDone /\ SearchedBest
  BY DEF IInv, BestInv
<1>2. /\ pc = "training" /\ fi \in 1..Len(featureIdx) /\ sorted
      /\ best' \in BestAfter(s, f) /\ fi' = fi + 1
      /\ UNCHANGED <<training, featureIdx, nodes, stack, pc, matchVars>>
  BY DEF TryThresholds, Inst
<1>3. h \in DOMAIN nodes /\ Len(featureIdx) \in Nat
  BY <1>1, <1>2, CurrentCall, TypedFacts
<1>4. /\ training \in Seq(CandleStick) /\ s \in Lists /\ IsInjective(s) /\ A = Range(s)
      /\ A \in SUBSET DOMAIN training /\ IsFiniteSet(A) /\ (training # <<>> => Len(s) >= 1)
  BY <1>3, InstanceFacts
<1>5. f \in Features
  BY <1>1, <1>2, TypedFacts, ElementOfSeq
<1>6. SortedBy(s, f) /\ fi # 0 /\ fi \in Nat
  BY <1>1, <1>2, <1>3 DEF Search
<1>7. /\ training # <<>> => Mixed(training, A)
      /\ IsInjective(best.left) /\ IsInjective(best.right)
      /\ ~Gains(training, A, {}, C, D)
      /\ \A j \in 1..(fi - 1) : NoWorse(training, A, featureIdx[j], C, D)
      /\ best.attr = -1 => C = A /\ D = {} /\ (fi = 1 \/ training = <<>>)
  BY <1>1, <1>6 DEF SearchedBest
<1>8. ~GainsMore(best, best') /\ \A k \in 1..(Len(s) - 1) : ~GainsMore(Split(s, f, k), best')
  BY <1>2, BestAfterGains
<1>9. GrownBest' /\ LeavesDone'
  <2>1. \A p \in DOMAIN nodes : Range(nodes'[p].instances) = InstancesOf(p)
    BY <1>2 DEF InstancesOf
  <2>2. GrownBest' /\ Leaves' = Leaves /\ \A p \in DOMAIN nodes : InstancesOf(p)' = InstancesOf(p)
    BY <1>1, <1>2, <2>1, GrownBestKept
  <2>3. \A p \in Leaves : p \in DOMAIN nodes
    BY DEF Leaves
  <2> QED
    BY <1>1, <1>2, <2>2, <2>3 DEF LeavesDone
<1>10. InstancesOf(Head(stack))' = A
  BY <1>2 DEF InstancesOf
<1> HIDE DEF h, f, s, A
<1>11. \A k \in 1..(Len(s) - 1) : GoodSplit(Split(s, f, k), s)
  BY <1>4, <1>5, <1>6, SplitProperties
<1>12. ASSUME NEW l \in Lists, IsInjective(l) PROVE IsFiniteSet(DOMAIN l) /\ IsFiniteSet(Range(l))
  BY <1>4, <1>12, ListSize
<1>13. best.left \in Lists /\ best.right \in Lists
  BY <1>1 DEF Typed, TypeOK, Lists
<1>14. /\ best'.left \in Lists /\ best'.right \in Lists
       /\ IsInjective(best'.left) /\ IsInjective(best'.right)
       /\ best'.attr = -1 => best' = best
  <2>1. CASE best' = best
    BY <1>7, <1>13, <2>1
  <2>2. CASE \E k \in 1..(Len(s) - 1) : best' = Split(s, f, k)
    <3>1. GoodSplit(best', s)
      BY <1>11, <2>2
    <3>2. \A a \in Features : a # -1
      BY DEF Features
    <3> QED
      BY <3>1, <3>2 DEF GoodSplit
  <2> QED
    BY <1>2, <2>1, <2>2, BestIsSplit
<1>15. /\ IsFiniteSet(DOMAIN best.left) /\ IsFiniteSet(DOMAIN best.right)
       /\ IsFiniteSet(DOMAIN best'.left) /\ IsFiniteSet(DOMAIN best'.right)
       /\ IsFiniteSet(C) /\ IsFiniteSet(D) /\ IsFiniteSet(E) /\ IsFiniteSet(F) /\ IsFiniteSet({})
  <2>1. IsFiniteSet({})
    BY FS_EmptySet
  <2> QED
    BY <1>7, <1>12, <1>13, <1>14, <2>1
<1>16. ~Gains(training, C, D, E, F)
  BY <1>7, <1>8, <1>14, <1>15, GainsByRange
<1>17. ASSUME NEW k \in 1..(Len(s) - 1)
       PROVE  ~Gains(training, Range(Split(s, f, k).left), Range(Split(s, f, k).right), E, F)
  <2> DEFINE c == Split(s, f, k)
  <2>1. c.left \in Lists /\ c.right \in Lists /\ IsInjective(c.left) /\ IsInjective(c.right)
    BY <1>11 DEF GoodSplit
  <2>2. ~GainsMore(c, best')
    BY <1>8
  <2> HIDE DEF c
  <2>3. IsFiniteSet(DOMAIN c.left) /\ IsFiniteSet(DOMAIN c.right)
    BY <1>12, <2>1
  <2>4. ~Gains(training, Range(c.left), Range(c.right), E, F)
    BY <1>14, <1>15, <2>1, <2>2, <2>3, GainsByRange
  <2> QED
    BY <2>4 DEF c
<1>18. ~Gains(training, A, {}, E, F)
  <2> HIDE DEF C, D, E, F
  <2> QED
    BY <1>4, <1>7, <1>15, <1>16, GainsOrder
<1>19. \A j \in 1..(fi - 1) : NoWorse(training, A, featureIdx[j], E, F)
  <2> HIDE DEF C, D, E, F
  <2> QED
    BY <1>4, <1>7, <1>15, <1>16, NoWorseStep
<1>20. NoWorse(training, A, f, E, F)
  <2> SUFFICES ASSUME NEW t \in A
               PROVE  ~Gains(training, Below(training, A, f, t), A \ Below(training, A, f, t), E, F)
    BY DEF NoWorse
  <2> DEFINE B == Below(training, A, f, t)
  <2>1. CASE B = {}
    <3>1. A \ B = A
      BY <2>1
    <3> HIDE DEF E, F
    <3>2. ~Gains(training, {}, A, E, F)
      BY <1>4, <1>15, <1>18, GainsSwap
    <3> QED
      BY <2>1, <3>1, <3>2
  <2>2. CASE B # {}
    <3>1. \E k \in 1..(Len(s) - 1) :
             Range(Split(s, f, k).left) = B /\ Range(Split(s, f, k).right) = A \ B
      BY <1>4, <1>5, <1>6, <2>2, CutIsSplit
    <3> HIDE DEF B
    <3>2. ~Gains(training, B, A \ B, E, F)
      BY <1>17, <3>1
    <3> QED
      BY <3>2 DEF B
  <2> QED
    BY <2>1, <2>2
<1>21. \A j \in 1..(fi' - 1) : NoWorse(training, A, featureIdx[j], E, F)
  <2>1. \A j \in 1..(fi' - 1) : j \in 1..(fi - 1) \/ j = fi
    BY <1>2, <1>6
  <2> QED
    BY <1>19, <1>20, <2>1 DEF f
<1>22. best'.attr = -1 => E = A /\ F = {} /\ training = <<>>
  <2> SUFFICES ASSUME best'.attr = -1, training # <<>> PROVE FALSE
    BY <1>7, <1>14
  <2>1. E = A /\ F = {}
    BY <1>7, <1>14
  <2>2. 1 \in 1..(Len(s) - 1)
    BY <1>4, <1>7, MixedIsLong
  <2>3. /\ s[1] \in A /\ Range(Split(s, f, 1).left) = {s[1]}
        /\ Range(Split(s, f, 1).right) = A \ {s[1]}
    BY <1>4, <1>5, <1>6, <2>2, FirstSplit
  <2>4. ~Gains(training, {s[1]}, A \ {s[1]}, A, {})
    BY <1>17, <2>1, <2>2, <2>3
  <2>5. Gains(training, {s[1]}, A \ {s[1]}, A, {})
    BY <1>4, <1>7, <2>3, OneOutGains
  <2> QED
    BY <2>4, <2>5
<1>23. SearchedBest'
  BY <1>2, <1>7, <1>10, <1>14, <1>18, <1>21, <1>22 DEF SearchedBest
<1> QED
  BY <1>1, <1>2, <1>9, <1>23 DEF BestInv

LEMMA GrowBest == IInv /\ IInv' /\ BestInv /\ Grow => BestInv'
<1> SUFFICES ASSUME IInv, IInv', BestInv, Grow, NEW p, p = Head(stack) PROVE BestInv'
  OBVIOUS
<1> DEFINE l == Left(p)
           r == Right(p)
           D == DOMAIN nodes
<1>1. Typed /\ Shape /\ Pending /\ Search /\ featureIdx # <<>> /\ GrownBest /\ LeavesDone /\ SearchedBest
  BY DEF IInv, BestInv, Tree
<1>2. /\ pc = "training" /\ fi = Len(featureIdx) + 1 /\ best.attr # -1
      /\ nodes' = [q \in D \cup {l, r} |->
                     CASE q = p -> [nodes[p] EXCEPT
                                      !.testCond = best.attr,
                                      !.thresholdIns = best.thresholdInstance]
                       [] q = l -> DTNode(best.left)
                       [] q = r -> DTNode(best.right)
                       [] OTHER -> nodes[q]]
      /\ stack' = <<l, r>> \o Tail(stack)
      /\ fi' = 0
      /\ UNCHANGED <<training, featureIdx, sorted, best, pc, matchVars>>
  BY DEF Grow
<1>3. p \in Leaves /\ p \in D /\ stack # <<>> /\ D \subseteq Paths /\ nodes \in [D -> Node]
      /\ stack \in Seq(D) /\ Len(featureIdx) \in Nat /\ featureIdx \in Seq(Features)
  BY <1>1, <1>2, CurrentCall, TypedFacts
<1>4. l # r /\ l # p /\ r # p /\ l \in Paths /\ r \in Paths /\ l \notin D /\ r \notin D
  <2>1. l # r /\ l # p /\ r # p /\ l \in Paths /\ r \in Paths
    BY <1>3, PathFacts
  <2>2. l \notin D /\ r \notin D
    BY <1>1, <1>3, ChildrenInTree DEF Leaves
  <2> QED
    BY <2>1, <2>2
<1>5. fi # 0
  BY <1>2, <1>3
<1>6. \A j \in 1..(fi - 1) :
        NoWorse(training, InstancesOf(p), featureIdx[j], Range(best.left), Range(best.right))
  BY <1>1, <1>5 DEF SearchedBest
<1>7. \A f \in Range(featureIdx) :
        NoWorse(training, InstancesOf(p), f, Range(best.left), Range(best.right))
  <2>1. DOMAIN featureIdx = 1..(fi - 1)
    BY <1>2, <1>3, LenProperties
  <2> QED
    BY <1>6, <2>1 DEF Range
<1>8. \A q \in Paths : (Left(q) \in D => q \in D) /\ (Left(q) = l <=> q = p) /\ Left(q) # r
  BY <1>1, <1>3, PathFacts DEF Shape
<1>9. \A q \in D : HasChildren(q) => Left(q) \in D /\ Right(q) \in D /\ q # p
  BY <1>1, <1>3, ChildrenInTree DEF Leaves
<1> HIDE DEF l, r, D
<1>10. /\ DOMAIN nodes' = D \cup {l, r}
       /\ nodes'[p] = [nodes[p] EXCEPT !.testCond = best.attr, !.thresholdIns = best.thresholdInstance]
       /\ nodes'[l] = DTNode(best.left) /\ nodes'[r] = DTNode(best.right)
       /\ \A q \in D \ {p} : nodes'[q] = nodes[q]
  BY <1>2, <1>3, <1>4
<1>11. /\ nodes'[p].instances = nodes[p].instances
       /\ nodes'[l].instances = best.left /\ nodes'[r].instances = best.right
  BY <1>3, <1>10 DEF Node, DTNode
<1>12. /\ \A q \in D : InstancesOf(q)' = InstancesOf(q)
       /\ InstancesOf(l)' = Range(best.left) /\ InstancesOf(r)' = Range(best.right)
  <2>1. \A q \in D : nodes'[q].instances = nodes[q].instances
    BY <1>10, <1>11
  <2> QED
    BY <1>11, <2>1 DEF InstancesOf
<1>13. /\ \A q \in D : HasChildren(q)' <=> HasChildren(q) \/ q = p
       /\ ~HasChildren(l)' /\ ~HasChildren(r)'
  <2>1. \A q : HasChildren(q)' <=> Left(q) \in D \/ Left(q) = l \/ Left(q) = r
    BY <1>10 DEF HasChildren
  <2>2. \A q : HasChildren(q) <=> Left(q) \in D
    BY DEF HasChildren, D
  <2> QED
    BY <1>3, <1>4, <1>8, <2>1, <2>2
<1>14. GrownBest'
  <2> SUFFICES ASSUME NEW q \in DOMAIN nodes', HasChildren(q)', NEW f \in Range(featureIdx)
               PROVE  NoWorse(training, InstancesOf(q)', f, InstancesOf(Left(q))', InstancesOf(Right(q))')
    BY <1>2 DEF GrownBest
  <2>1. q \in D
    BY <1>10, <1>13
  <2>2. CASE q = p
    BY <1>3, <1>7, <1>12, <2>2 DEF l, r
  <2>3. CASE q # p
    <3>1. HasChildren(q) /\ Left(q) \in D /\ Right(q) \in D
      BY <1>9, <1>13, <2>1, <2>3
    <3>2. NoWorse(training, InstancesOf(q), f, InstancesOf(Left(q)), InstancesOf(Right(q)))
      BY <1>1, <2>1, <3>1 DEF GrownBest, D
    <3>3. InstancesOf(q)' = InstancesOf(q) /\ InstancesOf(Left(q))' = InstancesOf(Left(q))
          /\ InstancesOf(Right(q))' = InstancesOf(Right(q))
      BY <1>12, <2>1, <3>1
    <3> QED
      BY <3>2, <3>3
  <2> QED
    BY <2>2, <2>3
<1>15. LeavesDone'
  <2> SUFFICES ASSUME training # <<>>, NEW q \in Leaves', \A k \in DOMAIN stack' : stack'[k] # q
               PROVE  nodes'[q].pure /\ ~Mixed(training, InstancesOf(q)')
    BY <1>2 DEF LeavesDone
  <2>1. /\ DOMAIN stack' = 1..(Len(stack) + 1) /\ stack'[1] = l /\ stack'[2] = r
        /\ \A k \in 3..(Len(stack) + 1) : stack'[k] = stack[k - 1]
    <3>1. stack \in Seq(D \cup {l, r})
      BY <1>3, LenProperties
    <3> QED
      BY <1>2, <1>3, <3>1, GrownStack
  <2>2. Len(stack) \in Nat /\ Len(stack) >= 1 /\ DOMAIN stack = 1..Len(stack) /\ p = stack[1]
    BY <1>3, ReturnedStack, LenProperties
  <2>3. q # l /\ q # r
    <3>1. 1 \in DOMAIN stack' /\ 2 \in DOMAIN stack'
      BY <2>1, <2>2
    <3> QED
      BY <2>1, <3>1
  <2>4. q \in D /\ ~HasChildren(q)'
    BY <1>10, <2>3 DEF Leaves
  <2>5. q # p /\ q \in Leaves
    BY <1>13, <2>4 DEF Leaves, D
  <2>6. \A k \in DOMAIN stack : stack[k] # q
    <3> SUFFICES ASSUME NEW k \in 1..Len(stack), k # 1 PROVE stack[k] # q
      BY <2>2, <2>5
    <3>1. k + 1 \in 3..(Len(stack) + 1) /\ k + 1 \in DOMAIN stack' /\ (k + 1) - 1 = k
      BY <2>1, <2>2
    <3> QED
      BY <2>1, <3>1
  <2>7. nodes[q].pure /\ ~Mixed(training, InstancesOf(q))
    BY <1>1, <2>5, <2>6 DEF LeavesDone
  <2> QED
    BY <1>10, <1>12, <2>4, <2>5, <2>7
<1>16. SearchedBest'
  BY <1>2 DEF SearchedBest
<1> QED
  BY <1>1, <1>2, <1>14, <1>15, <1>16 DEF BestInv

(* findMatch leaves all this alone.                                        *)
LEMMA MatchBest ==
  IInv /\ IInv' /\ BestInv /\ UNCHANGED <<training, featureIdx, treeVars>> => BestInv'
<1> SUFFICES ASSUME IInv, IInv', BestInv, UNCHANGED <<training, featureIdx, treeVars>> PROVE BestInv'
  OBVIOUS
<1>1. UNCHANGED <<training, featureIdx, nodes, stack, fi, sorted, best>>
  BY DEF treeVars
<1>2. GrownBest /\ LeavesDone /\ SearchedBest /\ featureIdx # <<>>
  BY DEF BestInv
<1>3. \A p : InstancesOf(p)' = InstancesOf(p)
  BY <1>1 DEF InstancesOf
<1>4. GrownBest' /\ Leaves' = Leaves
  <2>1. \A p \in DOMAIN nodes : Range(nodes'[p].instances) = InstancesOf(p)
    BY <1>1 DEF InstancesOf
  <2> QED
    BY <1>1, <1>2, <2>1, GrownBestKept
<1>5. InstancesOf(Head(stack))' = InstancesOf(Head(stack))
  BY <1>1 DEF InstancesOf
<1>6. LeavesDone'
  BY <1>1, <1>2, <1>3, <1>4 DEF LeavesDone
<1>7. SearchedBest'
  BY <1>1, <1>2, <1>5 DEF SearchedBest
<1> QED
  BY <1>1, <1>2, <1>4, <1>6, <1>7 DEF BestInv

LEMMA BestInit == Init => BestInv
<1> SUFFICES ASSUME Init PROVE BestInv
  OBVIOUS
<1>1. featureIdx # <<>>
  BY DecisionTreeAssumption DEF Init
<1>2. DOMAIN nodes = {root} /\ stack = <<root>> /\ fi = 0
  BY DEF Init
<1>3. ~HasChildren(root)
  <2>1. root \in Paths /\ Len(root) = 0
    BY EmptySeq DEF root, Paths
  <2>2. Left(root) # root
    BY <2>1, PathFacts
  <2> QED
    BY <1>2, <2>2 DEF HasChildren
<1>4. GrownBest
  BY <1>2, <1>3 DEF GrownBest
<1>5. LeavesDone
  <2>1. 1 \in DOMAIN stack /\ stack[1] = root
    BY <1>2
  <2> QED
    BY <1>2, <2>1 DEF LeavesDone, Leaves
<1>6. SearchedBest
  BY <1>2 DEF SearchedBest
<1> QED
  BY <1>1, <1>4, <1>5, <1>6 DEF BestInv

LEMMA BestNext == IInv /\ IInv' /\ BestInv /\ [Next]_vars => BestInv'
<1> SUFFICES ASSUME IInv, IInv', BestInv, [Next]_vars PROVE BestInv'
  OBVIOUS
<1>1. CASE \/ \E cs \in TestInstances : classify(cs)
           \/ Descend \/ Answer \/ EmptyLeaf \/ NextInstance \/ Died \/ UNCHANGED vars
  <2>1. UNCHANGED <<training, featureIdx, treeVars>>
    BY <1>1 DEF classify, Descend, Answer, EmptyLeaf, NextInstance, Died, vars
  <2> QED
    BY <2>1, MatchBest
<1> QED
  BY <1>1, CallOnLeafBest, CallOnNodeBest, SortBest, TryBest, NoBestSplitBest, GrowBest DEF Next

(* When training is over no call is pending.                               *)
LEMMA BestImplies == IInv /\ BestInv => SplitsBest
<1> SUFFICES ASSUME IInv, BestInv PROVE SplitsBest
  OBVIOUS
<1>1. Typed /\ Shape /\ GrownBest /\ LeavesDone
  BY DEF IInv, BestInv, Tree
<1>2. LeavesPure
  <2> SUFFICES ASSUME pc # "training", training # <<>>, NEW p \in Leaves
               PROVE  nodes[p].pure /\ Pure(nodes[p].instances)
    BY DEF LeavesPure
  <2>1. stack = <<>>
    BY <1>1, TypedFacts
  <2>2. nodes[p].pure /\ ~Mixed(training, InstancesOf(p))
    BY <1>1, <2>1 DEF LeavesDone
  <2>3. training \in Seq(CandleStick) /\ Inst(p) \in Lists /\ IsInjective(Inst(p))
        /\ InstancesOf(p) = Range(Inst(p)) /\ Inst(p) # <<>>
    BY InstanceFacts DEF Leaves
  <2>4. Pure(Inst(p))
    BY <2>2, <2>3, PureByRange
  <2> QED
    BY <2>2, <2>4 DEF Inst
<1>3. SplitIsArgmax
  <2> SUFFICES ASSUME NEW p \in DOMAIN nodes, HasChildren(p),
                      NEW f \in Range(featureIdx), NEW t \in InstancesOf(p)
               PROVE  LET below == {i \in InstancesOf(p) :
                                     Feature(training[i], f) < Feature(training[t], f)}
                          cut == [left |-> [i \in below |-> i],
                                  right |-> [i \in InstancesOf(p) \ below |-> i]]
                          chosen == [left |-> nodes[Left(p)].instances,
                                     right |-> nodes[Right(p)].instances]
                      IN  ~GainsMore(cut, chosen)
    BY DEF SplitIsArgmax
  <2> DEFINE A == InstancesOf(p)
             B == Below(training, A, f, t)
             x == [i \in B |-> i]
             y == [i \in A \ B |-> i]
             cut == [left |-> x, right |-> y]
             chosen == [left |-> Inst(Left(p)), right |-> Inst(Right(p))]
  <2>1. Left(p) \in DOMAIN nodes /\ Right(p) \in DOMAIN nodes
    BY <1>1, ChildrenInTree
  <2>2. ~Gains(training, B, A \ B, InstancesOf(Left(p)), InstancesOf(Right(p)))
    BY <1>1 DEF GrownBest, NoWorse
  <2>3. IsFiniteSet(A)
    BY InstanceFacts
  <2>4. B \in SUBSET A /\ A \ B \in SUBSET A
    BY DEF Below
  <2> HIDE DEF A, B
  <2>5. IsFiniteSet(B) /\ IsFiniteSet(A \ B)
    BY <2>3, <2>4, FS_Subset
  <2>6. /\ DOMAIN x = B /\ DOMAIN y = A \ B /\ Range(x) = B /\ Range(y) = A \ B
        /\ IsInjective(x) /\ IsInjective(y)
    BY DEF Range, IsInjective
  <2>7. /\ Inst(Left(p)) \in Lists /\ IsInjective(Inst(Left(p)))
        /\ Inst(Right(p)) \in Lists /\ IsInjective(Inst(Right(p)))
        /\ InstancesOf(Left(p)) = Range(Inst(Left(p))) /\ InstancesOf(Right(p)) = Range(Inst(Right(p)))
        /\ training \in Seq(CandleStick)
    BY <2>1, InstanceFacts
  <2>8. IsFiniteSet(DOMAIN Inst(Left(p))) /\ IsFiniteSet(DOMAIN Inst(Right(p)))
    BY <2>7, ListSize
  <2>9. cut.left = x /\ cut.right = y /\ chosen.left = Inst(Left(p)) /\ chosen.right = Inst(Right(p))
    OBVIOUS
  <2> HIDE DEF x, y, cut, chosen
  <2>10. ~GainsMore(cut, chosen)
    <3>1. /\ IsFiniteSet(DOMAIN cut.left) /\ IsInjective(cut.left)
          /\ IsFiniteSet(DOMAIN cut.right) /\ IsInjective(cut.right)
          /\ IsFiniteSet(DOMAIN chosen.left) /\ IsInjective(chosen.left)
          /\ IsFiniteSet(DOMAIN chosen.right) /\ IsInjective(chosen.right)
      BY <2>5, <2>6, <2>7, <2>8, <2>9
    <3>2. ~Gains(training, Range(cut.left), Range(cut.right), Range(chosen.left), Range(chosen.right))
      BY <2>2, <2>6, <2>7, <2>9
    <3> QED
      BY <3>1, <3>2, GainsByRange
  <2> QED
    BY <2>10 DEF cut, chosen, x, y, A, B, Below, Inst
<1> QED
  BY <1>2, <1>3 DEF SplitsBest

(* A tree that buildDTree has finished is the best the greedy search can   *)
(* make: no feature has a cut at any of its nodes that gains more than     *)
(* the one chosen, whatever the order of the features and the ties, and    *)
(* its leaves are pure, so the branch bestAttr = -1 is never taken on      *)
(* training instances.  (buildDTree, calcEntropy)                          *)
THEOREM SplitsAreBest == Spec => []SplitsBest
<1>1. IInv /\ BestInv /\ [Next]_vars /\ IInv' => BestInv'
  BY BestNext
<1> QED
  BY <1>1, Invariant, BestInit, BestImplies, PTL DEF Spec
=============================================================================
