----------------------------- MODULE MCHodProofs -----------------------------
(***************************************************************************)
(* Proofs about the parts of MCHod.  The registry implements the directory *)
(* and the ring implements Cluster, for every value of their constants;    *)
(* the client keeps what HodProofs proves of it; script.exitcode is that   *)
(* of the last run; the letters of the options go round; the client has    *)
(* the parameters and the defaults that its configuration means.           *)
(***************************************************************************)
EXTENDS MCHod, FunctionTheorems, FiniteSetTheorems, WellFoundedInduction, TLAPS

-----------------------------------------------------------------------------
(* The configuration of the client: what its texts are made of, how they   *)
(* are taken apart and put together, and what verify makes of them.        *)

(* A set of numbers has a least one, and what holds at 0 and is passed on  *)
(* holds for all of them.                                                  *)
LEMMA LeastOf ==
  ASSUME NEW S, S \subseteq Nat, S # {}
  PROVE  \E x \in S : \A y \in S : x <= y
<1>1. PICK x \in S : \A y \in S : <<y, x>> \notin OpToRel(<, Nat)
  BY NatLessThanWellFounded, WFMin
<1>2. \A y \in S : ~(y < x)
  BY <1>1 DEF OpToRel
<1> QED
  BY <1>2

LEMMA Induction ==
  ASSUME NEW S, 0 \in S, \A n \in Nat : n \in S => n + 1 \in S
  PROVE  \A n \in Nat : n \in S
<1> SUFFICES ASSUME NEW n \in Nat, n \notin S PROVE FALSE
  OBVIOUS
<1>1. PICK x \in Nat \ S : \A y \in Nat \ S : x <= y
  <2>1. Nat \ S \subseteq Nat /\ Nat \ S # {}
    OBVIOUS
  <2> QED
    BY <2>1, LeastOf
<1>2. x # 0 /\ x - 1 \in Nat /\ ~(x <= x - 1)
  BY <1>1
<1>3. x - 1 \in S
  BY <1>1, <1>2
<1>4. (x - 1) + 1 \in S
  BY <1>2, <1>3
<1> QED
  BY <1>1, <1>2, <1>4

(* A recursion over an interval, whose step is the function g, has a       *)
(* solution.                                                               *)
Recursion(b, n, D, d, g) ==
  \E f \in [b..n -> D] : f[b] = d /\ \A i \in (b + 1)..n : f[i] = g[<<i, f[i - 1]>>]
LEMMA RecursionExists ==
  ASSUME NEW b \in Nat, NEW n \in Nat, b <= n, NEW D, NEW d \in D,
         NEW g \in [((b + 1)..n) \X D -> D]
  PROVE  Recursion(b, n, D, d, g)
<1> DEFINE Upto(m, f) == f[b] = d /\ \A i \in (b + 1)..m : f[i] = g[<<i, f[i - 1]>>]
           S == {m \in Nat : b + m <= n => \E f \in [b..(b + m) -> D] : Upto(b + m, f)}
<1>1. 0 \in S
  <2> DEFINE f == [i \in b..b |-> d]
  <2>1. f \in [b..b -> D] /\ f[b] = d
    OBVIOUS
  <2>2. Upto(b, f)
    BY <2>1
  <2>3. b + 0 = b
    OBVIOUS
  <2> HIDE DEF f, Upto
  <2> QED
    BY <2>1, <2>2, <2>3
<1>2. ASSUME NEW m \in Nat, m \in S PROVE m + 1 \in S
  <2> SUFFICES ASSUME b + (m + 1) <= n
               PROVE  \E f \in [b..(b + (m + 1)) -> D] : Upto(b + (m + 1), f)
    OBVIOUS
  <2> DEFINE k == b + (m + 1)
  <2>1. k \in (b + 1)..n /\ k - 1 = b + m /\ b + m <= n /\ k \in Nat
    OBVIOUS
  <2>2. PICK f \in [b..(k - 1) -> D] : Upto(k - 1, f)
    BY <1>2, <2>1
  <2> DEFINE h == [i \in b..k |-> IF i = k THEN g[<<k, f[k - 1]>>] ELSE f[i]]
  <2> HIDE DEF k
  <2>3. k - 1 \in b..(k - 1) /\ f[k - 1] \in D /\ g[<<k, f[k - 1]>>] \in D
    BY <2>1
  <2>4. h \in [b..k -> D]
    BY <2>1, <2>3
  <2>5. /\ h[k] = g[<<k, f[k - 1]>>]
        /\ \A i \in b..(k - 1) : h[i] = f[i]
    BY <2>1
  <2> HIDE DEF h
  <2>6. ASSUME NEW i \in (b + 1)..k PROVE h[i] = g[<<i, h[i - 1]>>]
    <3>1. i - 1 \in b..(k - 1)
      BY <2>1
    <3>2. CASE i = k
      BY <2>5, <3>1, <3>2
    <3>3. CASE i # k
      <4>1. i \in b..(k - 1) /\ i \in (b + 1)..(k - 1)
        BY <2>1, <3>3
      <4> QED
        BY <2>2, <2>5, <3>1, <4>1
    <3> QED
      BY <3>2, <3>3
  <2>7. b \in b..(k - 1)
    BY <2>1
  <2>8. Upto(k, h)
    BY <2>2, <2>5, <2>6, <2>7
  <2> QED
    BY <2>4, <2>8 DEF k
<1>3. \A m \in Nat : m \in S
  <2> HIDE DEF S
  <2> QED
    BY <1>1, <1>2, Induction
<1>4. n - b \in Nat /\ b + (n - b) = n
  OBVIOUS
<1>5. n - b \in S
  <2> HIDE DEF S
  <2> QED
    BY <1>3, <1>4
<1> QED
  BY <1>4, <1>5 DEF Recursion

(* The last and the first of some positions.                               *)
LEMMA Extremes ==
  ASSUME NEW n \in Nat, NEW S \in SUBSET (1..n), S # {}
  PROVE  /\ HodConfig!Max(S) \in S /\ \A x \in S : x <= HodConfig!Max(S)
         /\ HodConfig!Min(S) \in S /\ \A x \in S : HodConfig!Min(S) <= x
<1>0. S \subseteq Nat
  OBVIOUS
<1>1. \E x \in S : \A y \in S : x <= y
  BY <1>0, LeastOf
<1>2. \E x \in S : \A y \in S : x >= y
  <2> DEFINE T == {n - x : x \in S}
  <2>1. T \subseteq Nat /\ T # {}
    <3>1. \A x \in S : x \in 1..n /\ n - x \in Nat
      OBVIOUS
    <3> QED
      BY <3>1
  <2>2. PICK t \in T : \A u \in T : t <= u
    BY <2>1, LeastOf
  <2>3. PICK x \in S : t = n - x
    OBVIOUS
  <2>4. \A y \in S : n - x <= n - y
    BY <2>2, <2>3
  <2>5. \A y \in S : y \in Nat /\ (n - x <= n - y => x >= y)
    BY <1>0
  <2> QED
    BY <2>4, <2>5
<1> QED
  BY <1>1, <1>2 DEF HodConfig!Max, HodConfig!Min

(* What is flattened consists of what the parts consist of.                *)
LEMMA Flattened ==
  ASSUME NEW S, NEW s \in Seq(Seq(S) \ {<<>>}), s # <<>>
  PROVE  HodConfig!FlattenSeq(s) \in Seq(S) \ {<<>>}
<1> DEFINE n == Len(s)
           D == Seq(S) \ {<<>>}
           g == [x \in ((1 + 1)..n) \X D |-> x[2] \o s[x[1]]]
           P(f) == f = [i \in 1..n |-> IF i = 1 THEN s[i] ELSE f[i - 1] \o s[i]]
<1>1. n \in Nat /\ 1 <= n /\ s[1] \in D /\ \A i \in 1..n : s[i] \in D
  OBVIOUS
<1>2. ASSUME NEW u \in D, NEW v \in D PROVE u \o v \in D
  <2>1. u \in Seq(S) /\ v \in Seq(S) /\ u \o v \in Seq(S) /\ Len(u \o v) = Len(u) + Len(v)
    OBVIOUS
  <2>2. Len(u) # 0 /\ Len(u) \in Nat /\ Len(v) \in Nat
    OBVIOUS
  <2>3. Len(u \o v) # Len(<<>>)
    BY <2>1, <2>2
  <2> QED
    BY <2>1, <2>3
<1> HIDE DEF n, D
<1>3. g \in [((1 + 1)..n) \X D -> D]
  <2>1. ASSUME NEW x \in ((1 + 1)..n) \X D PROVE x[2] \o s[x[1]] \in D
    <3>1. x[1] \in 1..n /\ x[2] \in D
      BY <1>1
    <3> QED
      BY <3>1, <1>1, <1>2
  <2> QED
    BY <2>1
<1>4. PICK f \in [1..n -> D] : f[1] = s[1] /\ \A i \in (1 + 1)..n : f[i] = g[<<i, f[i - 1]>>]
  <2> DEFINE b == 1
             d == s[1]
  <2> HIDE DEF g
  <2>1. b \in Nat /\ n \in Nat /\ b <= n /\ d \in D /\ g \in [((b + 1)..n) \X D -> D]
    BY <1>1, <1>3
  <2> HIDE DEF b, d
  <2>2. Recursion(b, n, D, d, g)
    BY <2>1, RecursionExists, Zenon
  <2> QED
    BY <2>2 DEF b, d, Recursion
<1>5. \A i \in 1..n : f[i] = IF i = 1 THEN s[i] ELSE f[i - 1] \o s[i]
  <2> SUFFICES ASSUME NEW i \in 1..n, i # 1 PROVE f[i] = f[i - 1] \o s[i]
    BY <1>4
  <2>1. i \in (1 + 1)..n /\ i - 1 \in 1..n
    BY <1>1
  <2>2. <<i, f[i - 1]>> \in ((1 + 1)..n) \X D
    BY <2>1
  <2> QED
    BY <1>4, <2>1, <2>2
<1>6. P(f)
  <2>1. f = [i \in 1..n |-> f[i]]
    OBVIOUS
  <2> QED
    BY <1>5, <2>1
<1> DEFINE p == CHOOSE q : P(q)
<1>7. P(p)
  <2> HIDE DEF P
  <2> QED
    BY <1>6, Zenon
<1>8. HodConfig!FlattenSeq(s) = p[n]
  <2>1. Len(s) # 0
    BY <1>1 DEF n
  <2> QED
    BY <2>1 DEF HodConfig!FlattenSeq, n
<1> HIDE DEF p
<1>9. \A i \in 1..n : p[i] = IF i = 1 THEN s[i] ELSE p[i - 1] \o s[i]
  BY <1>7
<1> DEFINE T == {m \in Nat : m + 1 <= n => p[m + 1] \in D}
<1>10. 0 \in T
  BY <1>1, <1>9
<1>11. ASSUME NEW m \in Nat, m \in T PROVE m + 1 \in T
  <2> SUFFICES ASSUME (m + 1) + 1 <= n PROVE p[(m + 1) + 1] \in D
    OBVIOUS
  <2>1. m + 1 \in 1..n /\ (m + 1) + 1 \in 1..n /\ (m + 1) + 1 # 1 /\ ((m + 1) + 1) - 1 = m + 1
    BY <1>1
  <2>2. p[m + 1] \in D /\ s[(m + 1) + 1] \in D
    BY <1>1, <1>11, <2>1
  <2>3. p[(m + 1) + 1] = p[m + 1] \o s[(m + 1) + 1]
    BY <1>9, <2>1
  <2> QED
    BY <1>2, <2>2, <2>3
<1>12. \A m \in Nat : m \in T
  <2> HIDE DEF T
  <2> QED
    BY <1>10, <1>11, Induction
<1>13. n - 1 \in Nat /\ (n - 1) + 1 = n
  BY <1>1
<1> QED
  BY <1>8, <1>12, <1>13 DEF D

(* One entry into a dictionary, and all of them.                           *)
Put(items, skipped, overwrite, i, e) ==
  IF items[i] \in skipped \/ (HodConfig!Key(items[i]) \in DOMAIN e /\ ~overwrite) THEN e
  ELSE [x \in DOMAIN e \cup {HodConfig!Key(items[i])} |-> IF x = HodConfig!Key(items[i]) THEN HodConfig!Value(items[i]) ELSE e[x]]

(* Entering a list is a Put for each of its items.                         *)
LEMMA EnteredSteps ==
  ASSUME NEW T, NEW items \in Seq(T), NEW d, d = [k \in DOMAIN d |-> d[k]],
         NEW skipped, NEW overwrite \in BOOLEAN
  PROVE  \E f : /\ f[0] = d
                /\ \A i \in 1..Len(items) : f[i] = Put(items, skipped, overwrite, i, f[i - 1])
                /\ f[Len(items)] = HodConfig!Entered(d, items, skipped, overwrite)
<1> DEFINE n == Len(items)
           K == DOMAIN d \cup {HodConfig!Key(items[i]) : i \in 1..n}
           V == {HodConfig!Value(items[i]) : i \in 1..n} \cup {d[k] : k \in DOMAIN d}
           D == UNION {[S -> V] : S \in SUBSET K}
           put(i, e) == Put(items, skipped, overwrite, i, e)
           g == [x \in ((0 + 1)..n) \X D |-> put(x[1], x[2])]
           P(f) == f = [i \in 0..n |-> IF i = 0 THEN d ELSE put(i, f[i - 1])]
<1>1. n \in Nat
  OBVIOUS
<1>2. d \in D
  <2>1. d \in [DOMAIN d -> V] /\ DOMAIN d \in SUBSET K
    OBVIOUS
  <2> HIDE DEF K, V
  <2> QED
    BY <2>1
<1>3. ASSUME NEW i \in 1..n, NEW e \in D PROVE put(i, e) \in D
  <2> DEFINE k == HodConfig!Key(items[i])
             v == HodConfig!Value(items[i])
             h == [x \in DOMAIN e \cup {k} |-> IF x = k THEN v ELSE e[x]]
  <2>1. k \in K /\ v \in V
    OBVIOUS
  <2> HIDE DEF K, V
  <2>2. PICK S \in SUBSET K : e \in [S -> V]
    OBVIOUS
  <2>3. put(i, e) = e \/ put(i, e) = h
    BY DEF Put
  <2> HIDE DEF k, v
  <2>4. h \in [S \cup {k} -> V] /\ S \cup {k} \in SUBSET K
    BY <2>1, <2>2
  <2>5. h \in D
    BY <2>4
  <2> HIDE DEF h, D
  <2> QED
    BY <2>3, <2>5
<1> HIDE DEF n, D, put
<1>4. g \in [((0 + 1)..n) \X D -> D]
  <2>1. ASSUME NEW x \in ((0 + 1)..n) \X D PROVE put(x[1], x[2]) \in D
    <3>1. x[1] \in 1..n /\ x[2] \in D
      OBVIOUS
    <3> QED
      BY <3>1, <1>3
  <2> QED
    BY <2>1
<1>5. PICK f \in [0..n -> D] : f[0] = d /\ \A i \in (0 + 1)..n : f[i] = g[<<i, f[i - 1]>>]
  <2> DEFINE b == 0
  <2> HIDE DEF g
  <2>1. b \in Nat /\ n \in Nat /\ b <= n /\ d \in D /\ g \in [((b + 1)..n) \X D -> D]
    BY <1>1, <1>2, <1>4
  <2> HIDE DEF b
  <2>2. Recursion(b, n, D, d, g)
    BY <2>1, RecursionExists, Zenon
  <2> QED
    BY <2>2 DEF b, Recursion
<1>6. \A i \in 0..n : f[i] = IF i = 0 THEN d ELSE put(i, f[i - 1])
  <2> SUFFICES ASSUME NEW i \in 0..n, i # 0 PROVE f[i] = put(i, f[i - 1])
    BY <1>5
  <2>1. i \in (0 + 1)..n /\ i - 1 \in 0..n
    BY <1>1
  <2>2. <<i, f[i - 1]>> \in ((0 + 1)..n) \X D
    BY <2>1
  <2> QED
    BY <1>5, <2>1, <2>2
<1>7. \E p : P(p)
  BY <1>6
<1> DEFINE p == CHOOSE q : P(q)
<1>8. P(p)
  BY <1>7
<1>9. p[n] = HodConfig!Entered(d, items, skipped, overwrite)
  BY DEF HodConfig!Entered, n, put, Put
<1> HIDE DEF p
<1>10. p[0] = d /\ \A i \in 1..n : p[i] = put(i, p[i - 1])
  <2>1. \A i \in 0..n : p[i] = IF i = 0 THEN d ELSE put(i, p[i - 1])
    BY <1>8
  <2>2. 0 \in 0..n /\ \A i \in 1..n : i \in 0..n /\ i # 0
    BY <1>1
  <2> QED
    BY <2>1, <2>2
<1> QED
  BY <1>9, <1>10 DEF n, put

(* Whose value a key has after the first n entries.                        *)
Positions(items, skipped, n, k) == {j \in 1..n : items[j] \notin skipped /\ HodConfig!Key(items[j]) = k}
HasValue(d, items, skipped, overwrite, n, e, k) ==
  LET E == Positions(items, skipped, n, k)
  IN IF E = {} \/ (~overwrite /\ k \in DOMAIN d) THEN e[k] = d[k]
     ELSE \E j \in E : /\ e[k] = HodConfig!Value(items[j])
                       /\ \A i \in E : IF overwrite THEN i <= j ELSE j <= i
Means(d, items, skipped, overwrite, n, e) ==
  /\ IsFiniteSet(DOMAIN e) /\ e = [k \in DOMAIN e |-> e[k]]
  /\ \A k : k \in DOMAIN e <=> k \in DOMAIN d \/ Positions(items, skipped, n, k) # {}
  /\ \A k \in DOMAIN e : HasValue(d, items, skipped, overwrite, n, e, k)

(* One more item leaves the meaning of what is entered as it should be.    *)
LEMMA PutMeans ==
  ASSUME NEW items, NEW d, NEW skipped, NEW overwrite \in BOOLEAN, NEW n \in Nat, NEW e,
         Means(d, items, skipped, overwrite, n, e)
  PROVE  Means(d, items, skipped, overwrite, n + 1, Put(items, skipped, overwrite, n + 1, e))
<1> DEFINE h == Put(items, skipped, overwrite, n + 1, e)
           q == HodConfig!Key(items[n + 1])
           E(k) == Positions(items, skipped, n, k)
           F(k) == Positions(items, skipped, n + 1, k)
<1>1. \A k : F(k) = IF items[n + 1] \notin skipped /\ q = k THEN E(k) \cup {n + 1} ELSE E(k)
  BY DEF Positions
<1>2. \A k : E(k) \subseteq 1..n
  BY DEF Positions
<1>3. CASE items[n + 1] \in skipped
  <2>1. h = e /\ \A k : F(k) = E(k)
    BY <1>1, <1>3 DEF Put
  <2> HIDE DEF h, E, F
  <2>2. Means(d, items, skipped, overwrite, n + 1, e)
    BY <2>1 DEF Means, HasValue, E, F
  <2> QED
    BY <2>1, <2>2 DEF h
<1>4. CASE items[n + 1] \notin skipped /\ q \in DOMAIN e /\ ~overwrite
  <2>1. h = e /\ \A k : F(k) = IF q = k THEN E(k) \cup {n + 1} ELSE E(k)
    BY <1>1, <1>4 DEF Put
  <2> HIDE DEF h, F, q, E
  <2>2. \A k : k \in DOMAIN e <=> k \in DOMAIN d \/ F(k) # {}
    BY <1>4, <2>1 DEF Means, E
  <2>3. ASSUME NEW k \in DOMAIN e PROVE HasValue(d, items, skipped, overwrite, n + 1, e, k)
    <3>1. HasValue(d, items, skipped, overwrite, n, e, k)
      BY DEF Means
    <3>2. CASE k \in DOMAIN d
      BY <1>4, <3>1, <3>2 DEF HasValue
    <3>3. CASE k \notin DOMAIN d
      <4>1. E(k) # {}
        BY <3>3 DEF Means, E
      <4>2. PICK j \in E(k) : e[k] = HodConfig!Value(items[j]) /\ \A i \in E(k) : j <= i
        BY <1>4, <3>1, <3>3, <4>1 DEF HasValue, E
      <4>3. j \in F(k) /\ \A i \in F(k) : j <= i
        <5>1. j <= n + 1
          BY <1>2
        <5> QED
          BY <2>1, <4>2, <5>1
      <4>4. \E x \in F(k) : /\ e[k] = HodConfig!Value(items[x])
                            /\ \A i \in F(k) : IF overwrite THEN i <= x ELSE x <= i
        BY <1>4, <4>2, <4>3
      <4>5. F(k) # {}
        BY <4>3
      <4> QED
        BY <1>4, <3>3, <4>4, <4>5 DEF HasValue, F
    <3> QED
      BY <3>2, <3>3
  <2> QED
    BY <2>1, <2>2, <2>3 DEF Means, F, h
<1>5. CASE items[n + 1] \notin skipped /\ (q \notin DOMAIN e \/ overwrite)
  <2>1. h = [x \in DOMAIN e \cup {q} |-> IF x = q THEN HodConfig!Value(items[n + 1]) ELSE e[x]]
    BY <1>5 DEF Put
  <2>2. \A k : F(k) = IF q = k THEN E(k) \cup {n + 1} ELSE E(k)
    BY <1>1, <1>5
  <2> HIDE DEF h, F, q, E
  <2>3. DOMAIN h = DOMAIN e \cup {q} /\ h = [k \in DOMAIN h |-> h[k]]
    BY <2>1
  <2>4. IsFiniteSet(DOMAIN h)
    <3>1. IsFiniteSet(DOMAIN e)
      BY DEF Means
    <3> QED
      BY <3>1, <2>3, FS_AddElement
  <2>5. \A k : k \in DOMAIN h <=> k \in DOMAIN d \/ F(k) # {}
    BY <2>2, <2>3 DEF Means, E
  <2>6. ASSUME NEW k \in DOMAIN h PROVE HasValue(d, items, skipped, overwrite, n + 1, h, k)
    <3>1. CASE k = q
      <4>1. h[k] = HodConfig!Value(items[n + 1]) /\ n + 1 \in F(k)
        BY <2>1, <2>2, <3>1
      <4>2. CASE overwrite
        <5> DEFINE m == n + 1
        <5>1. \A i \in F(k) : i <= m
          BY <1>2, <2>2, <3>1
        <5>2. h[k] = HodConfig!Value(items[m]) /\ m \in F(k)
          BY <4>1
        <5> HIDE DEF m
        <5>3. \E j \in F(k) : /\ h[k] = HodConfig!Value(items[j])
                              /\ \A i \in F(k) : IF overwrite THEN i <= j ELSE j <= i
          BY <4>2, <5>1, <5>2
        <5> QED
          BY <4>1, <4>2, <5>3 DEF HasValue, F
      <4>3. CASE ~overwrite
        <5>1. k \notin DOMAIN d /\ E(k) = {}
          BY <1>5, <3>1, <4>3 DEF Means, E
        <5>2. \A i \in F(k) : n + 1 <= i
          BY <2>2, <5>1
        <5> QED
          BY <4>1, <4>3, <5>1, <5>2 DEF HasValue, F
      <4> QED
        BY <4>2, <4>3
    <3>2. CASE k # q
      <4>1. k \in DOMAIN e /\ h[k] = e[k] /\ F(k) = E(k)
        BY <2>1, <2>2, <2>3, <3>2
      <4>2. HasValue(d, items, skipped, overwrite, n, e, k)
        BY <4>1 DEF Means
      <4> QED
        BY <4>1, <4>2 DEF HasValue, E, F
    <3> QED
      BY <3>1, <3>2
  <2> QED
    BY <2>3, <2>4, <2>5, <2>6 DEF Means, F, h
<1> QED
  BY <1>3, <1>4, <1>5

(* So a dictionary says what the items mean, however many they are.        *)
LEMMA EnteredMeans ==
  ASSUME NEW T, NEW items \in Seq(T), NEW d, d = [k \in DOMAIN d |-> d[k]], IsFiniteSet(DOMAIN d),
         NEW skipped, NEW overwrite \in BOOLEAN
  PROVE  Means(d, items, skipped, overwrite, Len(items), HodConfig!Entered(d, items, skipped, overwrite))
<1> DEFINE n == Len(items)
           M(i, e) == Means(d, items, skipped, overwrite, i, e)
<1>1. PICK f : /\ f[0] = d
               /\ \A i \in 1..n : f[i] = Put(items, skipped, overwrite, i, f[i - 1])
               /\ f[n] = HodConfig!Entered(d, items, skipped, overwrite)
  BY EnteredSteps
<1> DEFINE S == {i \in Nat : i <= n => M(i, f[i])}
<1>2. 0 \in S
  <2>1. \A k : Positions(items, skipped, 0, k) = {}
    BY DEF Positions
  <2>2. \A k : HasValue(d, items, skipped, overwrite, 0, d, k)
    BY <2>1 DEF HasValue
  <2>3. M(0, d)
    BY <2>1, <2>2 DEF Means
  <2> QED
    BY <1>1, <2>3
<1>3. ASSUME NEW i \in Nat, i \in S PROVE i + 1 \in S
  <2> SUFFICES ASSUME i + 1 <= n PROVE M(i + 1, f[i + 1])
    OBVIOUS
  <2>1. n \in Nat /\ i + 1 \in 1..n /\ (i + 1) - 1 = i /\ i <= n
    OBVIOUS
  <2>2. M(i, f[i])
    BY <1>3, <2>1
  <2>3. M(i + 1, Put(items, skipped, overwrite, i + 1, f[i]))
    BY <2>2, PutMeans
  <2> QED
    BY <1>1, <2>1, <2>3
<1>4. \A i \in Nat : i \in S
  <2> HIDE DEF S
  <2> QED
    BY <1>2, <1>3, Induction
<1>5. n \in Nat /\ n <= n
  OBVIOUS
<1> QED
  BY <1>1, <1>4, <1>5

(* The definitions that name the comma, without it in their text.          *)
Keyval(v, p) ==
  IF ~HodConfig!IsText(v) \/ \E i \in DOMAIN p : Len(HodConfig!Parts("=", p[i])) # 2 THEN {}
  ELSE LET items == [i \in DOMAIN p |-> HodConfig!Parts("=", p[i])]
           keys == {items[i][1] : i \in DOMAIN items}
           last(k) == CHOOSE i \in DOMAIN items :
                        items[i][1] = k /\ \A j \in DOMAIN items : items[j][1] = k => j <= i
       IN {[dict |-> [k \in keys |-> items[last(k)][2]]]}

(* The operators of Types that have a comma, with its name instead.        *)
LEMMA NoComma ==
  /\ \A v : HodConfig!norm_keyval(v) = Keyval(v, HodConfig!Parts(HodConfig!Comma, v))
  /\ \A v : HodConfig!verify_keyval(v) = IF \E i \in DOMAIN HodConfig!Parts(HodConfig!Comma, v) : Len(HodConfig!Parts("=", HodConfig!Parts(HodConfig!Comma, v)[i])) > 1
                               THEN HodConfig!Try(HodConfig!norm_keyval(v)) ELSE {HodConfig!Invalid}
  /\ \A v : HodConfig!norm_list(v) = IF HodConfig!IsText(v) THEN {[list |-> HodConfig!Parts(HodConfig!Comma, v)]} ELSE {}
  /\ \A v : HodConfig!tostring_list(v) = HodConfig!Join(HodConfig!Comma, v.list)
<1>1. \A v : HodConfig!norm_keyval(v) = Keyval(v, HodConfig!Parts(HodConfig!Comma, v))
  BY Zenon DEF HodConfig!norm_keyval, Keyval, HodConfig!Comma
<1>2. \A v : HodConfig!verify_keyval(v) = IF \E i \in DOMAIN HodConfig!Parts(HodConfig!Comma, v) : Len(HodConfig!Parts("=", HodConfig!Parts(HodConfig!Comma, v)[i])) > 1
                                THEN HodConfig!Try(HodConfig!norm_keyval(v)) ELSE {HodConfig!Invalid}
  BY Zenon DEF HodConfig!verify_keyval, HodConfig!Comma
<1>3. \A v : HodConfig!norm_list(v) = IF HodConfig!IsText(v) THEN {[list |-> HodConfig!Parts(HodConfig!Comma, v)]} ELSE {}
  BY Zenon DEF HodConfig!norm_list, HodConfig!Comma
<1>4. \A v : HodConfig!tostring_list(v) = HodConfig!Join(HodConfig!Comma, v.list)
  BY Zenon DEF HodConfig!tostring_list, HodConfig!Comma
<1> QED
  BY <1>1, <1>2, <1>3, <1>4

(* The order in which the keys come.                                       *)
LEMMA Enumerated ==
  ASSUME NEW S, IsFiniteSet(S)
  PROVE  /\ Cardinality(S) \in Nat
         /\ HodConfig!SetToSeq(S) \in [1..Cardinality(S) -> S]
         /\ \A i, j \in 1..Cardinality(S) : HodConfig!SetToSeq(S)[i] = HodConfig!SetToSeq(S)[j] => i = j
         /\ \A x \in S : \E i \in 1..Cardinality(S) : HodConfig!SetToSeq(S)[i] = x
<1> DEFINE n == Cardinality(S)
           f == HodConfig!SetToSeq(S)
<1>1. n \in Nat /\ ExistsBijection(1..n, S)
  BY FS_CardinalityType
<1>2. PICK g \in [1..n -> S] : \A i, j \in 1..n : g[i] = g[j] => i = j
  <2>1. PICK g \in Bijection(1..n, S) : TRUE
    BY <1>1 DEF ExistsBijection
  <2> QED
    BY <2>1, Fun_BijectionProperties
<1>3. HodConfig!IsInjective(g)
  BY <1>2 DEF HodConfig!IsInjective
<1>4. f \in [1..n -> S] /\ HodConfig!IsInjective(f)
  <2>1. f = CHOOSE h \in [1..n -> S] : HodConfig!IsInjective(h)
    BY DEF HodConfig!SetToSeq, HodConfig!Cardinality, Cardinality
  <2> HIDE DEF f, n
  <2> QED
    BY <1>2, <1>3, <2>1
<1>5. \A i, j \in 1..n : f[i] = f[j] => i = j
  BY <1>4 DEF HodConfig!IsInjective
<1>6. f \in Injection(1..n, S)
  <2> HIDE DEF f, n
  <2> QED
    BY <1>4, <1>5, Fun_IsInj
<1>7. Cardinality(1..n) = n
  BY <1>1, FS_Interval
<1>8. f \in Surjection(1..n, S)
  <2> HIDE DEF f
  <2> QED
    BY <1>6, <1>7, FS_Injection
<1>9. \A x \in S : \E i \in 1..n : f[i] = x
  <2> HIDE DEF f
  <2> QED
    BY <1>8 DEF Surjection
<1> QED
  BY <1>1, <1>4, <1>5, <1>9

(* Texts are cut where they were joined.                                   *)
LEMMA Cut ==
  ASSUME NEW c, NEW S, NEW s \in Seq(S), Len(s) = 1 => HodConfig!Parts(c, s[1]) = <<s[1]>>
  PROVE  HodConfig!Parts(c, HodConfig!Join(c, s)) = s
<1>1. CASE Len(s) = 1
  BY <1>1 DEF HodConfig!Join
<1>2. CASE Len(s) # 1
  <2> DEFINE r == [sep |-> c, parts |-> s]
  <2>1. HodConfig!Join(c, s) = r
    BY <1>2 DEF HodConfig!Join
  <2>2. "sep" \in DOMAIN r /\ r.sep = c /\ r.parts = s
    OBVIOUS
  <2> HIDE DEF r
  <2> QED
    BY <2>1, <2>2 DEF HodConfig!Parts, HodConfig!Has
<1> QED
  BY <1>1, <1>2

LEMMA EmptyIsWhole == HodConfig!Whole(HodConfig!Empty)
<1>1. "sep" \notin DOMAIN HodConfig!Empty
  BY DEF HodConfig!Empty, HodConfig!Word
<1> QED
  BY <1>1 DEF HodConfig!Whole, HodConfig!Parts, HodConfig!Has

(* The value of a parameter: nothing, or what follows the first '='.       *)
ValueText(v) ==
  v = HodConfig!NoValue \/ \E S : (\A u \in S : HodConfig!Whole(u)) /\ \E s \in Seq(S) \ {<<>>} : v = HodConfig!Join("=", s)

(* A parameter is cut into a key without separators and a value.           *)
LEMMA ItemParts ==
  ASSUME NEW t, HodConfig!ItemText(t)
  PROVE  /\ HodConfig!Whole(HodConfig!Key(t))
         /\ ValueText(HodConfig!Value(t))
<1> DEFINE p == HodConfig!Parts("=", t)
           S == {u \in HodConfig!Range(p) : HodConfig!Whole(u)}
<1>1. p \in Seq(S) /\ p # <<>>
  BY DEF HodConfig!ItemText
<1> HIDE DEF p, S
<1>2. Len(p) \in Nat /\ 1 \in 1..Len(p) /\ p[1] \in S
  BY <1>1
<1>3. HodConfig!Whole(HodConfig!Key(t))
  BY <1>2 DEF HodConfig!Key, p, S
<1>4. CASE Len(p) = 1
  BY <1>3, <1>4 DEF HodConfig!Value, ValueText, p
<1>5. CASE Len(p) # 1
  <2>1. Tail(p) \in Seq(S) /\ Len(Tail(p)) = Len(p) - 1
    BY <1>1
  <2>2. Tail(p) # <<>>
    BY <1>2, <1>5, <2>1
  <2>3. HodConfig!Value(t) = HodConfig!Join("=", Tail(p))
    BY <1>5 DEF HodConfig!Value, p
  <2>4. \E s \in Seq(S) \ {<<>>} : HodConfig!Value(t) = HodConfig!Join("=", s)
    BY <2>1, <2>2, <2>3
  <2>5. \A u \in S : HodConfig!Whole(u)
    BY DEF S
  <2> QED
    BY <1>3, <2>4, <2>5 DEF ValueText
<1> QED
  BY <1>4, <1>5

(* What verify makes of a list of parameters that it accepts.              *)
Reads(r, p) ==
  /\ \A i \in 1..Len(p) : Len(HodConfig!Parts("=", p[i])) = 2
  /\ DOMAIN r = {HodConfig!Key(p[i]) : i \in 1..Len(p)}
  /\ \A k \in DOMAIN r : r[k] = HodConfig!Parts("=", p[HodConfig!Max({i \in 1..Len(p) : HodConfig!Key(p[i]) = k})])[2]

(* What verify_keyval accepts has a key and a value in every part, and the *)
(* last value of a key is the one read.                                    *)
LEMMA Accepted ==
  ASSUME NEW v, NEW T, NEW p \in Seq(T), p = HodConfig!Parts(HodConfig!Comma, v), HodConfig!verify_keyval(v) # {HodConfig!Invalid}
  PROVE  Reads((CHOOSE x \in HodConfig!verify_keyval(v) : TRUE).normalized.dict, p)
<1> DEFINE n == Len(p)
           q == [i \in DOMAIN p |-> HodConfig!Parts("=", p[i])]
           keys == {q[i][1] : i \in DOMAIN q}
           spots(k) == {i \in 1..n : HodConfig!Key(p[i]) = k}
           last(k) == CHOOSE i \in DOMAIN q : q[i][1] = k /\ \A j \in DOMAIN q : q[j][1] = k => j <= i
           d == [k \in keys |-> q[last(k)][2]]
           r == (CHOOSE x \in HodConfig!verify_keyval(v) : TRUE).normalized
<1>1. DOMAIN p = 1..n /\ n \in Nat /\ DOMAIN q = 1..n
  OBVIOUS
<1>2. HodConfig!norm_keyval(v) # {}
  BY NoComma DEF HodConfig!Try
<1>3. \A i \in 1..n : Len(HodConfig!Parts("=", p[i])) = 2
  BY <1>1, <1>2, NoComma DEF Keyval
<1>4. HodConfig!norm_keyval(v) = {[dict |-> d]}
  <2>1. HodConfig!IsText(v) /\ ~ \E i \in DOMAIN p : Len(HodConfig!Parts("=", p[i])) # 2
    BY <1>2, NoComma DEF Keyval
  <2>2. HodConfig!norm_keyval(v) = Keyval(v, p)
    BY NoComma
  <2>3. Keyval(v, p) = {[dict |-> d]}
    BY <2>1, Zenon DEF Keyval
  <2> QED
    BY <2>2, <2>3
<1>5. HodConfig!verify_keyval(v) = {HodConfig!Valid([dict |-> d])}
  <2>1. HodConfig!verify_keyval(v) = HodConfig!Try(HodConfig!norm_keyval(v))
    BY NoComma
  <2> HIDE DEF d
  <2> QED
    BY <1>4, <2>1 DEF HodConfig!Try
<1>6. r.dict = d
  <2> DEFINE c == CHOOSE x \in HodConfig!verify_keyval(v) : TRUE
  <2> HIDE DEF d
  <2>1. c = HodConfig!Valid([dict |-> d])
    BY <1>5
  <2> HIDE DEF c
  <2>2. c.normalized.dict = d
    BY <2>1 DEF HodConfig!Valid
  <2> QED
    BY <2>2 DEF c
<1>7. \A i \in 1..n : q[i][1] = HodConfig!Key(p[i])
  BY <1>1 DEF HodConfig!Key
<1>8. ASSUME NEW k \in keys PROVE d[k] = HodConfig!Parts("=", p[HodConfig!Max(spots(k))])[2]
  <2>1. spots(k) # {} /\ spots(k) \in SUBSET (1..n)
    BY <1>1, <1>7
  <2>2. HodConfig!Max(spots(k)) \in spots(k) /\ \A x \in spots(k) : x <= HodConfig!Max(spots(k))
    <3> HIDE DEF spots, n
    <3> QED
      BY <1>1, <2>1, Extremes
  <2>3. \A i \in 1..n : i \in spots(k) <=> q[i][1] = k
    BY <1>1, <1>7
  <2> DEFINE L(i) == q[i][1] = k /\ \A j \in 1..n : q[j][1] = k => j <= i
             m == HodConfig!Max(spots(k))
  <2>4. m \in 1..n /\ L(m)
    <3> HIDE DEF q, n
    <3> QED
      BY <2>2, <2>3
  <2>5. \A i \in 1..n : L(i) => i = m
    <3> SUFFICES ASSUME NEW i \in 1..n, L(i) PROVE i = m
      OBVIOUS
    <3> HIDE DEF q, n, m
    <3>1. m \in 1..n /\ m <= i /\ i <= m
      BY <1>1, <2>4
    <3> HIDE DEF L
    <3> QED
      BY <1>1, <3>1
  <2>6. last(k) = m
    <3> HIDE DEF L, m
    <3>1. last(k) = CHOOSE i \in 1..n : L(i)
      BY <1>1 DEF L
    <3> HIDE DEF last
    <3> QED
      BY <2>4, <2>5, <3>1
  <2> HIDE DEF m, last, spots
  <2>7. q[m] = HodConfig!Parts("=", p[m])
    BY <1>1, <2>4
  <2> HIDE DEF q
  <2> QED
    BY <2>6, <2>7 DEF m
<1>9. DOMAIN d = {HodConfig!Key(p[i]) : i \in 1..n} /\ DOMAIN d = keys
  <2> HIDE DEF q, n
  <2> QED
    BY <1>1, <1>7
<1>10. DOMAIN r.dict = {HodConfig!Key(p[i]) : i \in 1..n}
  <2> HIDE DEF d, r
  <2> QED
    BY <1>6, <1>9
<1>11. ASSUME NEW k \in DOMAIN r.dict PROVE r.dict[k] = HodConfig!Parts("=", p[HodConfig!Max(spots(k))])[2]
  <2> HIDE DEF d, r, spots, keys
  <2> QED
    BY <1>6, <1>8, <1>9
<1> DEFINE f == r.dict
<1>12. Reads(f, p)
  <2> HIDE DEF r
  <2> QED
    BY <1>3, <1>10, <1>11 DEF Reads
<1> QED
  BY <1>12

(* The text of one key and its value.                                      *)
LEMMA ItemMeans ==
  ASSUME NEW k, HodConfig!Whole(k), NEW v, ValueText(v)
  PROVE  /\ HodConfig!Parts(HodConfig!Comma, HodConfig!Item(k, v)) = <<HodConfig!Item(k, v)>>
         /\ HodConfig!Item(k, v) = HodConfig!Empty => k = HodConfig!Empty
         /\ \/ Len(HodConfig!Parts("=", HodConfig!Item(k, v))) # 2
            \/ HodConfig!Key(HodConfig!Item(k, v)) = k /\ HodConfig!Parts("=", HodConfig!Item(k, v))[2] = v
<1> DEFINE t == HodConfig!Item(k, v)
<1>1. CASE v \in {HodConfig!NoValue, HodConfig!Empty}
  <2>1. t = k
    BY <1>1 DEF HodConfig!Item
  <2>2. HodConfig!Parts(HodConfig!Comma, k) = <<k>> /\ HodConfig!Parts("=", k) = <<k>> /\ Len(<<k>>) = 1
    BY DEF HodConfig!Whole
  <2> HIDE DEF t
  <2> QED
    BY <2>1, <2>2 DEF t
<1>2. CASE v \notin {HodConfig!NoValue, HodConfig!Empty}
  <2> DEFINE q == <<k>> \o HodConfig!Parts("=", v)
  <2>0. PICK S : (\A u \in S : HodConfig!Whole(u)) /\ \E s \in Seq(S) \ {<<>>} : v = HodConfig!Join("=", s)
    BY <1>2 DEF ValueText
  <2>1. PICK s \in Seq(S) \ {<<>>} : v = HodConfig!Join("=", s)
    BY <2>0
  <2>2. Len(s) \in Nat /\ Len(s) # 0 /\ (Len(s) = 1 => s[1] \in S)
    BY <2>1
  <2>3. HodConfig!Parts("=", v) = s
    BY <2>0, <2>1, <2>2, Cut DEF HodConfig!Whole
  <2>4. q \in Seq(S \cup {k}) /\ Len(q) = 1 + Len(s) /\ q[1] = k /\ \A i \in 1..Len(s) : q[i + 1] = s[i]
    BY <2>1, <2>3
  <2>5. t = HodConfig!Join("=", q)
    BY <1>2 DEF HodConfig!Item
  <2> HIDE DEF q, t
  <2>6. Len(q) # 1
    BY <2>2, <2>4
  <2> DEFINE r == [sep |-> "=", parts |-> q]
  <2>7. t = r
    BY <2>5, <2>6 DEF HodConfig!Join
  <2>8. HodConfig!Parts("=", t) = q
    BY <2>4, <2>5, <2>6, Cut
  <2>9. HodConfig!Parts(HodConfig!Comma, t) = <<t>>
    <3>1. r.sep = "=" /\ "=" # HodConfig!Comma
      BY Zenon DEF HodConfig!Comma
    <3> HIDE DEF r
    <3> QED
      BY <2>7, <3>1 DEF HodConfig!Parts
  <2>10. t # HodConfig!Empty
    <3>1. "sep" \in DOMAIN r /\ "sep" \notin DOMAIN HodConfig!Empty
      BY DEF HodConfig!Empty, HodConfig!Word
    <3> HIDE DEF r
    <3> QED
      BY <2>7, <3>1
  <2>11. ASSUME Len(q) = 2 PROVE HodConfig!Key(t) = k /\ q[2] = v
    <3>0. Len(q) = 1 + Len(s) /\ Len(s) \in Nat
      BY <2>2, <2>4
    <3>1. Len(s) = 1 /\ 1 \in 1..Len(s) /\ 1 + 1 = 2
      <4> DEFINE m == Len(s)
      <4>1. m \in Nat /\ 1 + m = 2
        BY <3>0, <2>11
      <4> HIDE DEF m
      <4>2. m = 1 /\ 1 \in 1..m /\ 1 + 1 = 2
        BY <4>1
      <4> QED
        BY <4>2 DEF m
    <3>2. q[2] = s[1] /\ v = s[1]
      BY <2>1, <2>4, <3>1 DEF HodConfig!Join
    <3> QED
      BY <2>4, <2>8, <3>2 DEF HodConfig!Key
  <2> QED
    BY <2>8, <2>9, <2>10, <2>11 DEF t
<1> QED
  BY <1>1, <1>2

(* A dictionary whose text is accepted is what verify makes of that text.  *)
LEMMA AsTextMeans ==
  ASSUME NEW d, IsFiniteSet(DOMAIN d), DOMAIN d # {},
         \A k \in DOMAIN d : HodConfig!Whole(k) /\ ValueText(d[k]),
         HodConfig!verify_keyval(HodConfig!AsText(d)) # {HodConfig!Invalid},
         NEW r, r = (CHOOSE x \in HodConfig!verify_keyval(HodConfig!AsText(d)) : TRUE).normalized.dict
  PROVE  /\ DOMAIN r \ {HodConfig!Empty} = DOMAIN d \ {HodConfig!Empty}
         /\ \A k \in DOMAIN d \ {HodConfig!Empty} : r[k] = d[k]
<1> DEFINE K == DOMAIN d
           n == Cardinality(K)
           keys == HodConfig!SetToSeq(K)
           items == [i \in DOMAIN keys |-> HodConfig!Item(keys[i], d[keys[i]])]
           I == {items[i] : i \in 1..n}
           cut == Len(items) > 1 /\ items[1] = HodConfig!Empty
           J == IF cut THEN Tail(items) ELSE items
           o == IF cut THEN 1 ELSE 0
           m == n - o
           v == HodConfig!AsText(d)
<1>1. /\ n \in Nat /\ keys \in [1..n -> K]
      /\ \A i, j \in 1..n : keys[i] = keys[j] => i = j
      /\ \A x \in K : \E i \in 1..n : keys[i] = x
  BY Enumerated
<1>2. n # 0
  BY <1>1
<1>3. v = HodConfig!Join(HodConfig!Comma, J)
  BY DEF HodConfig!AsText, v
<1> HIDE DEF K, n, keys, v
<1>4. items \in [1..n -> I] /\ \A i \in 1..n : items[i] = HodConfig!Item(keys[i], d[keys[i]])
  BY <1>1
<1>5. items \in Seq(I) /\ Len(items) = n
  <2> HIDE DEF items, I
  <2> QED
    BY <1>1, <1>4
<1> HIDE DEF items, I, cut
<1>6. o \in 0..1 /\ m \in Nat /\ m # 0 /\ (o = 1 => items[1] = HodConfig!Empty)
  BY <1>1, <1>2, <1>5 DEF cut
<1>7. J \in Seq(I) /\ Len(J) = m /\ \A i \in 1..m : i + o \in 1..n /\ J[i] = items[i + o]
  <2>1. CASE cut
    <3>1. Tail(items) \in Seq(I) /\ Len(Tail(items)) = n - 1 /\ \A i \in 1..(n - 1) : Tail(items)[i] = items[i + 1]
      BY <1>1, <1>2, <1>5
    <3> QED
      BY <1>1, <2>1, <3>1
  <2>2. CASE ~cut
    BY <1>1, <1>5, <2>2
  <2> QED
    BY <2>1, <2>2
<1> HIDE DEF J, o, m
<1>8. \A i \in 1..n : keys[i] \in DOMAIN d /\ HodConfig!Whole(keys[i]) /\ ValueText(d[keys[i]])
  BY <1>1 DEF K
<1>9. ASSUME NEW i \in 1..n
      PROVE  /\ HodConfig!Parts(HodConfig!Comma, items[i]) = <<items[i]>>
             /\ items[i] = HodConfig!Empty => keys[i] = HodConfig!Empty
             /\ \/ Len(HodConfig!Parts("=", items[i])) # 2
                \/ HodConfig!Key(items[i]) = keys[i] /\ HodConfig!Parts("=", items[i])[2] = d[keys[i]]
  BY <1>4, <1>8, ItemMeans
<1>10. HodConfig!Parts(HodConfig!Comma, v) = J
  <2>1. m = 1 => 1 \in 1..m
    BY <1>6
  <2>2. ASSUME m = 1 PROVE HodConfig!Parts(HodConfig!Comma, J[1]) = <<J[1]>>
    <3>1. 1 + o \in 1..n /\ J[1] = items[1 + o]
      BY <1>7, <2>1, <2>2
    <3>2. HodConfig!Parts(HodConfig!Comma, items[1 + o]) = <<items[1 + o]>>
      BY <1>9, <3>1
    <3> QED
      BY <3>1, <3>2
  <2> QED
    BY <1>3, <1>7, <2>2, Cut
<1> DEFINE spots(k) == {i \in 1..m : HodConfig!Key(J[i]) = k}
<1>11. /\ \A i \in 1..m : Len(HodConfig!Parts("=", J[i])) = 2
       /\ DOMAIN r = {HodConfig!Key(J[i]) : i \in 1..m}
       /\ \A k \in DOMAIN r : r[k] = HodConfig!Parts("=", J[HodConfig!Max(spots(k))])[2]
  <2> DEFINE c == CHOOSE x \in HodConfig!verify_keyval(v) : TRUE
             f == c.normalized
  <2>1. HodConfig!verify_keyval(v) # {HodConfig!Invalid} /\ r = f.dict
    BY DEF v
  <2>2. J \in Seq(I) /\ J = HodConfig!Parts(HodConfig!Comma, v)
    BY <1>7, <1>10
  <2>3. Reads(f.dict, J)
    BY <2>1, <2>2, Accepted
  <2>4. Len(J) = m
    BY <1>7
  <2> HIDE DEF f
  <2> QED
    BY <2>1, <2>3, <2>4 DEF Reads
<1>12. ASSUME NEW i \in 1..m
       PROVE  HodConfig!Key(J[i]) = keys[i + o] /\ HodConfig!Parts("=", J[i])[2] = d[keys[i + o]]
  BY <1>7, <1>9, <1>11
<1>13. DOMAIN r \ {HodConfig!Empty} = K \ {HodConfig!Empty}
  <2>1. ASSUME NEW k \in DOMAIN r PROVE k \in K
    BY <1>1, <1>7, <1>11, <1>12
  <2>2. ASSUME NEW k \in K, k # HodConfig!Empty PROVE k \in DOMAIN r
    <3>1. PICK j \in 1..n : keys[j] = k
      BY <1>1
    <3>2. ~(j = 1 /\ o = 1)
      BY <1>6, <1>9, <2>2, <3>1
    <3>3. j - o \in 1..m /\ (j - o) + o = j
      BY <1>1, <1>6, <3>2 DEF m
    <3>4. HodConfig!Key(J[j - o]) = k
      BY <1>12, <3>1, <3>3
    <3> QED
      BY <1>11, <3>3, <3>4
  <2> QED
    BY <2>1, <2>2
<1>14. ASSUME NEW k \in K \ {HodConfig!Empty} PROVE r[k] = d[k]
  <2>1. k \in DOMAIN r
    BY <1>13
  <2>2. PICK i \in 1..m : HodConfig!Key(J[i]) = k
    BY <1>11, <2>1
  <2>3. ASSUME NEW j \in spots(k) PROVE j = i
    <3>1. j \in 1..m /\ HodConfig!Key(J[j]) = k
      OBVIOUS
    <3>2. keys[j + o] = keys[i + o] /\ i + o \in 1..n /\ j + o \in 1..n
      BY <1>7, <1>12, <2>2, <3>1
    <3>3. j + o = i + o
      BY <1>1, <3>2
    <3> QED
      BY <1>6, <3>1, <3>3
  <2>4. i \in spots(k)
    BY <2>2
  <2>5. spots(k) = {i}
    BY <2>3, <2>4
  <2>6. HodConfig!Max({i}) = i
    BY <1>6 DEF HodConfig!Max
  <2> HIDE DEF spots
  <2>7. r[k] = HodConfig!Parts("=", J[i])[2]
    BY <1>11, <2>1, <2>5, <2>6
  <2>8. d[keys[i + o]] = d[k]
    BY <1>12, <2>2
  <2> QED
    BY <1>12, <2>7, <2>8
<1> QED
  BY <1>13, <1>14 DEF K

(* Whose value a key has in the end.                                       *)
At(t, k) == {i \in DOMAIN HodConfig!Items(t) : HodConfig!Key(HodConfig!Items(t)[i]) = k}
KeysOf(t) == {HodConfig!Key(HodConfig!Items(t)[i]) : i \in DOMAIN HodConfig!Items(t)} \ {HodConfig!Empty}
Preferred(file, args, final, k) ==
  IF At(file, k) # {} /\ (At(args, k) = {} \/ final) THEN HodConfig!Value(HodConfig!Items(file)[HodConfig!Max(At(file, k))])
  ELSE HodConfig!Value(HodConfig!Items(args)[IF final THEN HodConfig!Min(At(args, k)) ELSE HodConfig!Max(At(args, k))])
Precedence(file, args, final, r) ==
  /\ DOMAIN r \ {HodConfig!Empty} = KeysOf(file) \cup KeysOf(args)
  /\ \A k \in DOMAIN r \ {HodConfig!Empty} : r[k] = Preferred(file, args, final, k)
ItemList(s) == s \in Seq({u \in HodConfig!Range(s) : HodConfig!ItemText(u)})
Input(t) == t = HodConfig!Absent \/ HodConfig!ParamText(t)

(* The items of a list of parameters are parameters.                       *)
LEMMA ItemsOf ==
  ASSUME NEW t, Input(t)
  PROVE  /\ ItemList(HodConfig!Items(t))
         /\ HodConfig!Items(t) \in Seq(HodConfig!Range(HodConfig!Items(t))) /\ DOMAIN HodConfig!Items(t) = 1..Len(HodConfig!Items(t)) /\ Len(HodConfig!Items(t)) \in Nat
         /\ t # HodConfig!Absent => HodConfig!Items(t) # <<>> /\ HodConfig!Items(t) = HodConfig!Parts(HodConfig!Comma, t)
         /\ \A i \in DOMAIN HodConfig!Items(t) : HodConfig!ItemText(HodConfig!Items(t)[i])
<1> DEFINE s == HodConfig!Items(t)
<1>1. ItemList(s) /\ (t # HodConfig!Absent => s # <<>> /\ s = HodConfig!Parts(HodConfig!Comma, t))
  <2>1. CASE t = HodConfig!Absent
    <3>1. s = <<>>
      BY <2>1 DEF HodConfig!Items
    <3>2. \A S : <<>> \in Seq(S)
      OBVIOUS
    <3> HIDE DEF s
    <3> QED
      BY <2>1, <3>1, <3>2 DEF ItemList
  <2>2. CASE t # HodConfig!Absent
    <3>1. s = HodConfig!Parts(HodConfig!Comma, t)
      BY <2>2 DEF HodConfig!Items
    <3>2. HodConfig!Parts(HodConfig!Comma, t) \in Seq({u \in HodConfig!Range(HodConfig!Parts(HodConfig!Comma, t)) : HodConfig!ItemText(u)}) \ {<<>>}
      BY <2>2 DEF Input, HodConfig!ParamText
    <3> HIDE DEF s
    <3> QED
      BY <3>1, <3>2 DEF ItemList
  <2> QED
    BY <2>1, <2>2
<1> HIDE DEF s
<1>2. s \in Seq({u \in HodConfig!Range(s) : HodConfig!ItemText(u)})
  BY <1>1 DEF ItemList
<1>3. s \in Seq(HodConfig!Range(s)) /\ DOMAIN s = 1..Len(s) /\ Len(s) \in Nat
  BY <1>2 DEF HodConfig!Range
<1>4. \A i \in DOMAIN s : HodConfig!ItemText(s[i])
  BY <1>2
<1> QED
  BY <1>1, <1>3, <1>4 DEF s

LEMMA EmptyKey == HodConfig!Key(HodConfig!Empty) = HodConfig!Empty
  BY EmptyIsWhole DEF HodConfig!Whole, HodConfig!Key

(* What the client reads from the merged text is what it was told.         *)
LEMMA MergeMeans ==
  ASSUME NEW file, NEW args, Input(file), HodConfig!ParamText(args), NEW final \in BOOLEAN, NEW v,
         v = HodConfig!AsText(HodConfig!Entered(HodConfig!Entered(<<>>, HodConfig!Items(file), {HodConfig!Empty}, TRUE), HodConfig!Items(args), {}, ~final)),
         HodConfig!verify_keyval(v) # {HodConfig!Invalid},
         NEW r, r = (CHOOSE x \in HodConfig!verify_keyval(v) : TRUE).normalized.dict,
         args # HodConfig!Absent
  PROVE  Precedence(file, args, final, r)
<1> DEFINE f == HodConfig!Items(file)
           g == HodConfig!Items(args)
           e == HodConfig!Entered(<<>>, f, {HodConfig!Empty}, TRUE)
           d == HodConfig!Entered(e, g, {}, ~final)
           E(k) == Positions(f, {HodConfig!Empty}, Len(f), k)
           F(k) == Positions(g, {}, Len(g), k)
<1>1. /\ f \in Seq(HodConfig!Range(f)) /\ DOMAIN f = 1..Len(f) /\ Len(f) \in Nat
      /\ \A i \in DOMAIN f : HodConfig!ItemText(f[i])
  BY ItemsOf
<1>2. /\ g \in Seq(HodConfig!Range(g)) /\ DOMAIN g = 1..Len(g) /\ Len(g) \in Nat /\ g # <<>>
      /\ \A i \in DOMAIN g : HodConfig!ItemText(g[i])
  BY ItemsOf DEF Input
<1> HIDE DEF f, g
<1>3. Means(<<>>, f, {HodConfig!Empty}, TRUE, Len(f), e)
  <2>1. <<>> = [k \in DOMAIN <<>> |-> <<>>[k]] /\ DOMAIN <<>> = {}
    OBVIOUS
  <2>2. IsFiniteSet(DOMAIN <<>>)
    BY <2>1, FS_EmptySet
  <2> QED
    BY <1>1, <2>1, <2>2, EnteredMeans
<1> HIDE DEF e
<1>4. Means(e, g, {}, ~final, Len(g), d)
  <2>1. e = [k \in DOMAIN e |-> e[k]] /\ IsFiniteSet(DOMAIN e)
    BY <1>3 DEF Means
  <2> QED
    BY <1>2, <2>1, EnteredMeans
<1>5. v = HodConfig!AsText(d)
  BY DEF d, e, f, g
<1> HIDE DEF d
<1>6. \A k : E(k) \subseteq 1..Len(f) /\ \A j \in E(k) : HodConfig!Key(f[j]) = k
  BY DEF Positions
<1>7. \A k : F(k) \subseteq 1..Len(g) /\ \A j \in F(k) : HodConfig!Key(g[j]) = k
  BY DEF Positions
<1>8. \A k : F(k) = At(args, k)
  BY <1>2 DEF Positions, At, g
<1>9. ASSUME NEW k, k # HodConfig!Empty PROVE E(k) = At(file, k)
  BY <1>1, <1>9, EmptyKey DEF Positions, At, f
<1>10. \A k : k \in DOMAIN e <=> E(k) # {}
  <2>1. \A k : k \in DOMAIN e <=> k \in DOMAIN <<>> \/ E(k) # {}
    BY <1>3 DEF Means
  <2> HIDE DEF E
  <2> QED
    BY <2>1
<1>11. \A k : k \in DOMAIN d <=> E(k) # {} \/ F(k) # {}
  BY <1>4, <1>10 DEF Means
<1>12. ASSUME NEW k \in DOMAIN e
       PROVE  \E j \in E(k) : e[k] = HodConfig!Value(f[j]) /\ \A i \in E(k) : i <= j
  <2>1. HasValue(<<>>, f, {HodConfig!Empty}, TRUE, Len(f), e, k) /\ E(k) # {}
    BY <1>3, <1>10 DEF Means
  <2> HIDE DEF E
  <2> QED
    BY <2>1 DEF HasValue, E
<1>13. ASSUME NEW k \in DOMAIN d
       PROVE  IF F(k) = {} \/ (final /\ E(k) # {}) THEN E(k) # {} /\ d[k] = e[k]
              ELSE \E j \in F(k) : d[k] = HodConfig!Value(g[j])
                                   /\ \A i \in F(k) : IF final THEN j <= i ELSE i <= j
  <2>1. HasValue(e, g, {}, ~final, Len(g), d, k)
    BY <1>4 DEF Means
  <2>2. E(k) # {} <=> k \in DOMAIN e
    BY <1>10
  <2> HIDE DEF E, F
  <2>3. F(k) = {} => E(k) # {}
    BY <1>11
  <2> QED
    BY <2>1, <2>2, <2>3 DEF HasValue, F
<1> HIDE DEF E, F
<1>14. \A k : k \in DOMAIN e => k \in DOMAIN d
  BY <1>10, <1>11
<1>15. ASSUME NEW j \in 1..Len(f) PROVE HodConfig!Whole(HodConfig!Key(f[j])) /\ ValueText(HodConfig!Value(f[j]))
  BY <1>1, ItemParts
<1>16. ASSUME NEW j \in 1..Len(g) PROVE HodConfig!Whole(HodConfig!Key(g[j])) /\ ValueText(HodConfig!Value(g[j]))
  BY <1>2, ItemParts
<1>17. ASSUME NEW k \in DOMAIN e PROVE HodConfig!Whole(k) /\ ValueText(e[k])
  BY <1>6, <1>12, <1>15
<1>18. ASSUME NEW k \in DOMAIN d PROVE HodConfig!Whole(k) /\ ValueText(d[k])
  <2>1. CASE F(k) = {} \/ (final /\ E(k) # {})
    BY <1>10, <1>13, <1>17, <2>1
  <2>2. CASE ~(F(k) = {} \/ (final /\ E(k) # {}))
    BY <1>7, <1>13, <1>16, <2>2
  <2> QED
    BY <2>1, <2>2
<1>19. DOMAIN d # {} /\ IsFiniteSet(DOMAIN d)
  <2>1. 1 \in DOMAIN g
    BY <1>2
  <2>2. F(HodConfig!Key(g[1])) # {}
    BY <2>1, <1>8 DEF At, g
  <2> QED
    BY <1>4, <1>11, <2>2 DEF Means
<1>20. /\ DOMAIN r \ {HodConfig!Empty} = DOMAIN d \ {HodConfig!Empty}
       /\ \A k \in DOMAIN d \ {HodConfig!Empty} : r[k] = d[k]
  <2>1. HodConfig!verify_keyval(HodConfig!AsText(d)) # {HodConfig!Invalid}
    BY <1>5
  <2>2. r = (CHOOSE x \in HodConfig!verify_keyval(HodConfig!AsText(d)) : TRUE).normalized.dict
    BY <1>5
  <2>3. \A k \in DOMAIN d : HodConfig!Whole(k) /\ ValueText(d[k])
    BY <1>18
  <2> QED
    BY <1>19, <2>1, <2>2, <2>3, AsTextMeans
<1>21. \A k : k \in KeysOf(file) <=> k # HodConfig!Empty /\ E(k) # {}
  BY <1>9 DEF KeysOf, At
<1>22. \A k : k \in KeysOf(args) <=> k # HodConfig!Empty /\ F(k) # {}
  BY <1>8 DEF KeysOf, At
<1>23. DOMAIN r \ {HodConfig!Empty} = KeysOf(file) \cup KeysOf(args)
  BY <1>11, <1>20, <1>21, <1>22
<1>24. ASSUME NEW k \in DOMAIN d \ {HodConfig!Empty} PROVE d[k] = Preferred(file, args, final, k)
  <2>0. E(k) = At(file, k) /\ F(k) = At(args, k)
    BY <1>8, <1>9
  <2>1. CASE F(k) = {} \/ (final /\ E(k) # {})
    <3>1. E(k) # {} /\ k \in DOMAIN e /\ d[k] = e[k]
      BY <1>10, <1>13, <2>1
    <3>2. PICK j \in E(k) : e[k] = HodConfig!Value(f[j]) /\ \A i \in E(k) : i <= j
      BY <1>12, <3>1
    <3>3. j = HodConfig!Max(E(k))
      <4>1. HodConfig!Max(E(k)) \in E(k) /\ \A x \in E(k) : x <= HodConfig!Max(E(k))
        BY <1>1, <1>6, <3>1, Extremes
      <4>2. j <= HodConfig!Max(E(k)) /\ HodConfig!Max(E(k)) <= j /\ j \in Nat /\ HodConfig!Max(E(k)) \in Nat
        BY <1>1, <1>6, <3>2, <4>1
      <4> QED
        BY <4>2
    <3> QED
      BY <2>0, <2>1, <3>1, <3>2, <3>3 DEF Preferred, f
  <2>2. CASE ~(F(k) = {} \/ (final /\ E(k) # {}))
    <3>1. PICK j \in F(k) : d[k] = HodConfig!Value(g[j]) /\ \A i \in F(k) : IF final THEN j <= i ELSE i <= j
      BY <1>13, <2>2
    <3>2. /\ HodConfig!Max(F(k)) \in F(k) /\ \A x \in F(k) : x <= HodConfig!Max(F(k))
          /\ HodConfig!Min(F(k)) \in F(k) /\ \A x \in F(k) : HodConfig!Min(F(k)) <= x
      BY <1>2, <1>7, <2>2, Extremes
    <3>3. j \in Nat /\ HodConfig!Max(F(k)) \in Nat /\ HodConfig!Min(F(k)) \in Nat
      BY <1>2, <1>7, <3>2
    <3>4. CASE final
      <4>1. j <= HodConfig!Min(F(k)) /\ HodConfig!Min(F(k)) <= j
        BY <3>1, <3>2, <3>4
      <4>2. j = HodConfig!Min(F(k))
        BY <3>3, <4>1
      <4> QED
        BY <2>0, <2>2, <3>1, <3>4, <4>2 DEF Preferred, g
    <3>5. CASE ~final
      <4>1. j <= HodConfig!Max(F(k)) /\ HodConfig!Max(F(k)) <= j
        BY <3>1, <3>2, <3>5
      <4>2. j = HodConfig!Max(F(k))
        BY <3>3, <4>1
      <4> QED
        BY <2>0, <2>2, <3>1, <3>5, <4>2 DEF Preferred, g
    <3> QED
      BY <3>4, <3>5
  <2> QED
    BY <2>1, <2>2
<1> QED
  BY <1>20, <1>23, <1>24 DEF Precedence

(* Which normalizer and which text belong to a type.                       *)
LEMMA Normalizers ==
  \A v, d :
    /\ HodConfig!normalize("bool", v, d) = HodConfig!norm_bool(v) /\ HodConfig!normalize("int", v, d) = HodConfig!norm_int(v)
    /\ HodConfig!normalize("float", v, d) = HodConfig!norm_float(v) /\ HodConfig!normalize("pos_int", v, d) = HodConfig!norm_pos_int(v)
    /\ HodConfig!normalize("neg_int", v, d) = {} /\ HodConfig!normalize("freq", v, d) = HodConfig!norm_pos_int(v)
    /\ HodConfig!normalize("pos_float", v, d) = HodConfig!norm_pos_float(v) /\ HodConfig!normalize("pos_num", v, d) = HodConfig!norm_pos_float(v)
    /\ HodConfig!normalize("neg_float", v, d) = HodConfig!norm_neg_float(v) /\ HodConfig!normalize("string", v, d) = {HodConfig!str(v)}
    /\ HodConfig!normalize("list", v, d) = HodConfig!norm_list(v) /\ HodConfig!normalize("keyval", v, d) = HodConfig!norm_keyval(v)
    /\ HodConfig!normalize("directory", v, d) = {HodConfig!realpath(v, d)} /\ HodConfig!normalize("file", v, d) = {HodConfig!realpath(v, d)}
    /\ HodConfig!normalize("address", v, d) = HodConfig!norm_address(v) /\ HodConfig!normalize("size", v, d) = {}
    /\ HodConfig!normalize("tcp_port", v, d) = HodConfig!norm_int(v) /\ HodConfig!normalize("range", v, d) = HodConfig!norm_range(v)
    /\ HodConfig!normalize("uri", v, d) = HodConfig!norm_uri(v, d)
BY DEF HodConfig!normalize, HodConfig!norm_neg_int, HodConfig!norm_freq,
   HodConfig!norm_pos_num, HodConfig!norm_string, HodConfig!norm_directory,
   HodConfig!norm_file,
       HodConfig!norm_size, HodConfig!norm_tcp_port, HodConfig!norm_int

OtherType(type) ==
  type \notin {"bool", "int", "float", "pos_int", "neg_int", "freq", "pos_float", "pos_num", "neg_float",
               "string", "list", "keyval", "directory", "file", "address", "size", "tcp_port", "range",
               "uri"}
LEMMA OtherNormalizer ==
  ASSUME NEW type, OtherType(type), NEW v, NEW d
  PROVE  HodConfig!normalize(type, v, d) = {v}
BY DEF HodConfig!normalize, OtherType

(* How the values of each type are printed.                                *)
LEMMA TextOf ==
  /\ \A v : HodConfig!toString("list", v) = HodConfig!tostring_list(v) /\ HodConfig!toString("address", v) = HodConfig!tostring_address(v)
            /\ HodConfig!toString("range", v) = HodConfig!tostring_range(v) /\ HodConfig!toString("bool", v) = HodConfig!str(v)
  /\ \A v, type : type \notin {"keyval", "list", "address", "range", "bool"} => HodConfig!toString(type, v) = HodConfig!str(v)
BY DEF HodConfig!toString, HodConfig!tostring_bool

(* The text of a text is that text.                                        *)
LEMMA TextIsText ==
  ASSUME NEW v, HodConfig!Canonical(v)
  PROVE  HodConfig!str(v) = v /\ ~HodConfig!Has(v, "int") /\ ~HodConfig!Has(v, "float") /\ ~HodConfig!Has(v, "list") /\ HodConfig!IsText(v)
<1>1. \A f \in {"int", "float", "bool", "none", "list"} : f \notin DOMAIN v
  BY DEF HodConfig!Canonical
<1>2. \E f \in {"digits", "tenths", "word", "sep", "at", "rel", "scheme"} : f \in DOMAIN v
  BY DEF HodConfig!Canonical
<1> QED
  BY <1>1, <1>2 DEF HodConfig!str, HodConfig!Has, HodConfig!IsText

(* What is converted to a text and back is the same again.                 *)
RoundTrip(type, v, d) ==
  \A x \in HodConfig!normalize(type, v, d) : HodConfig!normalize(type, HodConfig!toString(type, x), d) = HodConfig!normalize(type, v, d)

(* The round trip of each type.                                            *)
LEMMA BoolTrip == \A v, d : RoundTrip("bool", v, d)
<1> DEFINE f == HodConfig!Word("f", "false")
           t == HodConfig!Word("t", "true")
           F == [bool |-> FALSE]
           T == [bool |-> TRUE]
<1>1. HodConfig!str(F) = f /\ HodConfig!str(T) = t
  BY DEF HodConfig!str, HodConfig!Has
<1>2. HodConfig!str(f) = f /\ HodConfig!str(t) = t
  BY DEF HodConfig!str, HodConfig!Has, HodConfig!Word
<1>3. HodConfig!Falsy(f)
  BY DEF HodConfig!Falsy, HodConfig!Has, HodConfig!Word
<1>4. ~HodConfig!Falsy(t)
  <2>1. HodConfig!Leading(t) = -1
    BY DEF HodConfig!Leading, HodConfig!Has, HodConfig!Word
  <2>2. HodConfig!FirstDigit(-1) = -1
    BY DEF HodConfig!FirstDigit
  <2> QED
    BY <2>1, <2>2 DEF HodConfig!Falsy, HodConfig!Has, HodConfig!Word
<1>5. HodConfig!Truthy(t)
  BY DEF HodConfig!Truthy, HodConfig!Has, HodConfig!Word
<1> HIDE DEF f, t, F, T
<1>6. HodConfig!norm_bool(f) = {F} /\ HodConfig!norm_bool(t) = {T}
  BY <1>2, <1>3, <1>4, <1>5 DEF HodConfig!norm_bool, F, T
<1>7. ASSUME NEW v, NEW x \in HodConfig!norm_bool(v)
      PROVE  HodConfig!norm_bool(HodConfig!str(x)) = HodConfig!norm_bool(v)
  <2>1. HodConfig!norm_bool(v) \in {{F}, {T}, {}}
    BY DEF HodConfig!norm_bool, F, T
  <2> QED
    BY <1>1, <1>6, <2>1
<1> QED
  BY <1>7, Normalizers, TextOf DEF RoundTrip

LEMMA IntOfText == \A n : HodConfig!toInt(HodConfig!str([int |-> n])) = {n}
<1> SUFFICES ASSUME NEW n PROVE HodConfig!toInt(HodConfig!str([int |-> n])) = {n}
  OBVIOUS
<1>1. HodConfig!str([int |-> n]) = HodConfig!Digits(n)
  BY DEF HodConfig!str, HodConfig!Has
<1>2. HodConfig!toInt(HodConfig!Digits(n)) = {n}
  BY DEF HodConfig!toInt, HodConfig!Has, HodConfig!Digits
<1> QED
  BY <1>1, <1>2

LEMMA OneInt == \A v : \A x, y \in HodConfig!toInt(v) : x = y
BY DEF HodConfig!toInt

LEMMA IntTrip ==
  ASSUME NEW type \in {"int", "pos_int", "freq", "tcp_port"}, NEW v, NEW d
  PROVE  RoundTrip(type, v, d)
<1> SUFFICES ASSUME NEW x \in HodConfig!normalize(type, v, d)
             PROVE  HodConfig!normalize(type, HodConfig!str(x), d) = HodConfig!normalize(type, v, d)
  BY TextOf DEF RoundTrip
<1> DEFINE N(t) == IF type \in {"int", "tcp_port"} THEN HodConfig!toInt(t) ELSE {n \in HodConfig!toInt(t) : n >= 0}
<1>1. \A t : HodConfig!normalize(type, t, d) = HodConfig!Ints(N(t))
  BY Normalizers DEF HodConfig!norm_int, HodConfig!norm_pos_int
<1>2. PICK n \in N(v) : x = [int |-> n]
  BY <1>1 DEF HodConfig!Ints
<1>3. N(v) = {n}
  BY <1>2, OneInt
<1>4. HodConfig!toInt(HodConfig!str(x)) = {n}
  BY <1>2, IntOfText
<1>5. N(HodConfig!str(x)) = {n}
  BY <1>2, <1>4
<1> QED
  BY <1>1, <1>3, <1>5

LEMMA FloatOfText == \A n : HodConfig!toFloat(HodConfig!str([float |-> n])) = {n}
<1> SUFFICES ASSUME NEW n PROVE HodConfig!toFloat(HodConfig!str([float |-> n])) = {n}
  OBVIOUS
<1> DEFINE t == [tenths |-> n]
<1>1. HodConfig!str([float |-> n]) = t
  BY DEF HodConfig!str, HodConfig!Has
<1>2. "tenths" \in DOMAIN t /\ "int" \notin DOMAIN t /\ "digits" \notin DOMAIN t /\ "float" \notin DOMAIN t
      /\ t.tenths = n
  OBVIOUS
<1> HIDE DEF t
<1>3. HodConfig!toInt(t) = {}
  BY <1>2 DEF HodConfig!toInt, HodConfig!Has
<1>4. HodConfig!toFloat(t) = {n}
  BY <1>2, <1>3 DEF HodConfig!toFloat, HodConfig!Has
<1> QED
  BY <1>1, <1>4

LEMMA FloatTrip ==
  ASSUME NEW type \in {"float", "pos_float", "pos_num", "neg_float"}, NEW v, NEW d,
         \A x, y \in HodConfig!toFloat(v) : x = y
  PROVE  RoundTrip(type, v, d)
<1> SUFFICES ASSUME NEW x \in HodConfig!normalize(type, v, d)
             PROVE  HodConfig!normalize(type, HodConfig!str(x), d) = HodConfig!normalize(type, v, d)
  BY TextOf DEF RoundTrip
<1> DEFINE N(t) == IF type = "float" THEN HodConfig!toFloat(t)
                   ELSE IF type = "neg_float" THEN {n \in HodConfig!toFloat(t) : n < 0} ELSE {n \in HodConfig!toFloat(t) : n >= 0}
<1>1. \A t : HodConfig!normalize(type, t, d) = HodConfig!Floats(N(t))
  BY Normalizers DEF HodConfig!norm_float, HodConfig!norm_pos_float, HodConfig!norm_neg_float
<1>2. PICK n \in N(v) : x = [float |-> n]
  BY <1>1 DEF HodConfig!Floats
<1>3. N(v) = {n}
  BY <1>2
<1>4. HodConfig!toFloat(HodConfig!str(x)) = {n}
  BY <1>2, FloatOfText
<1>5. N(HodConfig!str(x)) = {n}
  BY <1>2, <1>4
<1> QED
  BY <1>1, <1>3, <1>5

LEMMA OneFloat ==
  ASSUME NEW v, HodConfig!Canonical(v) \/ DOMAIN v \in {{"int"}, {"float"}, {"bool"}}
  PROVE  \A x, y \in HodConfig!toFloat(v) : x = y
<1>1. ASSUME HodConfig!Has(v, "tenths") \/ HodConfig!Has(v, "float")
      PROVE  ~HodConfig!Has(v, "int") /\ ~HodConfig!Has(v, "digits") /\ ~(HodConfig!Has(v, "tenths") /\ HodConfig!Has(v, "float"))
  BY <1>1 DEF HodConfig!Has, HodConfig!Canonical
<1>2. HodConfig!Has(v, "tenths") \/ HodConfig!Has(v, "float") => HodConfig!toInt(v) = {}
  BY <1>1 DEF HodConfig!toInt
<1>3. \A x, y \in {10 * n : n \in HodConfig!toInt(v)} : x = y
  BY OneInt
<1> QED
  BY <1>1, <1>2, <1>3 DEF HodConfig!toFloat

LEMMA StringTrip == \A v, d : RoundTrip("string", v, d)
<1>1. ASSUME NEW v PROVE HodConfig!str(HodConfig!str(v)) = HodConfig!str(v)
  <2>1. CASE \E f \in {"int", "float", "bool", "none"} : HodConfig!Has(v, f)
    <3>1. /\ \A n : HodConfig!str(HodConfig!Digits(n)) = HodConfig!Digits(n)
          /\ \A n : HodConfig!str([tenths |-> n]) = [tenths |-> n]
          /\ \A c, w : HodConfig!str(HodConfig!Word(c, w)) = HodConfig!Word(c, w)
      BY DEF HodConfig!str, HodConfig!Digits, HodConfig!Word, HodConfig!Has
    <3> QED
      BY <2>1, <3>1 DEF HodConfig!str
  <2>2. CASE ~ \E f \in {"int", "float", "bool", "none"} : HodConfig!Has(v, f)
    <3>1. HodConfig!str(v) = v
      BY <2>2 DEF HodConfig!str
    <3> QED
      BY <3>1
  <2> QED
    BY <2>1, <2>2
<1>2. ASSUME NEW v, NEW d, NEW x \in HodConfig!normalize("string", v, d)
      PROVE  HodConfig!normalize("string", HodConfig!toString("string", x), d) = HodConfig!normalize("string", v, d)
  <2>1. x = HodConfig!str(v) /\ HodConfig!toString("string", x) = HodConfig!str(x) /\ HodConfig!str(x) = x
    BY <1>1, Normalizers, TextOf
  <2>2. HodConfig!toString("string", x) = x /\ HodConfig!normalize("string", x, d) = {HodConfig!str(x)}
    BY <2>1, Normalizers
  <2>3. HodConfig!normalize("string", v, d) = {HodConfig!str(v)}
    BY Normalizers
  <2> QED
    BY <2>1, <2>2, <2>3
<1> QED
  BY <1>2 DEF RoundTrip

LEMMA OtherTrip ==
  ASSUME NEW type, OtherType(type), NEW v, HodConfig!Canonical(v), NEW d
  PROVE  RoundTrip(type, v, d)
<1>1. HodConfig!toString(type, v) = v
  BY TextIsText, TextOf DEF OtherType
<1> QED
  BY <1>1, OtherNormalizer DEF RoundTrip

(* A path that has been resolved stays where it is.                        *)
LEMMA Resolved ==
  ASSUME NEW v, NEW d
  PROVE  HodConfig!realpath(HodConfig!realpath(v, d), d) = HodConfig!realpath(v, d)
<1>1. \A x : HodConfig!realpath([at |-> x], d) = [at |-> x]
  BY DEF HodConfig!realpath, HodConfig!Has
<1>2. CASE HodConfig!Has(v, "rel")
  BY <1>1, <1>2 DEF HodConfig!realpath
<1>3. CASE ~HodConfig!Has(v, "rel") /\ HodConfig!Has(v, "at")
  BY <1>3 DEF HodConfig!realpath
<1>4. CASE ~HodConfig!Has(v, "rel") /\ ~HodConfig!Has(v, "at")
  BY <1>1, <1>4 DEF HodConfig!realpath
<1> QED
  BY <1>2, <1>3, <1>4

(* A path that is made absolute is a text that is read as it stands.       *)
LEMMA PathIsText ==
  ASSUME NEW v, HodConfig!Canonical(v), ~HodConfig!Has(v, "scheme"), NEW d
  PROVE  HodConfig!str(HodConfig!realpath(v, d)) = HodConfig!realpath(v, d) /\ ~HodConfig!Has(HodConfig!realpath(v, d), "scheme")
<1>1. \A x : HodConfig!str([at |-> x]) = [at |-> x] /\ ~HodConfig!Has([at |-> x], "scheme")
  BY DEF HodConfig!str, HodConfig!Has
<1>2. CASE HodConfig!Has(v, "at")
  <2>1. HodConfig!realpath(v, d) = v /\ ~HodConfig!Has(v, "scheme")
    BY <1>2 DEF HodConfig!realpath, HodConfig!Canonical, HodConfig!Has
  <2> QED
    BY <2>1, TextIsText
<1>3. CASE ~HodConfig!Has(v, "at")
  <2>1. \E x : HodConfig!realpath(v, d) = [at |-> x]
    BY <1>3 DEF HodConfig!realpath
  <2> QED
    BY <1>1, <2>1
<1> QED
  BY <1>2, <1>3

LEMMA PathTrip ==
  ASSUME NEW type \in {"directory", "file"}, NEW v, HodConfig!Canonical(v), NEW d
  PROVE  RoundTrip(type, v, d)
<1> SUFFICES ASSUME NEW x \in HodConfig!normalize(type, v, d)
             PROVE  HodConfig!normalize(type, HodConfig!str(x), d) = HodConfig!normalize(type, v, d)
  BY TextOf DEF RoundTrip
<1>1. \A t : HodConfig!normalize(type, t, d) = {HodConfig!realpath(t, d)}
  BY Normalizers
<1>2. x = HodConfig!realpath(v, d)
  BY <1>1
<1>3. HodConfig!str(x) = x
  <2>1. \A y : HodConfig!str([at |-> y]) = [at |-> y]
    BY DEF HodConfig!str, HodConfig!Has
  <2>2. HodConfig!str(v) = v
    BY TextIsText
  <2>3. x = v \/ \E y : x = [at |-> y]
    BY <1>2 DEF HodConfig!realpath
  <2> QED
    BY <2>1, <2>2, <2>3
<1> QED
  BY <1>1, <1>2, <1>3, Resolved

LEMMA UriTrip ==
  ASSUME NEW v, HodConfig!Canonical(v), NEW d
  PROVE  RoundTrip("uri", v, d)
<1> SUFFICES ASSUME NEW x \in HodConfig!norm_uri(v, d)
             PROVE  HodConfig!norm_uri(HodConfig!str(x), d) = HodConfig!norm_uri(v, d)
  BY Normalizers, TextOf DEF RoundTrip
<1> DEFINE w(t) == [t EXCEPT !.file = HodConfig!realpath(@, d)]
<1>1. CASE ~HodConfig!Has(v, "scheme")
  <2>1. x = HodConfig!realpath(v, d) /\ HodConfig!str(x) = x /\ ~HodConfig!Has(x, "scheme")
    BY <1>1, PathIsText DEF HodConfig!norm_uri
  <2>2. HodConfig!norm_uri(x, d) = {HodConfig!realpath(x, d)}
    BY <2>1 DEF HodConfig!norm_uri
  <2>3. HodConfig!norm_uri(v, d) = {HodConfig!realpath(v, d)}
    BY <1>1 DEF HodConfig!norm_uri
  <2> QED
    BY <2>1, <2>2, <2>3, Resolved
<1>2. CASE HodConfig!Has(v, "scheme") /\ v.scheme # "file"
  <2>1. HodConfig!norm_uri(v, d) = {v}
    BY <1>2 DEF HodConfig!norm_uri
  <2>2. HodConfig!str(v) = v
    BY TextIsText
  <2> QED
    BY <2>1, <2>2
<1>3. CASE HodConfig!Has(v, "scheme") /\ v.scheme = "file"
  <2>1. HodConfig!norm_uri(v, d) = {w(v)}
    BY <1>3 DEF HodConfig!norm_uri
  <2>2. DOMAIN v = {"scheme", "file"}
    BY <1>3 DEF HodConfig!Canonical, HodConfig!Has
  <2>3. /\ DOMAIN w(v) = {"scheme", "file"} /\ w(v).scheme = "file"
        /\ w(v).file = HodConfig!realpath(v.file, d)
    BY <1>3, <2>2
  <2>4. w(w(v)) = w(v)
    <3>1. w(w(v)) = [f \in {"scheme", "file"} |-> IF f = "file" THEN HodConfig!realpath(w(v).file, d) ELSE w(v)[f]]
      BY <2>3
    <3>2. w(v) = [f \in {"scheme", "file"} |-> w(v)[f]]
      BY <2>2
    <3>3. HodConfig!realpath(w(v).file, d) = w(v).file
      BY <2>3, Resolved
    <3> HIDE DEF w
    <3>4. \A f \in {"scheme", "file"} : (IF f = "file" THEN HodConfig!realpath(w(v).file, d) ELSE w(v)[f]) = w(v)[f]
      BY <3>3
    <3> QED
      BY <3>1, <3>2, <3>4
  <2> DEFINE y == w(v)
  <2>5. x = y
    BY <2>1
  <2> HIDE DEF w, y
  <2>6. HodConfig!str(y) = y
    BY <2>3 DEF HodConfig!str, HodConfig!Has, y
  <2>7. HodConfig!norm_uri(y, d) = {w(y)}
    BY <2>3 DEF HodConfig!norm_uri, HodConfig!Has, y, w
  <2> QED
    BY <2>1, <2>4, <2>5, <2>6, <2>7 DEF y
<1> QED
  BY <1>1, <1>2, <1>3

(* A canonical text is what its parts are joined to.                       *)
LEMMA Rejoined ==
  ASSUME NEW c, NEW v, HodConfig!Canonical(v)
  PROVE  /\ HodConfig!Parts(c, v) \in Seq(HodConfig!Range(HodConfig!Parts(c, v)))
         /\ HodConfig!IsText(HodConfig!Join(c, HodConfig!Parts(c, v))) /\ HodConfig!Parts(c, HodConfig!Join(c, HodConfig!Parts(c, v))) = HodConfig!Parts(c, v)
<1>1. CASE HodConfig!Has(v, "sep") /\ v.sep = c
  <2>1. DOMAIN v = {"sep", "parts"} /\ v.parts \in Seq(HodConfig!Range(v.parts)) /\ Len(v.parts) > 1
    BY <1>1 DEF HodConfig!Canonical, HodConfig!Has
  <2>2. HodConfig!Parts(c, v) = v.parts
    BY <1>1 DEF HodConfig!Parts
  <2> DEFINE s == v.parts
             r == [sep |-> c, parts |-> s]
  <2>3. HodConfig!Join(c, s) = r
    <3>1. s \in Seq(HodConfig!Range(s)) /\ Len(s) > 1
      BY <2>1
    <3> HIDE DEF s, r
    <3>2. Len(s) # 1
      <4> DEFINE m == Len(s)
      <4>1. m \in Nat /\ m > 1
        BY <3>1
      <4> HIDE DEF m
      <4>2. m # 1
        BY <4>1
      <4> QED
        BY <4>2 DEF m
    <3> QED
      BY <3>2 DEF HodConfig!Join, r
  <2>4. HodConfig!IsText(r)
    BY DEF HodConfig!IsText, HodConfig!Has
  <2>5. HodConfig!Parts(c, r) = s
    BY DEF HodConfig!Parts, HodConfig!Has
  <2> QED
    BY <2>1, <2>2, <2>3, <2>4, <2>5
<1>2. CASE ~(HodConfig!Has(v, "sep") /\ v.sep = c)
  <2>1. HodConfig!Parts(c, v) = <<v>>
    BY <1>2 DEF HodConfig!Parts
  <2>2. HodConfig!Join(c, <<v>>) = v
    BY DEF HodConfig!Join
  <2>3. <<v>> \in Seq(HodConfig!Range(<<v>>))
    BY DEF HodConfig!Range
  <2> QED
    BY <2>1, <2>2, <2>3, TextIsText
<1> QED
  BY <1>1, <1>2

LEMMA ListTrip ==
  ASSUME NEW v, HodConfig!Canonical(v), NEW d
  PROVE  RoundTrip("list", v, d)
<1> SUFFICES ASSUME NEW x \in HodConfig!norm_list(v)
             PROVE  HodConfig!norm_list(HodConfig!tostring_list(x)) = HodConfig!norm_list(v)
  BY Normalizers, TextOf DEF RoundTrip
<1> DEFINE p == HodConfig!Parts(HodConfig!Comma, v)
<1>1. HodConfig!norm_list(v) = {[list |-> p]} /\ HodConfig!tostring_list(x) = HodConfig!Join(HodConfig!Comma, x.list)
  BY NoComma, TextIsText
<1>2. HodConfig!tostring_list(x) = HodConfig!Join(HodConfig!Comma, p)
  BY <1>1
<1>3. HodConfig!IsText(HodConfig!Join(HodConfig!Comma, p)) /\ HodConfig!Parts(HodConfig!Comma, HodConfig!Join(HodConfig!Comma, p)) = p
  BY Rejoined
<1> QED
  BY <1>1, <1>2, <1>3, NoComma

LEMMA AddressTrip ==
  ASSUME NEW v, HodConfig!Canonical(v), Len(HodConfig!Parts(":", v)) = 2, NEW d
  PROVE  RoundTrip("address", v, d)
<1> SUFFICES ASSUME NEW x \in HodConfig!norm_address(v)
             PROVE  HodConfig!norm_address(HodConfig!tostring_address(x)) = HodConfig!norm_address(v)
  BY Normalizers, TextOf DEF RoundTrip
<1> DEFINE p == HodConfig!Parts(":", v)
           t == [sep |-> ":", parts |-> p]
<1>1. HodConfig!norm_address(v) = {[list |-> p]}
  BY TextIsText DEF HodConfig!norm_address
<1>2. p = <<p[1], p[2]>>
  BY Rejoined
<1>3. HodConfig!tostring_address(x) = HodConfig!Join(":", <<p[1], p[2]>>)
  BY <1>1 DEF HodConfig!tostring_address
<1>4. HodConfig!tostring_address(x) = t
  BY <1>2, <1>3 DEF HodConfig!Join
<1>5. "list" \notin DOMAIN t /\ "sep" \in DOMAIN t /\ t.sep = ":" /\ t.parts = p
  OBVIOUS
<1> HIDE DEF t
<1>6. HodConfig!norm_address(t) = {[list |-> p]}
  BY <1>5 DEF HodConfig!norm_address, HodConfig!Parts, HodConfig!Has
<1> QED
  BY <1>1, <1>4, <1>6

LEMMA RangeTrip ==
  ASSUME NEW v, Len(HodConfig!Parts("-", v)) > 1, NEW d
  PROVE  RoundTrip("range", v, d)
<1> SUFFICES ASSUME NEW x \in HodConfig!norm_range(v)
             PROVE  HodConfig!norm_range(HodConfig!tostring_range(x)) = HodConfig!norm_range(v)
  BY Normalizers, TextOf DEF RoundTrip
<1> DEFINE r == HodConfig!Parts("-", v)
           pair(a, b) == <<[int |-> a], [int |-> b]>>
<1>1. HodConfig!norm_range(v) = {[tuple |-> pair(a, b)] : a \in HodConfig!toInt(r[1]), b \in HodConfig!toInt(r[2])}
  BY DEF HodConfig!norm_range
<1>2. PICK a \in HodConfig!toInt(r[1]), b \in HodConfig!toInt(r[2]) : x = [tuple |-> pair(a, b)]
  BY <1>1
<1>3. HodConfig!toInt(r[1]) = {a} /\ HodConfig!toInt(r[2]) = {b}
  BY OneInt
<1>4. HodConfig!norm_range(v) = {[tuple |-> pair(a, b)]}
  BY <1>1, <1>3
<1> DEFINE q == <<HodConfig!str([int |-> a]), HodConfig!str([int |-> b])>>
           t == [sep |-> "-", parts |-> q]
<1>5. HodConfig!tostring_range(x) = HodConfig!Join("-", q)
  <2>1. x.tuple = pair(a, b) /\ DOMAIN pair(a, b) = 1..2 /\ pair(a, b)[1] = [int |-> a] /\ pair(a, b)[2] = [int |-> b]
    BY <1>2
  <2> HIDE DEF pair
  <2>2. [i \in DOMAIN x.tuple |-> HodConfig!str(x.tuple[i])] = <<HodConfig!str(x.tuple[1]), HodConfig!str(x.tuple[2])>>
    BY <2>1
  <2> QED
    BY <2>1, <2>2 DEF HodConfig!tostring_range
<1>6. HodConfig!Parts("-", HodConfig!tostring_range(x)) = q
  <2>1. Len(q) = 2
    OBVIOUS
  <2>2. "sep" \in DOMAIN t /\ t.sep = "-" /\ t.parts = q
    OBVIOUS
  <2> HIDE DEF q, t
  <2>3. HodConfig!tostring_range(x) = t
    BY <1>5, <2>1 DEF HodConfig!Join, t
  <2> QED
    BY <2>2, <2>3 DEF HodConfig!Parts, HodConfig!Has
<1>7. HodConfig!norm_range(HodConfig!tostring_range(x)) = {[tuple |-> pair(m, n)] : m \in HodConfig!toInt(q[1]), n \in HodConfig!toInt(q[2])}
  <2>1. Len(q) > 1
    OBVIOUS
  <2> HIDE DEF q
  <2> QED
    BY <1>6, <2>1 DEF HodConfig!norm_range
<1>8. HodConfig!toInt(q[1]) = {a} /\ HodConfig!toInt(q[2]) = {b}
  BY IntOfText
<1> HIDE DEF q
<1>9. HodConfig!norm_range(HodConfig!tostring_range(x)) = {[tuple |-> pair(a, b)]}
  BY <1>7, <1>8
<1> QED
  BY <1>4, <1>9

(* So every default that is converted means the same after it.             *)
LEMMA DefaultTrip ==
  ASSUME NEW type, NEW v, HodConfig!IsDefault(type, v), v # HodConfig!NoValue, NEW d
  PROVE  RoundTrip(type, v, d)
<1>1. CASE type \in {"bool", "string", "neg_int", "size"}
  BY <1>1, BoolTrip, StringTrip, Normalizers DEF RoundTrip
<1>2. CASE type \in {"int", "pos_int", "freq", "tcp_port"}
  BY <1>2, IntTrip
<1>3. CASE type \in {"float", "pos_float", "pos_num", "neg_float"}
  <2>1. HodConfig!Canonical(v) \/ DOMAIN v \in {{"int"}, {"float"}, {"bool"}}
    BY DEF HodConfig!IsDefault
  <2> QED
    BY <1>3, <2>1, OneFloat, FloatTrip
<1>4. CASE type \in {"list", "directory", "file", "address", "range", "uri", "keyval"} \/ OtherType(type)
  <2>1. HodConfig!Canonical(v) /\ type # "keyval"
    BY <1>4 DEF HodConfig!IsDefault, OtherType
  <2>2. (type = "address" => Len(HodConfig!Parts(":", v)) = 2) /\ (type = "range" => Len(HodConfig!Parts("-", v)) > 1)
    BY <1>4 DEF HodConfig!IsDefault
  <2> QED
    BY <1>4, <2>1, <2>2, ListTrip, PathTrip, AddressTrip, RangeTrip, UriTrip, OtherTrip
<1> QED
  BY <1>1, <1>2, <1>3, <1>4 DEF OtherType

(* What is given for an option is one list of all its parameters.          *)
LEMMA ParsedText ==
  ASSUME NEW given, given \in Seq({t \in HodConfig!Range(given) : HodConfig!ParamText(t)}), given # <<>>
  PROVE  HodConfig!ParamText(HodConfig!Join(HodConfig!Comma, HodConfig!FlattenSeq([i \in DOMAIN given |-> HodConfig!Parts(HodConfig!Comma, given[i])])))
<1> DEFINE S == UNION {{u \in HodConfig!Range(HodConfig!Parts(HodConfig!Comma, given[i])) : HodConfig!ItemText(u)} : i \in DOMAIN given}
           s == [i \in DOMAIN given |-> HodConfig!Parts(HodConfig!Comma, given[i])]
           f == HodConfig!FlattenSeq(s)
<1>1. DOMAIN given = 1..Len(given) /\ Len(given) \in Nat /\ Len(given) # 0
  OBVIOUS
<1>2. ASSUME NEW i \in DOMAIN given PROVE HodConfig!Parts(HodConfig!Comma, given[i]) \in Seq(S) \ {<<>>}
  <2>1. HodConfig!ParamText(given[i])
    OBVIOUS
  <2> DEFINE p == HodConfig!Parts(HodConfig!Comma, given[i])
             R == {u \in HodConfig!Range(p) : HodConfig!ItemText(u)}
  <2>2. p \in Seq(R) /\ p # <<>>
    BY <2>1 DEF HodConfig!ParamText
  <2>3. R \subseteq S
    OBVIOUS
  <2> HIDE DEF p, R, S
  <2> QED
    BY <2>2, <2>3 DEF p
<1>3. \A u \in S : HodConfig!ItemText(u)
  OBVIOUS
<1>4. s \in Seq(Seq(S) \ {<<>>}) /\ s # <<>>
  <2> DEFINE n == Len(given)
             T == Seq(S) \ {<<>>}
  <2>1. s \in [1..n -> T] /\ n \in Nat /\ n # 0
    <3> HIDE DEF T
    <3>1. \A i \in 1..n : HodConfig!Parts(HodConfig!Comma, given[i]) \in T
      BY <1>1, <1>2 DEF T
    <3> QED
      BY <1>1, <3>1
  <2> HIDE DEF s, n, T
  <2>2. s \in Seq(T) /\ Len(s) = n
    BY <2>1
  <2> QED
    BY <2>1, <2>2 DEF T
<1> HIDE DEF S, s
<1>5. f \in Seq(S) /\ f # <<>>
  BY <1>4, Flattened
<1> HIDE DEF f
<1>6. HodConfig!Parts(HodConfig!Comma, HodConfig!Join(HodConfig!Comma, f)) = f
  <2>1. Len(f) = 1 => f[1] \in S
    BY <1>5
  <2>2. Len(f) = 1 => HodConfig!Parts(HodConfig!Comma, f[1]) = <<f[1]>>
    BY <1>3, <2>1 DEF HodConfig!ItemText
  <2> QED
    BY <1>5, <2>2, Cut
<1>7. f \in Seq({u \in HodConfig!Range(f) : HodConfig!ItemText(u)})
  <2>1. \A i \in 1..Len(f) : f[i] \in HodConfig!Range(f) /\ f[i] \in S
    BY <1>5 DEF HodConfig!Range
  <2> QED
    BY <1>3, <1>5, <2>1
<1> QED
  BY <1>5, <1>6, <1>7 DEF HodConfig!ParamText, f, s

LEMMA TailOfTwo ==
  ASSUME NEW T, NEW q \in Seq(T), Len(q) = 2
  PROVE  Len(Tail(q)) = 1 /\ Tail(q)[1] = q[2]
<1> DEFINE n == Len(q)
<1>1. n \in Nat /\ n # 0
  OBVIOUS
<1>2. Tail(q) \in Seq(T) /\ Len(Tail(q)) = n - 1 /\ \A i \in 1..(n - 1) : Tail(q)[i] = q[i + 1]
  BY <1>1
<1>3. n - 1 = 1 /\ 1 \in 1..(n - 1) /\ 1 + 1 = 2
  OBVIOUS
<1> QED
  BY <1>2, <1>3

(* Parameters that only hodrc has.                                         *)
LEMMA FileMeans ==
  ASSUME NEW file, HodConfig!ParamText(file), file # HodConfig!Absent, HodConfig!verify_keyval(file) # {HodConfig!Invalid},
         NEW final \in BOOLEAN, NEW r, r = (CHOOSE x \in HodConfig!verify_keyval(file) : TRUE).normalized.dict
  PROVE  Precedence(file, HodConfig!Absent, final, r)
<1> DEFINE p == HodConfig!Items(file)
<1>1. p \in Seq(HodConfig!Range(p)) /\ DOMAIN p = 1..Len(p) /\ Len(p) \in Nat /\ p = HodConfig!Parts(HodConfig!Comma, file)
  BY ItemsOf DEF Input
<1>2. HodConfig!Items(HodConfig!Absent) = <<>> /\ DOMAIN <<>> = {}
  BY DEF HodConfig!Items
<1> HIDE DEF p
<1>3. Reads(r, p)
  BY <1>1, Accepted
<1>4. KeysOf(HodConfig!Absent) = {} /\ \A k : At(HodConfig!Absent, k) = {}
  BY <1>2 DEF KeysOf, At
<1>5. \A k : At(file, k) = {i \in 1..Len(p) : HodConfig!Key(p[i]) = k}
  BY <1>1 DEF At, p
<1>6. KeysOf(file) = {HodConfig!Key(p[i]) : i \in 1..Len(p)} \ {HodConfig!Empty}
  BY <1>1 DEF KeysOf, p
<1>7. ASSUME NEW k \in DOMAIN r PROVE r[k] = Preferred(file, HodConfig!Absent, final, k)
  <2> DEFINE A == At(file, k)
             m == HodConfig!Max(A)
  <2>1. A # {} /\ A \in SUBSET (1..Len(p)) /\ r[k] = HodConfig!Parts("=", p[m])[2]
    BY <1>3, <1>5 DEF Reads
  <2> HIDE DEF A
  <2>2. m \in 1..Len(p)
    BY <1>1, <2>1, Extremes
  <2>3. Len(HodConfig!Parts("=", p[m])) = 2
    BY <1>3, <2>2 DEF Reads
  <2>4. Preferred(file, HodConfig!Absent, final, k) = HodConfig!Value(p[m])
    BY <1>4, <2>1 DEF Preferred, p, A
  <2> HIDE DEF m
  <2>5. HodConfig!Parts("=", p[m]) \in Seq(HodConfig!Range(HodConfig!Parts("=", p[m])))
    <3>1. HodConfig!ItemText(p[m])
      BY <1>1, <2>2, ItemsOf DEF Input, p
    <3> DEFINE q == HodConfig!Parts("=", p[m])
    <3>2. q \in Seq({u \in HodConfig!Range(q) : HodConfig!Whole(u)})
      BY <3>1 DEF HodConfig!ItemText
    <3> HIDE DEF q
    <3>3. q \in Seq(HodConfig!Range(q))
      BY <3>2
    <3> QED
      BY <3>3 DEF q
  <2>6. HodConfig!Value(p[m]) = HodConfig!Parts("=", p[m])[2]
    <3> DEFINE q == HodConfig!Parts("=", p[m])
    <3>1. q \in Seq(HodConfig!Range(q)) /\ Len(q) = 2
      BY <2>3, <2>5
    <3> HIDE DEF q
    <3>2. Len(Tail(q)) = 1 /\ Tail(q)[1] = q[2]
      BY <3>1, TailOfTwo
    <3> QED
      BY <3>1, <3>2 DEF HodConfig!Value, HodConfig!Join, q
  <2> QED
    BY <2>1, <2>4, <2>6 DEF m
<1>8. DOMAIN r = {HodConfig!Key(p[i]) : i \in 1..Len(p)}
  BY <1>3 DEF Reads
<1> QED
  BY <1>4, <1>6, <1>7, <1>8 DEF Precedence

(* The invariant of the configuration: the texts of hodrc and command line *)
(* are lists of parameters; what is merged is made of them (WhenMerged),   *)
(* and read again once it is verified (WhenValid); a default is the one of *)
(* the definition or has been through normalize and toString once.         *)
Dflt(p, o) == ConfDef[p][o].default
Merged(o) == IF parsed[o] = HodConfig!Absent THEN hodrc[o] ELSE HodConfig!MergeParams(o, hodrc[o], parsed[o])
States == {"new", "parsed", "merged", "valid", "invalid", "raised", "usage"}
Shapes ==
  /\ status \in [HodConfig!Procs -> States]
  /\ DOMAIN dict = HodConfig!Procs /\ DOMAIN dict["client"] = ConfOptions
  /\ DOMAIN default = HodConfig!Procs /\ \A p \in HodConfig!Procs : DOMAIN default[p] = ConfOptions
  /\ \A o \in {"params", "finals"} \cap ConfOptions :
       /\ Input(hodrc[o]) /\ Input(parsed[o])
       /\ cmdline[o] \in Seq({t \in HodConfig!Range(cmdline[o]) : HodConfig!ParamText(t)})
WhenMerged ==
  status["client"] = "merged" => \A o \in {"params", "finals"} \cap ConfOptions : dict["client"][o] = Merged(o)
WhenValid ==
  status["client"] = "valid" =>
    \A o \in {"params", "finals"} \cap HodConfig!Given(dict["client"]) :
      Precedence(hodrc[o], parsed[o], o \in {"finals"}, dict["client"][o].dict)
MergedInv == WhenMerged /\ WhenValid
Converted(p, o) ==
  /\ Dflt(p, o) # HodConfig!NoValue /\ HodConfig!normalize(HodConfig!Type(p, o), Dflt(p, o), HodConfig!cwd(p)) # {}
  /\ default[p][o] = HodConfig!toString(HodConfig!Type(p, o), CHOOSE v \in HodConfig!normalize(HodConfig!Type(p, o), Dflt(p, o), HodConfig!cwd(p)) : TRUE)
DefaultInv ==
  \A p \in HodConfig!Procs, o \in ConfOptions :
    \/ default[p][o] = Dflt(p, o)
    \/ status[p] \notin {"new", "parsed", "merged"} /\ Converted(p, o)
ConfigInv == Shapes /\ MergedInv /\ DefaultInv

(* Each action keeps the invariant.                                        *)
LEMMA ConfigStart == ASSUME HodConfig!Init PROVE ConfigInv
<1>1. "client" \in HodConfig!Procs
  BY DEF HodConfig!Procs
<1>2. PICK i \in ConfInputs : hodrc = i.hodrc /\ cmdline = i.cmdline
  BY DEF HodConfig!Init
<1>3. ASSUME NEW o \in {"params", "finals"} \cap ConfOptions
      PROVE  Input(hodrc[o]) /\ cmdline[o] \in Seq({t \in HodConfig!Range(cmdline[o]) : HodConfig!ParamText(t)})
  BY <1>2, ConfigAssumption DEF HodConfig!WellDefined, Input
<1>4. \A o \in {"params", "finals"} \cap ConfOptions : Input(parsed[o])
  BY DEF HodConfig!Init, HodConfig!NoOptions, Input
<1>5. Shapes
  BY <1>1, <1>3, <1>4 DEF HodConfig!Init, Shapes, States, HodConfig!NoOptions
<1> QED
  BY <1>1, <1>5 DEF HodConfig!Init, ConfigInv, MergedInv, WhenMerged, WhenValid, DefaultInv,
     Dflt

LEMMA ParseStep == ASSUME ConfigInv, HodConfig!ParseOptions PROVE ConfigInv'
<1>1. "client" \in HodConfig!Procs /\ HodConfig!Known("client") = ConfOptions /\ status \in [HodConfig!Procs -> States]
  BY DEF HodConfig!Procs, HodConfig!Known, ConfigInv, Shapes
<1>2. status' = [status EXCEPT !["client"] = "parsed"] /\ status["client"] = "new"
  BY DEF HodConfig!ParseOptions
<1>3. ASSUME NEW o \in {"params", "finals"} \cap ConfOptions PROVE Input(parsed'[o])
  <2>1. HodConfig!Type("client", o) = "keyval"
    BY ConfigAssumption DEF HodConfig!WellDefined
  <2>2. default["client"][o] = HodConfig!NoValue
    <3>1. HodConfig!IsDefault("keyval", Dflt("client", o))
      BY <1>1, <2>1, ConfigAssumption DEF HodConfig!WellDefined, Dflt
    <3>2. default["client"][o] = Dflt("client", o)
      BY <1>1, <1>2 DEF ConfigInv, DefaultInv
    <3> QED
      BY <3>1, <3>2 DEF HodConfig!IsDefault
  <2> DEFINE t == HodConfig!Parsed("client", o, cmdline[o])
  <2>3. parsed'[o] = IF ~HodConfig!IsFalse(t) THEN t ELSE HodConfig!Absent
    BY <1>1, <2>1 DEF HodConfig!ParseOptions, HodConfig!build_dict
  <2>4. CASE cmdline[o] = <<>>
    <3>1. t = HodConfig!NoValue
      BY <2>2, <2>4 DEF HodConfig!Parsed
    <3>2. HodConfig!IsFalse(t)
      BY <3>1 DEF HodConfig!IsFalse
    <3> QED
      BY <2>3, <3>2 DEF Input
  <2>5. CASE cmdline[o] # <<>>
    <3>1. t = HodConfig!Join(HodConfig!Comma, HodConfig!FlattenSeq([i \in DOMAIN cmdline[o] |-> HodConfig!Parts(HodConfig!Comma, cmdline[o][i])]))
      BY <2>5 DEF HodConfig!Parsed
    <3>2. cmdline[o] \in Seq({u \in HodConfig!Range(cmdline[o]) : HodConfig!ParamText(u)})
      BY DEF ConfigInv, Shapes
    <3> DEFINE g == cmdline[o]
    <3>3. g \in Seq({u \in HodConfig!Range(g) : HodConfig!ParamText(u)}) /\ g # <<>>
      BY <2>5, <3>2
    <3> HIDE DEF g, t
    <3>4. HodConfig!ParamText(HodConfig!Join(HodConfig!Comma, HodConfig!FlattenSeq([i \in DOMAIN g |-> HodConfig!Parts(HodConfig!Comma, g[i])])))
      BY <3>3, ParsedText
    <3>5. HodConfig!ParamText(t)
      BY <3>1, <3>4 DEF g
    <3> QED
      BY <2>3, <3>5 DEF Input
  <2> QED
    BY <2>4, <2>5
<1>4. UNCHANGED <<hodrc, cmdline, dict, default>>
  BY DEF HodConfig!ParseOptions
<1>5. Shapes'
  BY <1>1, <1>2, <1>3, <1>4 DEF ConfigInv, Shapes, States
<1>6. MergedInv'
  BY <1>1, <1>2 DEF MergedInv, WhenMerged, WhenValid
<1>7. DefaultInv'
  BY <1>1, <1>2, <1>4 DEF ConfigInv, DefaultInv, Converted
<1> QED
  BY <1>5, <1>6, <1>7 DEF ConfigInv

LEMMA MergeStep == ASSUME ConfigInv, HodConfig!MergeConfig PROVE ConfigInv'
<1>1. "client" \in HodConfig!Procs /\ status \in [HodConfig!Procs -> States] /\ DOMAIN dict = HodConfig!Procs
  BY DEF HodConfig!Procs, ConfigInv, Shapes
<1>2. status' = [status EXCEPT !["client"] = "merged"] /\ status["client"] = "parsed"
  BY DEF HodConfig!MergeConfig
<1>3. UNCHANGED <<hodrc, cmdline, parsed, default>>
  BY DEF HodConfig!MergeConfig
<1> DEFINE F == [o \in ConfOptions |-> IF parsed[o] = HodConfig!Absent THEN hodrc[o]
                                   ELSE IF o \in {"params", "finals"} THEN HodConfig!MergeParams(o, hodrc[o], parsed[o])
                                   ELSE HodConfig!MergeOption(o, hodrc[o], parsed[o])]
<1>4. dict' = [dict EXCEPT !["client"] = F]
  BY DEF HodConfig!MergeConfig
<1>5. DOMAIN F = ConfOptions /\ \A o \in {"params", "finals"} \cap ConfOptions : F[o] = Merged(o)
  BY DEF Merged
<1> HIDE DEF F
<1>6. DOMAIN dict' = HodConfig!Procs /\ dict'["client"] = F
  BY <1>1, <1>4
<1>7. Shapes'
  BY <1>1, <1>2, <1>3, <1>5, <1>6 DEF ConfigInv, Shapes, States
<1>8. \A o \in {"params", "finals"} \cap ConfOptions : Merged(o)' = Merged(o)
  BY <1>3 DEF Merged, HodConfig!MergeParams
<1>9. MergedInv'
  BY <1>1, <1>2, <1>5, <1>6, <1>8 DEF MergedInv, WhenMerged, WhenValid
<1>10. DefaultInv'
  BY <1>1, <1>2, <1>3 DEF ConfigInv, DefaultInv, Converted
<1> QED
  BY <1>7, <1>9, <1>10 DEF ConfigInv

(* Verification puts the defaults back in another form.                    *)
LEMMA VerifyDefaults == ASSUME ConfigInv, NEW p \in HodConfig!Procs, HodConfig!VerifyConfig(p) PROVE DefaultInv'
<1>1. /\ status \in [HodConfig!Procs -> States] /\ DOMAIN default = HodConfig!Procs
      /\ \A q \in HodConfig!Procs : DOMAIN default[q] = ConfOptions
  BY DEF ConfigInv, Shapes
<1>2. /\ status[p] \in {"merged", "parsed"} /\ status' = [status EXCEPT ![p] = HodConfig!Verdict(p)]
      /\ HodConfig!Verdict(p) \in {"raised", "invalid", "valid"}
  BY DEF HodConfig!VerifyConfig, HodConfig!Verdict
<1>3. status'[p] \notin {"new", "parsed", "merged"} /\ \A q \in HodConfig!Procs \ {p} : status'[q] = status[q]
  BY <1>1, <1>2
<1> SUFFICES ASSUME NEW q \in HodConfig!Procs, NEW o \in ConfOptions
             PROVE  (\/ default[q][o] = Dflt(q, o)
                     \/ status[q] \notin {"new", "parsed", "merged"} /\ Converted(q, o))'
  BY DEF DefaultInv
<1>4. \/ default[q][o] = Dflt(q, o)
      \/ status[q] \notin {"new", "parsed", "merged"} /\ Converted(q, o)
  BY DEF ConfigInv, DefaultInv
<1>5. CASE default'[q][o] = default[q][o]
  <2>1. status[q] \notin {"new", "parsed", "merged"} => status'[q] \notin {"new", "parsed", "merged"}
    BY <1>3
  <2> QED
    BY <1>4, <1>5, <2>1 DEF Converted, Dflt
<1>6. CASE default'[q][o] # default[q][o]
  <2>1. HodConfig!Verdict(p) # "raised"
    BY <1>6 DEF HodConfig!VerifyConfig
  <2> DEFINE F == [x \in ConfOptions |-> IF x \in HodConfig!Set(p) THEN HodConfig!NormDefault(p, x) ELSE default[p][x]]
  <2>2. default' = [default EXCEPT ![p] = F]
    BY <2>1 DEF HodConfig!VerifyConfig
  <2>3. q = p /\ o \in HodConfig!Set(p) /\ default'[p][o] = HodConfig!NormDefault(p, o)
    <3>1. F[o] = IF o \in HodConfig!Set(p) THEN HodConfig!NormDefault(p, o) ELSE default[p][o]
      OBVIOUS
    <3> HIDE DEF F
    <3> QED
      BY <1>1, <1>6, <2>2, <3>1
  <2>4. default[p][o] = Dflt(p, o)
    BY <1>2, <1>4, <2>3
  <2>5. Dflt(p, o) # HodConfig!NoValue
    BY <1>6, <2>3, <2>4 DEF HodConfig!NormDefault
  <2>6. HodConfig!normalize(HodConfig!Type(p, o), Dflt(p, o), HodConfig!cwd(p)) # {}
    BY <2>1, <2>3, <2>4, <2>5 DEF HodConfig!Verdict, HodConfig!Raises
  <2>7. default'[p][o] = HodConfig!toString(HodConfig!Type(p, o), CHOOSE v \in HodConfig!normalize(HodConfig!Type(p, o), Dflt(p, o), HodConfig!cwd(p)) : TRUE)
    BY <2>3, <2>4, <2>5 DEF HodConfig!NormDefault
  <2> QED
    BY <1>3, <2>3, <2>5, <2>6, <2>7 DEF Converted, Dflt
<1> QED
  BY <1>5, <1>6

(* The parameters that the client has verified.                            *)
LEMMA VerifyMerged == ASSUME ConfigInv, NEW p \in HodConfig!Procs, HodConfig!VerifyConfig(p) PROVE MergedInv'
<1>1. /\ "client" \in HodConfig!Procs /\ status \in [HodConfig!Procs -> States] /\ DOMAIN dict = HodConfig!Procs
      /\ DOMAIN dict["client"] = ConfOptions
  BY DEF HodConfig!Procs, ConfigInv, Shapes
<1>2. /\ status' = [status EXCEPT ![p] = HodConfig!Verdict(p)]
      /\ HodConfig!Verdict(p) \in {"raised", "invalid", "valid"} /\ UNCHANGED <<hodrc, parsed>>
  BY DEF HodConfig!VerifyConfig, HodConfig!Verdict
<1>3. CASE p # "client"
  <2>1. dict'["client"] = dict["client"] /\ status'["client"] = status["client"]
    BY <1>1, <1>2, <1>3 DEF HodConfig!VerifyConfig
  <2>2. \A o : Merged(o)' = Merged(o)
    BY <1>2 DEF Merged, HodConfig!MergeParams
  <2>3. HodConfig!Given(dict["client"])' = HodConfig!Given(dict["client"])
    BY <2>1 DEF HodConfig!Given
  <2>4. WhenMerged /\ WhenValid
    BY DEF ConfigInv, MergedInv
  <2>5. WhenMerged'
    BY <2>1, <2>2, <2>4 DEF WhenMerged
  <2>6. WhenValid'
    BY <1>2, <2>1, <2>3, <2>4 DEF WhenValid
  <2> QED
    BY <2>5, <2>6 DEF MergedInv
<1>4. CASE p = "client"
  <2>1. /\ status["client"] = "merged" /\ status'["client"] = HodConfig!Verdict("client")
        /\ HodConfig!Verdict("client") # "merged"
    BY <1>1, <1>2, <1>4 DEF HodConfig!VerifyConfig
  <2> SUFFICES ASSUME HodConfig!Verdict("client") = "valid", NEW o \in {"params", "finals"} \cap HodConfig!Given(dict["client"])'
               PROVE  Precedence(hodrc[o], parsed[o], o \in {"finals"}, dict'["client"][o].dict)
    BY <1>2, <2>1 DEF MergedInv, WhenMerged, WhenValid
  <2> DEFINE c == "client"
             F == [x \in ConfOptions |->
                     LET v == (CHOOSE i \in HodConfig!Info(c, x) : TRUE).normalized
                     IN IF x \notin HodConfig!Set(c) \/ HodConfig!Info(c, x) = {HodConfig!Invalid} THEN dict[c][x]
                        ELSE IF c = "ringmaster" /\ HodConfig!Verdict(c) = "valid" THEN HodConfig!replace_escapes(v) ELSE v]
             w == dict["client"][o]
  <2>2. dict'["client"] = F
    BY <1>1, <1>4 DEF HodConfig!VerifyConfig
  <2>3. o \in ConfOptions /\ dict'["client"][o] # HodConfig!Absent
    BY DEF HodConfig!Given
  <2>4. F[o] = IF o \notin HodConfig!Set(c) \/ HodConfig!Info(c, o) = {HodConfig!Invalid} THEN w
               ELSE (CHOOSE i \in HodConfig!Info(c, o) : TRUE).normalized
    BY <2>3
  <2> HIDE DEF F, w
  <2>5. o \in HodConfig!Set(c)
    <3>1. o \in HodConfig!Known(c)
      BY <2>3 DEF HodConfig!Known
    <3>2. w # HodConfig!Absent => o \in HodConfig!Set(c)
      BY <2>3, <3>1 DEF HodConfig!Set, HodConfig!Given, w
    <3> QED
      BY <2>2, <2>3, <2>4, <3>2
  <2>6. HodConfig!Info(c, o) = HodConfig!verify_keyval(w)
    <3>1. HodConfig!Type(c, o) = "keyval" /\ ConfDef[c][o].validate
      BY <2>3, ConfigAssumption DEF HodConfig!WellDefined
    <3>2. \A d : HodConfig!Verify("keyval", w, d) = HodConfig!verify_keyval(w)
      BY DEF HodConfig!Verify
    <3> QED
      BY <3>1, <3>2 DEF HodConfig!Info, w
  <2>7. HodConfig!verify_keyval(w) # {HodConfig!Invalid}
    BY <2>5, <2>6 DEF HodConfig!Verdict
  <2>8. dict'["client"][o] = (CHOOSE i \in HodConfig!verify_keyval(w) : TRUE).normalized
    BY <2>2, <2>4, <2>5, <2>6, <2>7
  <2>9. w # HodConfig!Absent /\ w = Merged(o)
    <3>1. w # HodConfig!Absent
      BY <2>5 DEF HodConfig!Set, HodConfig!Given, w
    <3> QED
      BY <2>1, <2>3, <3>1 DEF ConfigInv, MergedInv, WhenMerged, WhenValid, w
  <2>10. Input(hodrc[o]) /\ Input(parsed[o])
    BY <2>3 DEF ConfigInv, Shapes
  <2> DEFINE r == dict'["client"][o].dict
             final == o \in {"finals"}
  <2>11. r = (CHOOSE i \in HodConfig!verify_keyval(w) : TRUE).normalized.dict /\ final \in BOOLEAN
    BY <2>8
  <2>12. CASE parsed[o] = HodConfig!Absent
    <3>1. w = hodrc[o]
      BY <2>9, <2>12 DEF Merged
    <3>2. HodConfig!ParamText(hodrc[o]) /\ hodrc[o] # HodConfig!Absent
      BY <2>9, <2>10, <3>1 DEF Input
    <3> HIDE DEF r, final, c
    <3>3. Precedence(hodrc[o], HodConfig!Absent, final, r)
      BY <2>7, <2>11, <3>1, <3>2, FileMeans
    <3> QED
      BY <2>12, <3>3 DEF r, final
  <2>13. CASE parsed[o] # HodConfig!Absent
    <3>1. w = HodConfig!AsText(HodConfig!Entered(HodConfig!Entered(<<>>, HodConfig!Items(hodrc[o]), {HodConfig!Empty}, TRUE), HodConfig!Items(parsed[o]), {}, ~final))
      BY <2>9, <2>13 DEF Merged, HodConfig!MergeParams
    <3>2. HodConfig!ParamText(parsed[o])
      BY <2>10, <2>13 DEF Input
    <3> HIDE DEF r, final, c
    <3>3. Precedence(hodrc[o], parsed[o], final, r)
      BY <2>7, <2>10, <2>11, <2>13, <3>1, <3>2, MergeMeans
    <3> QED
      BY <3>3 DEF r, final
  <2> QED
    BY <2>12, <2>13
<1> QED
  BY <1>3, <1>4

LEMMA VerifyStep == ASSUME ConfigInv, NEW p \in HodConfig!Procs, HodConfig!VerifyConfig(p) PROVE ConfigInv'
<1>1. /\ "client" \in HodConfig!Procs /\ status \in [HodConfig!Procs -> States] /\ DOMAIN dict = HodConfig!Procs
      /\ DOMAIN dict["client"] = ConfOptions /\ DOMAIN default = HodConfig!Procs
      /\ \A q \in HodConfig!Procs : DOMAIN default[q] = ConfOptions
  BY DEF HodConfig!Procs, ConfigInv, Shapes
<1>2. /\ status' = [status EXCEPT ![p] = HodConfig!Verdict(p)]
      /\ HodConfig!Verdict(p) \in {"raised", "invalid", "valid"} /\ UNCHANGED <<hodrc, cmdline, parsed>>
  BY DEF HodConfig!VerifyConfig, HodConfig!Verdict
<1>3. status' \in [HodConfig!Procs -> States]
  BY <1>1, <1>2 DEF States
<1>4. DOMAIN dict' = HodConfig!Procs /\ DOMAIN dict'["client"] = ConfOptions
  BY <1>1 DEF HodConfig!VerifyConfig
<1>5. DOMAIN default' = HodConfig!Procs /\ \A q \in HodConfig!Procs : DOMAIN default'[q] = ConfOptions
  BY <1>1 DEF HodConfig!VerifyConfig
<1>6. Shapes'
  BY <1>2, <1>3, <1>4, <1>5 DEF ConfigInv, Shapes
<1> QED
  BY <1>6, VerifyMerged, VerifyDefaults DEF ConfigInv

LEMMA LaunchStep == ASSUME ConfigInv, NEW p \in HodConfig!Procs, HodConfig!Launch(p) PROVE ConfigInv'
<1>1. /\ "client" \in HodConfig!Procs /\ status \in [HodConfig!Procs -> States] /\ DOMAIN dict = HodConfig!Procs
  BY DEF HodConfig!Procs, ConfigInv, Shapes
<1>2. p # "client" /\ UNCHANGED <<hodrc, cmdline, parsed, default>>
  BY DEF HodConfig!Launch
<1>3. \E s \in {"usage", "parsed"} : status[p] = "new" /\ status' = [status EXCEPT ![p] = s]
  BY DEF HodConfig!Launch
<1>4. dict' = dict \/ \E F : dict' = [dict EXCEPT ![p] = F]
  BY DEF HodConfig!Launch
<1>5. DOMAIN dict' = HodConfig!Procs /\ dict'["client"] = dict["client"]
  BY <1>1, <1>2, <1>4
<1>6. status' \in [HodConfig!Procs -> States] /\ status'["client"] = status["client"]
  BY <1>1, <1>2, <1>3 DEF States
<1>7. Shapes'
  BY <1>2, <1>5, <1>6 DEF ConfigInv, Shapes
<1>8. MergedInv'
  <2>1. \A o : Merged(o)' = Merged(o)
    BY <1>2 DEF Merged, HodConfig!MergeParams
  <2>2. HodConfig!Given(dict["client"])' = HodConfig!Given(dict["client"])
    BY <1>5 DEF HodConfig!Given
  <2> QED
    BY <1>2, <1>5, <1>6, <2>1, <2>2 DEF ConfigInv, MergedInv, WhenMerged, WhenValid
<1>9. DefaultInv'
  <2>1. \A q \in HodConfig!Procs, o \in ConfOptions : Converted(q, o)' <=> Converted(q, o)
    BY <1>2 DEF Converted
  <2>2. \A q \in HodConfig!Procs : status[q] \notin {"new", "parsed", "merged"} => status'[q] = status[q]
    BY <1>1, <1>3
  <2> QED
    BY <1>2, <2>1, <2>2 DEF ConfigInv, DefaultInv
<1> QED
  BY <1>7, <1>8, <1>9 DEF ConfigInv

LEMMA ConfigStep == ASSUME ConfigInv, HodConfig!Next \/ UNCHANGED HodConfig!vars PROVE ConfigInv'
<1>1. CASE UNCHANGED HodConfig!vars
  <2>0. UNCHANGED <<hodrc, cmdline, parsed, dict, default, status>>
    BY <1>1 DEF HodConfig!vars
  <2>1. Shapes'
    BY <2>0 DEF ConfigInv, Shapes
  <2>2. WhenMerged'
    BY <2>0 DEF ConfigInv, MergedInv, WhenMerged, Merged, HodConfig!MergeParams
  <2>3. WhenValid'
    BY <2>0 DEF ConfigInv, MergedInv, WhenValid, HodConfig!Given
  <2>4. DefaultInv'
    BY <2>0 DEF ConfigInv, DefaultInv, Converted
  <2> QED
    BY <2>1, <2>2, <2>3, <2>4 DEF ConfigInv, MergedInv
<1>2. CASE HodConfig!Next
  BY <1>2, ParseStep, MergeStep, VerifyStep, LaunchStep DEF HodConfig!Next
<1> QED
  BY <1>1, <1>2

LEMMA ConfigSays == ASSUME ConfigInv PROVE HodConfig!ParamsByPrecedence /\ HodConfig!DefaultsKeepMeaning
<1>1. HodConfig!ParamsByPrecedence
  <2> SUFFICES ASSUME status["client"] = "valid", NEW o \in {"params", "finals"} \cap HodConfig!Given(dict["client"])
               PROVE  LET keys(t) == {HodConfig!Key(HodConfig!Items(t)[i]) : i \in DOMAIN HodConfig!Items(t)} \ {HodConfig!Empty}
                          d == dict["client"][o].dict
                      IN /\ DOMAIN d \ {HodConfig!Empty} = keys(hodrc[o]) \cup keys(parsed[o])
                         /\ \A k \in DOMAIN d \ {HodConfig!Empty} : d[k] = HodConfig!Chosen(o, k)
    BY DEF HodConfig!ParamsByPrecedence
  <2>1. Precedence(hodrc[o], parsed[o], o \in {"finals"}, dict["client"][o].dict)
    BY DEF ConfigInv, MergedInv, WhenMerged, WhenValid
  <2>2. \A k : HodConfig!Chosen(o, k) = Preferred(hodrc[o], parsed[o], o \in {"finals"}, k)
    BY DEF HodConfig!Chosen, Preferred, At
  <2> QED
    BY <2>1, <2>2 DEF Precedence, KeysOf
<1>2. HodConfig!DefaultsKeepMeaning
  <2> SUFFICES ASSUME NEW p \in HodConfig!Procs, NEW o \in ConfOptions, default[p][o] # ConfDef[p][o].default
               PROVE  HodConfig!normalize(HodConfig!Type(p, o), default[p][o], HodConfig!cwd(p))
                        = HodConfig!normalize(HodConfig!Type(p, o), ConfDef[p][o].default, HodConfig!cwd(p))
    BY DEF HodConfig!DefaultsKeepMeaning
  <2>1. Converted(p, o)
    BY DEF ConfigInv, DefaultInv, Dflt
  <2>2. HodConfig!IsDefault(HodConfig!Type(p, o), Dflt(p, o))
    BY ConfigAssumption DEF HodConfig!WellDefined, Dflt
  <2>3. RoundTrip(HodConfig!Type(p, o), Dflt(p, o), HodConfig!cwd(p))
    BY <2>1, <2>2, DefaultTrip DEF Converted
  <2> QED
    BY <2>1, <2>3 DEF Converted, RoundTrip, Dflt
<1> QED
  BY <1>1, <1>2

(* The parameters that accumulate keep the precedence of command line and  *)
(* hodrc, and verify keeps the meaning of the defaults it normalizes.      *)
(* (__initialize_config_dict, baseConfig.verify)                           *)
THEOREM ConfigIsMeant == AllSpec => []ConfigMeant
<1> DEFINE Inv == part = "config" => ConfigInv
<1>1. AllInit => Inv
  BY ConfigStart DEF AllInit
<1>2. Inv /\ [AllNext]_allVars => Inv'
  <2> SUFFICES ASSUME part = "config", ConfigInv, [AllNext]_allVars PROVE ConfigInv'
    BY DEF AllNext, Only, allVars
  <2>1. HodConfig!Next \/ UNCHANGED configPart
    BY DEF AllNext, Only, allVars
  <2>2. UNCHANGED configPart => UNCHANGED HodConfig!vars
    BY DEF configPart, HodConfig!vars
  <2>3. QED BY <2>1, <2>2, ConfigStep
<1>3. Inv => ConfigMeant
  BY ConfigSays DEF ConfigMeant
<1>4. QED BY <1>1, <1>2, <1>3, PTL DEF AllSpec

-----------------------------------------------------------------------------
(* The exit code of a script                                               *)

(* From the moment a subcommand script with a directory is parsed, the     *)
(* file of an earlier run is gone or the user was warned.                  *)
ScriptInDir == ~CmdLine!Rejected /\ CmdLine!RunsScript
CommandInv ==
  /\ CmdLine!TypeOK /\ CmdLine!ExitCodeIsOfLastRun
  /\ exitFile \in {NoFile} \cup 1..run
  /\ linePc # "idle" => run >= 1
  /\ linePc = "start" => removal = "none"
  /\ linePc \in {"parsed", "operation", "script"} /\ ScriptInDir =>
       removal = "failed" \/ exitFile = NoFile

LEMMA CommandInit == ASSUME CmdLine!Init PROVE CommandInv
<1> DEFINE l == [usage |-> "right", operation |-> FALSE, script |-> FALSE, clusterdir |-> FALSE,
                 nodecount |-> FALSE, nArgs |-> 0, cmdstr |-> "other", aboutOptions |-> FALSE]
<1>1. l \in CmdLine!Lines
  BY DEF CmdLine!Lines
<1>2. CmdLine!NoLine \in CmdLine!Lines /\ CmdLine!NoLine.nArgs = 0
  BY <1>1 DEF CmdLine!NoLine
<1>3. line \in CmdLine!Lines /\ ~ScriptInDir
  BY <1>2 DEF CmdLine!Init, CmdLine!Subcommand, CmdLine!RunsScript, ScriptInDir
<1>4. QED BY <1>3 DEF CmdLine!Init, CommandInv, CmdLine!TypeOK, CmdLine!ExitCodeIsOfLastRun, ScriptInDir

LEMMA CommandStep == ASSUME CommandInv, CmdLine!Next PROVE CommandInv'
<1> USE FileAssumption
<1>0. /\ run \in 0..2 /\ line \in CmdLine!Lines /\ exitFile \in {NoFile} \cup 1..run
      /\ linePc \in {"idle", "start", "parsed", "operation", "script"}
      /\ code \in {0, 1, 2, 3, 5, 6, 127, 137} /\ removal \in {"none", "done", "failed"}
  BY DEF CommandInv, CmdLine!TypeOK
<1>l. ASSUME line' = line PROVE ScriptInDir' <=> ScriptInDir
  BY <1>l DEF ScriptInDir, CmdLine!Rejected, CmdLine!RunsScript, CmdLine!Subcommand
<1>1. CASE CmdLine!Start
  BY <1>0, <1>1 DEF CmdLine!Start, CommandInv, CmdLine!TypeOK, CmdLine!ExitCodeIsOfLastRun
<1>2. CASE CmdLine!ParseArgs
  <2>1. /\ UNCHANGED <<run, line>> /\ linePc = "start"
        /\ \/ exitFile' = NoFile /\ removal' = "done"
           \/ exitFile' = exitFile /\ removal' = "failed"
           \/ exitFile' = exitFile /\ removal' = removal /\ ~ScriptInDir
        /\ \/ linePc' = "idle" /\ code' \in {0, 2, 3}
           \/ linePc' = "parsed" /\ code' = code
    BY <1>2 DEF CmdLine!ParseArgs, CmdLine!RemoveExitCodeFile, CmdLine!ExitCodes, CmdLine!End, ScriptInDir
  <2>2. ScriptInDir' <=> ScriptInDir
    BY <1>l, <2>1
  <2>3. QED BY <1>0, <2>1, <2>2 DEF CommandInv, CmdLine!TypeOK, CmdLine!ExitCodeIsOfLastRun, ScriptInDir
<1>3. CASE CmdLine!Configure \/ CmdLine!RunOperation
  <2>1. /\ UNCHANGED <<run, line, exitFile, removal>> /\ linePc \in {"parsed", "operation"}
        /\ \/ linePc' = "idle" /\ code' \in {0, 1, 2}
           \/ linePc' \in {"operation", "script"} /\ code' = code
    BY <1>3 DEF CmdLine!Configure, CmdLine!RunOperation, CmdLine!End
  <2>2. ScriptInDir' <=> ScriptInDir
    BY <1>l, <2>1
  <2>3. QED BY <1>0, <2>1, <2>2 DEF CommandInv, CmdLine!TypeOK, CmdLine!ExitCodeIsOfLastRun, ScriptInDir
<1>4. CASE CmdLine!RunScript
  <2>1. /\ UNCHANGED <<run, line, removal>> /\ linePc' = "idle" /\ linePc = "script"
        /\ \/ exitFile' = run /\ code' = 5
           \/ exitFile' = NoFile /\ code' \in {0, 6}
           \/ exitFile' = exitFile /\ code' = 0
    BY <1>4 DEF CmdLine!RunScript, CmdLine!ScriptExit, CmdLine!End
  <2>2. ScriptInDir' <=> ScriptInDir
    BY <1>l, <2>1
  <2>3. run >= 1
    BY <2>1 DEF CommandInv
  <2>4. QED BY <1>0, <2>1, <2>2, <2>3 DEF CommandInv, CmdLine!TypeOK, CmdLine!ExitCodeIsOfLastRun, ScriptInDir
<1>5. CASE CmdLine!Kill
  <2>1. /\ UNCHANGED <<run, line, removal>> /\ linePc' = "idle" /\ linePc # "idle"
        /\ code' \in {127, 137} /\ exitFile' \in {exitFile, run, NoFile}
        /\ linePc = "start" => exitFile' = exitFile
    BY <1>5 DEF CmdLine!Kill, CmdLine!End
  <2>2. ScriptInDir' <=> ScriptInDir
    BY <1>l, <2>1
  <2>3. run >= 1
    BY <2>1 DEF CommandInv
  <2>4. QED BY <1>0, <2>1, <2>2, <2>3 DEF CommandInv, CmdLine!TypeOK, CmdLine!ExitCodeIsOfLastRun, ScriptInDir
<1>6. QED BY <1>1, <1>2, <1>3, <1>4, <1>5 DEF CmdLine!Next

(* script.exitcode does not hold the code of an earlier run's script, of   *)
(* which the user was not warned, and holds the code hod ends with.        *)
(* (remove_exit_code_file, handle_script_exit_code)                        *)
THEOREM ExitCodeIsCurrent == AllSpec => []ExitCodeIsOfLastRun
<1> DEFINE Inv == part = "command" => CommandInv
<1>1. AllInit => Inv
  BY CommandInit DEF AllInit
<1>2. Inv /\ [AllNext]_allVars => Inv'
  <2> SUFFICES ASSUME part = "command", CommandInv, [AllNext]_allVars PROVE CommandInv'
    BY DEF AllNext, Only, allVars
  <2>1. CmdLine!Next \/ UNCHANGED commandPart
    BY DEF AllNext, Only, allVars
  <2>2. CASE UNCHANGED commandPart
    BY <2>2 DEF commandPart, CommandInv, ScriptInDir, CmdLine!TypeOK, CmdLine!ExitCodeIsOfLastRun,
       CmdLine!Subcommand, CmdLine!Rejected, CmdLine!RunsScript
  <2>3. QED BY <2>1, <2>2, CommandStep
<1>3. Inv => ExitCodeIsOfLastRun
  BY DEF CommandInv, ExitCodeIsOfLastRun
<1>4. QED BY <1>1, <1>2, <1>3, PTL DEF AllSpec

-----------------------------------------------------------------------------
(* The letters of the options                                              *)

(* A set of indices has a first and a last one.                            *)
LEMMA FirstAndLast ==
  ASSUME NEW n \in Nat, NEW I, I \subseteq 1..n, I # {}
  PROVE  /\ \E i \in I : \A k \in I : i <= k
         /\ \E i \in I : \A k \in I : i >= k
<1>1. ASSUME NEW T, T \subseteq Nat, T # {} PROVE \E x \in T : \A y \in T : x <= y
  <2>1. PICK x \in T : \A y \in T : <<y, x>> \notin OpToRel(<, Nat)
    BY <1>1, NatLessThanWellFounded, WFMin
  <2>2. x \in Nat /\ \A y \in T : y \in Nat /\ ~(y < x)
    BY <1>1, <2>1 DEF OpToRel
  <2>3. QED BY <2>2
<1>0. I \subseteq Nat
  OBVIOUS
<1>2. \E i \in I : \A k \in I : i <= k
  BY <1>0, <1>1
<1>3. \E i \in I : \A k \in I : i >= k
  <2> DEFINE T == {n - i : i \in I}
  <2>1. T \subseteq Nat /\ T # {}
    <3>1. \A i \in I : n - i \in Nat
      OBVIOUS
    <3>2. QED BY <3>1
  <2>2. PICK x \in T : \A y \in T : x <= y
    BY <1>1, <2>1
  <2>3. PICK i \in I : x = n - i
    BY <2>2
  <2>4. QED BY <2>2, <2>3
<1>4. QED BY <1>2, <1>3

(* An option gets a letter that is free, if there is one.                  *)
LEMMA LetterIsFree ==
  ASSUME NEW o, Len(o.name) \in Nat, NEW c, c = Short!Letter(o)
  PROVE  \/ Short!Free(c)
         \/ c = NoLetter /\ \A i \in 1..5 : ~Short!Free(<<"a", "b", "e", "h", "v">>[i])
<1> DEFINE A == <<"a", "b", "e", "h", "v">>
           I == {i \in 1..Len(o.name) : Short!Free(o.name[i])}
           K == {i \in 1..Len(A) : Short!Free(A[i])}
<1>1. Len(A) = 5
  OBVIOUS
<1>2. I # {} => Short!Min(I) \in I
  BY FirstAndLast DEF Short!Min
<1>3. K # {} => Short!Max(K) \in K
  BY <1>1, FirstAndLast DEF Short!Max
<1>4. c = IF I # {} THEN o.name[Short!Min(I)] ELSE IF K # {} THEN A[Short!Max(K)] ELSE NoLetter
  <2>1. Short!SelectInSeq(o.name, Short!Free) = IF I # {} THEN Short!Min(I) ELSE 0
    BY DEF Short!SelectInSeq
  <2>2. Short!SelectLastInSeq(A, Short!Free) = IF K # {} THEN Short!Max(K) ELSE 0
    BY DEF Short!SelectLastInSeq
  <2>3. (I # {} => Short!Min(I) # 0) /\ (K # {} => Short!Max(K) # 0)
    BY <1>1, <1>2, <1>3
  <2> HIDE DEF I, K
  <2>4. QED BY <2>1, <2>2, <2>3 DEF Short!Letter
<1>5. CASE I # {}
  BY <1>2, <1>4, <1>5
<1>6. CASE I = {} /\ K # {}
  BY <1>3, <1>4, <1>6
<1>7. CASE I = {} /\ K = {}
  BY <1>1, <1>4, <1>7
<1>8. QED BY <1>5, <1>6, <1>7

(* A letter that was given out is nobody else's, and options to come have  *)
(* none yet.                                                               *)
LettersInv ==
  /\ Short!TypeOK /\ Short!AllServed
  /\ \A i \in DOMAIN options :
       /\ i >= nextOption => shortMap[i] = NoLetter
       /\ shortMap[i] # NoLetter =>
            /\ options[i].short = NoLetter
            /\ shortMap[i] \notin Short!Assigned /\ shortMap[i] \notin {"h", "v"}
            /\ \A j \in DOMAIN options : i # j => shortMap[i] # shortMap[j]

Letters == {"a", "b", "e", "h", "v"}
LEMMA AlphabetLetters ==
  /\ Short!ToSet(<<"a", "b", "e", "h", "v">>) = Letters
  /\ \A c \in Letters : \E i \in 1..5 : c = <<"a", "b", "e", "h", "v">>[i]
BY DEF Short!ToSet, Letters

LEMMA LettersStart == ASSUME Short!Init PROVE LettersInv
<1>1. options \in OptionLists /\ options \in Seq([name : Seq(STRING), short : STRING \cup {NoLetter}])
  BY OptionsAssumption DEF Short!Init
<1>2. DOMAIN options = 1..Len(options) /\ Len(options) \in Nat
  BY <1>1
<1>3. QED BY <1>1, <1>2 DEF Short!Init, LettersInv, Short!TypeOK, Short!AllServed

LEMMA LettersStep == ASSUME LettersInv, Short!Next PROVE LettersInv'
<1> DEFINE n == nextOption
           Served(i) == Short!Short(i) = NoLetter =>
                          \A c \in Letters : \/ c \in {"h", "v"}
                                             \/ \E j \in DOMAIN options : Short!Short(j) = c
<1>0. /\ options \in OptionLists /\ options \in Seq([name : Seq(STRING), short : STRING \cup {NoLetter}])
      /\ NoLetter \notin Letters
  BY OptionsAssumption DEF LettersInv, Short!TypeOK, Letters
<1>1. DOMAIN options = 1..Len(options) /\ Len(options) \in Nat /\ n \in 1..Len(options)
  BY <1>0 DEF LettersInv, Short!TypeOK, Short!Next, Short!Assign
<1>2. shortMap \in [DOMAIN options -> Letters \cup {NoLetter}] /\ shortMap[n] = NoLetter
  BY <1>1, AlphabetLetters DEF LettersInv, Short!TypeOK
<1>3. \A i \in 1..n - 1 : Served(i)
  BY AlphabetLetters DEF LettersInv, Short!AllServed
<1>4. PICK c : c = IF options[n].short = NoLetter THEN Short!Letter(options[n]) ELSE NoLetter
  OBVIOUS
<1>5. UNCHANGED options /\ nextOption' = n + 1 /\ shortMap' = [shortMap EXCEPT ![n] = c]
  BY <1>1, <1>2, <1>4 DEF Short!Next, Short!Assign
<1>6. \/ options[n].short = NoLetter /\ Short!Free(c)
      \/ c = NoLetter /\ (options[n].short = NoLetter => \A l \in Letters : ~Short!Free(l))
  <2>1. Len(options[n].name) \in Nat
    BY <1>0, <1>1
  <2>2. QED BY <1>4, <2>1, LetterIsFree, AlphabetLetters
<1>7. Short!Free(c) => c \in Letters /\ c \notin Short!Assigned /\ c \notin {"h", "v"}
                       /\ \A j \in DOMAIN options : shortMap[j] # c
  BY <1>0, <1>2, AlphabetLetters DEF Short!Free, Short!alpha, Short!shortOptions
<1>8. Short!TypeOK'
  BY <1>0, <1>1, <1>2, <1>5, <1>6, <1>7, AlphabetLetters DEF Short!TypeOK
<1>9. \A i \in DOMAIN options : shortMap'[i] = IF i = n THEN c ELSE shortMap[i]
  BY <1>1, <1>2, <1>5
<1>10. ASSUME NEW i \in DOMAIN options
       PROVE  /\ i >= n + 1 => shortMap'[i] = NoLetter
              /\ shortMap'[i] # NoLetter =>
                   /\ options[i].short = NoLetter
                   /\ shortMap'[i] \notin Short!Assigned /\ shortMap'[i] \notin {"h", "v"}
                   /\ \A j \in DOMAIN options : i # j => shortMap'[i] # shortMap'[j]
  <2>1. CASE i = n
    BY <1>1, <1>6, <1>7, <1>9, <2>1
  <2>2. CASE i # n
    BY <1>1, <1>2, <1>6, <1>7, <1>9, <2>2 DEF LettersInv
  <2>3. QED BY <2>1, <2>2
<1>11. Short!Assigned' = Short!Assigned
  BY <1>5 DEF Short!Assigned
<1>12. \A i \in DOMAIN options : Short!Short(i) # NoLetter => Short!Short(i)' = Short!Short(i)
  BY <1>1, <1>2, <1>6, <1>5, <1>9 DEF Short!Short
<1>13. ASSUME NEW i \in 1..n, Short!Short(i)' = NoLetter, NEW l \in Letters, l \notin {"h", "v"}
       PROVE  \E j \in DOMAIN options : Short!Short(j)' = l
  <2>0. i \in DOMAIN options /\ Short!Short(i) = NoLetter
    BY <1>1, <1>12, <1>13
  <2>1. CASE i # n
    BY <1>0, <1>1, <1>3, <1>12, <1>13, <2>0, <2>1
  <2>2. CASE i = n
    <3>1. ~Short!Free(l)
      BY <1>0, <1>1, <1>5, <1>6, <1>7, <1>9, <1>13, <2>2 DEF Short!Short
    <3>2. l \in Short!Assigned \/ l \in Short!shortOptions
      BY <1>13, <3>1, AlphabetLetters DEF Short!Free, Short!alpha
    <3>3. \E j \in DOMAIN options : Short!Short(j) = l
      BY <1>0, <3>2 DEF Short!Assigned, Short!shortOptions, Short!Short, LettersInv
    <3>4. QED BY <1>0, <1>12, <3>3
  <2>3. QED BY <2>1, <2>2
<1>14. Short!AllServed'
  BY <1>1, <1>5, <1>13, AlphabetLetters DEF Short!AllServed
<1>15. QED BY <1>5, <1>8, <1>10, <1>11, <1>14 DEF LettersInv

(* No letter is given to two options, and an option goes without one only  *)
(* when none is left.  (__build_short_map)                                 *)
THEOREM LettersGoRound == AllSpec => []LettersServed
<1> DEFINE Inv == part = "options" => LettersInv
<1>1. AllInit => Inv
  BY LettersStart DEF AllInit
<1>2. Inv /\ [AllNext]_allVars => Inv'
  <2> SUFFICES ASSUME part = "options", LettersInv, [AllNext]_allVars PROVE LettersInv'
    BY DEF AllNext, Only, allVars
  <2>1. Short!Next \/ UNCHANGED optionsPart
    BY DEF AllNext, Only, allVars
  <2>2. CASE UNCHANGED optionsPart
    BY <2>2 DEF optionsPart, LettersInv, Short!TypeOK, Short!AllServed, Short!Assigned, Short!Short
  <2>3. QED BY <2>1, <2>2, LettersStep
<1>3. Inv => LettersServed
  <2>1. LettersInv => Short!NoConflict
    BY OptionsAssumption DEF LettersInv, Short!NoConflict, Short!Short, Short!Assigned
  <2>2. QED BY <2>1 DEF LettersInv, LettersServed
<1>4. QED BY <1>1, <1>2, <1>3, PTL DEF AllSpec

-----------------------------------------------------------------------------
(* The registry: the lock makes what a thread has read still true when it  *)
(* writes, and every thread works for at most one waiting client.          *)

RegistryInv == TypeOK /\ LockInv /\ ServingInv

(* An entry is no query, and neither is the absence of a call.             *)
LEMMA EntriesApart == \A e \in Entries : e \notin Queries /\ e # None
<1> SUFFICES ASSUME NEW e \in Entries PROVE e \notin Queries /\ e # None
    OBVIOUS
<1>1. e # None
    BY RegistryAssumption DEF Entries
<1>2. "host" \in DOMAIN e
    BY DEF Entries
<1>3. \A q \in Queries : "host" \notin DOMAIN q
    BY DEF Queries
<1> QED
    BY <1>1, <1>2, <1>3

LEMMA NoneApart == None \notin Requests
    BY RegistryAssumption DEF Requests, Entries, Queries

(* registerService finds the longest part of its key that is there.        *)
LEMMA DepthFound ==
  ASSUME NEW key
  PROVE  /\ Depth(key) \in 0..3
         /\ Depth(key) = 0 \/ Found(key, Depth(key))
         /\ Depth(key) = 3 \/ ~Found(key, Depth(key) + 1)
<1> DEFINE P(d) == (d = 0 \/ Found(key, d)) /\ (d = 3 \/ ~Found(key, d + 1))
<1>1. \E d \in 0..3 : P(d)
  <2>1. CASE Found(key, 3)
      BY <2>1
  <2>2. CASE ~Found(key, 3) /\ Found(key, 2)
      BY <2>2
  <2>3. CASE ~Found(key, 2) /\ Found(key, 1)
      BY <2>3
  <2>4. CASE ~Found(key, 1)
      BY <2>4
  <2> QED
      BY <2>1, <2>2, <2>3, <2>4
<1> HIDE DEF P
<1>2. Depth(key) = CHOOSE d \in 0..3 : P(d)
    BY DEF Depth, P
<1>3. Depth(key) \in 0..3 /\ P(Depth(key))
    BY <1>1, <1>2
<1> QED
    BY <1>3 DEF P

(* So only the list of the key itself is replaced: by a longer one.        *)
LEMMA KeptAll ==
  ASSUME NEW D \in SUBSET Keys, DOMAIN serviceDict = D, NEW e \in Entries
  PROVE  /\ KeyOf(e) \in Keys
         /\ Kept(KeyOf(e), Depth(KeyOf(e))) = D \ {KeyOf(e)}
         /\ Depth(KeyOf(e)) = 3 <=> KeyOf(e) \in D
<1> DEFINE key == KeyOf(e)
<1> DEFINE d == Depth(key)
<1>1. key \in Keys
    BY DEF KeyOf, Keys, Entries
<1>2. \A k \in D : Agree(k, key, 3) <=> k = key
    BY <1>1 DEF Agree, Keys
<1>3. d \in 0..3 /\ (d = 0 \/ Found(key, d)) /\ (d = 3 \/ ~Found(key, d + 1))
    BY DepthFound
<1>4. CASE d = 3
  <2>1. \E k \in D : Agree(k, key, 3)
      BY <1>3, <1>4 DEF Found
  <2>2. key \in D
      BY <2>1, <1>2
  <2>3. Kept(key, d) = {k \in D : ~Agree(k, key, 3)}
      BY <1>4 DEF Kept
  <2> QED
      BY <2>2, <2>3, <1>1, <1>2, <1>4
<1>5. CASE d \in 0..2
  <2>1. ~Found(key, d + 1)
      BY <1>3, <1>5
  <2>2. \A k \in D : ~Agree(k, key, d + 1)
      BY <2>1 DEF Found
  <2>3. Agree(key, key, d + 1)
      BY DEF Agree
  <2>4. key \notin D
      BY <2>2, <2>3
  <2>5. Kept(key, d) = {k \in D : ~Agree(k, key, d + 1)}
      BY <1>5 DEF Kept
  <2> QED
      BY <2>2, <2>4, <2>5, <1>1, <1>5
<1> QED
    BY <1>3, <1>4, <1>5

(* The items of a list that is appended to.                                *)
LEMMA AppendItems ==
  ASSUME NEW S, NEW s \in Seq(S), NEW e \in S
  PROVE  /\ Append(s, e) \in Seq(S)
         /\ {Append(s, e)[i] : i \in DOMAIN Append(s, e)}
              = {s[i] : i \in DOMAIN s} \cup {e}
<1>1. /\ Append(s, e) \in Seq(S) /\ Len(s) \in Nat
      /\ Len(Append(s, e)) = Len(s) + 1
      /\ DOMAIN s = 1..Len(s) /\ DOMAIN Append(s, e) = 1..(Len(s) + 1)
      /\ \A i \in 1..Len(s) : Append(s, e)[i] = s[i]
      /\ Append(s, e)[Len(s) + 1] = e
    OBVIOUS
<1>2. 1..(Len(s) + 1) = (1..Len(s)) \cup {Len(s) + 1}
    BY <1>1
<1> QED
    BY <1>1, <1>2

(* registerService enters its entry and touches no other.                  *)
LEMMA WriteEnters ==
  ASSUME NEW D \in SUBSET Keys, serviceDict \in [D -> Seq(Entries)],
         NEW e \in Entries,
         serviceDict' = Written(e, Depth(KeyOf(e)))
  PROVE  /\ serviceDict' \in [D \cup {KeyOf(e)} -> Seq(Entries)]
         /\ D \cup {KeyOf(e)} \in SUBSET Keys
         /\ Stored' = Stored \cup {e}
<1> DEFINE key == KeyOf(e)
<1>1. /\ key \in Keys /\ Kept(key, Depth(key)) = D \ {key}
      /\ Depth(key) = 3 <=> key \in D
    BY KeptAll
<1>2. serviceDict' = [k \in D \cup {key} |->
                        IF k # key THEN serviceDict[k]
                        ELSE IF key \in D THEN Append(serviceDict[k], e) ELSE <<e>>]
  <2>1. (D \ {key}) \cup {key} = D \cup {key}
      OBVIOUS
  <2> QED
      BY <1>1, <2>1 DEF Written
<1>3. \A k \in D \ {key} : serviceDict'[k] = serviceDict[k] /\ Items(k)' = Items(k)
    BY <1>2 DEF Items
<1>4. /\ serviceDict'[key] \in Seq(Entries)
      /\ Items(key)' = (IF key \in D THEN Items(key) ELSE {}) \cup {e}
  <2>1. CASE key \in D
    <3>1. serviceDict'[key] = Append(serviceDict[key], e)
        BY <1>2, <2>1
    <3>2. serviceDict[key] \in Seq(Entries)
        BY <2>1
    <3> HIDE DEF key
    <3> QED
        BY <2>1, <3>1, <3>2, AppendItems DEF Items
  <2>2. CASE key \notin D
    <3>1. serviceDict'[key] = <<e>>
        BY <1>2, <2>2
    <3>2. <<e>> \in Seq(Entries) /\ DOMAIN <<e>> = {1} /\ <<e>>[1] = e
        OBVIOUS
    <3> HIDE DEF key
    <3> QED
        BY <2>2, <3>1, <3>2 DEF Items
  <2> QED
      BY <2>1, <2>2
<1>5. serviceDict' \in [D \cup {key} -> Seq(Entries)]
    BY <1>2, <1>3, <1>4
<1>6. DOMAIN serviceDict' = D \cup {key} /\ DOMAIN serviceDict = D
    BY <1>2
<1>7. Stored' = UNION {Items(k)' : k \in D \cup {key}}
    BY <1>6 DEF Stored
<1>8. Stored = UNION {Items(k) : k \in D}
    BY <1>6 DEF Stored
<1>9. Stored' = Stored \cup {e}
    BY <1>3, <1>4, <1>7, <1>8
<1> QED
    BY <1>1, <1>5, <1>9
-----------------------------------------------------------------------------
LEMMA InitInv == Init => RegistryInv
<1> SUFFICES ASSUME Init PROVE RegistryInv
    OBVIOUS
<1> USE DEF Init
<1>1. TypeOK
  <2>1. \E D \in SUBSET Keys : serviceDict \in [D -> Seq(Entries)]
    <3>1. serviceDict \in [{} -> Seq(Entries)] /\ {} \in SUBSET Keys
        OBVIOUS
    <3> QED
        BY <3>1
  <2>2. tries \in [Clients -> 0..MaxTries] /\ calls \in [Clients -> 0..MaxCalls]
      BY RegistryAssumption
  <2>3. /\ answers \in [Clients -> SUBSET ({Ok} \cup SUBSET Entries)]
        /\ result \in [Clients -> {Ok, None} \cup SUBSET Entries]
        /\ view \in [Threads -> 0..3]
        /\ todo \in [Threads -> SUBSET Keys] /\ seen \in [Threads -> SUBSET Entries]
      OBVIOUS
  <2> QED
      BY <2>1, <2>2, <2>3 DEF TypeOK
<1>2. LockInv
    BY RegistryAssumption DEF LockInv
<1>3. ServingInv
    BY NoneApart DEF ServingInv, Requests
<1> QED
    BY <1>1, <1>2, <1>3 DEF RegistryInv

(* A thread that starts or ends outside the lock changes nothing within.   *)
LEMMA SameDict ==
  ASSUME UNCHANGED serviceDict
  PROVE  /\ Stored' = Stored /\ DOMAIN serviceDict' = DOMAIN serviceDict
         /\ \A k : Items(k)' = Items(k)
         /\ \A key : Depth(key)' = Depth(key)
    BY DEF Stored, Items, Depth, Found

LEMMA LockFrame ==
  ASSUME LockInv, UNCHANGED registry, NEW t \in Threads,
         pc[t] \notin {"write", "copy"}, pc'[t] \notin {"write", "copy"},
         asked \subseteq asked',
         \A u \in Threads \ {t} : /\ pc'[u] = pc[u] /\ request'[u] = request[u]
                                  /\ view'[u] = view[u] /\ todo'[u] = todo[u]
                                  /\ seen'[u] = seen[u]
  PROVE  LockInv'
<1>1. UNCHANGED serviceDict /\ lock' = lock
    BY DEF registry
<1>2. DOMAIN serviceDict' = DOMAIN serviceDict
    BY <1>1
<1>3. \A k, q : Find(Items(k), q)' = Find(Items(k), q)
    BY <1>1 DEF Items, Find
<1>4. \A key : Depth(key)' = Depth(key)
    BY <1>1, SameDict
<1>5. ASSUME NEW u \in Threads \ {t}, pc[u] = "copy"
      PROVE  (seen[u] = UNION {Find(Items(k), request[u]) :
                                 k \in DOMAIN serviceDict \ todo[u]})'
  <2>1. seen[u] = UNION {Find(Items(k), request[u]) :
                                 k \in DOMAIN serviceDict \ todo[u]}
      BY <1>5 DEF LockInv
  <2> QED
      BY <2>1, <1>1, <1>5 DEF Items, Find
<1>6. ASSUME NEW u \in Threads \ {t}, pc[u] = "write"
      PROVE  (view[u] = Depth(KeyOf(request[u])))'
  <2>1. view[u] = Depth(KeyOf(request[u]))
      BY <1>6 DEF LockInv
  <2> QED
      BY <2>1, <1>4, <1>6 DEF KeyOf
<1> QED
    BY <1>1, <1>2, <1>5, <1>6 DEF LockInv

LEMMA CallInv ==
  ASSUME RegistryInv, NEW c \in Clients, NEW r \in Requests, Call(c, r)
  PROVE  RegistryInv'
<1> PICK t \in Threads : Attempt(c, t, r)
    BY DEF Call
<1> USE DEF RegistryInv, Call, Attempt, registry
<1>1. TypeOK'
    BY RegistryAssumption DEF TypeOK, Requests
<1>2. LockInv'
    BY LockFrame DEF TypeOK
<1>3. ServingInv'
  <2>1. Stored' = Stored
      BY SameDict
  <2>2. \A d \in Clients : serving[d] # t
      BY RegistryAssumption DEF ServingInv, TypeOK
  <2>3. \A u \in Threads : u # t => Value(u)' = Value(u)
      BY DEF Value, TypeOK
  <2>4. serving'[c] = t /\ call'[c] = r /\ request'[t] = r /\ pc'[t] = "acquire"
      BY DEF TypeOK
  <2>5. ASSUME NEW d \in Clients, d # c
        PROVE  serving'[d] = serving[d] /\ call'[d] = call[d] /\ answers'[d] = answers[d]
      BY <2>5 DEF TypeOK
  <2>6. ASSUME NEW u \in Threads, u # t
        PROVE  pc'[u] = pc[u] /\ request'[u] = request[u]
      BY <2>6 DEF TypeOK
  <2>7. ASSUME NEW d \in Clients, serving'[d] # None
        PROVE  /\ call'[d] # None /\ pc'[serving'[d]] # "idle"
               /\ request'[serving'[d]] = call'[d]
               /\ pc'[serving'[d]] = "reply" => Value(serving[d])' \in answers'[d]
    <3>1. CASE d = c
        BY <2>4, <3>1, NoneApart
    <3>2. CASE d # c
      <4>1. serving[d] # None /\ serving[d] # t /\ serving[d] \in Threads
          BY <2>2, <2>5, <2>7, <3>2 DEF TypeOK
      <4> QED
          BY <2>3, <2>5, <2>6, <3>2, <4>1 DEF ServingInv
    <3> QED
        BY <3>1, <3>2
  <2>8. \A d, e \in Clients : serving'[d] = serving'[e] => d = e \/ serving'[d] = None
      BY <2>2, <2>4, <2>5 DEF ServingInv
  <2>9. \A d \in Clients : call'[d] \in Entries => call'[d] \in asked'
      BY <2>4, <2>5 DEF ServingInv
  <2>10. \A u \in Threads : pc'[u] # "idle" =>
            /\ request'[u] \in Requests
            /\ request'[u] \in Entries => request'[u] \in asked'
      BY <2>4, <2>6 DEF ServingInv
  <2>11. \A d \in Clients : /\ call'[d] = None => answers'[d] = {}
                            /\ Ok \in answers'[d] /\ call'[d] \in Entries
                                 => call'[d] \in Stored'
      BY <2>1, <2>4, <2>5, NoneApart DEF ServingInv
  <2> QED
      BY <2>7, <2>8, <2>9, <2>10, <2>11 DEF ServingInv
<1> QED
    BY <1>1, <1>2, <1>3

LEMMA RetryInv ==
  ASSUME RegistryInv, NEW c \in Clients, Retry(c)
  PROVE  RegistryInv'
<1> PICK t \in Threads : Attempt(c, t, call[c])
    BY DEF Retry
<1> USE DEF RegistryInv, Retry, Attempt, registry, history
<1>1. TypeOK'
    BY RegistryAssumption DEF TypeOK
<1>2. LockInv'
    BY LockFrame DEF TypeOK
<1>3. ServingInv'
  <2>1. Stored' = Stored
      BY SameDict
  <2>2. \A d \in Clients : serving[d] # t
      BY RegistryAssumption DEF ServingInv, TypeOK
  <2>3. \A u \in Threads : u # t => Value(u)' = Value(u)
      BY DEF Value, TypeOK
  <2>4. call[c] \in Requests
      BY DEF TypeOK
  <2> QED
      BY <2>1, <2>2, <2>3, <2>4 DEF ServingInv, TypeOK
<1> QED
    BY <1>1, <1>2, <1>3

LEMMA GiveUpInv ==
  ASSUME RegistryInv, NEW c \in Clients, GiveUp(c)
  PROVE  RegistryInv'
<1> USE DEF RegistryInv, GiveUp, registry, threads
<1>1. TypeOK'
    BY RegistryAssumption DEF TypeOK
<1>2. LockInv'
    BY SameDict DEF LockInv, Find, Items, Depth, Found
<1>3. ServingInv'
  <2>1. Stored' = Stored
      BY SameDict
  <2>2. \A u \in Threads : Value(u)' = Value(u)
      BY DEF Value, TypeOK
  <2> QED
      BY <2>1, <2>2, NoneApart DEF ServingInv, TypeOK, Requests
<1> QED
    BY <1>1, <1>2, <1>3

LEMMA LoseInv ==
  ASSUME RegistryInv, NEW t \in Threads, Lose(t)
  PROVE  RegistryInv'
<1> USE DEF RegistryInv, Lose, Finish, registry, history
<1>1. TypeOK'
    BY RegistryAssumption DEF TypeOK
<1>2. LockInv'
    BY LockFrame DEF TypeOK
<1>3. ServingInv'
  <2>1. Stored' = Stored
      BY SameDict
  <2>2. \A u \in Threads : u # t => Value(u)' = Value(u)
      BY DEF Value, TypeOK
  <2>3. \A d \in Clients : serving'[d] \in {serving[d], None} /\ serving'[d] # t
      BY RegistryAssumption DEF TypeOK
  <2> QED
      BY <2>1, <2>2, <2>3 DEF ServingInv, TypeOK
<1> QED
    BY <1>1, <1>2, <1>3

LEMMA ReplyInv ==
  ASSUME RegistryInv, NEW t \in Threads, Reply(t)
  PROVE  RegistryInv'
<1> USE DEF RegistryInv, Reply, Finish, registry
<1>0. Value(t) \in {Ok} \cup SUBSET Entries
    BY DEF Value, TypeOK
<1>1. TypeOK'
    BY <1>0, RegistryAssumption DEF TypeOK
<1>2. LockInv'
    BY LockFrame DEF TypeOK
<1>3. ServingInv'
  <2>1. Stored' = Stored
      BY SameDict
  <2>2. \A u \in Threads : u # t => Value(u)' = Value(u)
      BY DEF Value, TypeOK
  <2>3. \A d \in Clients :
           \/ serving[d] = t /\ serving'[d] = None /\ call'[d] = None /\ answers'[d] = {}
           \/ /\ serving[d] # t /\ serving'[d] = serving[d]
              /\ call'[d] = call[d] /\ answers'[d] = answers[d]
      OBVIOUS
  <2> QED
      BY <2>1, <2>2, <2>3, NoneApart DEF ServingInv, TypeOK, Requests
<1> QED
    BY <1>1, <1>2, <1>3

LEMMA AcquireInv ==
  ASSUME RegistryInv, NEW t \in Threads, Acquire(t)
  PROVE  RegistryInv'
<1> USE DEF RegistryInv, Acquire, clients, history
<1>0. /\ request[t] \in Entries => Depth(KeyOf(request[t])) \in 0..3
      /\ DOMAIN serviceDict \in SUBSET Keys
    BY DepthFound DEF TypeOK
<1>1. TypeOK'
    BY <1>0 DEF TypeOK
<1>2. LockInv'
  <2>1. \A u \in Threads : pc[u] \notin {"write", "copy"}
      BY RegistryAssumption DEF LockInv
  <2>2. \A u \in Threads : pc'[u] \in {"write", "copy"} <=> u = t
      BY <2>1 DEF TypeOK
  <2>3. pc'[t] = "write" => /\ request[t] \in Entries
                            /\ view'[t] = Depth(KeyOf(request[t]))
      BY DEF TypeOK
  <2>4. pc'[t] = "copy" => /\ request[t] \in Queries
                           /\ todo'[t] = DOMAIN serviceDict /\ seen'[t] = {}
      BY DEF TypeOK
  <2>5. request[t] \in Entries => request[t] \in asked
      BY DEF ServingInv
  <2>6. pc'[t] = "copy" => UNION {Find(Items(k), request[t]) :
                                    k \in DOMAIN serviceDict \ todo'[t]} = {}
      BY <2>4
  <2>7. \A k, q : Find(Items(k), q)' = Find(Items(k), q)
      BY SameDict DEF Find
  <2>8. Depth(KeyOf(request[t]))' = Depth(KeyOf(request[t]))
      BY SameDict DEF KeyOf
  <2>9. lock' = t /\ request' = request /\ asked' = asked
        /\ DOMAIN serviceDict' = DOMAIN serviceDict
      OBVIOUS
  <2>10. (pc[t] = "write" => /\ request[t] \in Entries /\ request[t] \in asked
                             /\ view[t] = Depth(KeyOf(request[t])))'
      BY <2>3, <2>5, <2>8, <2>9
  <2>11. (pc[t] = "copy" =>
            /\ request[t] \in Queries /\ todo[t] \subseteq DOMAIN serviceDict
            /\ seen[t] = UNION {Find(Items(k), request[t]) :
                                   k \in DOMAIN serviceDict \ todo[t]})'
      BY <2>4, <2>6, <2>7, <2>9
  <2> QED
      BY <2>2, <2>9, <2>10, <2>11 DEF LockInv
<1>3. ServingInv'
  <2>1. Stored' = Stored
      BY SameDict
  <2>2. \A u \in Threads : pc'[u] = IF u = t THEN pc'[t] ELSE pc[u]
      BY DEF TypeOK
  <2>3. pc'[t] \in {"write", "copy"}
      BY DEF TypeOK
  <2>4. \A u \in Threads : u # t => Value(u)' = Value(u)
      BY DEF Value, TypeOK
  <2> QED
      BY <2>1, <2>2, <2>3, <2>4 DEF ServingInv, TypeOK
<1> QED
    BY <1>1, <1>2, <1>3

LEMMA RegisterInv ==
  ASSUME RegistryInv, NEW t \in Threads, registerService(t)
  PROVE  RegistryInv' /\ Stored' = Stored \cup {request[t]}
<1> USE DEF RegistryInv, registerService, Release, Answered, clients
<1>1. /\ request[t] \in Entries /\ request[t] \in asked
      /\ view[t] = Depth(KeyOf(request[t]))
    BY DEF LockInv
<1> PICK D \in SUBSET Keys : serviceDict \in [D -> Seq(Entries)]
    BY DEF TypeOK
<1>2. /\ serviceDict' \in [D \cup {KeyOf(request[t])} -> Seq(Entries)]
      /\ D \cup {KeyOf(request[t])} \in SUBSET Keys
      /\ Stored' = Stored \cup {request[t]}
    BY <1>1, WriteEnters
<1>3. TypeOK'
  <2>1. (\E E \in SUBSET Keys : serviceDict \in [E -> Seq(Entries)])'
      BY <1>2
  <2> QED
      BY <2>1 DEF TypeOK
<1>4. LockInv'
  <2>1. \A u \in Threads : pc'[u] \notin {"write", "copy"}
      BY DEF LockInv, TypeOK
  <2> QED
      BY <2>1, RegistryAssumption DEF LockInv
<1>5. ServingInv'
  <2>1. \A u \in Threads : Value(u)' = Value(u)
      BY DEF Value, TypeOK
  <2>2. Value(t) = Ok
      BY <1>1 DEF Value
  <2>3. \A u \in Threads : pc'[u] = IF u = t THEN "reply" ELSE pc[u]
      BY DEF TypeOK
  <2>4. \A c \in Clients : answers'[c] = IF serving[c] = t THEN answers[c] \cup {Ok}
                                         ELSE answers[c]
      OBVIOUS
  <2>5. \A c \in Clients : serving[c] = t => call[c] = request[t] /\ call[c] # None
      BY RegistryAssumption DEF ServingInv
  <2>6. asked' = asked
      OBVIOUS
  <2> QED
      BY <1>1, <1>2, <2>1, <2>2, <2>3, <2>4, <2>5, <2>6 DEF ServingInv, TypeOK
<1> QED
    BY <1>2, <1>3, <1>4, <1>5

LEMMA CopyInv ==
  ASSUME RegistryInv, NEW t \in Threads, Copy(t)
  PROVE  RegistryInv'
<1> USE DEF RegistryInv, Copy, registry, clients, history
<1> PICK key \in todo[t] : /\ seen' = [seen EXCEPT ![t] = @ \cup Find(Items(key), request[t])]
                            /\ todo' = [todo EXCEPT ![t] = @ \ {key}]
    OBVIOUS
<1> PICK D \in SUBSET Keys : serviceDict \in [D -> Seq(Entries)]
    BY DEF TypeOK
<1>1. /\ request[t] \in Queries /\ todo[t] \subseteq D /\ D = DOMAIN serviceDict
      /\ seen[t] = UNION {Find(Items(k), request[t]) : k \in D \ todo[t]}
    BY DEF LockInv
<1>2. Items(key) \subseteq Entries
  <2>1. serviceDict[key] \in Seq(Entries)
      BY <1>1
  <2> QED
      BY <2>1 DEF Items
<1>3. TypeOK'
  <2>1. Find(Items(key), request[t]) \subseteq Entries
      BY <1>2 DEF Find
  <2> QED
      BY <2>1 DEF TypeOK
<1>4. LockInv'
  <2>1. D \ (todo[t] \ {key}) = (D \ todo[t]) \cup {key}
      BY <1>1
  <2>2. seen[t] \cup Find(Items(key), request[t])
          = UNION {Find(Items(k), request[t]) : k \in D \ (todo[t] \ {key})}
      BY <1>1, <2>1
  <2>3. /\ seen'[t] = seen[t] \cup Find(Items(key), request[t])
        /\ todo'[t] = todo[t] \ {key}
      BY DEF TypeOK
  <2>4. \A k, q : Find(Items(k), q)' = Find(Items(k), q)
      BY SameDict DEF Find
  <2>5. seen'[t] = UNION {Find(Items(k), request[t])' : k \in D \ todo'[t]}
      BY <2>2, <2>3, <2>4
  <2>6. \A u \in Threads : (pc[u] \in {"write", "copy"} <=> lock = u)
      BY DEF LockInv
  <2>7. pc[t] = "copy" /\ pc' = pc /\ lock' = lock /\ request' = request
        /\ serviceDict' = serviceDict
      OBVIOUS
  <2>8. \A u \in Threads : pc[u] \in {"write", "copy"} => u = t
      BY <2>6, <2>7
  <2>9. (/\ request[t] \in Queries /\ todo[t] \subseteq DOMAIN serviceDict
         /\ seen[t] = UNION {Find(Items(k), request[t]) :
                               k \in DOMAIN serviceDict \ todo[t]})'
    <3>1. DOMAIN serviceDict' = D /\ request'[t] = request[t]
        BY <1>1, <2>7
    <3>2. todo'[t] \subseteq D
        BY <1>1, <2>3
    <3> QED
        BY <1>1, <2>5, <3>1, <3>2
  <2>10. ASSUME NEW u \in Threads
         PROVE  /\ pc'[u] \in {"write", "copy"} <=> lock' = u
                /\ pc'[u] # "write"
                /\ pc'[u] = "copy" => u = t
      BY <2>6, <2>7, <2>8
  <2> QED
      BY <2>9, <2>10 DEF LockInv
<1>5. ServingInv'
  <2>1. Stored' = Stored
      BY SameDict
  <2>2. \A u \in Threads : u # t => Value(u)' = Value(u)
      BY DEF Value, TypeOK
  <2> QED
      BY <2>1, <2>2 DEF ServingInv, TypeOK
<1> QED
    BY <1>3, <1>4, <1>5

(* When every key has been copied, what was copied is what is found.       *)
LEMMA InfoInv ==
  ASSUME RegistryInv, NEW t \in Threads, getServiceInfo(t)
  PROVE  RegistryInv' /\ request[t] \in Queries /\ seen[t] = Find(Stored, request[t])
<1> USE DEF RegistryInv, getServiceInfo, Release, Answered, clients
<1>1. /\ request[t] \in Queries
      /\ seen[t] = UNION {Find(Items(k), request[t]) : k \in DOMAIN serviceDict}
    BY DEF LockInv
<1>2. seen[t] = Find(Stored, request[t])
    BY <1>1 DEF Find, Stored
<1>3. TypeOK'
    BY DEF TypeOK
<1>4. LockInv'
  <2>1. \A u \in Threads : pc'[u] \notin {"write", "copy"}
      BY DEF LockInv, TypeOK
  <2> QED
      BY <2>1, RegistryAssumption DEF LockInv
<1>5. ServingInv'
  <2>1. \A u \in Threads : Value(u)' = Value(u)
      BY DEF Value, TypeOK
  <2>2. Value(t) = seen[t]
      BY <1>1, EntriesApart DEF Value
  <2>3. \A u \in Threads : pc'[u] = IF u = t THEN "reply" ELSE pc[u]
      BY DEF TypeOK
  <2>4. \A c \in Clients : answers'[c] = IF serving[c] = t THEN answers[c] \cup {seen[t]}
                                         ELSE answers[c]
      OBVIOUS
  <2>5. \A c \in Clients : serving[c] = t => call[c] = request[t] /\ call[c] # None
      BY RegistryAssumption DEF ServingInv
  <2>6. asked' = asked /\ Stored' = Stored
      BY SameDict
  <2> QED
      BY <1>1, <2>1, <2>2, <2>3, <2>4, <2>5, <2>6, EntriesApart DEF ServingInv, TypeOK
<1> QED
    BY <1>1, <1>2, <1>3, <1>4, <1>5

LEMMA StutterInv ==
  ASSUME RegistryInv, UNCHANGED vars
  PROVE  RegistryInv' /\ Stored' = Stored
<1> USE DEF vars, registry, threads, clients, history
<1>1. Stored' = Stored
    BY SameDict
<1>2. TypeOK'
    BY DEF RegistryInv, TypeOK
<1>3. LockInv'
    BY SameDict DEF RegistryInv, LockInv, Find, Depth, Found, Items
<1>4. ServingInv'
    BY <1>1 DEF RegistryInv, ServingInv, Value
<1> QED
    BY <1>1, <1>2, <1>3, <1>4 DEF RegistryInv

LEMMA NextInv == RegistryInv /\ [Next]_vars => RegistryInv'
<1> SUFFICES ASSUME RegistryInv, [Next]_vars PROVE RegistryInv'
    OBVIOUS
<1>1. CASE UNCHANGED vars
    BY <1>1, StutterInv
<1>2. ASSUME NEW c \in Clients, NEW r \in Requests, Call(c, r) PROVE RegistryInv'
    BY <1>2, CallInv
<1>3. ASSUME NEW c \in Clients, Retry(c) \/ GiveUp(c) PROVE RegistryInv'
    BY <1>3, RetryInv, GiveUpInv
<1>4. ASSUME NEW t \in Threads, \/ Lose(t) \/ Acquire(t) \/ registerService(t)
                               \/ Copy(t) \/ getServiceInfo(t) \/ Reply(t)
      PROVE  RegistryInv'
    BY <1>4, LoseInv, AcquireInv, RegisterInv, CopyInv, InfoInv, ReplyInv
<1> QED
    BY <1>1, <1>2, <1>3, <1>4 DEF Next

(* The invariants of the runs hold for every set of clients and threads.   *)
THEOREM Invariance == Spec => [](TypeOK /\ LockInv /\ ServingInv)
<1>1. Init => RegistryInv
    BY InitInv
<1>2. RegistryInv /\ [Next]_vars => RegistryInv'
    BY NextInv
<1>3. RegistryInv => TypeOK /\ LockInv /\ ServingInv
    BY DEF RegistryInv
<1> QED
    BY <1>1, <1>2, <1>3, PTL DEF Spec

LEMMA StoredGrows ==
  ASSUME RegistryInv, [Next]_vars
  PROVE  Stored \subseteq Stored'
<1>1. CASE UNCHANGED vars
    BY <1>1, StutterInv
<1>2. ASSUME NEW c \in Clients,
             (\E r \in Requests : Call(c, r)) \/ Retry(c) \/ GiveUp(c)
      PROVE  Stored' = Stored
    BY <1>2, SameDict DEF Call, Retry, GiveUp, registry
<1>3. ASSUME NEW t \in Threads, \/ Lose(t) \/ Acquire(t) \/ Copy(t)
                               \/ getServiceInfo(t) \/ Reply(t)
      PROVE  Stored' = Stored
    BY <1>3, SameDict DEF Lose, Acquire, Copy, getServiceInfo, Reply, registry
<1>4. ASSUME NEW t \in Threads, registerService(t) PROVE Stored \subseteq Stored'
    BY <1>4, RegisterInv
<1> QED
    BY <1>1, <1>2, <1>3, <1>4 DEF Next

(* What has been registered is never forgotten.                            *)
THEOREM Forgetting == Spec => NothingForgotten
<1>1. RegistryInv /\ [Next]_vars => [Stored \subseteq Stored']_vars
    BY StoredGrows
<1> QED
    BY <1>1, InitInv, NextInv, PTL DEF Spec, NothingForgotten

LEMMA AcknowledgeStep ==
  ASSUME RegistryInv, [Next]_vars, NEW c \in Clients,
         call[c] \in Entries, call'[c] = None, result'[c] = Ok
  PROVE  call[c] \in Stored'
<1>1. Stored \subseteq Stored'
    BY StoredGrows
<1>2. call[c] # None
    BY EntriesApart
<1>3. CASE UNCHANGED vars
    BY <1>2, <1>3 DEF vars, clients
<1>4. ASSUME NEW d \in Clients, NEW r \in Requests, Call(d, r) PROVE FALSE
  <2>1. d # c => call'[c] = call[c]
      BY <1>4 DEF Call, RegistryInv, TypeOK
  <2> QED
      BY <1>2, <1>4, <2>1 DEF Call
<1>5. ASSUME NEW d \in Clients, Retry(d) PROVE FALSE
    BY <1>2, <1>5 DEF Retry
<1>6. ASSUME NEW d \in Clients, GiveUp(d) PROVE FALSE
  <2>1. d # c => call'[c] = call[c]
      BY <1>6 DEF GiveUp, RegistryInv, TypeOK
  <2>2. d = c => result'[c] = None
      BY <1>6 DEF GiveUp, RegistryInv, TypeOK
  <2> QED
      BY <1>2, <2>1, <2>2, RegistryAssumption
<1>7. ASSUME NEW t \in Threads, \/ Lose(t) \/ Acquire(t) \/ Copy(t)
                               \/ getServiceInfo(t) \/ registerService(t)
      PROVE  FALSE
    BY <1>2, <1>7 DEF Lose, Acquire, Copy, getServiceInfo, registerService, clients
<1>8. ASSUME NEW t \in Threads, Reply(t) PROVE call[c] \in Stored'
  <2>1. serving[c] = t /\ result'[c] = Value(t)
      BY <1>2, <1>8 DEF Reply
  <2>2. Value(t) \in answers[c]
      BY <1>8, <2>1, RegistryAssumption DEF Reply, RegistryInv, ServingInv
  <2>3. call[c] \in Stored
      BY <2>1, <2>2 DEF RegistryInv, ServingInv
  <2> QED
      BY <1>1, <2>3
<1> QED
    BY <1>3, <1>4, <1>5, <1>6, <1>7, <1>8 DEF Next

(* A True that a client gets from registerService says that its service    *)
(* can be found.                                                           *)
THEOREM Acknowledged == Spec => AcknowledgedStays
<1>1. RegistryInv /\ [Next]_vars =>
        [\A c \in Clients :
           call[c] \in Entries /\ call'[c] = None /\ result'[c] = Ok
             => call[c] \in Stored']_vars
    BY AcknowledgeStep
<1> QED
    BY <1>1, InitInv, NextInv, PTL DEF Spec, AcknowledgedStays
-----------------------------------------------------------------------------
(* The steps of the threads and clients are steps of the directory.        *)
LEMMA InitRefines == Init => Promise!Init
<1> SUFFICES ASSUME Init PROVE Promise!Init
    OBVIOUS
<1>1. DOMAIN serviceDict = {}
    BY DEF Init
<1>2. Stored = {}
    BY <1>1 DEF Stored
<1> QED
    BY <1>2 DEF Init, Promise!Init

LEMMA StepRefines == RegistryInv /\ [Next]_vars => [Promise!Next]_(Promise!vars)
<1> SUFFICES ASSUME RegistryInv, [Next]_vars PROVE [Promise!Next]_(Promise!vars)
    OBVIOUS
<1> USE DEF RegistryInv
<1>1. CASE UNCHANGED vars
    BY <1>1, StutterInv DEF vars, Promise!vars, clients, history
<1>2. ASSUME NEW c \in Clients, NEW r \in Requests, Call(c, r)
      PROVE  Promise!Next
  <2>1. Stored' = Stored
      BY <1>2, SameDict DEF Call, registry
  <2>2. Promise!Call(c, r)
      BY <1>2, <2>1 DEF Call, Promise!Call
  <2> QED
      BY <2>2 DEF Promise!Next, Requests
<1>3. ASSUME NEW c \in Clients, Retry(c) PROVE UNCHANGED Promise!vars
  <2>1. Stored' = Stored
      BY <1>3, SameDict DEF Retry, registry
  <2> QED
      BY <1>3, <2>1 DEF Retry, Promise!vars, history
<1>4. ASSUME NEW c \in Clients, GiveUp(c) PROVE Promise!Next
  <2>1. Stored' = Stored
      BY <1>4, SameDict DEF GiveUp, registry
  <2>2. Promise!Return(c)
      BY <1>4, <2>1 DEF GiveUp, Promise!Return
  <2> QED
      BY <2>2 DEF Promise!Next
<1>5. ASSUME NEW t \in Threads, Lose(t) \/ Acquire(t) \/ Copy(t)
      PROVE  UNCHANGED Promise!vars
  <2>1. Stored' = Stored
      BY <1>5, SameDict DEF Lose, Acquire, Copy, registry
  <2> QED
      BY <1>5, <2>1 DEF Lose, Acquire, Copy, Promise!vars, history, clients
<1>6. ASSUME NEW t \in Threads, registerService(t) PROVE Promise!Next
  <2>1. /\ Stored' = Stored \cup {request[t]}
        /\ request[t] \in Entries /\ request[t] \in asked
      BY <1>6, RegisterInv DEF LockInv, registerService
  <2>2. CASE \E c \in Clients : serving[c] = t
    <3> PICK c \in Clients : serving[c] = t
        BY <2>2
    <3>1. call[c] = request[t]
        BY RegistryAssumption DEF ServingInv
    <3>2. \A d \in Clients : serving[d] = t => d = c
        BY RegistryAssumption DEF ServingInv
    <3>3. answers' = [answers EXCEPT ![c] = @ \cup {Ok}]
        BY <1>6, <3>2 DEF registerService, Answered, TypeOK
    <3>4. Promise!Enter(c)
        BY <1>6, <2>1, <3>1, <3>3 DEF registerService, clients, Promise!Enter
    <3> QED
        BY <3>4 DEF Promise!Next
  <2>3. CASE \A c \in Clients : serving[c] # t
    <3>1. answers' = answers
        BY <1>6, <2>3 DEF registerService, Answered, TypeOK
    <3>2. Promise!EnterLate(request[t])
        BY <1>6, <2>1, <3>1 DEF registerService, clients, Promise!EnterLate
    <3> QED
        BY <2>1, <3>2 DEF Promise!Next
  <2> QED
      BY <2>2, <2>3
<1>7. ASSUME NEW t \in Threads, getServiceInfo(t)
      PROVE  Promise!Next \/ UNCHANGED Promise!vars
  <2>1. /\ Stored' = Stored
        /\ request[t] \in Queries /\ seen[t] = Find(Stored, request[t])
      BY <1>7, SameDict, InfoInv DEF getServiceInfo
  <2>2. CASE \E c \in Clients : serving[c] = t
    <3> PICK c \in Clients : serving[c] = t
        BY <2>2
    <3>1. call[c] = request[t]
        BY RegistryAssumption DEF ServingInv
    <3>2. \A d \in Clients : serving[d] = t => d = c
        BY RegistryAssumption DEF ServingInv
    <3>3. answers' = [answers EXCEPT ![c] = @ \cup {Find(Stored, call[c])}]
        BY <1>7, <2>1, <3>1, <3>2 DEF getServiceInfo, Answered, TypeOK
    <3>4. Promise!Look(c)
        BY <1>7, <2>1, <3>1, <3>3 DEF getServiceInfo, clients, Promise!Look
    <3> QED
        BY <3>4 DEF Promise!Next
  <2>3. CASE \A c \in Clients : serving[c] # t
    <3>1. answers' = answers
        BY <1>7, <2>3 DEF getServiceInfo, Answered, TypeOK
    <3> QED
        BY <1>7, <2>1, <3>1 DEF getServiceInfo, clients, Promise!vars
  <2> QED
      BY <2>2, <2>3
<1>8. ASSUME NEW t \in Threads, Reply(t)
      PROVE  Promise!Next \/ UNCHANGED Promise!vars
  <2>1. Stored' = Stored
      BY <1>8, SameDict DEF Reply, registry
  <2>2. CASE \E c \in Clients : serving[c] = t
    <3> PICK c \in Clients : serving[c] = t
        BY <2>2
    <3>1. /\ call[c] # None /\ Value(t) \in answers[c]
          /\ \A d \in Clients : serving[d] = t => d = c
        BY <1>8, RegistryAssumption DEF ServingInv, Reply
    <3>2. /\ call' = [call EXCEPT ![c] = None]
          /\ result' = [result EXCEPT ![c] = Value(t)]
          /\ answers' = [answers EXCEPT ![c] = {}]
        BY <1>8, <3>1 DEF Reply, TypeOK
    <3>3. Promise!Return(c)
        BY <1>8, <2>1, <3>1, <3>2 DEF Reply, Promise!Return
    <3> QED
        BY <3>3 DEF Promise!Next
  <2>3. CASE \A c \in Clients : serving[c] # t
    <3>1. call' = call /\ result' = result /\ answers' = answers
        BY <1>8, <2>3 DEF Reply, TypeOK
    <3> QED
        BY <1>8, <2>1, <3>1 DEF Reply, Promise!vars
  <2> QED
      BY <2>2, <2>3
<1> QED
    BY <1>1, <1>2, <1>3, <1>4, <1>5, <1>6, <1>7, <1>8 DEF Next

(* The registry implements the directory, for all values of the constants. *)
THEOREM Implements == Spec => ImplementsDirectory
<1>1. Init => Promise!Init
    BY InitRefines
<1>2. RegistryInv /\ [Next]_vars => [Promise!Next]_(Promise!vars)
    BY StepRefines
<1> QED
    BY <1>1, <1>2, InitInv, NextInv, PTL DEF Spec, Promise!Spec, ImplementsDirectory

-----------------------------------------------------------------------------
(* The ring: the inductive invariant, in parts.                            *)

(* Nobody is at work before the ring master is.                            *)
Running == /\ rm = "up" => "mapred" \notin External
           /\ \A n \in Nodes : ringPc[n] # "off" => rm = "up"

(* A call that is handled late was made by a hodring that had got so far;  *)
(* one that has reported does not fail, and never tells of a failure.      *)
LateErrors == {c \in late : c[2] = "setHodRingErrors"}
LatePolls == {c \in late : c[2] = "getCommand"}
LateCalls ==
  /\ IsFiniteSet(late)
  /\ losses = 0 => late = {}
  /\ \A c \in late :
       /\ ringPc[c[1]] # "off"
       /\ c[2] = "addMasterParams" => /\ ringPc[c[1]] \in {"report", "up", "gone"}
                                      /\ c[3] \subseteq GivenMaster(c[1])
                                      /\ \A d \in LateErrors : d[1] # c[1]
       /\ c[2] = "setHodRingErrors" => ringPc[c[1]] \in {"failing", "gone"}

(* What a hodring was given: nothing yet, one master, or workers.          *)
JobTracker(fs) == Command("jobtracker", FALSE, fs, FillIn)
IsMaster(L, s) == \/ s = "hdfs" /\ L = <<NameNodeCommand(TRUE), NameNodeCommand(FALSE)>>
                  \/ s = "mapred" /\ \E fs \in Addresses : L = <<JobTracker(fs)>>
AreWorkers(L) == L # <<>> /\ \A i \in DOMAIN L : L[i].name \in {"datanode", "tasktracker"}
Given == \A n \in Nodes : /\ cmds[n] = <<>> \/ (\E s \in Services : IsMaster(cmds[n], s)) \/ AreWorkers(cmds[n])
                          /\ ringPc[n] \in {"off", "poll", "asked"} => cmds[n] = <<>> /\ at[n] = 1
                          /\ ringPc[n] \in {"run", "report", "up"} => cmds[n] # <<>>

(* The service that is being given away, and who waits for it.             *)
Gift == /\ giving # NoGift => giving.service \notin External /\ IsMaster(giving.cmds, giving.service)
        /\ \A n \in Nodes : ringPc[n] = "asked" => giving.to = n

(* The daemons of a hodring are those of the commands it has run.          *)
Past(n, i) == ringPc[n] \in {"report", "up"} \/ (ringPc[n] = "run" /\ i < at[n])
Ran == \A n \in Nodes :
         /\ daemons[n] \subseteq {cmds[n][i] : i \in DOMAIN cmds[n]}
         /\ \A i \in DOMAIN cmds[n] : Past(n, i) /\ ~cmds[n][i].fg => cmds[n][i] \in daemons[n]

Externals == \A s \in Services \cap External :
               launched[s] /\ initialized[s] /\ masterAddress[s] = NoNode

(* The address of a service that is up is of a hodring that was given its  *)
(* master and has run it.                                                  *)
RanMaster(s, n) == /\ n \in Nodes /\ GivenMaster(n) = {s} /\ ringPc[n] \in {"report", "up", "gone"}
                   /\ ringPc[n] = "gone" \/ s \in Filled(n)
Addressed == \A s \in Services : initialized[s] /\ s \notin External => RanMaster(s, masterAddr[s])

(* A hodring counts a failure by its own call, and by those it gave up.    *)
Failing == {n \in Nodes : ringPc[n] = "failing"}
Failed == {n \in Nodes : ringPc[n] \in {"failing", "gone"}}
Bounded == \A s \in Services :
             failureCount[s] + Cardinality(Failing) + Cardinality(LateErrors) <= Cardinality(Failed) + losses

Always == /\ RingTypeOK /\ Running /\ LateCalls /\ Given /\ Gift /\ Ran /\ Externals /\ Addressed
          /\ Bounded /\ (disturbed => losses > 0)

(* The rest holds while no failure was counted against a service that was  *)
(* being given away.  A command is told of masters that are up.            *)
ToldOf(c) == /\ c.fs # FillIn => initialized["hdfs"] /\ c.fs = masterAddr["hdfs"]
             /\ c.jt \notin {"", FillIn} => initialized["mapred"] /\ c.jt = masterAddr["mapred"]
Told == /\ \A n \in Nodes : \A i \in DOMAIN cmds[n] : ToldOf(cmds[n][i])
        /\ \A i \in DOMAIN giving.cmds : ToldOf(giving.cmds[i])

(* A service is known as launched by the hodring that was given its        *)
(* master.                                                                 *)
Taken(s) == giving.service = s
Launched ==
  /\ \A s \in Services : Taken(s) => launched[s]
  /\ \A n \in Nodes : ringPc[n] \in {"run", "report", "up"} =>
       \A s \in GivenMaster(n) : launched[s] /\ ~Taken(s) /\ masterAddress[s] = n

(* A service that is up is not given away again, and its hodring never     *)
(* tells of a failure.                                                     *)
Up == \A s \in Services : initialized[s] /\ s \notin External =>
        /\ launched[s] /\ ~Taken(s) /\ masterAddress[s] = masterAddr[s]
        /\ \A c \in LateErrors : c[1] # masterAddress[s]

(* The hodring that had a master before it is given away again has failed. *)
Told0(n) == n \in Nodes => /\ ringPc[n] \in {"failing", "gone"}
                           /\ \A c \in late : c[1] = n => c[2] # "addMasterParams"
                           /\ losses = 0 => ringPc[n] = "gone"
Stale == \A s \in Services : ~launched[s] \/ Taken(s) => Told0(masterAddress[s])

(* The failures that are counted and those that may still be: a hodring    *)
(* counts once by its own call; once more only if a getCommand was handled *)
(* after it had failed, and a second call of setHodRingErrors.             *)
Holder(s) == IF Taken(s) THEN giving.to ELSE masterAddress[s]
Pending(s) == /\ launched[s] /\ Holder(s) \in Nodes
              /\ \/ Holder(s) \in Failed
                 \/ s \notin GivenMaster(Holder(s)) /\ ~(Taken(s) /\ ringPc[Holder(s)] = "asked")
Due(s) == (IF Pending(s) THEN 1 ELSE 0)
          + Cardinality(Failing) + Cardinality(LateErrors) + Cardinality(LatePolls)
Counted == \A s \in Services : 2 * failureCount[s] + Due(s) <= 2 * Cardinality(Failed) + losses

Undisturbed == Told /\ Launched /\ Up /\ Stale /\ Counted
RingInv == Always /\ (~disturbed => Undisturbed)

-----------------------------------------------------------------------------
(* Sets of which one element more or less makes a difference of one.       *)
LEMMA OneMore ==
  ASSUME NEW S, NEW x, IsFiniteSet(S)
  PROVE  /\ IsFiniteSet(S \cup {x}) /\ IsFiniteSet(S \ {x})
         /\ Cardinality(S) \in Nat /\ Cardinality(S \cup {x}) \in Nat /\ Cardinality(S \ {x}) \in Nat
         /\ Cardinality(S) <= Cardinality(S \cup {x}) /\ Cardinality(S \cup {x}) <= Cardinality(S) + 1
         /\ x \notin S => Cardinality(S \cup {x}) = Cardinality(S) + 1
         /\ Cardinality(S \ {x}) <= Cardinality(S)
         /\ x \in S => Cardinality(S \ {x}) = Cardinality(S) - 1
  BY FS_AddElement, FS_RemoveElement, FS_CardinalityType

(* The sets that the invariant counts are finite.                          *)
LEMMA FiniteSets ==
  ASSUME IsFiniteSet(late)
  PROVE  /\ IsFiniteSet(Failing) /\ IsFiniteSet(Failed)
         /\ IsFiniteSet(LateErrors) /\ IsFiniteSet(LatePolls)
         /\ Cardinality(Failing) \in Nat /\ Cardinality(Failed) \in Nat
         /\ Cardinality(LateErrors) \in Nat /\ Cardinality(LatePolls) \in Nat
  <1>1. Failing \in SUBSET Nodes /\ Failed \in SUBSET Nodes
    BY DEF Failing, Failed
  <1>2. LateErrors \in SUBSET late /\ LatePolls \in SUBSET late
    BY DEF LateErrors, LatePolls
  <1>3. QED  BY <1>1, <1>2, FS_Subset, FS_CardinalityType, ServicesAssumption

(* The fields of the commands.                                             *)
LEMMA Fields ==
  /\ NameNodeCommand(TRUE).name = "namenode" /\ NameNodeCommand(FALSE).name = "namenode"
  /\ NameNodeCommand(FALSE).fg = FALSE
  /\ NameNodeCommand(TRUE).fs = FillIn /\ NameNodeCommand(FALSE).fs = FillIn
  /\ NameNodeCommand(TRUE).jt = "" /\ NameNodeCommand(FALSE).jt = ""
  /\ JobTrackerCommand.name = "jobtracker" /\ JobTrackerCommand.fg = FALSE
  /\ JobTrackerCommand.fs = masterAddr["hdfs"] /\ JobTrackerCommand.jt = FillIn
  /\ DataNodeCommand.name = "datanode" /\ TaskTrackerCommand.name = "tasktracker"
  /\ DataNodeCommand.fs = masterAddr["hdfs"] /\ DataNodeCommand.jt = ""
  /\ TaskTrackerCommand.fs = masterAddr["hdfs"] /\ TaskTrackerCommand.jt = masterAddr["mapred"]
  BY DEF NameNodeCommand, JobTrackerCommand, DataNodeCommand, TaskTrackerCommand, Command

(* The masters among the commands of a hodring.                            *)
LEMMA MasterOfNothing ==
  ASSUME NEW n, cmds[n] = <<>>
  PROVE  GivenMaster(n) = {}
  BY DEF GivenMaster

(* The addresses a hodring has filled in are those of the master it was    *)
(* given, and all of them once it has run its commands.                    *)
LEMMA ShapeOfMaster ==
  ASSUME NEW L, NEW s \in Services, IsMaster(L, s)
  PROVE  /\ L # <<>> /\ L[1].name = MasterName[s]
         /\ \A i \in DOMAIN L : L[i].name = MasterName[s]
         /\ \E i \in DOMAIN L : ~L[i].fg
  <1>1. CASE s = "hdfs" /\ L = <<NameNodeCommand(TRUE), NameNodeCommand(FALSE)>>
    <2>1. DOMAIN L = 1 .. 2 /\ L # <<>> /\ L[1] = NameNodeCommand(TRUE) /\ L[2] = NameNodeCommand(FALSE)
      BY <1>1
    <2>2. L[1].name = "namenode" /\ L[2].name = "namenode" /\ L[2].fg = FALSE
      BY <2>1, Fields
    <2>3. \A i \in DOMAIN L : i = 1 \/ i = 2
      BY <2>1
    <2>4. 2 \in DOMAIN L /\ MasterName[s] = "namenode"
      BY <1>1, <2>1 DEF MasterName
    <2>5. QED  BY <2>1, <2>2, <2>3, <2>4
  <1>2. ASSUME s = "mapred", NEW fs, L = <<JobTracker(fs)>>
        PROVE  /\ L # <<>> /\ L[1].name = MasterName[s]
               /\ \A i \in DOMAIN L : L[i].name = MasterName[s]
               /\ \E i \in DOMAIN L : ~L[i].fg
    <2>1. DOMAIN L = 1 .. 1 /\ L # <<>> /\ L[1] = JobTracker(fs)
      BY <1>2
    <2>2. JobTracker(fs).name = "jobtracker" /\ JobTracker(fs).fg = FALSE /\ MasterName[s] = "jobtracker"
      BY <1>2 DEF JobTracker, Command, MasterName
    <2>3. QED  BY <2>1, <2>2
  <1>3. QED  BY <1>1, <1>2 DEF IsMaster

LEMMA MasterOfShape ==
  ASSUME NEW n
  PROVE  /\ \A s \in Services : IsMaster(cmds[n], s) => GivenMaster(n) = {s}
         /\ cmds[n] \in Seq(Commands) /\ AreWorkers(cmds[n]) => GivenMaster(n) = {}
  <1>1. ASSUME NEW s \in Services, IsMaster(cmds[n], s) PROVE GivenMaster(n) = {s}
    BY <1>1, ShapeOfMaster DEF GivenMaster, MasterName, Services
  <1>2. ASSUME cmds[n] \in Seq(Commands), AreWorkers(cmds[n]) PROVE GivenMaster(n) = {}
    <2>1. 1 \in DOMAIN cmds[n]
      BY <1>2 DEF AreWorkers
    <2>2. cmds[n][1].name \in {"datanode", "tasktracker"}
      BY <1>2, <2>1 DEF AreWorkers
    <2>3. QED  BY <2>2 DEF GivenMaster, MasterName, Services
  <1>3. QED  BY <1>1, <1>2

LEMMA FilledIsGiven ==
  ASSUME RingTypeOK, Given, Ran, NEW n \in Nodes
  PROVE  /\ Filled(n) \subseteq GivenMaster(n)
         /\ ringPc[n] \in {"report", "up"} => Filled(n) = GivenMaster(n)
         /\ \A s \in GivenMaster(n) : GivenMaster(n) = {s}
  <1>1. cmds[n] \in Seq(Commands) /\ daemons[n] \subseteq {cmds[n][i] : i \in DOMAIN cmds[n]}
    BY DEF RingTypeOK, Ran
  <1>2. CASE cmds[n] = <<>>
    <2>1. daemons[n] = {} /\ GivenMaster(n) = {}
      BY <1>1, <1>2, MasterOfNothing
    <2>2. ringPc[n] \notin {"report", "up"}
      BY <1>2 DEF Given
    <2>3. Filled(n) = {}
      BY <2>1 DEF Filled
    <2>4. QED  BY <2>1, <2>2, <2>3
  <1>3. ASSUME NEW s \in Services, IsMaster(cmds[n], s)
        PROVE  /\ Filled(n) \subseteq {s}
               /\ ringPc[n] \in {"report", "up"} => s \in Filled(n)
               /\ GivenMaster(n) = {s}
    <2>1. /\ \A i \in DOMAIN cmds[n] : cmds[n][i].name = MasterName[s]
          /\ \E i \in DOMAIN cmds[n] : ~cmds[n][i].fg
          /\ GivenMaster(n) = {s}
      BY <1>3, ShapeOfMaster, MasterOfShape
    <2>2. \A c \in daemons[n] : c.name = MasterName[s]
      BY <1>1, <2>1
    <2>3. Filled(n) \subseteq {s}
      BY <2>2 DEF Filled, Services, MasterName
    <2>4. ASSUME ringPc[n] \in {"report", "up"} PROVE \E c \in daemons[n] : c.name = MasterName[s]
      <3>1. PICK i \in DOMAIN cmds[n] : ~cmds[n][i].fg
        BY <2>1
      <3>2. cmds[n][i] \in daemons[n]
        BY <2>4, <3>1 DEF Ran, Past
      <3>3. QED  BY <2>2, <3>2
    <2>5. ringPc[n] \in {"report", "up"} => s \in Filled(n)
      BY <2>4 DEF Filled
    <2>6. QED  BY <2>1, <2>3, <2>5
  <1>4. CASE AreWorkers(cmds[n])
    <2>1. GivenMaster(n) = {}
      BY <1>1, <1>4, MasterOfShape
    <2>2. \A c \in daemons[n] : c.name \in {"datanode", "tasktracker"}
      BY <1>1, <1>4 DEF AreWorkers
    <2>3. Filled(n) = {}
      BY <2>2 DEF Filled, Services, MasterName
    <2>4. QED  BY <2>1, <2>3
  <1>5. QED  BY <1>2, <1>3, <1>4 DEF Given

-----------------------------------------------------------------------------
(* What a step leaves as it was.                                           *)
LEMMA SameGiven ==
  ASSUME NEW n, cmds'[n] = cmds[n]
  PROVE  GivenMaster(n)' = GivenMaster(n)
  BY DEF GivenMaster

LEMMA SameFilled ==
  ASSUME NEW n, daemons'[n] = daemons[n]
  PROVE  Filled(n)' = Filled(n)
  BY DEF Filled

(* The commands of a hodring stay right while the masters that are up keep *)
(* their addresses.                                                        *)
StaysUp == \A s \in Services : initialized[s] => initialized'[s] /\ masterAddr'[s] = masterAddr[s]

LEMMA SameTold ==
  ASSUME StaysUp, Told, UNCHANGED cmds, UNCHANGED giving \/ giving' = NoGift
  PROVE  Told'
  <1>1. /\ initialized["hdfs"] => initialized'["hdfs"] /\ masterAddr'["hdfs"] = masterAddr["hdfs"]
        /\ initialized["mapred"] => initialized'["mapred"] /\ masterAddr'["mapred"] = masterAddr["mapred"]
    BY DEF StaysUp, Services
  <1>2. \A c : ToldOf(c) => ToldOf(c)'
    BY <1>1 DEF ToldOf
  <1>3. giving' = NoGift => DOMAIN giving'.cmds = {}
    BY DEF NoGift
  <1>4. QED  BY <1>2, <1>3 DEF Told

LEMMA SameServices ==
  ASSUME UNCHANGED serviceVars
  PROVE  /\ StaysUp
         /\ ServicesTypeOK => ServicesTypeOK'
         /\ Externals => Externals'
  BY DEF serviceVars, StaysUp, ServicesTypeOK, Externals

(* A service that is being given away is one, and so is who gets it.       *)
LEMMA Gifts ==
  /\ NoGift.service = "none" /\ NoGift.to = NoNode /\ NoGift.to \notin Nodes
  /\ NoGift.cmds = <<>> /\ NoGift.service \notin Services
  BY ServicesAssumption DEF NoGift, Services

(* A hodring that goes on changes the sets of those that failed.           *)
LEMMA Moves ==
  ASSUME RingTypeOK, IsFiniteSet(late), NEW n \in Nodes, NEW p, Go(n, p),
         p \in {"off", "poll", "asked", "run", "report", "up", "failing", "gone"}
  PROVE  /\ ringPc' \in [Nodes -> {"off", "poll", "asked", "run", "report", "up", "failing", "gone"}]
         /\ ringPc'[n] = p /\ \A m \in Nodes : m # n => ringPc'[m] = ringPc[m]
         /\ ringPc[n] \notin {"failing", "gone"} /\ p \notin {"failing", "gone"}
            => Failed' = Failed /\ Failing' = Failing
         /\ ringPc[n] \notin {"failing", "gone"} /\ p = "failing"
            => /\ Cardinality(Failed)' = Cardinality(Failed) + 1
               /\ Cardinality(Failing)' = Cardinality(Failing) + 1
         /\ ringPc[n] \notin {"failing", "gone"} /\ p = "gone"
            => /\ Cardinality(Failed)' = Cardinality(Failed) + 1
               /\ Failing' = Failing
         /\ ringPc[n] = "failing" /\ p = "gone"
            => /\ Failed' = Failed
               /\ Cardinality(Failing)' = Cardinality(Failing) - 1
  <1>1. /\ ringPc' \in [Nodes -> {"off", "poll", "asked", "run", "report", "up", "failing", "gone"}]
        /\ ringPc'[n] = p /\ \A m \in Nodes : m # n => ringPc'[m] = ringPc[m]
    BY DEF RingTypeOK, Go
  <1>2. ringPc[n] \notin {"failing", "gone"} /\ p \notin {"failing", "gone"}
        => Failed' = Failed /\ Failing' = Failing
    BY <1>1 DEF Failed, Failing
  <1>3. ringPc[n] \notin {"failing", "gone"} /\ p = "failing"
        => /\ Failed' = Failed \cup {n} /\ n \notin Failed
           /\ Failing' = Failing \cup {n} /\ n \notin Failing
    BY <1>1 DEF Failed, Failing
  <1>4. ringPc[n] \notin {"failing", "gone"} /\ p = "gone"
        => Failed' = Failed \cup {n} /\ n \notin Failed /\ Failing' = Failing
    BY <1>1 DEF Failed, Failing
  <1>5. ringPc[n] = "failing" /\ p = "gone"
        => Failed' = Failed /\ Failing' = Failing \ {n} /\ n \in Failing
    BY <1>1 DEF Failed, Failing
  <1>6. IsFiniteSet(Failed) /\ IsFiniteSet(Failing)
    BY FiniteSets
  <1>7. /\ n \notin Failed => Cardinality(Failed \cup {n}) = Cardinality(Failed) + 1
        /\ n \notin Failing => Cardinality(Failing \cup {n}) = Cardinality(Failing) + 1
        /\ n \in Failing => Cardinality(Failing \ {n}) = Cardinality(Failing) - 1
    BY <1>6, OneMore
  <1>8. QED  BY <1>1, <1>2, <1>3, <1>4, <1>5, <1>7

(* Calls that are given up or handled late.                                *)
LEMMA OneLateLess ==
  ASSUME IsFiniteSet(late), NEW c \in late, late' = late \ {c}
  PROVE  /\ IsFiniteSet(late)' /\ LateErrors' \subseteq LateErrors
         /\ Cardinality(LateErrors)' \in Nat /\ Cardinality(LatePolls)' \in Nat
         /\ Cardinality(LateErrors)' <= Cardinality(LateErrors)
         /\ Cardinality(LatePolls)' <= Cardinality(LatePolls)
         /\ c[2] = "setHodRingErrors" => Cardinality(LateErrors)' = Cardinality(LateErrors) - 1
         /\ c[2] = "getCommand" => Cardinality(LatePolls)' = Cardinality(LatePolls) - 1
  <1>1. LateErrors' = LateErrors \ {c} /\ LatePolls' = LatePolls \ {c}
    BY DEF LateErrors, LatePolls
  <1>2. IsFiniteSet(late)' /\ IsFiniteSet(LateErrors) /\ IsFiniteSet(LatePolls)
    BY OneMore, FiniteSets
  <1>3. /\ c[2] = "setHodRingErrors" => c \in LateErrors
        /\ c[2] = "getCommand" => c \in LatePolls
    BY DEF LateErrors, LatePolls
  <1>4. /\ Cardinality(LateErrors \ {c}) \in Nat /\ Cardinality(LateErrors \ {c}) <= Cardinality(LateErrors)
        /\ Cardinality(LatePolls \ {c}) \in Nat /\ Cardinality(LatePolls \ {c}) <= Cardinality(LatePolls)
        /\ c \in LateErrors => Cardinality(LateErrors \ {c}) = Cardinality(LateErrors) - 1
        /\ c \in LatePolls => Cardinality(LatePolls \ {c}) = Cardinality(LatePolls) - 1
    BY <1>2, OneMore
  <1>5. QED  BY <1>1, <1>2, <1>3, <1>4

LEMMA OneLateMore ==
  ASSUME IsFiniteSet(late), NEW c, late' = late \cup {c}
  PROVE  /\ IsFiniteSet(late)'
         /\ c[2] # "setHodRingErrors" => LateErrors' = LateErrors
         /\ c[2] = "setHodRingErrors" => LateErrors' = LateErrors \cup {c}
         /\ Cardinality(LateErrors)' \in Nat /\ Cardinality(LatePolls)' \in Nat
         /\ Cardinality(LateErrors)' + Cardinality(LatePolls)'
              <= Cardinality(LateErrors) + Cardinality(LatePolls) + 1
  <1>1. /\ c[2] # "setHodRingErrors" => LateErrors' = LateErrors
        /\ c[2] = "setHodRingErrors" => LateErrors' = LateErrors \cup {c} /\ LatePolls' = LatePolls
        /\ LatePolls' = LatePolls \/ LatePolls' = LatePolls \cup {c}
    BY DEF LateErrors, LatePolls
  <1>2. IsFiniteSet(late)' /\ IsFiniteSet(LateErrors) /\ IsFiniteSet(LatePolls)
        /\ Cardinality(LateErrors) \in Nat /\ Cardinality(LatePolls) \in Nat
    BY OneMore, FiniteSets
  <1>3. /\ Cardinality(LateErrors \cup {c}) \in Nat /\ Cardinality(LateErrors \cup {c}) <= Cardinality(LateErrors) + 1
        /\ Cardinality(LatePolls \cup {c}) \in Nat /\ Cardinality(LatePolls \cup {c}) <= Cardinality(LatePolls) + 1
    BY <1>2, OneMore
  <1>4. CASE c[2] = "setHodRingErrors"
    BY <1>1, <1>2, <1>3, <1>4
  <1>5. CASE c[2] # "setHodRingErrors" /\ LatePolls' = LatePolls
    BY <1>1, <1>2, <1>3, <1>5
  <1>6. CASE c[2] # "setHodRingErrors" /\ LatePolls' = LatePolls \cup {c}
    BY <1>1, <1>2, <1>3, <1>6
  <1>7. QED  BY <1>1, <1>4, <1>5, <1>6

LEMMA LateSubset ==
  ASSUME IsFiniteSet(late), late' \subseteq late
  PROVE  /\ IsFiniteSet(late)' /\ LateErrors' \subseteq LateErrors
         /\ Cardinality(LateErrors)' \in Nat /\ Cardinality(LatePolls)' \in Nat
         /\ Cardinality(LateErrors)' <= Cardinality(LateErrors)
         /\ Cardinality(LatePolls)' <= Cardinality(LatePolls)
  <1>1. LateErrors' \in SUBSET LateErrors /\ LatePolls' \in SUBSET LatePolls
    BY DEF LateErrors, LatePolls
  <1>2. IsFiniteSet(LateErrors) /\ IsFiniteSet(LatePolls) /\ IsFiniteSet(late')
    BY FiniteSets, FS_Subset
  <1>3. /\ IsFiniteSet(LateErrors') /\ Cardinality(LateErrors') <= Cardinality(LateErrors)
        /\ IsFiniteSet(LatePolls') /\ Cardinality(LatePolls') <= Cardinality(LatePolls)
    BY <1>1, <1>2, FS_Subset
  <1>4. QED  BY <1>1, <1>2, <1>3, FS_CardinalityType

-----------------------------------------------------------------------------
(* The hodring starts, raises, gives a call up or ends, while the ring     *)
(* master does nothing.                                                    *)
Goes(q, p) == \/ q = "off" /\ p = "poll"
              \/ q = "asked" /\ p = "poll" /\ losses' = losses + 1
              \/ q \in {"off", "poll", "asked", "run"} /\ p = "failing"
              \/ q = "report" /\ p = "up"
              \/ q \notin {"off", "gone"} /\ p = "gone"

GoesTo(n, p, D) ==
  /\ Go(n, p) /\ Goes(ringPc[n], p) /\ rm = "up"
  /\ daemons' = [daemons EXCEPT ![n] = D]
  /\ D \subseteq {cmds[n][i] : i \in DOMAIN cmds[n]}
  /\ p \in {"poll", "up"} => D = daemons[n]
  /\ losses' \in {losses, losses + 1}
  /\ UNCHANGED <<cmds, at, late, disturbed>> /\ UNCHANGED rmVars

LEMMA GoesOnFrame ==
  ASSUME Always, NEW n \in Nodes, NEW p, NEW D, GoesTo(n, p, D)
  PROVE  /\ p \in {"poll", "up", "failing", "gone"}
         /\ p = "poll" => ringPc[n] \in {"off", "asked"}
         /\ p = "up" => ringPc[n] = "report"
         /\ ringPc' \in [Nodes -> {"off", "poll", "asked", "run", "report", "up", "failing", "gone"}]
         /\ ringPc'[n] = p /\ \A m \in Nodes : m # n => ringPc'[m] = ringPc[m]
         /\ ringPc[n] # "gone"
         /\ ringPc[n] = "failing" => p = "gone"
         /\ IsFiniteSet(late) /\ StaysUp /\ ServicesTypeOK' /\ Externals'
         /\ UNCHANGED serviceVars /\ giving' = giving /\ rm' = rm /\ late' = late
         /\ LateErrors' = LateErrors /\ LatePolls' = LatePolls
         /\ \A m \in Nodes : GivenMaster(m)' = GivenMaster(m)
         /\ \A m \in Nodes : m # n => daemons'[m] = daemons[m]
         /\ daemons'[n] = D
         /\ \A m \in Nodes : daemons'[m] = daemons[m] => Filled(m)' = Filled(m)
  <1> USE DEF Always
  <1>1. /\ p \in {"poll", "up", "failing", "gone"}
        /\ p = "poll" => ringPc[n] \in {"off", "asked"}
        /\ p = "up" => ringPc[n] = "report"
        /\ ringPc[n] # "gone"
        /\ ringPc[n] = "failing" => p = "gone"
    BY DEF GoesTo, Goes
  <1>2. IsFiniteSet(late)
    BY DEF LateCalls
  <1>3. Go(n, p) /\ UNCHANGED <<cmds, late>> /\ UNCHANGED serviceVars /\ giving' = giving /\ rm' = rm
    BY DEF GoesTo, rmVars
  <1>4. /\ ringPc' \in [Nodes -> {"off", "poll", "asked", "run", "report", "up", "failing", "gone"}]
        /\ ringPc'[n] = p /\ \A m \in Nodes : m # n => ringPc'[m] = ringPc[m]
    BY <1>1, <1>2, <1>3, Moves
  <1>5. StaysUp /\ ServicesTypeOK' /\ Externals'
    BY <1>3, SameServices DEF RingTypeOK
  <1>6. /\ LateErrors' = LateErrors /\ LatePolls' = LatePolls
        /\ \A m \in Nodes : GivenMaster(m)' = GivenMaster(m)
    BY <1>3, SameGiven DEF LateErrors, LatePolls
  <1>7. /\ \A m \in Nodes : m # n => daemons'[m] = daemons[m]
        /\ daemons'[n] = D
    BY DEF GoesTo, RingTypeOK
  <1>8. \A m \in Nodes : daemons'[m] = daemons[m] => Filled(m)' = Filled(m)
    BY SameFilled
  <1>9. QED  BY <1>1, <1>2, <1>3, <1>4, <1>5, <1>6, <1>7, <1>8

LEMMA GoesOnAlways ==
  ASSUME Always, NEW n \in Nodes, NEW p, NEW D, GoesTo(n, p, D)
  PROVE  Always'
  <1> USE DEF Always
  <1>1. /\ p \in {"poll", "up", "failing", "gone"}
        /\ p = "poll" => ringPc[n] \in {"off", "asked"}
        /\ p = "up" => ringPc[n] = "report"
        /\ ringPc' \in [Nodes -> {"off", "poll", "asked", "run", "report", "up", "failing", "gone"}]
        /\ ringPc'[n] = p /\ \A m \in Nodes : m # n => ringPc'[m] = ringPc[m]
        /\ ringPc[n] # "gone"
        /\ ringPc[n] = "failing" => p = "gone"
        /\ \A m \in Nodes : m # n => daemons'[m] = daemons[m]
        /\ daemons'[n] = D
        /\ p \in {"poll", "up"} => D = daemons[n]
    BY GoesOnFrame DEF GoesTo
  <1>2. /\ IsFiniteSet(late) /\ UNCHANGED serviceVars /\ giving' = giving /\ rm' = rm
        /\ LateErrors' = LateErrors /\ ServicesTypeOK' /\ Externals'
        /\ \A m \in Nodes : GivenMaster(m)' = GivenMaster(m)
        /\ \A m \in Nodes : daemons'[m] = daemons[m] => Filled(m)' = Filled(m)
    BY GoesOnFrame
  <1>3. /\ Goes(ringPc[n], p) /\ rm = "up" /\ Go(n, p)
        /\ daemons' = [daemons EXCEPT ![n] = D] /\ D \subseteq {cmds[n][i] : i \in DOMAIN cmds[n]}
        /\ losses' \in {losses, losses + 1} /\ UNCHANGED <<cmds, at, late, disturbed>>
    BY DEF GoesTo
  <1>4. RingTypeOK'
    <2>1. D \subseteq Commands
      BY <1>3 DEF RingTypeOK
    <2>2. daemons' \in [Nodes -> SUBSET Commands] /\ losses' \in Nat
      BY <1>3, <2>1 DEF RingTypeOK
    <2>3. \A m \in Nodes : ringPc'[m] = "run" => ringPc[m] = "run" /\ at[m] \in DOMAIN cmds[m]
      BY <1>1 DEF RingTypeOK
    <2>4. \A m \in Nodes : ringPc'[m] = "run" => at'[m] \in DOMAIN cmds'[m]
      BY <1>3, <2>3
    <2>5. QED  BY <1>1, <1>2, <1>3, <2>2, <2>4 DEF RingTypeOK
  <1>5. Running'
    BY <1>1, <1>2, <1>3 DEF Running
  <1>6. LateCalls'
    <2>1. \A c \in late : c[1] \in Nodes
      BY DEF RingTypeOK
    <2>2. losses' = 0 => losses = 0
      BY <1>3 DEF RingTypeOK
    <2>3. \A m \in Nodes :
            /\ ringPc[m] # "off" => ringPc'[m] # "off"
            /\ ringPc[m] \in {"report", "up", "gone"} => ringPc'[m] \in {"report", "up", "gone"}
            /\ ringPc[m] \in {"failing", "gone"} => ringPc'[m] \in {"failing", "gone"}
      BY <1>1, <1>3 DEF Goes
    <2>4. QED  BY <1>2, <1>3, <2>1, <2>2, <2>3 DEF LateCalls
  <1>7. Given'
    <2>1. ASSUME NEW m \in Nodes
          PROVE  /\ cmds'[m] = <<>> \/ (\E s \in Services : IsMaster(cmds'[m], s)) \/ AreWorkers(cmds'[m])
                 /\ ringPc'[m] \in {"off", "poll", "asked"} => cmds'[m] = <<>> /\ at'[m] = 1
                 /\ ringPc'[m] \in {"run", "report", "up"} => cmds'[m] # <<>>
      BY <1>1, <1>3 DEF Given
    <2>2. QED  BY <2>1 DEF Given, IsMaster, AreWorkers, JobTracker
  <1>8. Gift'
    BY <1>1, <1>2 DEF Gift, IsMaster, JobTracker
  <1>9. Ran'
    BY <1>1, <1>3 DEF Ran, Past, Goes
  <1>10. Addressed'
    <2>1. ASSUME NEW s \in Services, NEW m, RanMaster(s, m) PROVE RanMaster(s, m)'
      <3>1. m # n => ringPc'[m] = ringPc[m] /\ Filled(m)' = Filled(m)
        BY <1>1, <1>2, <2>1 DEF RanMaster
      <3>2. m = n => (ringPc[n] = "report" /\ p = "up") \/ p = "gone"
        BY <1>3, <2>1 DEF RanMaster, Goes
      <3>3. p = "up" => Filled(n)' = Filled(n)
        BY <1>1, <1>2
      <3>4. QED  BY <1>1, <1>2, <2>1, <3>1, <3>2, <3>3 DEF RanMaster
    <2>2. QED  BY <1>2, <2>1 DEF Addressed, serviceVars
  <1>11. Bounded'
    <2>1. SUFFICES ASSUME NEW s \in Services
                   PROVE  failureCount[s] + Cardinality(Failing)' + Cardinality(LateErrors)
                            <= Cardinality(Failed)' + losses'
      BY <1>2 DEF Bounded, serviceVars
    <2>2. failureCount[s] + Cardinality(Failing) + Cardinality(LateErrors) <= Cardinality(Failed) + losses
      BY DEF Bounded
    <2>3. /\ Cardinality(Failing) \in Nat /\ Cardinality(Failed) \in Nat
          /\ Cardinality(LateErrors) \in Nat
          /\ failureCount[s] \in Nat /\ losses \in Nat
      BY <1>2, FiniteSets DEF RingTypeOK, ServicesTypeOK
    <2>4. CASE ringPc[n] \notin {"failing", "gone"} /\ p \in {"poll", "up"}
      BY <1>1, <1>2, <1>3, <2>2, <2>3, <2>4, Moves
    <2>5. CASE ringPc[n] \notin {"failing", "gone"} /\ p = "failing"
      BY <1>1, <1>2, <1>3, <2>2, <2>3, <2>5, Moves
    <2>6. CASE ringPc[n] \notin {"failing", "gone"} /\ p = "gone"
      BY <1>1, <1>2, <1>3, <2>2, <2>3, <2>6, Moves
    <2>7. CASE ringPc[n] = "failing" /\ p = "gone"
      BY <1>1, <1>2, <1>3, <2>2, <2>3, <2>7, Moves
    <2>8. QED  BY <1>1, <1>3, <2>4, <2>5, <2>6, <2>7 DEF Goes
  <1>12. disturbed' => losses' > 0
    BY <1>3 DEF RingTypeOK
  <1>13. QED  BY <1>2, <1>4, <1>5, <1>6, <1>7, <1>8, <1>9, <1>10, <1>11, <1>12

LEMMA GoesOnUndisturbed ==
  ASSUME Always, Undisturbed, NEW n \in Nodes, NEW p, NEW D, GoesTo(n, p, D)
  PROVE  Undisturbed'
  <1> USE DEF Undisturbed
  <1>1. /\ p \in {"poll", "up", "failing", "gone"}
        /\ p = "poll" => ringPc[n] \in {"off", "asked"}
        /\ p = "up" => ringPc[n] = "report"
        /\ ringPc'[n] = p /\ \A m \in Nodes : m # n => ringPc'[m] = ringPc[m]
        /\ ringPc[n] # "gone"
        /\ ringPc[n] = "failing" => p = "gone"
    BY GoesOnFrame
  <1>2. /\ IsFiniteSet(late) /\ StaysUp /\ UNCHANGED serviceVars /\ giving' = giving
        /\ LateErrors' = LateErrors /\ LatePolls' = LatePolls
        /\ \A m \in Nodes : GivenMaster(m)' = GivenMaster(m)
    BY GoesOnFrame
  <1>3. /\ Goes(ringPc[n], p) /\ Go(n, p)
        /\ losses' \in {losses, losses + 1} /\ UNCHANGED <<cmds, at, late, disturbed>>
    BY DEF GoesTo
  <1>4. Told'
    BY <1>2, <1>3, SameTold
  <1>5. Launched'
    BY <1>1, <1>2, <1>3 DEF Launched, Taken, serviceVars
  <1>6. Up'
    BY <1>2, <1>3 DEF Up, Taken, serviceVars
  <1>7. Stale'
    <2>1. losses' = 0 => losses = 0
      BY <1>3 DEF Always, RingTypeOK
    <2>2. \A m : Told0(m) => Told0(m)'
      BY <1>1, <1>3, <2>1 DEF Told0
    <2>3. QED  BY <1>2, <2>2 DEF Stale, Taken, serviceVars
  <1>8. Counted'
    <2>1. SUFFICES ASSUME NEW s \in Services
                   PROVE  2 * failureCount[s] + Due(s)' <= 2 * Cardinality(Failed)' + losses'
      BY <1>2 DEF Counted, serviceVars
    <2>2. 2 * failureCount[s] + Due(s) <= 2 * Cardinality(Failed) + losses
      BY DEF Counted
    <2>3. /\ Cardinality(Failing) \in Nat /\ Cardinality(Failed) \in Nat
          /\ Cardinality(LateErrors) \in Nat /\ Cardinality(LatePolls) \in Nat
          /\ failureCount[s] \in Nat /\ losses \in Nat
      BY <1>2, FiniteSets DEF Always, RingTypeOK, ServicesTypeOK
    <2>4. Failed' = Failed /\ ringPc[n] # "asked" => Pending(s)' = Pending(s)
      BY <1>1, <1>2 DEF Pending, Holder, Taken, serviceVars
    <2> USE DEF Always
    <2>5. CASE ringPc[n] \notin {"failing", "gone", "asked"} /\ p \in {"poll", "up"}
      BY <1>1, <1>2, <1>3, <2>2, <2>3, <2>4, <2>5, Moves DEF Due
    <2>6. CASE ringPc[n] = "asked" /\ p = "poll"
      <3>1. losses' = losses + 1
        BY <1>3, <2>6 DEF Goes
      <3>2. QED  BY <1>1, <1>2, <1>3, <2>2, <2>3, <2>6, <3>1, Moves DEF Due
    <2>7. CASE ringPc[n] \notin {"failing", "gone"} /\ p = "failing"
      BY <1>1, <1>2, <1>3, <2>2, <2>3, <2>7, Moves DEF Due
    <2>8. CASE ringPc[n] \notin {"failing", "gone"} /\ p = "gone"
      BY <1>1, <1>2, <1>3, <2>2, <2>3, <2>8, Moves DEF Due
    <2>9. CASE ringPc[n] = "failing" /\ p = "gone"
      BY <1>1, <1>2, <1>3, <2>2, <2>3, <2>4, <2>9, Moves DEF Due
    <2>10. QED  BY <1>1, <1>3, <2>5, <2>6, <2>7, <2>8, <2>9 DEF Goes
  <1>9. QED  BY <1>4, <1>5, <1>6, <1>7, <1>8

LEMMA GoesOn ==
  ASSUME RingInv, NEW n \in Nodes, NEW p, NEW D, GoesTo(n, p, D)
  PROVE  RingInv'
  BY GoesOnAlways, GoesOnUndisturbed DEF RingInv, GoesTo

LEMMA StartRingStep == ASSUME RingInv, NEW n \in Nodes, StartRing(n) PROVE RingInv'
  <1>1. PICK p \in {"poll", "failing"} : Go(n, p)
    BY DEF StartRing
  <1>2. GoesTo(n, p, daemons[n])
    BY <1>1 DEF StartRing, RingInv, Always, RingTypeOK, Ran, GoesTo, Goes
  <1>3. QED  BY <1>2, GoesOn

LEMMA UnreachableStep == ASSUME RingInv, NEW n \in Nodes, Unreachable(n) PROVE RingInv'
  <1>1. PICK p \in {"failing", "up", "gone"} : Go(n, p) /\ Goes(ringPc[n], p) /\ ringPc[n] # "off"
    BY DEF Unreachable, OnNone, Goes
  <1>2. GoesTo(n, p, daemons[n])
    BY <1>1 DEF Unreachable, Loss, RingInv, Always, RingTypeOK, Ran, Running, GoesTo
  <1>3. QED  BY <1>2, GoesOn

LEMMA MissReplyStep == ASSUME RingInv, NEW n \in Nodes, MissReply(n) PROVE RingInv'
  <1>1. GoesTo(n, "poll", daemons[n])
    BY DEF MissReply, Loss, RingInv, Always, RingTypeOK, Ran, Running, GoesTo, Goes
  <1>2. QED  BY <1>1, GoesOn

LEMMA CrashStep == ASSUME RingInv, NEW n \in Nodes, Crash(n) PROVE RingInv'
  <1>1. GoesTo(n, "gone", {})
    BY DEF Crash, Loss, RingInv, Always, RingTypeOK, Running, GoesTo, Goes
  <1>2. QED  BY <1>1, GoesOn

LEMMA CommandFailsStep == ASSUME RingInv, NEW n \in Nodes, CommandFails(n) PROVE RingInv'
  <1>1. daemons[n] \subseteq {cmds[n][i] : i \in DOMAIN cmds[n]}
        /\ Command1(n) \in {cmds[n][i] : i \in DOMAIN cmds[n]}
    BY DEF CommandFails, Command1, RingInv, Always, RingTypeOK, Ran
  <1>2. PICK D : /\ D \subseteq {cmds[n][i] : i \in DOMAIN cmds[n]}
                 /\ daemons' = [daemons EXCEPT ![n] = D]
    <2>1. CASE UNCHANGED daemons
      BY <1>1, <2>1 DEF RingInv, Always, RingTypeOK
    <2>2. CASE daemons' = [daemons EXCEPT ![n] = @ \cup {Command1(n)}]
      BY <1>1, <2>2
    <2>3. QED  BY <2>1, <2>2 DEF CommandFails
  <1>3. GoesTo(n, "failing", D)
    BY <1>2 DEF CommandFails, RingInv, Always, Running, GoesTo, Goes
  <1>4. QED  BY <1>3, GoesOn

(* What changes neither the hodrings nor what was given leaves the         *)
(* commands right.                                                         *)
LEMMA SameCommands ==
  ASSUME UNCHANGED cmds
  PROVE  /\ \A n, s : IsMaster(cmds[n], s) => IsMaster(cmds[n], s)'
         /\ \A n : AreWorkers(cmds[n]) => AreWorkers(cmds[n])'
         /\ \A n : GivenMaster(n)' = GivenMaster(n)
  BY DEF IsMaster, AreWorkers, JobTracker, GivenMaster

(* The ring master starts.                                                 *)
LEMMA RMStartsStep == ASSUME RingInv, RMStarts PROVE RingInv'
  <1>1. /\ UNCHANGED <<ringPc, cmds, at, daemons, late, losses, disturbed>>
        /\ UNCHANGED serviceVars /\ giving' = giving
        /\ rm = "init" /\ rm' = IF "mapred" \in External THEN "failed" ELSE "up"
    BY DEF RMStarts, StartRM, ringVars
  <1>2. /\ StaysUp
        /\ \A m \in Nodes : GivenMaster(m)' = GivenMaster(m) /\ Filled(m)' = Filled(m)
        /\ LateErrors' = LateErrors /\ LatePolls' = LatePolls
        /\ Failing' = Failing /\ Failed' = Failed
    BY <1>1, SameServices, SameGiven, SameFilled DEF LateErrors, LatePolls, Failing, Failed
  <1>3. ASSUME Always PROVE Always'
    <2> USE <1>3 DEF Always
    <2>1. RingTypeOK' /\ Externals'
      BY <1>1, SameServices DEF RingTypeOK
    <2>2. Running'
      BY <1>1 DEF Running
    <2>3. LateCalls'
      <3>1. \A c \in late : c[1] \in Nodes
        BY DEF RingTypeOK
      <3>2. QED  BY <1>1, <1>2, <3>1 DEF LateCalls
    <2>4. Given'
      BY <1>1, SameCommands DEF Given
    <2>5. Gift'
      BY <1>1 DEF Gift, IsMaster, JobTracker
    <2>6. Ran' /\ Addressed' /\ Bounded' /\ (disturbed' => losses' > 0)
      BY <1>1, <1>2 DEF Ran, Past, Addressed, RanMaster, Bounded, serviceVars
    <2>7. QED  BY <2>1, <2>2, <2>3, <2>4, <2>5, <2>6
  <1>4. ASSUME Undisturbed PROVE Undisturbed'
    <2> USE <1>4 DEF Undisturbed
    <2>1. Told'
      BY <1>1, <1>2, SameTold
    <2>2. Launched' /\ Up'
      BY <1>1, <1>2 DEF Launched, Up, Taken, serviceVars
    <2>3. Stale' /\ Counted'
      BY <1>1, <1>2 DEF Stale, Told0, Taken, Counted, Due, Pending, Holder, serviceVars
    <2>4. QED  BY <2>1, <2>2, <2>3
  <1>5. QED  BY <1>1, <1>3, <1>4 DEF RingInv

(* A call is given up, to be handled late.                                 *)
LEMMA TimeOutFrame ==
  ASSUME Always, NEW n \in Nodes, TimeOut(n)
  PROVE  \E c : /\ ringPc[n] \in {"poll", "report", "failing"}
                /\ c[1] = n /\ c[3] \subseteq GivenMaster(n)
                /\ ringPc[n] = "poll" => c[2] = "getCommand"
                /\ ringPc[n] = "report" => c[2] = "addMasterParams"
                /\ ringPc[n] = "failing" => c[2] = "setHodRingErrors"
                /\ c \in Nodes \X {"getCommand", "addMasterParams", "setHodRingErrors"} \X SUBSET Services
                /\ late' = late \cup {c} /\ losses' = losses + 1
                /\ UNCHANGED <<ringPc, cmds, at, daemons, rm, giving, disturbed>>
                /\ UNCHANGED serviceVars /\ StaysUp /\ IsFiniteSet(late)
                /\ \A m \in Nodes : GivenMaster(m)' = GivenMaster(m) /\ Filled(m)' = Filled(m)
                /\ Failing' = Failing /\ Failed' = Failed
                /\ \A d \in LateErrors' : d \in LateErrors \/ (d = c /\ ringPc[n] = "failing")
  <1> USE DEF Always
  <1> DEFINE c == <<n, CallIn[ringPc[n]], Sent(n)>>
  <1>1. /\ ringPc[n] \in {"poll", "report", "failing"}
        /\ c[1] = n /\ c[3] = Sent(n)
        /\ ringPc[n] = "poll" => c[2] = "getCommand"
        /\ ringPc[n] = "report" => c[2] = "addMasterParams"
        /\ ringPc[n] = "failing" => c[2] = "setHodRingErrors"
    BY DEF TimeOut, CallIn
  <1>2. late' = late \cup {c} /\ losses' = losses + 1
        /\ UNCHANGED <<ringPc, cmds, at, daemons, rm, giving, disturbed>> /\ UNCHANGED serviceVars
    BY DEF TimeOut, Loss, rmVars
  <1>3. Sent(n) \subseteq GivenMaster(n) /\ Sent(n) \subseteq Services
    BY FilledIsGiven DEF Sent, GivenMaster
  <1>4. IsFiniteSet(late)
    BY DEF LateCalls
  <1>5. /\ StaysUp
        /\ \A m \in Nodes : GivenMaster(m)' = GivenMaster(m) /\ Filled(m)' = Filled(m)
        /\ Failing' = Failing /\ Failed' = Failed
    BY <1>2, SameServices, SameGiven, SameFilled DEF Failing, Failed
  <1>6. \A d \in LateErrors' : d \in LateErrors \/ (d = c /\ ringPc[n] = "failing")
    BY <1>1, <1>2, <1>4, OneLateMore
  <1>7. c \in Nodes \X {"getCommand", "addMasterParams", "setHodRingErrors"} \X SUBSET Services
    BY <1>1, <1>3
  <1>8. QED  BY <1>1, <1>2, <1>3, <1>4, <1>5, <1>6, <1>7

LEMMA TimeOutStep == ASSUME RingInv, NEW n \in Nodes, TimeOut(n) PROVE RingInv'
  <1>1. Always
    BY DEF RingInv
  <1>2. PICK c : /\ ringPc[n] \in {"poll", "report", "failing"}
                 /\ c[1] = n /\ c[3] \subseteq GivenMaster(n)
                 /\ ringPc[n] = "poll" => c[2] = "getCommand"
                 /\ ringPc[n] = "report" => c[2] = "addMasterParams"
                 /\ ringPc[n] = "failing" => c[2] = "setHodRingErrors"
                 /\ c \in Nodes \X {"getCommand", "addMasterParams", "setHodRingErrors"} \X SUBSET Services
                 /\ late' = late \cup {c} /\ losses' = losses + 1
                 /\ UNCHANGED <<ringPc, cmds, at, daemons, rm, giving, disturbed>>
                 /\ UNCHANGED serviceVars /\ StaysUp /\ IsFiniteSet(late)
                 /\ \A m \in Nodes : GivenMaster(m)' = GivenMaster(m) /\ Filled(m)' = Filled(m)
                 /\ Failing' = Failing /\ Failed' = Failed
                 /\ \A d \in LateErrors' : d \in LateErrors \/ (d = c /\ ringPc[n] = "failing")
    BY <1>1, TimeOutFrame
  <1>3. /\ Cardinality(Failing) \in Nat /\ Cardinality(Failed) \in Nat
        /\ Cardinality(LateErrors) \in Nat /\ Cardinality(LatePolls) \in Nat
        /\ losses \in Nat /\ \A s \in Services : failureCount[s] \in Nat
        /\ Cardinality(LateErrors)' \in Nat /\ Cardinality(LatePolls)' \in Nat
        /\ Cardinality(LateErrors)' + Cardinality(LatePolls)'
             <= Cardinality(LateErrors) + Cardinality(LatePolls) + 1
        /\ Cardinality(LateErrors)' <= Cardinality(LateErrors) + 1
    <2>1. /\ Cardinality(LateErrors)' \in Nat /\ Cardinality(LatePolls)' \in Nat
          /\ Cardinality(LateErrors)' + Cardinality(LatePolls)'
               <= Cardinality(LateErrors) + Cardinality(LatePolls) + 1
          /\ LateErrors' = LateErrors \/ LateErrors' = LateErrors \cup {c}
      BY <1>2, OneLateMore
    <2>2. Cardinality(LateErrors \cup {c}) <= Cardinality(LateErrors) + 1
      BY <1>2, FiniteSets, OneMore
    <2>3. /\ Cardinality(Failing) \in Nat /\ Cardinality(Failed) \in Nat
          /\ Cardinality(LateErrors) \in Nat /\ Cardinality(LatePolls) \in Nat
      BY <1>2, FiniteSets
    <2>4. losses \in Nat /\ \A s \in Services : failureCount[s] \in Nat
      BY <1>1 DEF Always, RingTypeOK, ServicesTypeOK
    <2>5. Cardinality(LateErrors)' <= Cardinality(LateErrors) + 1
      <3>1. CASE LateErrors' = LateErrors
        BY <2>3, <3>1
      <3>2. CASE LateErrors' = LateErrors \cup {c}
        BY <2>2, <3>2
      <3>3. QED  BY <2>1, <3>1, <3>2
    <2>6. QED  BY <2>1, <2>3, <2>4, <2>5
  <1>4. Always'
    <2> USE <1>1 DEF Always
    <2>1. RingTypeOK' /\ Externals'
      BY <1>2, SameServices DEF RingTypeOK
    <2>2. Running' /\ Ran'
      BY <1>2 DEF Running, Ran, Past
    <2>3. LateCalls'
      <3>1. IsFiniteSet(late')
        BY <1>2, OneMore
      <3>2. ASSUME NEW e \in late'
            PROVE  /\ ringPc[e[1]] # "off"
                   /\ e[2] = "addMasterParams" => /\ ringPc[e[1]] \in {"report", "up", "gone"}
                                                  /\ e[3] \subseteq GivenMaster(e[1])
                                                  /\ \A d \in LateErrors' : d[1] # e[1]
                   /\ e[2] = "setHodRingErrors" => ringPc[e[1]] \in {"failing", "gone"}
        <4>1. CASE e \in late
          BY <1>2, <4>1 DEF LateCalls
        <4>2. CASE e = c
          <5>1. e[2] = "addMasterParams" => \A d \in LateErrors : d[1] # e[1]
            BY <1>2, <4>2 DEF LateCalls, LateErrors
          <5>2. QED  BY <1>2, <4>2, <5>1
        <4>3. QED  BY <1>2, <4>1, <4>2
      <3>3. \A e \in late' : e[1] \in Nodes
        BY <2>1 DEF RingTypeOK
      <3>4. losses' # 0
        BY <1>2, <1>3
      <3>5. QED  BY <1>2, <3>1, <3>2, <3>3, <3>4 DEF LateCalls
    <2>4. Given' /\ Gift'
      BY <1>2, SameCommands DEF Given, Gift, IsMaster, JobTracker
    <2>5. Addressed'
      BY <1>2 DEF Addressed, RanMaster, serviceVars
    <2>6. Bounded'
      BY <1>2, <1>3 DEF Bounded, serviceVars
    <2>7. QED  BY <1>2, <1>3, <2>1, <2>2, <2>3, <2>4, <2>5, <2>6
  <1>5. ASSUME Undisturbed PROVE Undisturbed'
    <2> USE <1>5 DEF Undisturbed
    <2>1. Told'
      BY <1>2, SameTold
    <2>2. Launched'
      BY <1>2 DEF serviceVars, Launched, Taken
    <2>3. Up'
      <3>1. SUFFICES ASSUME NEW s \in Services, initialized[s], s \notin External
                     PROVE  /\ launched[s] /\ ~Taken(s) /\ masterAddress[s] = masterAddr[s]
                            /\ \A d \in LateErrors' : d[1] # masterAddress[s]
        BY <1>2 DEF Up, Taken, serviceVars
      <3>2. /\ launched[s] /\ ~Taken(s) /\ masterAddress[s] = masterAddr[s]
            /\ \A d \in LateErrors : d[1] # masterAddress[s]
            /\ ringPc[masterAddress[s]] \in {"report", "up", "gone"}
        BY <1>1, <3>1 DEF Up, Always, Addressed, RanMaster
      <3>3. QED  BY <1>2, <3>2
    <2>4. Stale'
      <3>1. \A m : Told0(m) => Told0(m)'
        BY <1>2, <1>3 DEF Told0
      <3>2. QED  BY <1>2, <3>1 DEF Stale, Taken, serviceVars
    <2>5. Counted'
      <3>1. SUFFICES ASSUME NEW s \in Services
                     PROVE  2 * failureCount[s] + Due(s)' <= 2 * Cardinality(Failed) + (losses + 1)
        BY <1>2 DEF Counted, serviceVars
      <3>2. 2 * failureCount[s] + Due(s) <= 2 * Cardinality(Failed) + losses
        BY DEF Counted
      <3>3. Pending(s)' = Pending(s)
        BY <1>2 DEF Pending, Holder, Taken, serviceVars
      <3>4. QED  BY <1>2, <1>3, <3>2, <3>3 DEF Due
    <2>6. QED  BY <2>1, <2>2, <2>3, <2>4, <2>5
  <1>6. QED  BY <1>2, <1>4, <1>5 DEF RingInv

(* A command runs, the last one or not.                                    *)
LEMMA CommandRunsStep == ASSUME RingInv, NEW n \in Nodes, CommandRuns(n) PROVE RingInv'
  <1> DEFINE p == IF at[n] = Len(cmds[n]) THEN "report" ELSE "run"
  <1>0. Always
    BY DEF RingInv
  <1>1. /\ ringPc[n] = "run" /\ Go(n, p) /\ p \in {"run", "report"}
        /\ at' = [at EXCEPT ![n] = @ + 1]
        /\ UNCHANGED <<cmds, late, losses, disturbed, rm, giving>> /\ UNCHANGED serviceVars
    BY DEF CommandRuns, rmVars
  <1>2. IsFiniteSet(late) /\ cmds[n] \in Seq(Commands) /\ at[n] \in DOMAIN cmds[n]
    BY <1>0, <1>1 DEF Always, LateCalls, RingTypeOK
  <1>3. /\ ringPc' \in [Nodes -> {"off", "poll", "asked", "run", "report", "up", "failing", "gone"}]
        /\ ringPc'[n] = p /\ \A m \in Nodes : m # n => ringPc'[m] = ringPc[m]
        /\ Failing' = Failing /\ Failed' = Failed
    BY <1>0, <1>1, <1>2, Moves DEF Always
  <1>4. /\ daemons' \in [Nodes -> SUBSET Commands]
        /\ \A m \in Nodes : m # n => daemons'[m] = daemons[m]
        /\ daemons[n] \subseteq daemons'[n] /\ daemons'[n] \subseteq daemons[n] \cup {cmds[n][at[n]]}
        /\ ~cmds[n][at[n]].fg => cmds[n][at[n]] \in daemons'[n]
    BY <1>0, <1>2 DEF Always, CommandRuns, Command1, RingTypeOK
  <1>5. /\ StaysUp
        /\ \A m \in Nodes : GivenMaster(m)' = GivenMaster(m)
        /\ \A m \in Nodes : m # n => Filled(m)' = Filled(m)
        /\ LateErrors' = LateErrors /\ LatePolls' = LatePolls
    BY <1>1, <1>4, SameServices, SameGiven, SameFilled DEF LateErrors, LatePolls
  <1> HIDE DEF p
  <1>6. Always'
    <2> USE <1>0 DEF Always
    <2>1. RingTypeOK' /\ Externals'
      <3>1. at' \in [Nodes -> Nat \ {0}]
        BY <1>1 DEF RingTypeOK
      <3>2. p = "run" => at'[n] \in DOMAIN cmds[n]
        BY <1>1, <1>2 DEF RingTypeOK, p
      <3>3. \A m \in Nodes : ringPc'[m] = "run" => at'[m] \in DOMAIN cmds[m]
        BY <1>1, <1>3, <3>2 DEF RingTypeOK
      <3>4. QED  BY <1>1, <1>3, <1>4, <3>1, <3>3, SameServices DEF RingTypeOK
    <2>2. Running'
      BY <1>1, <1>3 DEF Running
    <2>3. LateCalls'
      <3>1. \A c \in late : c[1] \in Nodes
        BY DEF RingTypeOK
      <3>2. QED  BY <1>1, <1>3, <1>5, <3>1 DEF LateCalls
    <2>4. Given'
      <3>1. ASSUME NEW m \in Nodes
            PROVE  /\ cmds[m] = <<>> \/ (\E s \in Services : IsMaster(cmds[m], s)) \/ AreWorkers(cmds[m])
                   /\ ringPc'[m] \in {"off", "poll", "asked"} => cmds[m] = <<>> /\ at'[m] = 1
                   /\ ringPc'[m] \in {"run", "report", "up"} => cmds[m] # <<>>
        BY <1>1, <1>3 DEF Given, RingTypeOK
      <3>2. QED  BY <1>1, <3>1, SameCommands DEF Given
    <2>5. Gift'
      BY <1>1, <1>3 DEF Gift, IsMaster, JobTracker
    <2>6. Ran'
      <3>1. ASSUME NEW i \in DOMAIN cmds[n], Past(n, i)' PROVE Past(n, i) \/ i = at[n]
        BY <1>1, <1>2, <1>3, <3>1 DEF Past, RingTypeOK, p
      <3>2. ASSUME NEW m \in Nodes, m # n
            PROVE  /\ daemons'[m] \subseteq {cmds[m][i] : i \in DOMAIN cmds[m]}
                   /\ \A i \in DOMAIN cmds[m] : Past(m, i)' /\ ~cmds[m][i].fg => cmds[m][i] \in daemons'[m]
        BY <1>1, <1>3, <1>4, <3>2 DEF Ran, Past
      <3>3. /\ daemons'[n] \subseteq {cmds[n][i] : i \in DOMAIN cmds[n]}
            /\ \A i \in DOMAIN cmds[n] : Past(n, i)' /\ ~cmds[n][i].fg => cmds[n][i] \in daemons'[n]
        BY <1>2, <1>4, <3>1 DEF Ran
      <3>4. QED  BY <1>1, <3>2, <3>3 DEF Ran
    <2>7. Addressed'
      <3>1. ASSUME NEW s \in Services, NEW m, RanMaster(s, m) PROVE RanMaster(s, m)'
        <4>1. m # n
          BY <1>1, <3>1 DEF RanMaster
        <4>2. QED  BY <1>3, <1>5, <3>1, <4>1 DEF RanMaster
      <3>2. QED  BY <1>1, <3>1 DEF Addressed, serviceVars
    <2>8. Bounded' /\ (disturbed' => losses' > 0)
      BY <1>1, <1>3, <1>5 DEF Bounded, serviceVars
    <2>9. QED  BY <2>1, <2>2, <2>3, <2>4, <2>5, <2>6, <2>7, <2>8
  <1>7. ASSUME Undisturbed PROVE Undisturbed'
    <2> USE <1>7 DEF Undisturbed
    <2>1. Told'
      BY <1>1, <1>5, SameTold
    <2>2. Launched' /\ Up'
      BY <1>1, <1>3, <1>5 DEF Launched, Up, Taken, serviceVars
    <2>3. Stale'
      <3>1. \A m : Told0(m) => Told0(m)'
        BY <1>1, <1>3 DEF Told0
      <3>2. QED  BY <1>1, <3>1 DEF Stale, Taken, serviceVars
    <2>4. Counted'
      <3>1. ASSUME NEW s \in Services PROVE Pending(s)' = Pending(s)
        BY <1>1, <1>3, <1>5 DEF Pending, Holder, Taken, serviceVars
      <3>2. QED  BY <1>1, <1>3, <1>5, <3>1 DEF Counted, Due, serviceVars
    <2>5. QED  BY <2>1, <2>2, <2>3, <2>4
  <1>8. QED  BY <1>1, <1>6, <1>7 DEF RingInv

-----------------------------------------------------------------------------
(* What getCommand replies: the commands of a master, or of workers when   *)
(* both masters are up, or nothing.                                        *)
LEMMA CommandsTyped ==
  ASSUME ServicesTypeOK
  PROVE  {NameNodeCommand(TRUE), NameNodeCommand(FALSE), JobTrackerCommand,
          DataNodeCommand, TaskTrackerCommand} \subseteq Commands
  <1>1. masterAddr["hdfs"] \in Addresses /\ masterAddr["mapred"] \in Addresses
        /\ FillIn \in Addresses /\ "" \in Addresses
    BY DEF ServicesTypeOK, Services, Addresses
  <1>2. NameNodeCommand(TRUE) \in Commands /\ NameNodeCommand(FALSE) \in Commands
    BY <1>1 DEF NameNodeCommand, Command, Commands
  <1>3. JobTrackerCommand \in Commands /\ DataNodeCommand \in Commands /\ TaskTrackerCommand \in Commands
    BY <1>1 DEF JobTrackerCommand, DataNodeCommand, TaskTrackerCommand, Command, Commands
  <1>4. QED  BY <1>2, <1>3

LEMMA WorkersReplied ==
  /\ WorkerCommands \in Seq({DataNodeCommand, TaskTrackerCommand})
  /\ WorkerCommands # <<>> => \A s \in Services : initialized[s]
  <1>1. \A s \in Services : getWorkerCommands(s) \in Seq({DataNodeCommand, TaskTrackerCommand})
    <2> SUFFICES ASSUME NEW s \in Services
                 PROVE  getWorkerCommands(s) \in Seq({DataNodeCommand, TaskTrackerCommand})
      OBVIOUS
    <2>1. CASE s \in External
      BY <2>1 DEF getWorkerCommands
    <2>2. CASE s \notin External
      <3>1. getWorkerCommands(s) \in [1 .. WorkersPerRing -> {DataNodeCommand, TaskTrackerCommand}]
        BY <2>2 DEF getWorkerCommands
      <3>2. QED  BY <3>1, ServicesAssumption
    <2>3. QED  BY <2>1, <2>2
  <1>2. "hdfs" \in Services /\ "mapred" \in Services
    BY DEF Services
  <1>3. getWorkerCommands("hdfs") \o getWorkerCommands("mapred") \in Seq({DataNodeCommand, TaskTrackerCommand})
    BY <1>1, <1>2
  <1>4. QED  BY <1>3 DEF WorkerCommands

LEMMA WorkersGiven ==
  ASSUME ServicesTypeOK
  PROVE  /\ WorkerCommands \in Seq(Commands)
         /\ WorkerCommands = <<>> \/ AreWorkers(WorkerCommands)
         /\ \A i \in DOMAIN WorkerCommands : ToldOf(WorkerCommands[i])
  <1>1. {DataNodeCommand, TaskTrackerCommand} \subseteq Commands
    BY CommandsTyped
  <1>2. \A i \in DOMAIN WorkerCommands : WorkerCommands[i] \in {DataNodeCommand, TaskTrackerCommand}
    BY WorkersReplied
  <1>3. WorkerCommands \in Seq(Commands)
    BY <1>1, WorkersReplied
  <1>4. \A c \in {DataNodeCommand, TaskTrackerCommand} :
          /\ c.name \in {"datanode", "tasktracker"}
          /\ c.fs = masterAddr["hdfs"] /\ c.jt \in {"", masterAddr["mapred"]}
    BY Fields
  <1>5. ASSUME NEW i \in DOMAIN WorkerCommands PROVE ToldOf(WorkerCommands[i])
    <2>1. initialized["hdfs"] /\ initialized["mapred"]
      BY <1>3, WorkersReplied DEF Services
    <2>2. QED  BY <1>2, <1>4, <2>1 DEF ToldOf
  <1>6. QED  BY <1>2, <1>3, <1>4, <1>5 DEF AreWorkers

(* The service that is given away: nobody has it.                          *)
LEMMA MasterTaken ==
  ASSUME ServicesTypeOK, Externals, NEW n \in Nodes, TakeMaster(n)
  PROVE  \E s \in Services \ External :
           /\ ~launched[s]
           /\ s = "mapred" => initialized["hdfs"]
           /\ giving' = [service |-> s, to |-> n, cmds |-> getMasterCommands(s)]
           /\ giving' \in [service : Services, to : Nodes, cmds : Seq(Commands)]
           /\ IsMaster(getMasterCommands(s), s)
           /\ \A i \in DOMAIN getMasterCommands(s) : ToldOf(getMasterCommands(s)[i])
           /\ ServicesTypeOK' /\ Externals' /\ StaysUp /\ launched'[s]
           /\ \A r \in Services : r # s => launched'[r] = launched[r]
           /\ UNCHANGED <<initialized, masterAddress, masterAddr, failed, failureCount>>
  <1> DEFINE s == NextMaster
             L == getMasterCommands(NextMaster)
  <1>1. /\ Wanting(s) /\ s \in Services /\ setlaunchedMaster(s)
        /\ giving' = [service |-> s, to |-> n, cmds |-> L]
    BY DEF TakeMaster, MastersDone, NextMaster, Services
  <1>2. s \in Services \ External /\ ~launched[s] /\ (s = "mapred" => initialized["hdfs"])
    BY <1>1 DEF Wanting, isLaunchable
  <1>3. \/ s = "hdfs" /\ L = <<NameNodeCommand(TRUE), NameNodeCommand(FALSE)>>
        \/ s = "mapred" /\ L = <<JobTrackerCommand>>
    BY <1>2 DEF getMasterCommands, Services
  <1>4. JobTrackerCommand = JobTracker(masterAddr["hdfs"]) /\ masterAddr["hdfs"] \in Addresses
    BY DEF JobTrackerCommand, JobTracker, ServicesTypeOK, Services, Addresses
  <1>5. IsMaster(L, s)
    BY <1>3, <1>4 DEF IsMaster
  <1>6. L \in Seq(Commands)
    <2>1. \A a, b \in Commands : <<a>> \in Seq(Commands) /\ <<a, b>> \in Seq(Commands)
      OBVIOUS
    <2>2. /\ NameNodeCommand(TRUE) \in Commands /\ NameNodeCommand(FALSE) \in Commands
          /\ JobTrackerCommand \in Commands
      BY CommandsTyped
    <2>3. /\ <<NameNodeCommand(TRUE), NameNodeCommand(FALSE)>> \in Seq(Commands)
          /\ <<JobTrackerCommand>> \in Seq(Commands)
      BY <2>1, <2>2, Zenon
    <2>4. QED  BY <1>3, <2>3
  <1>7. /\ ServicesTypeOK' /\ Externals' /\ StaysUp /\ launched'[s]
        /\ \A r \in Services : r # s => launched'[r] = launched[r]
        /\ UNCHANGED <<initialized, masterAddress, masterAddr, failed, failureCount>>
    BY <1>1, <1>2 DEF ServicesTypeOK, Externals, setlaunchedMaster, StaysUp
  <1>8. giving' \in [service : Services, to : Nodes, cmds : Seq(Commands)]
    BY <1>1, <1>6
  <1> HIDE DEF s, L
  <1>9. ASSUME NEW i \in DOMAIN L PROVE ToldOf(L[i])
    <2>1. CASE s = "hdfs" /\ L = <<NameNodeCommand(TRUE), NameNodeCommand(FALSE)>>
      <3>1. i = 1 \/ i = 2
        BY <2>1
      <3>2. L[1] = NameNodeCommand(TRUE) /\ L[2] = NameNodeCommand(FALSE)
        BY <2>1
      <3>3. QED  BY <3>1, <3>2, Fields DEF ToldOf
    <2>2. CASE s = "mapred" /\ L = <<JobTrackerCommand>>
      <3>1. L[i] = JobTrackerCommand
        BY <2>2
      <3>2. QED  BY <1>2, <2>2, <3>1, Fields DEF ToldOf
    <2>3. QED  BY <1>3, <2>1, <2>2
  <1>10. QED  BY <1>1, <1>2, <1>5, <1>7, <1>8, <1>9 DEF s, L

-----------------------------------------------------------------------------
(* A hodring asks for commands when the masters are given, and gets those  *)
(* of workers or none.                                                     *)
LEMMA WorkersStep ==
  ASSUME RingInv, NEW n \in Nodes, ringPc[n] = "poll", UNCHANGED rmVars,
         cmds' = [cmds EXCEPT ![n] = WorkerCommands],
         NEW p, Go(n, p), p = IF WorkerCommands = <<>> THEN "poll" ELSE "run",
         UNCHANGED <<at, daemons, late, losses, disturbed>>
  PROVE  RingInv'
  <1>0. Always
    BY DEF RingInv
  <1>1. UNCHANGED serviceVars /\ rm' = rm /\ giving' = giving /\ p \in {"poll", "run"}
    BY DEF rmVars
  <1>2. /\ WorkerCommands \in Seq(Commands)
        /\ WorkerCommands = <<>> \/ AreWorkers(WorkerCommands)
        /\ \A i \in DOMAIN WorkerCommands : ToldOf(WorkerCommands[i])
    BY <1>0, WorkersGiven DEF Always, RingTypeOK
  <1>3. IsFiniteSet(late) /\ cmds[n] = <<>> /\ at[n] = 1
    BY <1>0 DEF Always, LateCalls, Given
  <1>4. /\ ringPc' \in [Nodes -> {"off", "poll", "asked", "run", "report", "up", "failing", "gone"}]
        /\ ringPc'[n] = p /\ \A m \in Nodes : m # n => ringPc'[m] = ringPc[m]
        /\ Failing' = Failing /\ Failed' = Failed
    BY <1>0, <1>1, <1>3, Moves DEF Always
  <1>5. /\ cmds' \in [Nodes -> Seq(Commands)] /\ cmds'[n] = WorkerCommands
        /\ \A m \in Nodes : m # n => cmds'[m] = cmds[m]
    BY <1>0, <1>2 DEF Always, RingTypeOK
  <1>6. /\ StaysUp
        /\ \A m \in Nodes : Filled(m)' = Filled(m)
        /\ LateErrors' = LateErrors /\ LatePolls' = LatePolls
    BY <1>1, SameServices, SameFilled DEF LateErrors, LatePolls
  <1>7. \A m \in Nodes : GivenMaster(m)' = GivenMaster(m)
    <2>1. GivenMaster(n) = {}
      BY <1>3, MasterOfNothing
    <2>2. GivenMaster(n)' = {}
      <3>1. CASE WorkerCommands = <<>>
        BY <1>5, <3>1 DEF GivenMaster
      <3>2. CASE AreWorkers(WorkerCommands)
        <4>1. 1 \in DOMAIN WorkerCommands
          BY <1>2, <3>2 DEF AreWorkers
        <4>2. WorkerCommands[1].name \in {"datanode", "tasktracker"}
          BY <3>2, <4>1 DEF AreWorkers
        <4>3. QED  BY <1>5, <4>2 DEF GivenMaster, MasterName, Services
      <3>3. QED  BY <1>2, <3>1, <3>2
    <2>3. QED  BY <1>5, <2>1, <2>2, SameGiven
  <1>8. Always'
    <2> USE <1>0 DEF Always
    <2>1. RingTypeOK' /\ Externals'
      <3>1. p = "run" => at'[n] \in DOMAIN cmds'[n]
        BY <1>2, <1>3, <1>5
      <3>2. \A m \in Nodes : ringPc'[m] = "run" => at'[m] \in DOMAIN cmds'[m]
        BY <1>4, <1>5, <3>1 DEF RingTypeOK
      <3>3. QED  BY <1>1, <1>4, <1>5, <3>2, SameServices DEF RingTypeOK
    <2>2. Running'
      BY <1>1, <1>4 DEF Running
    <2>3. LateCalls'
      <3>1. \A c \in late : c[1] \in Nodes
        BY DEF RingTypeOK
      <3>2. QED  BY <1>1, <1>4, <1>6, <1>7, <3>1 DEF LateCalls
    <2>4. Given'
      <3>1. ASSUME NEW m \in Nodes
            PROVE  /\ cmds'[m] = <<>> \/ (\E s \in Services : IsMaster(cmds'[m], s)) \/ AreWorkers(cmds'[m])
                   /\ ringPc'[m] \in {"off", "poll", "asked"} => cmds'[m] = <<>> /\ at[m] = 1
                   /\ ringPc'[m] \in {"run", "report", "up"} => cmds'[m] # <<>>
        BY <1>2, <1>3, <1>4, <1>5 DEF Given
      <3>2. QED  BY <3>1 DEF Given, IsMaster, AreWorkers, JobTracker
    <2>5. Gift'
      BY <1>1, <1>4 DEF Gift, IsMaster, JobTracker
    <2>6. Ran'
      <3>1. ASSUME NEW m \in Nodes, m # n
            PROVE  /\ daemons[m] \subseteq {cmds'[m][i] : i \in DOMAIN cmds'[m]}
                   /\ \A i \in DOMAIN cmds'[m] : Past(m, i)' /\ ~cmds'[m][i].fg => cmds'[m][i] \in daemons[m]
        BY <1>4, <1>5, <3>1 DEF Ran, Past
      <3>2. /\ daemons[n] \subseteq {cmds'[n][i] : i \in DOMAIN cmds'[n]}
            /\ \A i \in DOMAIN cmds'[n] : Past(n, i)' /\ ~cmds'[n][i].fg => cmds'[n][i] \in daemons[n]
        <4>1. daemons[n] = {}
          BY <1>3 DEF Ran
        <4>2. \A i \in DOMAIN cmds'[n] : ~Past(n, i)'
          BY <1>1, <1>2, <1>3, <1>4, <1>5 DEF Past
        <4>3. QED  BY <4>1, <4>2
      <3>3. QED  BY <3>1, <3>2 DEF Ran
    <2>7. Addressed'
      <3>1. ASSUME NEW s \in Services, NEW m, RanMaster(s, m) PROVE RanMaster(s, m)'
        <4>1. m # n
          BY <3>1 DEF RanMaster
        <4>2. QED  BY <1>4, <1>6, <1>7, <3>1, <4>1 DEF RanMaster
      <3>2. QED  BY <1>1, <3>1 DEF Addressed, serviceVars
    <2>8. Bounded' /\ (disturbed' => losses' > 0)
      BY <1>1, <1>4, <1>6 DEF Bounded, serviceVars
    <2>9. QED  BY <2>1, <2>2, <2>3, <2>4, <2>5, <2>6, <2>7, <2>8
  <1>9. ASSUME Undisturbed PROVE Undisturbed'
    <2> USE <1>9 DEF Undisturbed
    <2>1. Told'
      <3>1. \A c : ToldOf(c)' <=> ToldOf(c)
        BY <1>1 DEF ToldOf, serviceVars
      <3>2. ASSUME NEW m \in Nodes, NEW i \in DOMAIN cmds'[m] PROVE ToldOf(cmds'[m][i])
        BY <1>2, <1>5 DEF Told
      <3>3. QED  BY <1>1, <3>1, <3>2 DEF Told
    <2>2. Launched' /\ Up'
      <3>1. GivenMaster(n) = {}
        BY <1>3, MasterOfNothing
      <3>2. QED  BY <1>1, <1>4, <1>6, <1>7, <3>1 DEF Launched, Up, Taken, serviceVars
    <2>3. Stale'
      <3>1. \A m : Told0(m) => Told0(m)'
        BY <1>1, <1>4 DEF Told0
      <3>2. QED  BY <1>1, <3>1 DEF Stale, Taken, serviceVars
    <2>4. Counted'
      <3>1. ASSUME NEW s \in Services PROVE Pending(s)' = Pending(s)
        BY <1>1, <1>4, <1>7 DEF Pending, Holder, Taken, serviceVars
      <3>2. QED  BY <1>1, <1>4, <1>6, <3>1 DEF Counted, Due, serviceVars
    <2>5. QED  BY <2>1, <2>2, <2>3, <2>4
  <1>10. QED  BY <1>8, <1>9 DEF RingInv

(* A hodring asks for commands, or did, and a service is about to be given *)
(* to it.                                                                  *)
LEMMA TakeStep ==
  ASSUME RingInv, NEW n \in Nodes, CmdLockFree, TakeMaster(n),
         UNCHANGED <<cmds, at, daemons, losses, disturbed, rm>>,
         \/ ringPc[n] = "poll" /\ Go(n, "asked") /\ UNCHANGED late
         \/ /\ \E c \in late : c[1] = n /\ c[2] = "getCommand" /\ late' = late \ {c}
            /\ UNCHANGED ringPc
  PROVE  RingInv'
  <1>0. Always
    BY DEF RingInv
  <1>1. PICK s \in Services \ External :
           /\ ~launched[s]
           /\ giving' = [service |-> s, to |-> n, cmds |-> getMasterCommands(s)]
           /\ giving' \in [service : Services, to : Nodes, cmds : Seq(Commands)]
           /\ IsMaster(getMasterCommands(s), s)
           /\ \A i \in DOMAIN getMasterCommands(s) : ToldOf(getMasterCommands(s)[i])
           /\ ServicesTypeOK' /\ Externals' /\ StaysUp /\ launched'[s]
           /\ \A r \in Services : r # s => launched'[r] = launched[r]
           /\ UNCHANGED <<initialized, masterAddress, masterAddr, failed, failureCount>>
    BY <1>0, MasterTaken DEF Always, RingTypeOK
  <1>2. /\ giving = NoGift /\ giving'.service = s /\ giving'.to = n /\ giving' # NoGift
        /\ \A r : Taken(r)' <=> r = s
        /\ \A r \in Services : ~Taken(r)
    BY <1>1, Gifts DEF CmdLockFree, Taken
  <1>3. /\ IsFiniteSet(late) /\ late' \subseteq late
        /\ \A m \in Nodes : ringPc[m] # "asked"
    BY <1>0, <1>2, Gifts DEF Always, LateCalls, Gift
  <1>4. /\ ringPc' \in [Nodes -> {"off", "poll", "asked", "run", "report", "up", "failing", "gone"}]
        /\ \A m \in Nodes : m # n => ringPc'[m] = ringPc[m]
        /\ ringPc'[n] = ringPc[n] \/ (ringPc[n] = "poll" /\ ringPc'[n] = "asked")
        /\ Failing' = Failing /\ Failed' = Failed
    <2>1. CASE ringPc[n] = "poll" /\ Go(n, "asked")
      BY <1>0, <1>3, <2>1, Moves DEF Always
    <2>2. CASE UNCHANGED ringPc
      BY <1>0, <2>2 DEF Always, RingTypeOK, Failing, Failed
    <2>3. QED  BY <2>1, <2>2
  <1>5. /\ \A m \in Nodes : GivenMaster(m)' = GivenMaster(m) /\ Filled(m)' = Filled(m)
        /\ LateErrors' \subseteq LateErrors
        /\ Cardinality(LateErrors)' \in Nat /\ Cardinality(LatePolls)' \in Nat
        /\ Cardinality(LateErrors)' <= Cardinality(LateErrors)
        /\ Cardinality(LatePolls)' <= Cardinality(LatePolls)
        /\ IsFiniteSet(late)'
    BY <1>3, LateSubset, SameGiven, SameFilled
  <1>6. /\ Cardinality(Failing) \in Nat /\ Cardinality(Failed) \in Nat
        /\ Cardinality(LateErrors) \in Nat /\ Cardinality(LatePolls) \in Nat
    BY <1>3, FiniteSets
  <1>7. losses \in Nat /\ \A r \in Services : failureCount[r] \in Nat
    BY <1>0 DEF Always, RingTypeOK, ServicesTypeOK
  <1>8. Always'
    <2> USE <1>0 DEF Always
    <2>1. RingTypeOK'
      <3>1. \A m \in Nodes : ringPc'[m] = "run" => at'[m] \in DOMAIN cmds'[m]
        BY <1>4 DEF RingTypeOK
      <3>2. QED  BY <1>1, <1>3, <1>4, <3>1 DEF RingTypeOK
    <2>2. Running'
      BY <1>4 DEF Running
    <2>3. LateCalls'
      <3>1. \A c \in late : c[1] \in Nodes
        BY DEF RingTypeOK
      <3>2. \A m \in Nodes :
              /\ ringPc[m] # "off" => ringPc'[m] # "off"
              /\ ringPc[m] \in {"report", "up", "gone"} => ringPc'[m] \in {"report", "up", "gone"}
              /\ ringPc[m] \in {"failing", "gone"} => ringPc'[m] \in {"failing", "gone"}
        BY <1>4
      <3>3. QED  BY <1>3, <1>5, <3>1, <3>2 DEF LateCalls
    <2>4. Given'
      <3>1. ASSUME NEW m \in Nodes
            PROVE  /\ cmds[m] = <<>> \/ (\E r \in Services : IsMaster(cmds[m], r)) \/ AreWorkers(cmds[m])
                   /\ ringPc'[m] \in {"off", "poll", "asked"} => cmds[m] = <<>> /\ at[m] = 1
                   /\ ringPc'[m] \in {"run", "report", "up"} => cmds[m] # <<>>
        BY <1>4 DEF Given
      <3>2. QED  BY <3>1, SameCommands DEF Given
    <2>5. Gift'
      <3>1. \A m \in Nodes : ringPc'[m] = "asked" => m = n
        BY <1>3, <1>4
      <3>2. giving'.cmds = getMasterCommands(s)
        BY <1>1
      <3>3. IsMaster(giving'.cmds, giving'.service)
        BY <1>1, <1>2, <3>2
      <3>4. IsMaster(giving.cmds, giving.service)'
        BY <3>3 DEF IsMaster, JobTracker
      <3>5. QED  BY <1>1, <1>2, <3>1, <3>4 DEF Gift
    <2>6. Ran'
      BY <1>4 DEF Ran, Past
    <2>7. Addressed'
      <3>1. ASSUME NEW r \in Services, NEW m, RanMaster(r, m) PROVE RanMaster(r, m)'
        BY <1>4, <1>5, <3>1 DEF RanMaster
      <3>2. QED  BY <1>1, <3>1 DEF Addressed
    <2>8. Bounded' /\ (disturbed' => losses' > 0)
      BY <1>1, <1>4, <1>5, <1>6, <1>7 DEF Bounded
    <2>9. QED  BY <1>1, <2>1, <2>2, <2>3, <2>4, <2>5, <2>6, <2>7, <2>8
  <1>9. ASSUME Undisturbed PROVE Undisturbed'
    <2> USE <1>9 DEF Undisturbed
    <2>1. Told'
      <3>1. \A c : ToldOf(c)' <=> ToldOf(c)
        BY <1>1 DEF ToldOf
      <3>2. giving'.cmds = getMasterCommands(s)
        BY <1>1
      <3>3. \A i \in DOMAIN giving'.cmds : ToldOf(giving'.cmds[i])
        BY <1>1, <3>2
      <3>4. QED  BY <3>1, <3>3 DEF Told
    <2>2. Launched'
      <3>1. ASSUME NEW m \in Nodes, ringPc'[m] \in {"run", "report", "up"}, NEW r \in GivenMaster(m)
            PROVE  launched'[r] /\ r # s /\ masterAddress[r] = m
        <4>1. ringPc[m] \in {"run", "report", "up"} /\ r \in Services
          BY <1>4, <3>1 DEF GivenMaster
        <4>2. launched[r] /\ masterAddress[r] = m
          BY <3>1, <4>1 DEF Launched
        <4>3. QED  BY <1>1, <4>1, <4>2
      <3>2. QED  BY <1>1, <1>2, <1>5, <3>1 DEF Launched
    <2>3. Up'
      <3>1. \A r \in Services : initialized[r] /\ r \notin External => r # s
        BY <1>1 DEF Up
      <3>2. QED  BY <1>1, <1>2, <1>5, <3>1 DEF Up
    <2>4. Stale'
      <3>1. \A m : Told0(m) => Told0(m)'
        BY <1>3, <1>4 DEF Told0
      <3>2. \A r \in Services : ~launched'[r] \/ r = s => ~launched[r]
        BY <1>1
      <3>3. QED  BY <1>1, <1>2, <3>1, <3>2 DEF Stale
    <2>5. Counted'
      <3>1. SUFFICES ASSUME NEW r \in Services
                     PROVE  2 * failureCount[r] + Due(r)' <= 2 * Cardinality(Failed) + losses
        BY <1>1, <1>4 DEF Counted
      <3>2. 2 * failureCount[r] + Due(r) <= 2 * Cardinality(Failed) + losses
        BY DEF Counted
      <3>3. r # s => Pending(r)' = Pending(r)
        BY <1>1, <1>2, <1>4, <1>5 DEF Pending, Holder
      <3>4. ~Pending(s)
        BY <1>1 DEF Pending
      <3>5. CASE ringPc[n] = "poll" /\ Go(n, "asked") /\ UNCHANGED late
        <4>1. ringPc'[n] = "asked" /\ n \notin Failed
          BY <1>0, <1>3, <3>5, Moves DEF Always, Failed
        <4>2. ~Pending(s)'
          BY <1>2, <1>4, <4>1 DEF Pending, Holder
        <4>3. QED  BY <1>4, <1>5, <1>6, <1>7, <3>2, <3>3, <3>4, <4>2 DEF Due
      <3>6. CASE /\ \E c \in late : c[1] = n /\ c[2] = "getCommand" /\ late' = late \ {c}
                 /\ UNCHANGED ringPc
        <4>1. Cardinality(LatePolls)' = Cardinality(LatePolls) - 1
          BY <1>3, <3>6, OneLateLess
        <4>2. QED  BY <1>4, <1>5, <1>6, <1>7, <3>2, <3>3, <3>4, <4>1 DEF Due
      <3>7. QED  BY <3>5, <3>6
    <2>6. QED  BY <2>1, <2>2, <2>3, <2>4, <2>5
  <1>10. QED  BY <1>8, <1>9 DEF RingInv

LEMMA PollStep == ASSUME RingInv, NEW n \in Nodes, Poll(n) PROVE RingInv'
  <1>1. CASE TakeMaster(n) /\ Go(n, "asked") /\ UNCHANGED <<cmds, rm>>
    BY <1>1, TakeStep DEF Poll
  <1>2. CASE /\ UNCHANGED rmVars
             /\ cmds' = [cmds EXCEPT ![n] = WorkerCommands]
             /\ Go(n, IF WorkerCommands = <<>> THEN "poll" ELSE "run")
    <2>1. ringPc[n] = "poll" /\ UNCHANGED <<at, daemons, late, losses, disturbed>>
      BY DEF Poll
    <2>2. QED  BY <1>2, <2>1, WorkersStep
  <1>3. QED  BY <1>1, <1>2 DEF Poll

(* The service is given, to a hodring that waits for it or not.            *)
LEMMA AnswerStep == ASSUME RingInv, NEW n \in Nodes, Answer(n) PROVE RingInv'
  <1> DEFINE s == giving.service
  <1>0. Always
    BY DEF RingInv
  <1>1. /\ giving.to = n /\ giving' = NoGift
        /\ masterAddress' = [masterAddress EXCEPT ![s] = n]
        /\ UNCHANGED <<launched, initialized, masterAddr, failed, failureCount>>
        /\ UNCHANGED <<at, daemons, late, losses, disturbed, rm>>
    BY DEF Answer, GiveMaster, setMasterAddress
  <1>2. /\ giving # NoGift /\ giving \in [service : Services, to : Nodes, cmds : Seq(Commands)]
        /\ s \in Services \ External /\ IsMaster(giving.cmds, s)
        /\ \A m \in Nodes : ringPc[m] = "asked" => m = n
        /\ \A r \in Services : ~Taken(r)' /\ (Taken(r) <=> r = s)
    <2>1. giving # NoGift
      BY <1>1, Gifts
    <2>2. giving \in [service : Services, to : Nodes, cmds : Seq(Commands)]
      BY <1>0, <2>1 DEF Always, RingTypeOK
    <2>3. QED  BY <1>0, <1>1, <2>1, <2>2, Gifts DEF Always, Gift, Taken
  <1>3. /\ ServicesTypeOK' /\ Externals' /\ StaysUp
        /\ masterAddress'[s] = n
        /\ \A r \in Services : r # s => masterAddress'[r] = masterAddress[r]
    BY <1>0, <1>1, <1>2 DEF Always, RingTypeOK, ServicesTypeOK, Externals, StaysUp
  <1>4. IsFiniteSet(late)
    BY <1>0 DEF Always, LateCalls
  <1>5. /\ ringPc' \in [Nodes -> {"off", "poll", "asked", "run", "report", "up", "failing", "gone"}]
        /\ \A m \in Nodes : m # n => ringPc'[m] = ringPc[m] /\ cmds'[m] = cmds[m]
        /\ \/ /\ ringPc[n] = "asked" /\ ringPc'[n] = "run" /\ cmds[n] = <<>> /\ cmds'[n] = giving.cmds
              /\ at[n] = 1
           \/ ringPc[n] # "asked" /\ ringPc'[n] = ringPc[n] /\ cmds'[n] = cmds[n]
        /\ Failing' = Failing /\ Failed' = Failed
        /\ cmds' \in [Nodes -> Seq(Commands)]
    <2>1. CASE ringPc[n] = "asked"
      <3>1. Go(n, "run") /\ cmds' = [cmds EXCEPT ![n] = giving.cmds]
        BY <2>1 DEF Answer
      <3>2. QED  BY <1>0, <1>2, <1>4, <2>1, <3>1, Moves DEF Always, RingTypeOK, Given
    <2>2. CASE ringPc[n] # "asked"
      <3>1. UNCHANGED <<ringPc, cmds>>
        BY <2>2 DEF Answer
      <3>2. QED  BY <1>0, <2>2, <3>1 DEF Always, RingTypeOK, Failing, Failed
    <2>3. QED  BY <2>1, <2>2
  <1>6. giving.cmds # <<>> /\ giving.cmds[1].name = MasterName[s]
    BY <1>2, ShapeOfMaster
  <1>7. /\ \A m \in Nodes : m # n \/ ringPc[n] # "asked" => GivenMaster(m)' = GivenMaster(m)
        /\ ringPc[n] = "asked" => GivenMaster(n) = {} /\ GivenMaster(n)' = {s}
        /\ \A m \in Nodes : Filled(m)' = Filled(m)
        /\ LateErrors' = LateErrors /\ LatePolls' = LatePolls
    <2>1. \A m \in Nodes : m # n \/ ringPc[n] # "asked" => GivenMaster(m)' = GivenMaster(m)
      BY <1>5, SameGiven
    <2>2. ASSUME ringPc[n] = "asked" PROVE GivenMaster(n) = {} /\ GivenMaster(n)' = {s}
      <3>1. cmds'[n] = giving.cmds /\ cmds[n] = <<>>
        BY <1>5, <2>2
      <3>2. GivenMaster(n)' = {r \in Services : MasterName[s] = MasterName[r]}
        BY <1>6, <3>1 DEF GivenMaster
      <3>3. QED  BY <1>2, <3>1, <3>2, MasterOfNothing DEF MasterName, Services
    <2>3. QED  BY <1>1, <2>1, <2>2, SameFilled DEF LateErrors, LatePolls
  <1> HIDE DEF s
  <1>8. Always'
    <2> USE <1>0 DEF Always
    <2>1. RingTypeOK'
      <3>1. ringPc[n] = "asked" => at'[n] \in DOMAIN cmds'[n]
        BY <1>1, <1>2, <1>5, <1>6
      <3>2. \A m \in Nodes : ringPc'[m] = "run" => at'[m] \in DOMAIN cmds'[m]
        BY <1>1, <1>5, <3>1 DEF RingTypeOK
      <3>3. QED  BY <1>1, <1>3, <1>5, <3>2 DEF RingTypeOK
    <2>2. Running'
      BY <1>1, <1>5 DEF Running
    <2>3. LateCalls'
      <3>1. \A c \in late : c[1] \in Nodes
        BY DEF RingTypeOK
      <3>2. \A c \in late : c[2] = "addMasterParams" => ringPc[c[1]] # "asked"
        BY DEF LateCalls
      <3>3. ASSUME NEW c \in late
            PROVE  /\ ringPc'[c[1]] # "off"
                   /\ c[2] = "addMasterParams" => /\ ringPc'[c[1]] \in {"report", "up", "gone"}
                                                  /\ c[3] \subseteq GivenMaster(c[1])'
                                                  /\ \A d \in LateErrors : d[1] # c[1]
                   /\ c[2] = "setHodRingErrors" => ringPc'[c[1]] \in {"failing", "gone"}
        <4>1. ringPc[c[1]] # "off"
              /\ (c[2] = "addMasterParams" => ringPc[c[1]] \in {"report", "up", "gone"})
              /\ (c[2] = "setHodRingErrors" => ringPc[c[1]] \in {"failing", "gone"})
          BY DEF LateCalls
        <4>2. c[2] = "addMasterParams" => /\ c[3] \subseteq GivenMaster(c[1])
                                          /\ \A d \in LateErrors : d[1] # c[1]
          BY DEF LateCalls
        <4>3. c[2] = "addMasterParams" => GivenMaster(c[1])' = GivenMaster(c[1])
          BY <1>7, <3>1, <3>2
        <4>4. QED  BY <1>5, <3>1, <4>1, <4>2, <4>3
      <3>4. QED  BY <1>1, <1>4, <1>7, <3>3 DEF LateCalls
    <2>4. Given'
      <3>1. ASSUME NEW m \in Nodes
            PROVE  /\ cmds'[m] = <<>> \/ (\E r \in Services : IsMaster(cmds'[m], r)) \/ AreWorkers(cmds'[m])
                   /\ ringPc'[m] \in {"off", "poll", "asked"} => cmds'[m] = <<>> /\ at[m] = 1
                   /\ ringPc'[m] \in {"run", "report", "up"} => cmds'[m] # <<>>
        BY <1>2, <1>5, <1>6 DEF Given
      <3>2. QED  BY <1>1, <3>1 DEF Given, IsMaster, AreWorkers, JobTracker
    <2>5. Gift'
      BY <1>1, <1>2, <1>5 DEF Gift
    <2>6. Ran'
      <3>1. ASSUME NEW m \in Nodes, m # n \/ ringPc[n] # "asked"
            PROVE  /\ daemons[m] \subseteq {cmds'[m][i] : i \in DOMAIN cmds'[m]}
                   /\ \A i \in DOMAIN cmds'[m] : Past(m, i)' /\ ~cmds'[m][i].fg => cmds'[m][i] \in daemons[m]
        BY <1>1, <1>5, <3>1 DEF Ran, Past
      <3>2. ASSUME ringPc[n] = "asked"
            PROVE  /\ daemons[n] \subseteq {cmds'[n][i] : i \in DOMAIN cmds'[n]}
                   /\ \A i \in DOMAIN cmds'[n] : Past(n, i)' /\ ~cmds'[n][i].fg => cmds'[n][i] \in daemons[n]
        <4>1. daemons[n] = {}
          BY <1>5, <3>2 DEF Ran
        <4>2. \A i \in DOMAIN cmds'[n] : ~Past(n, i)'
          BY <1>1, <1>2, <1>5, <3>2 DEF Past
        <4>3. QED  BY <4>1, <4>2
      <3>3. QED  BY <1>1, <3>1, <3>2 DEF Ran
    <2>7. Addressed'
      <3>1. ASSUME NEW r \in Services, NEW m, RanMaster(r, m) PROVE RanMaster(r, m)'
        <4>1. m # n \/ ringPc[n] # "asked"
          BY <3>1 DEF RanMaster
        <4>2. QED  BY <1>5, <1>7, <3>1, <4>1 DEF RanMaster
      <3>2. QED  BY <1>1, <3>1 DEF Addressed
    <2>8. Bounded' /\ (disturbed' => losses' > 0)
      BY <1>1, <1>5, <1>7 DEF Bounded
    <2>9. QED  BY <1>3, <2>1, <2>2, <2>3, <2>4, <2>5, <2>6, <2>7, <2>8
  <1>9. ASSUME Undisturbed PROVE Undisturbed'
    <2> USE <1>9 DEF Undisturbed
    <2>1. Told'
      <3>1. \A c : ToldOf(c)' <=> ToldOf(c)
        BY <1>1 DEF ToldOf
      <3>2. ASSUME NEW m \in Nodes, NEW i \in DOMAIN cmds'[m] PROVE ToldOf(cmds'[m][i])
        BY <1>5 DEF Told
      <3>3. DOMAIN giving'.cmds = {}
        BY <1>1, Gifts
      <3>4. QED  BY <3>1, <3>2, <3>3 DEF Told
    <2>2. Launched'
      <3>1. ASSUME NEW m \in Nodes, ringPc'[m] \in {"run", "report", "up"}, NEW r \in GivenMaster(m)'
            PROVE  launched[r] /\ masterAddress'[r] = m
        <4>1. CASE m = n /\ ringPc[n] = "asked"
          <5>1. r = s /\ Taken(s)
            BY <1>2, <1>7, <3>1, <4>1
          <5>2. QED  BY <1>2, <1>3, <4>1, <5>1 DEF Launched
        <4>2. CASE m # n \/ ringPc[n] # "asked"
          <5>1. r \in GivenMaster(m) /\ r \in Services /\ ringPc[m] \in {"run", "report", "up"}
            BY <1>5, <1>7, <3>1, <4>2 DEF GivenMaster
          <5>2. launched[r] /\ ~Taken(r) /\ masterAddress[r] = m
            BY <5>1 DEF Launched
          <5>3. QED  BY <1>2, <1>3, <5>1, <5>2
        <4>3. QED  BY <4>1, <4>2
      <3>2. \A m \in Nodes : GivenMaster(m)' \subseteq Services
        BY DEF GivenMaster
      <3>3. QED  BY <1>1, <1>2, <3>1, <3>2 DEF Launched
    <2>3. Up'
      <3>1. \A r \in Services : initialized[r] /\ r \notin External => r # s
        BY <1>2 DEF Up
      <3>2. QED  BY <1>1, <1>2, <1>3, <1>7, <3>1 DEF Up
    <2>4. Stale'
      <3>1. \A m : Told0(m) => Told0(m)'
        BY <1>1, <1>2, <1>5 DEF Told0
      <3>2. \A r \in Services : ~launched[r] => r # s
        BY <1>2 DEF Launched
      <3>3. QED  BY <1>1, <1>2, <1>3, <3>1, <3>2 DEF Stale
    <2>5. Counted'
      <3>1. ASSUME NEW r \in Services PROVE Pending(r)' => Pending(r)
        <4>1. Holder(r)' = Holder(r)
          BY <1>1, <1>2, <1>3 DEF Holder
        <4>2. Holder(r)' = masterAddress'[r]
          BY <1>2 DEF Holder
        <4>3. CASE r = s
          BY <1>1, <1>2, <1>3, <1>5, <1>7, <4>1, <4>2, <4>3 DEF Pending
        <4>4. CASE r # s
          BY <1>1, <1>2, <1>5, <1>7, <4>1, <4>4 DEF Pending
        <4>5. QED  BY <4>3, <4>4
      <3>2. ASSUME NEW r \in Services
            PROVE  2 * failureCount[r] + Due(r)' <= 2 * Cardinality(Failed) + losses
        <4>1. 2 * failureCount[r] + Due(r) <= 2 * Cardinality(Failed) + losses
          BY DEF Counted
        <4>2. /\ Cardinality(Failing) \in Nat /\ Cardinality(Failed) \in Nat
              /\ Cardinality(LateErrors) \in Nat /\ Cardinality(LatePolls) \in Nat
          BY <1>4, FiniteSets
        <4>3. losses \in Nat /\ failureCount[r] \in Nat
          BY <1>0 DEF Always, RingTypeOK, ServicesTypeOK
        <4>4. /\ Cardinality(Failing)' = Cardinality(Failing)
              /\ Cardinality(LateErrors)' = Cardinality(LateErrors)
              /\ Cardinality(LatePolls)' = Cardinality(LatePolls)
          BY <1>5, <1>7
        <4>5. QED  BY <3>1, <4>1, <4>2, <4>3, <4>4 DEF Due
      <3>3. QED  BY <1>1, <1>5, <3>2 DEF Counted
    <2>6. QED  BY <2>1, <2>2, <2>3, <2>4, <2>5
  <1>10. QED  BY <1>1, <1>8, <1>9 DEF RingInv

-----------------------------------------------------------------------------
(* The ring master handles a call, of a hodring that goes on or that has   *)
(* given the call up: what does not depend on the call.                    *)
Finishes == /\ late' \subseteq late
            /\ UNCHANGED <<cmds, at, daemons, losses, rm, giving>>
            /\ ringPc' \in [Nodes -> {"off", "poll", "asked", "run", "report", "up", "failing", "gone"}]
            /\ \A m \in Nodes : \/ ringPc'[m] = ringPc[m]
                                \/ ringPc[m] = "report" /\ ringPc'[m] = "up"
                                \/ ringPc[m] = "failing" /\ ringPc'[m] = "gone"

LEMMA CallHandled ==
  ASSUME Always, ServicesTypeOK', Externals', Finishes, disturbed' \in BOOLEAN
  PROVE  /\ RingTypeOK' /\ Running' /\ LateCalls' /\ Given' /\ Gift' /\ Ran'
         /\ \A m \in Nodes : GivenMaster(m)' = GivenMaster(m) /\ Filled(m)' = Filled(m)
         /\ LateErrors' \subseteq LateErrors /\ IsFiniteSet(late)
         /\ Failed' = Failed
         /\ \A s \in Services, m \in Nodes : RanMaster(s, m) => RanMaster(s, m)'
         /\ Cardinality(LateErrors)' \in Nat /\ Cardinality(LatePolls)' \in Nat
         /\ Cardinality(LateErrors)' <= Cardinality(LateErrors)
         /\ Cardinality(LatePolls)' <= Cardinality(LatePolls)
         /\ \A n \in Nodes : ringPc[n] = "asked" <=> ringPc'[n] = "asked"
         /\ \A n \in Nodes : ringPc'[n] \in {"run", "report", "up"} => ringPc[n] \in {"run", "report", "up"}
  <1> USE DEF Always
  <1>1. /\ late' \subseteq late /\ UNCHANGED <<cmds, at, daemons, losses, rm, giving>>
        /\ ringPc' \in [Nodes -> {"off", "poll", "asked", "run", "report", "up", "failing", "gone"}]
        /\ \A m \in Nodes : \/ ringPc'[m] = ringPc[m]
                            \/ ringPc[m] = "report" /\ ringPc'[m] = "up"
                            \/ ringPc[m] = "failing" /\ ringPc'[m] = "gone"
    BY DEF Finishes
  <1>2. IsFiniteSet(late)
    BY DEF LateCalls
  <1>3. /\ \A m \in Nodes : GivenMaster(m)' = GivenMaster(m) /\ Filled(m)' = Filled(m)
        /\ LateErrors' \subseteq LateErrors /\ IsFiniteSet(late)'
        /\ Cardinality(LateErrors)' \in Nat /\ Cardinality(LatePolls)' \in Nat
        /\ Cardinality(LateErrors)' <= Cardinality(LateErrors)
        /\ Cardinality(LatePolls)' <= Cardinality(LatePolls)
    BY <1>1, <1>2, LateSubset, SameGiven, SameFilled
  <1>4. RingTypeOK'
    <2>1. \A m \in Nodes : ringPc'[m] = "run" => ringPc[m] = "run"
      BY <1>1
    <2>2. \A m \in Nodes : ringPc'[m] = "run" => at'[m] \in DOMAIN cmds'[m]
      BY <1>1, <2>1 DEF RingTypeOK
    <2>3. QED  BY <1>1, <2>2 DEF RingTypeOK
  <1>5. Running'
    BY <1>1 DEF Running
  <1>6. LateCalls'
    <2>1. \A c \in late : c[1] \in Nodes
      BY DEF RingTypeOK
    <2>2. \A m \in Nodes :
            /\ ringPc[m] # "off" => ringPc'[m] # "off"
            /\ ringPc[m] \in {"report", "up", "gone"} => ringPc'[m] \in {"report", "up", "gone"}
            /\ ringPc[m] \in {"failing", "gone"} => ringPc'[m] \in {"failing", "gone"}
      BY <1>1
    <2>3. QED  BY <1>1, <1>3, <2>1, <2>2 DEF LateCalls
  <1>7. Given'
    <2>1. ASSUME NEW m \in Nodes
          PROVE  /\ cmds[m] = <<>> \/ (\E s \in Services : IsMaster(cmds[m], s)) \/ AreWorkers(cmds[m])
                 /\ ringPc'[m] \in {"off", "poll", "asked"} => cmds[m] = <<>> /\ at[m] = 1
                 /\ ringPc'[m] \in {"run", "report", "up"} => cmds[m] # <<>>
      BY <1>1 DEF Given
    <2>2. QED  BY <1>1, <2>1, SameCommands DEF Given
  <1>8. Gift'
    BY <1>1 DEF Gift, IsMaster, JobTracker
  <1>9. Ran'
    BY <1>1 DEF Ran, Past
  <1>10. Failed' = Failed
    BY <1>1 DEF Failed
  <1>11. \A s \in Services, m \in Nodes : RanMaster(s, m) => RanMaster(s, m)'
    BY <1>1, <1>3 DEF RanMaster
  <1>12. /\ \A n \in Nodes : ringPc[n] = "asked" <=> ringPc'[n] = "asked"
         /\ \A n \in Nodes : ringPc'[n] \in {"run", "report", "up"} => ringPc[n] \in {"run", "report", "up"}
    BY <1>1
  <1>13. QED  BY <1>2, <1>3, <1>4, <1>5, <1>6, <1>7, <1>8, <1>9, <1>10, <1>11, <1>12

(* What is counted besides the failures of services.                       *)
LEMMA Counts ==
  ASSUME Always
  PROVE  /\ Cardinality(Failing) \in Nat /\ Cardinality(Failed) \in Nat
         /\ Cardinality(LateErrors) \in Nat /\ Cardinality(LatePolls) \in Nat
         /\ losses \in Nat /\ \A s \in Services : failureCount[s] \in Nat
  <1>1. IsFiniteSet(late)
    BY DEF Always, LateCalls
  <1>2. losses \in Nat /\ \A s \in Services : failureCount[s] \in Nat
    BY DEF Always, RingTypeOK, ServicesTypeOK
  <1>3. QED  BY <1>1, <1>2, FiniteSets

(* A call that changes nothing at the ring master, or has the services     *)
(* change no more than that failures are forgotten.                        *)
LEMMA NothingCounted ==
  ASSUME Always, Undisturbed, Finishes, ServicesTypeOK', Externals', disturbed' \in BOOLEAN,
         UNCHANGED <<launched, masterAddress>>, StaysUp,
         \A s \in Services : failureCount'[s] <= failureCount[s],
         Cardinality(Failing)' \in Nat, Cardinality(Failing)' <= Cardinality(Failing)
  PROVE  Told' /\ Launched' /\ Stale' /\ Counted'
  <1> USE DEF Undisturbed
  <1>1. /\ late' \subseteq late /\ UNCHANGED <<cmds, losses, giving>>
        /\ \A m \in Nodes : \/ ringPc'[m] = ringPc[m]
                            \/ ringPc[m] = "report" /\ ringPc'[m] = "up"
                            \/ ringPc[m] = "failing" /\ ringPc'[m] = "gone"
    BY DEF Finishes
  <1>2. /\ \A m \in Nodes : GivenMaster(m)' = GivenMaster(m)
        /\ Failed' = Failed
        /\ Cardinality(LateErrors)' \in Nat /\ Cardinality(LatePolls)' \in Nat
        /\ Cardinality(LateErrors)' <= Cardinality(LateErrors)
        /\ Cardinality(LatePolls)' <= Cardinality(LatePolls)
        /\ \A n \in Nodes : ringPc[n] = "asked" <=> ringPc'[n] = "asked"
        /\ \A n \in Nodes : ringPc'[n] \in {"run", "report", "up"} => ringPc[n] \in {"run", "report", "up"}
    BY CallHandled
  <1>3. Told'
    BY <1>1, SameTold
  <1>4. Launched'
    BY <1>1, <1>2 DEF Launched, Taken
  <1>5. Stale'
    <2>1. \A m : Told0(m) => Told0(m)'
      BY <1>1 DEF Told0
    <2>2. QED  BY <1>1, <2>1 DEF Stale, Taken
  <1>6. Counted'
    <2>1. ASSUME NEW s \in Services
          PROVE  2 * failureCount'[s] + Due(s)' <= 2 * Cardinality(Failed) + losses
      <3>1. 2 * failureCount[s] + Due(s) <= 2 * Cardinality(Failed) + losses
        BY DEF Counted
      <3>2. Pending(s)' = Pending(s)
        BY <1>1, <1>2 DEF Pending, Holder, Taken
      <3>3. failureCount'[s] \in Nat
        BY DEF ServicesTypeOK
      <3>4. QED  BY <1>2, <3>1, <3>2, <3>3, Counts DEF Due
    <2>2. QED  BY <1>1, <1>2, <2>1 DEF Counted
  <1>7. QED  BY <1>3, <1>4, <1>5, <1>6

LEMMA NothingChanged ==
  ASSUME RingInv, Finishes, UNCHANGED serviceVars, disturbed' = disturbed,
         Cardinality(Failing)' \in Nat, Cardinality(Failing)' <= Cardinality(Failing)
  PROVE  RingInv'
  <1>0. Always
    BY DEF RingInv
  <1>1. ServicesTypeOK' /\ Externals' /\ StaysUp /\ disturbed' \in BOOLEAN
    BY <1>0, SameServices DEF Always, RingTypeOK
  <1>2. /\ RingTypeOK' /\ Running' /\ LateCalls' /\ Given' /\ Gift' /\ Ran'
        /\ LateErrors' \subseteq LateErrors /\ Failed' = Failed
        /\ \A s \in Services, m \in Nodes : RanMaster(s, m) => RanMaster(s, m)'
        /\ Cardinality(LateErrors)' \in Nat
        /\ Cardinality(LateErrors)' <= Cardinality(LateErrors)
    BY <1>0, <1>1, CallHandled
  <1>3. Addressed'
    BY <1>0, <1>2 DEF Always, Addressed, RanMaster, serviceVars
  <1>4. Bounded' /\ (disturbed' => losses' > 0)
    BY <1>0, <1>2, Counts DEF Always, Bounded, serviceVars, Finishes
  <1>5. Always'
    BY <1>1, <1>2, <1>3, <1>4 DEF Always
  <1>6. ASSUME Undisturbed PROVE Undisturbed'
    <2>1. Told' /\ Launched' /\ Stale' /\ Counted'
      <3>1. \A s \in Services : failureCount'[s] <= failureCount[s]
        BY <1>0, Counts DEF serviceVars
      <3>2. QED  BY <1>0, <1>1, <1>6, <3>1, NothingCounted DEF serviceVars
    <2>2. Up'
      BY <1>2, <1>6 DEF Undisturbed, Up, Taken, serviceVars, Finishes
    <2>3. QED  BY <2>1, <2>2 DEF Undisturbed
  <1>7. QED  BY <1>5, <1>6 DEF RingInv

(* getCommand, late, when the masters are given.                           *)
LEMMA LatePollStep ==
  ASSUME RingInv, NEW c \in late, c[2] = "getCommand", HandleLate(c[1], c[2], c[3])
  PROVE  RingInv'
  <1>0. c[1] \in Nodes /\ c = <<c[1], c[2], c[3]>> /\ IsFiniteSet(late)
    BY DEF RingInv, Always, RingTypeOK, LateCalls
  <1>1. /\ late' = late \ {c} /\ UNCHANGED <<ringPc, cmds, at, daemons, losses, disturbed, rm>>
        /\ CmdLockFree
        /\ TakeMaster(c[1]) \/ UNCHANGED <<serviceVars, giving>>
    BY <1>0 DEF HandleLate
  <1>2. CASE TakeMaster(c[1])
    BY <1>0, <1>1, <1>2, TakeStep
  <1>3. CASE UNCHANGED <<serviceVars, giving>>
    <2>1. Finishes
      BY <1>1, <1>3 DEF Finishes, RingInv, Always, RingTypeOK
    <2>2. Failing' = Failing
      BY <1>1 DEF Failing
    <2>3. Cardinality(Failing) \in Nat
      BY <1>0, FiniteSets
    <2>4. QED  BY <1>1, <1>3, <2>1, <2>2, <2>3, NothingChanged
  <1>4. QED  BY <1>1, <1>2, <1>3

-----------------------------------------------------------------------------
(* addMasterParams lets services come up that were given to the hodring    *)
(* and whose address it has filled in.                                     *)
LEMMA ParamsHandled ==
  ASSUME Always, NEW n \in Nodes, NEW sent, addMasterParams(n, sent)
  PROVE  /\ ServicesTypeOK' /\ Externals'
         /\ UNCHANGED <<launched, masterAddress>>
         /\ \A s \in Services : failureCount'[s] \in Nat /\ failureCount'[s] <= failureCount[s]
         /\ \A s \in Services : \/ initialized'[s] = initialized[s] /\ masterAddr'[s] = masterAddr[s]
                                \/ /\ s \in sent /\ launched[s] /\ masterAddress[s] = n
                                   /\ initialized'[s] /\ masterAddr'[s] = n
  <1> USE DEF Always
  <1> DEFINE S == {s \in MasteredBy(n) \cap sent : s = "mapred" => "hdfs" \notin MasteredBy(n) \ sent}
  <1>1. MastersUp(S, n)
    BY DEF addMasterParams
  <1>2. /\ S \subseteq Services \cap sent
        /\ \A s \in S : launched[s] /\ masterAddress[s] = n
    BY DEF MasteredBy
  <1> HIDE DEF S
  <1>3. /\ masterAddr' = [s \in Services |-> IF s \in S THEN n ELSE masterAddr[s]]
        /\ initialized' = [s \in Services |-> s \in S \/ initialized[s]]
        /\ failureCount' = [s \in Services |-> IF s \in S THEN 0 ELSE failureCount[s]]
        /\ failed' = [s \in Services |-> s \notin S /\ failed[s]]
        /\ UNCHANGED <<launched, masterAddress>>
    BY <1>1 DEF MastersUp
  <1>4. /\ initialized \in [Services -> BOOLEAN] /\ failed \in [Services -> BOOLEAN]
        /\ masterAddr \in [Services -> Nodes \cup {NoNode, ExternalHost}]
        /\ failureCount \in [Services -> Nat]
    BY DEF RingTypeOK, ServicesTypeOK
  <1>5. ServicesTypeOK'
    BY <1>3, <1>4 DEF RingTypeOK, ServicesTypeOK
  <1>6. S \cap External = {}
    BY <1>2, ServicesAssumption DEF Externals
  <1>7. Externals'
    BY <1>3, <1>6 DEF Externals
  <1>8. \A s \in Services : failureCount'[s] \in Nat /\ failureCount'[s] <= failureCount[s]
    BY <1>3, <1>4
  <1>9. \A s \in Services : s \notin S => initialized'[s] = initialized[s] /\ masterAddr'[s] = masterAddr[s]
    BY <1>3, <1>4
  <1>10. \A s \in S : initialized'[s] /\ masterAddr'[s] = n
    BY <1>2, <1>3
  <1>11. QED  BY <1>2, <1>3, <1>5, <1>7, <1>8, <1>9, <1>10

(* addMasterParams, at once or late.                                       *)
LEMMA ParamsStep ==
  ASSUME RingInv, NEW n \in Nodes, NEW sent, addMasterParams(n, sent), sent \subseteq GivenMaster(n),
         ringPc[n] \in {"report", "up", "gone"}, \A c \in LateErrors : c[1] # n,
         Finishes, Failing' = Failing, disturbed' = disturbed,
         ringPc[n] = "report" \/ \E c \in late : c[1] = n /\ c[2] = "addMasterParams"
  PROVE  RingInv'
  <1>0. Always
    BY DEF RingInv
  <1>1. /\ ServicesTypeOK' /\ Externals'
        /\ UNCHANGED <<launched, masterAddress>>
        /\ \A s \in Services : failureCount'[s] \in Nat /\ failureCount'[s] <= failureCount[s]
        /\ \A s \in Services : \/ initialized'[s] = initialized[s] /\ masterAddr'[s] = masterAddr[s]
                               \/ /\ s \in sent /\ launched[s] /\ masterAddress[s] = n
                                  /\ initialized'[s] /\ masterAddr'[s] = n
        /\ disturbed' \in BOOLEAN
    BY <1>0, ParamsHandled DEF Always, RingTypeOK
  <1>2. /\ RingTypeOK' /\ Running' /\ LateCalls' /\ Given' /\ Gift' /\ Ran'
        /\ LateErrors' \subseteq LateErrors /\ Failed' = Failed
        /\ \A s \in Services, m \in Nodes : RanMaster(s, m) => RanMaster(s, m)'
        /\ Cardinality(LateErrors)' \in Nat
        /\ Cardinality(LateErrors)' <= Cardinality(LateErrors)
    BY <1>0, <1>1, CallHandled
  <1>3. \A s \in sent : s \in Services /\ RanMaster(s, n)
    <2>1. /\ Filled(n) \subseteq GivenMaster(n)
          /\ ringPc[n] \in {"report", "up"} => Filled(n) = GivenMaster(n)
          /\ \A s \in GivenMaster(n) : GivenMaster(n) = {s}
      BY <1>0, FilledIsGiven DEF Always
    <2>2. QED  BY <2>1 DEF RanMaster, GivenMaster
  <1>4. Addressed'
    <2>1. SUFFICES ASSUME NEW s \in Services, initialized'[s], s \notin External
                   PROVE  RanMaster(s, masterAddr[s])'
      BY DEF Addressed
    <2>2. CASE initialized'[s] = initialized[s] /\ masterAddr'[s] = masterAddr[s]
      <3>1. RanMaster(s, masterAddr[s]) /\ masterAddr[s] \in Nodes
        BY <1>0, <2>1, <2>2 DEF Always, Addressed, RanMaster
      <3>2. PICK m \in Nodes : m = masterAddr[s]
        BY <3>1
      <3>3. RanMaster(s, m)'
        BY <1>2, <3>1, <3>2
      <3>4. masterAddr'[s] = m
        BY <2>2, <3>2
      <3>5. QED  BY <3>3, <3>4 DEF RanMaster
    <2>3. CASE s \in sent /\ masterAddr'[s] = n
      <3>1. RanMaster(s, n)'
        BY <1>2, <1>3, <2>3
      <3>2. QED  BY <2>3, <3>1 DEF RanMaster
    <2>4. QED  BY <1>1, <2>2, <2>3
  <1>5. Bounded' /\ (disturbed' => losses' > 0)
    BY <1>0, <1>1, <1>2, Counts DEF Always, Bounded, Finishes
  <1>6. Always'
    BY <1>1, <1>2, <1>4, <1>5 DEF Always
  <1>7. ASSUME Undisturbed PROVE Undisturbed'
    <2>1. ASSUME NEW s \in Services, initialized[s] PROVE initialized'[s] /\ masterAddr'[s] = masterAddr[s]
      <3>1. masterAddress[s] = n => s \notin External
        BY <1>0, ServicesAssumption DEF Always, Externals
      <3>2. QED  BY <1>1, <1>7, <2>1, <3>1 DEF Undisturbed, Up
    <2>2. StaysUp
      BY <2>1 DEF StaysUp
    <2>3. Told' /\ Launched' /\ Stale' /\ Counted'
      <3>1. Cardinality(Failing)' \in Nat /\ Cardinality(Failing)' <= Cardinality(Failing)
        BY <1>0, Counts
      <3>2. QED  BY <1>0, <1>1, <1>7, <2>2, <3>1, NothingCounted
    <2>4. Up'
      <3>1. SUFFICES ASSUME NEW s \in Services, initialized'[s], s \notin External
                     PROVE  /\ launched[s] /\ ~Taken(s) /\ masterAddress[s] = masterAddr'[s]
                            /\ \A c \in LateErrors : c[1] # masterAddress[s]
        BY <1>1, <1>2 DEF Up, Taken, Finishes
      <3>2. CASE initialized[s] /\ masterAddr'[s] = masterAddr[s]
        BY <1>7, <3>1, <3>2 DEF Undisturbed, Up
      <3>3. CASE s \in sent /\ launched[s] /\ masterAddress[s] = n /\ masterAddr'[s] = n
        <4>1. ~Taken(s)
          BY <1>7, <3>3 DEF Undisturbed, Stale, Told0
        <4>2. QED  BY <3>3, <4>1
      <3>4. QED  BY <1>1, <3>1, <3>2, <3>3
    <2>5. QED  BY <2>3, <2>4 DEF Undisturbed
  <1>8. QED  BY <1>6, <1>7 DEF RingInv

LEMMA ReportStep == ASSUME RingInv, NEW n \in Nodes, Report(n) PROVE RingInv'
  <1>0. Always /\ IsFiniteSet(late)
    BY DEF RingInv, Always, LateCalls
  <1>1. ringPc[n] = "report" /\ addMasterParams(n, Filled(n)) /\ Go(n, "up")
        /\ UNCHANGED <<cmds, at, daemons, late, losses, disturbed, giving, rm>>
    BY DEF Report
  <1>2. Filled(n) \subseteq GivenMaster(n)
    BY <1>0, FilledIsGiven DEF Always
  <1>3. \A c \in LateErrors : c[1] # n
    BY <1>0, <1>1 DEF Always, LateCalls, LateErrors
  <1>4. Finishes /\ Failing' = Failing
    BY <1>0, <1>1, Moves DEF Always, Finishes
  <1>5. QED  BY <1>1, <1>2, <1>3, <1>4, ParamsStep

LEMMA LateParamsStep ==
  ASSUME RingInv, NEW c \in late, c[2] = "addMasterParams", HandleLate(c[1], c[2], c[3])
  PROVE  RingInv'
  <1>1. c[1] \in Nodes
    BY DEF RingInv, Always, RingTypeOK
  <1>2. /\ addMasterParams(c[1], c[3]) /\ late' \subseteq late
        /\ UNCHANGED <<ringPc, cmds, at, daemons, losses, disturbed, giving, rm>>
    BY DEF HandleLate
  <1>3. /\ ringPc[c[1]] \in {"report", "up", "gone"} /\ c[3] \subseteq GivenMaster(c[1])
        /\ \A d \in LateErrors : d[1] # c[1]
    BY DEF RingInv, Always, LateCalls
  <1>4. Finishes /\ Failing' = Failing
    BY <1>2 DEF RingInv, Always, RingTypeOK, Finishes, Failing
  <1>5. QED  BY <1>1, <1>2, <1>3, <1>4, ParamsStep

-----------------------------------------------------------------------------
(* setHodRingErrors counts one failure of a service that was given to the  *)
(* hodring, if there is one.                                               *)
LEMMA ErrorsHandled ==
  ASSUME Always, NEW n \in Nodes, setHodRingErrors(n)
  PROVE  \/ UNCHANGED serviceVars
         \/ \E s \in Services \ External : s \in MasteredBy(n) /\ MasterFailed(s)
  <1>1. \A s \in MasteredBy(n) : s \in Services \ External
    BY ServicesAssumption DEF Always, MasteredBy, Externals
  <1>2. \/ UNCHANGED serviceVars
        \/ "hdfs" \in MasteredBy(n) /\ MasterFailed("hdfs")
        \/ "mapred" \in MasteredBy(n) /\ MasterFailed("mapred")
    BY DEF setHodRingErrors
  <1>3. QED  BY <1>1, <1>2

LEMMA FailureCounted ==
  ASSUME ServicesTypeOK, Externals, NEW s \in Services \ External, MasterFailed(s)
  PROVE  /\ ServicesTypeOK' /\ Externals' /\ StaysUp
         /\ ~launched'[s] /\ failureCount'[s] = failureCount[s] + 1
         /\ \A r \in Services : r # s => launched'[r] = launched[r] /\ failureCount'[r] = failureCount[r]
         /\ UNCHANGED <<initialized, masterAddress, masterAddr>>
  BY DEF ServicesTypeOK, Externals, MasterFailed, StaysUp

(* setHodRingErrors, at once or late: one call less is to come.            *)
Tells(n) == \/ ringPc[n] = "failing" /\ Go(n, "gone") /\ UNCHANGED late
            \/ /\ \E c \in late : c[1] = n /\ c[2] = "setHodRingErrors" /\ late' = late \ {c}
               /\ UNCHANGED ringPc

LEMMA OneCallLess ==
  ASSUME Always, NEW n \in Nodes, Tells(n), UNCHANGED <<cmds, at, daemons, losses, rm, giving>>
  PROVE  /\ Finishes /\ n \in Failed /\ ringPc'[n] \in {"failing", "gone"}
         /\ ringPc[n] = "failing" \/ \E c \in LateErrors : c[1] = n
         /\ losses = 0 => ringPc[n] = "failing" /\ ringPc'[n] = "gone"
         /\ \A c \in late : c[1] = n => c[2] # "addMasterParams"
         /\ Cardinality(Failing)' \in Nat /\ Cardinality(Failing)' <= Cardinality(Failing)
         /\ Cardinality(LateErrors)' \in Nat /\ Cardinality(LatePolls)' \in Nat
         /\ Cardinality(LatePolls)' <= Cardinality(LatePolls)
         /\ Cardinality(Failing)' + Cardinality(LateErrors)' <= Cardinality(Failing) + Cardinality(LateErrors) - 1
  <1> USE DEF Always
  <1>1. IsFiniteSet(late)
    BY DEF LateCalls
  <1>2. /\ Cardinality(Failing) \in Nat /\ Cardinality(LateErrors) \in Nat /\ Cardinality(LatePolls) \in Nat
    BY <1>1, FiniteSets
  <1>3. CASE ringPc[n] = "failing" /\ Go(n, "gone") /\ UNCHANGED late
    <2>1. LateErrors' = LateErrors /\ LatePolls' = LatePolls
      BY <1>3 DEF LateErrors, LatePolls
    <2>2. /\ ringPc' \in [Nodes -> {"off", "poll", "asked", "run", "report", "up", "failing", "gone"}]
          /\ ringPc'[n] = "gone" /\ \A m \in Nodes : m # n => ringPc'[m] = ringPc[m]
          /\ Cardinality(Failing)' = Cardinality(Failing) - 1
      BY <1>1, <1>3, Moves
    <2>3. Cardinality(Failing)' \in Nat
      <3>1. Failing' \in SUBSET Nodes
        BY DEF Failing
      <3>2. QED  BY <3>1, FS_Subset, FS_CardinalityType, ServicesAssumption
    <2>4. Finishes
      BY <1>3, <2>2 DEF Finishes
    <2>5. \A c \in late : c[1] = n => c[2] # "addMasterParams"
      BY <1>3 DEF LateCalls
    <2>6. QED  BY <1>2, <1>3, <2>1, <2>2, <2>3, <2>4, <2>5 DEF Failed
  <1>4. ASSUME NEW c \in late, c[1] = n, c[2] = "setHodRingErrors", late' = late \ {c}, UNCHANGED ringPc
        PROVE  /\ Finishes /\ n \in Failed /\ ringPc'[n] \in {"failing", "gone"}
               /\ c \in LateErrors /\ losses # 0
               /\ \A d \in late : d[1] = n => d[2] # "addMasterParams"
               /\ Cardinality(Failing)' = Cardinality(Failing)
               /\ Cardinality(LateErrors)' \in Nat /\ Cardinality(LatePolls)' \in Nat
               /\ Cardinality(LatePolls)' <= Cardinality(LatePolls)
               /\ Cardinality(LateErrors)' = Cardinality(LateErrors) - 1
    <2>1. Failing' = Failing
      BY <1>4 DEF Failing
    <2>2. /\ Cardinality(LateErrors)' \in Nat /\ Cardinality(LatePolls)' \in Nat
          /\ Cardinality(LateErrors)' = Cardinality(LateErrors) - 1
          /\ Cardinality(LatePolls)' <= Cardinality(LatePolls)
      BY <1>1, <1>4, OneLateLess
    <2>3. c \in LateErrors
      BY <1>4 DEF LateErrors
    <2>4. ringPc[n] \in {"failing", "gone"} /\ losses # 0
      BY <1>4 DEF LateCalls
    <2>5. \A d \in late : d[1] = n => d[2] # "addMasterParams"
      BY <1>4, <2>3 DEF LateCalls
    <2>6. Finishes
      BY <1>4 DEF Finishes, RingTypeOK
    <2>7. QED  BY <1>4, <2>1, <2>2, <2>3, <2>4, <2>5, <2>6 DEF Failed
  <1>5. CASE \E c \in late : c[1] = n /\ c[2] = "setHodRingErrors" /\ late' = late \ {c} /\ UNCHANGED ringPc
    <2>1. PICK c \in late : c[1] = n /\ c[2] = "setHodRingErrors" /\ late' = late \ {c} /\ UNCHANGED ringPc
      BY <1>5
    <2>2. QED  BY <1>2, <1>4, <2>1
  <1>6. QED  BY <1>3, <1>5 DEF Tells

LEMMA ErrorsStep ==
  ASSUME RingInv, NEW n \in Nodes, TellErrors(n), Tells(n), UNCHANGED <<cmds, at, daemons, losses>>
  PROVE  RingInv'
  <1>0. Always
    BY DEF RingInv
  <1>1. /\ setHodRingErrors(n) /\ UNCHANGED <<cmds, at, daemons, losses, rm, giving>>
        /\ disturbed' = (disturbed \/ giving.service \in MasteredBy(n))
    BY DEF TellErrors
  <1>2. /\ Finishes /\ n \in Failed /\ ringPc'[n] \in {"failing", "gone"}
        /\ ringPc[n] = "failing" \/ \E c \in LateErrors : c[1] = n
        /\ losses = 0 => ringPc[n] = "failing" /\ ringPc'[n] = "gone"
        /\ \A c \in late : c[1] = n => c[2] # "addMasterParams"
        /\ Cardinality(Failing)' \in Nat /\ Cardinality(Failing)' <= Cardinality(Failing)
        /\ Cardinality(LateErrors)' \in Nat /\ Cardinality(LatePolls)' \in Nat
        /\ Cardinality(LatePolls)' <= Cardinality(LatePolls)
        /\ Cardinality(Failing)' + Cardinality(LateErrors)' <= Cardinality(Failing) + Cardinality(LateErrors) - 1
    BY <1>0, <1>1, OneCallLess
  <1>3. disturbed' \in BOOLEAN /\ (disturbed => disturbed')
    BY <1>0, <1>1 DEF Always, RingTypeOK
  <1>4. disturbed' => losses > 0
    <2>1. CASE disturbed
      BY <1>0, <2>1 DEF Always
    <2>2. CASE ~disturbed /\ giving.service \in MasteredBy(n)
      <3>1. Taken(giving.service) /\ giving.service \in Services /\ masterAddress[giving.service] = n
        BY <2>2 DEF Taken, MasteredBy
      <3>2. Told0(n)
        BY <2>2, <3>1 DEF RingInv, Undisturbed, Stale
      <3>3. losses # 0
        BY <1>2, <3>2 DEF Told0
      <3>4. QED  BY <1>0, <3>3, Counts
    <2>3. QED  BY <1>1, <2>1, <2>2
  <1>5. CASE UNCHANGED serviceVars
    <2>1. CASE disturbed' = disturbed
      BY <1>2, <1>5, <2>1, NothingChanged
    <2>2. CASE disturbed' # disturbed
      <3>1. disturbed'
        BY <1>0, <1>3, <2>2 DEF Always, RingTypeOK
      <3>2. ServicesTypeOK' /\ Externals'
        BY <1>0, <1>5, SameServices DEF Always, RingTypeOK
      <3>3. /\ RingTypeOK' /\ Running' /\ LateCalls' /\ Given' /\ Gift' /\ Ran'
            /\ Failed' = Failed
            /\ \A s \in Services, m \in Nodes : RanMaster(s, m) => RanMaster(s, m)'
        BY <1>0, <1>2, <1>3, <3>2, CallHandled
      <3>4. Addressed'
        BY <1>0, <1>5, <3>3 DEF Always, Addressed, RanMaster, serviceVars
      <3>5. Bounded'
        BY <1>0, <1>1, <1>2, <1>5, <3>3, Counts DEF Always, Bounded, serviceVars
      <3>6. QED  BY <1>1, <1>4, <3>1, <3>2, <3>3, <3>4, <3>5 DEF RingInv, Always
    <2>3. QED  BY <2>1, <2>2
  <1>6. ASSUME NEW r \in Services \ External, r \in MasteredBy(n), MasterFailed(r)
        PROVE  RingInv'
    <2>1. /\ ServicesTypeOK' /\ Externals' /\ StaysUp
          /\ ~launched'[r] /\ failureCount'[r] = failureCount[r] + 1
          /\ \A s \in Services : s # r => launched'[s] = launched[s] /\ failureCount'[s] = failureCount[s]
          /\ UNCHANGED <<initialized, masterAddress, masterAddr>>
      BY <1>0, <1>6, FailureCounted DEF Always, RingTypeOK
    <2>2. /\ RingTypeOK' /\ Running' /\ LateCalls' /\ Given' /\ Gift' /\ Ran'
          /\ \A m \in Nodes : GivenMaster(m)' = GivenMaster(m)
          /\ LateErrors' \subseteq LateErrors /\ Failed' = Failed
          /\ \A s \in Services, m \in Nodes : RanMaster(s, m) => RanMaster(s, m)'
          /\ \A m \in Nodes : ringPc[m] = "asked" <=> ringPc'[m] = "asked"
          /\ \A m \in Nodes : ringPc'[m] \in {"run", "report", "up"} => ringPc[m] \in {"run", "report", "up"}
      BY <1>0, <1>2, <1>3, <2>1, CallHandled
    <2>3. launched[r] /\ masterAddress[r] = n /\ ringPc[n] \in {"failing", "gone"}
      BY <1>2, <1>6 DEF MasteredBy, Failed
    <2>4. Always'
      <3>1. Addressed'
        BY <1>0, <2>1, <2>2 DEF Always, Addressed, RanMaster
      <3>2. Bounded'
        BY <1>0, <1>1, <1>2, <2>1, <2>2, Counts DEF Always, Bounded
      <3>3. QED  BY <1>1, <1>4, <2>1, <2>2, <3>1, <3>2 DEF Always
    <2>5. ASSUME ~disturbed' PROVE Undisturbed'
      <3>1. Undisturbed /\ giving.service \notin MasteredBy(n)
        BY <1>1, <2>5 DEF RingInv
      <3>2. ~Taken(r)
        BY <1>6, <3>1 DEF Taken
      <3>3. /\ late' \subseteq late /\ UNCHANGED <<cmds, losses, giving>>
            /\ \A m \in Nodes : \/ ringPc'[m] = ringPc[m]
                                \/ ringPc[m] = "report" /\ ringPc'[m] = "up"
                                \/ ringPc[m] = "failing" /\ ringPc'[m] = "gone"
        BY <1>2 DEF Finishes
      <3>4. \A s : Taken(s)' <=> Taken(s)
        BY <3>3 DEF Taken
      <3> USE <3>1 DEF Undisturbed
      <3>5. ~initialized[r]
        <4>1. SUFFICES ASSUME initialized[r] PROVE FALSE
          OBVIOUS
        <4>2. masterAddress[r] = masterAddr[r] /\ \A c \in LateErrors : c[1] # masterAddress[r]
          BY <4>1 DEF Up
        <4>3. RanMaster(r, n)
          BY <1>0, <2>3, <4>1, <4>2 DEF Always, Addressed
        <4>4. QED  BY <1>2, <2>3, <4>2, <4>3 DEF RanMaster
      <3>6. Told'
        BY <2>1, <3>3, SameTold
      <3>7. Launched'
        <4>1. ASSUME NEW m \in Nodes, ringPc'[m] \in {"run", "report", "up"}, NEW s \in GivenMaster(m)
              PROVE  launched'[s] /\ ~Taken(s) /\ masterAddress[s] = m
          <5>1. launched[s] /\ ~Taken(s) /\ masterAddress[s] = m /\ s \in Services
            BY <2>2, <4>1 DEF Launched, GivenMaster
          <5>2. m # n
            BY <1>2, <4>1
          <5>3. QED  BY <2>1, <2>3, <5>1, <5>2
        <4>2. \A s \in Services : Taken(s) => launched'[s]
          BY <2>1, <3>2 DEF Launched
        <4>3. QED  BY <2>1, <2>2, <3>4, <4>1, <4>2 DEF Launched
      <3>8. Up'
        BY <2>1, <2>2, <3>4, <3>5 DEF Up
      <3>9. Stale'
        <4>1. \A m : Told0(m) => Told0(m)'
          BY <3>3 DEF Told0
        <4>2. Told0(n)'
          BY <1>2, <3>3 DEF Told0
        <4>3. QED  BY <2>1, <2>3, <3>4, <4>1, <4>2 DEF Stale
      <3>10. Counted'
        <4>1. ASSUME NEW s \in Services
              PROVE  2 * failureCount'[s] + Due(s)' <= 2 * Cardinality(Failed) + losses
          <5>1. 2 * failureCount[s] + Due(s) <= 2 * Cardinality(Failed) + losses
            BY DEF Counted
          <5>2. CASE s = r
            <6>1. Pending(s) /\ ~Pending(s)'
              BY <1>2, <2>1, <2>3, <3>2, <5>2 DEF Pending, Holder
            <6>2. QED  BY <1>0, <1>2, <2>1, <5>1, <5>2, <6>1, Counts DEF Due
          <5>3. CASE s # r
            <6>1. Pending(s)' = Pending(s)
              BY <2>1, <2>2, <3>3, <3>4, <5>3 DEF Pending, Holder
            <6>2. QED  BY <1>0, <1>2, <2>1, <5>1, <5>3, <6>1, Counts DEF Due
          <5>4. QED  BY <5>2, <5>3
        <4>2. QED  BY <1>1, <2>2, <4>1 DEF Counted
      <3>11. QED  BY <3>6, <3>7, <3>8, <3>9, <3>10
    <2>6. QED  BY <2>4, <2>5 DEF RingInv
  <1>7. QED  BY <1>0, <1>1, <1>5, <1>6, ErrorsHandled

LEMMA FailStep == ASSUME RingInv, NEW n \in Nodes, Fail(n) PROVE RingInv'
  BY ErrorsStep DEF Fail, Tells

LEMMA LateErrorsStep ==
  ASSUME RingInv, NEW c \in late, c[2] = "setHodRingErrors", HandleLate(c[1], c[2], c[3])
  PROVE  RingInv'
  <1>1. c[1] \in Nodes /\ c = <<c[1], c[2], c[3]>>
    BY DEF RingInv, Always, RingTypeOK
  <1>2. /\ TellErrors(c[1]) /\ late' = late \ {c}
        /\ UNCHANGED <<ringPc, cmds, at, daemons, losses>>
    BY <1>1 DEF HandleLate
  <1>3. Tells(c[1])
    BY <1>2 DEF Tells
  <1>4. QED  BY <1>1, <1>2, <1>3, ErrorsStep

-----------------------------------------------------------------------------
LEMMA RingInitInv == RingInit => RingInv
  <1> SUFFICES ASSUME RingInit PROVE RingInv
    OBVIOUS
  <1> USE DEF RingInit, RMInit
  <1>1. ServicesTypeOK /\ Externals
    <2>1. /\ launched = [s \in Services |-> s \in External]
          /\ initialized = [s \in Services |-> s \in External]
          /\ masterAddress = [s \in Services |-> NoNode]
          /\ masterAddr = [s \in Services |-> IF s \in External THEN ExternalHost ELSE NoNode]
          /\ failed = [s \in Services |-> FALSE] /\ failureCount = [s \in Services |-> 0]
      BY DEF ServicesInit
    <2>2. ServicesTypeOK
      BY <2>1 DEF ServicesTypeOK
    <2>3. Externals
      BY <2>1 DEF Externals
    <2>4. QED  BY <2>2, <2>3
  <1>2. RingTypeOK
    <2>1. cmds \in [Nodes -> Seq(Commands)] /\ at \in [Nodes -> Nat \ {0}]
          /\ daemons \in [Nodes -> SUBSET Commands]
      OBVIOUS
    <2>2. QED  BY <1>1, <2>1 DEF RingTypeOK
  <1>3. Running
    BY DEF Running
  <1>4. LateCalls
    BY FS_EmptySet DEF LateCalls
  <1>5. Given /\ Ran /\ Gift
    BY DEF Given, Ran, Gift
  <1>6. Addressed
    BY DEF ServicesInit, Addressed
  <1>7. /\ Failing = {} /\ Failed = {} /\ LateErrors = {} /\ LatePolls = {}
        /\ \A s \in Services : failureCount[s] = 0
    BY DEF Failing, Failed, LateErrors, LatePolls, ServicesInit
  <1>8. Bounded
    BY <1>7, FS_EmptySet DEF Bounded
  <1>9. Always
    BY <1>1, <1>2, <1>3, <1>4, <1>5, <1>6, <1>8 DEF Always
  <1>10. Told /\ Launched
    BY Gifts DEF Told, Launched, Taken
  <1>11. Up
    BY DEF ServicesInit, Up
  <1>12. Stale
    BY ServicesAssumption DEF ServicesInit, Stale, Told0
  <1>13. Counted
    <2>1. \A s \in Services : ~Taken(s) /\ ~Pending(s)
      BY ServicesAssumption, Gifts DEF ServicesInit, Pending, Holder, Taken
    <2>2. QED  BY <1>7, <2>1, FS_EmptySet DEF Counted, Due
  <1>14. QED  BY <1>9, <1>10, <1>11, <1>12, <1>13 DEF RingInv, Undisturbed

LEMMA LateStep ==
  ASSUME RingInv, NEW c \in late, HandleLate(c[1], c[2], c[3])
  PROVE  RingInv'
  <1>1. c[2] \in {"getCommand", "addMasterParams", "setHodRingErrors"}
    BY DEF RingInv, Always, RingTypeOK
  <1>2. QED  BY <1>1, LatePollStep, LateParamsStep, LateErrorsStep

LEMMA RingNextInv == RingInv /\ [RingNext]_hodRingVars => RingInv'
  <1> SUFFICES ASSUME RingInv, [RingNext]_hodRingVars PROVE RingInv'
    OBVIOUS
  <1>1. CASE RMStarts
    BY <1>1, RMStartsStep
  <1>2. ASSUME NEW n \in Nodes, RingStep(n) \/ TimeOut(n) \/ MissReply(n) \/ Unreachable(n) \/ Crash(n)
        PROVE  RingInv'
    BY <1>2, StartRingStep, PollStep, AnswerStep, CommandFailsStep, CommandRunsStep, ReportStep, FailStep,
       TimeOutStep, MissReplyStep, UnreachableStep, CrashStep DEF RingStep
  <1>3. ASSUME NEW c \in late, HandleLate(c[1], c[2], c[3]) PROVE RingInv'
    BY <1>3, LateStep
  <1>4. CASE UNCHANGED hodRingVars
    <2>1. Finishes /\ Failing' = Failing /\ Cardinality(Failing) \in Nat
      BY <1>4, Counts DEF RingInv, Always, RingTypeOK, Finishes, hodRingVars, rmVars, ringVars, Failing
    <2>2. UNCHANGED serviceVars /\ disturbed' = disturbed
      BY <1>4 DEF hodRingVars, rmVars, ringVars
    <2>3. QED  BY <2>1, <2>2, NothingChanged
  <1>5. QED  BY <1>1, <1>2, <1>3, <1>4 DEF RingNext

(* What the invariant says of the masters, the daemons and the failures.   *)
LEMMA RingInvSound == RingInv => RingSound
  <1> SUFFICES ASSUME RingInv PROVE RingSound
    OBVIOUS
  <1>0. Always
    BY DEF RingInv
  <1>1. AddressIsOfMaster
    BY <1>0 DEF Always, Addressed, RanMaster, AddressIsOfMaster, Masters
  <1>2. FailuresBounded
    <2>1. \A s \in Services : failureCount[s] <= Cardinality(Failed) + losses
      BY <1>0, Counts DEF Always, Bounded
    <2>2. QED  BY <2>1 DEF FailuresBounded, FailedRings, Failed
  <1>3. ASSUME Undisturbed PROVE OneMasterPerService /\ MastersAgree /\ FailuresCounted
    <2> USE <1>3 DEF Undisturbed
    <2>1. OneMasterPerService
      BY DEF OneMasterPerService, Launched
    <2>2. MastersAgree
      <3>1. ASSUME NEW n \in Nodes, NEW c \in daemons[n] PROVE ToldOf(c)
        <4>1. PICK i \in DOMAIN cmds[n] : c = cmds[n][i]
          BY <1>0 DEF Always, Ran
        <4>2. QED  BY <4>1 DEF Told
      <3>2. QED  BY <3>1 DEF ToldOf, MastersAgree
    <2>3. FailuresCounted
      <3>1. SUFFICES ASSUME NEW s \in Services
                     PROVE  failureCount[s] <= Cardinality(Failed) + losses \div 2
        BY DEF FailuresCounted, FailedRings, Failed
      <3>2. 2 * failureCount[s] + Due(s) <= 2 * Cardinality(Failed) + losses
        BY DEF Counted
      <3>3. Due(s) \in Nat
        BY <1>0, Counts DEF Due
      <3>4. QED  BY <1>0, <3>2, <3>3, Counts
    <2>4. QED  BY <2>1, <2>2, <2>3
  <1>4. QED  BY <1>0, <1>1, <1>2, <1>3 DEF RingSound, RingInv, Always

(* Whatever is lost, repeated or handled late, and whichever hodrings fail *)
(* or crash: the client is told of masters that have run, and failures are *)
(* counted within a bound.  One hodring at most runs the master of a       *)
(* service, every daemon and the client are told of the same one, and no   *)
(* failure is counted for nothing, unless a failure of the hodring before  *)
(* was told again between the two writes of getCommand, which takes a call *)
(* given up (getCommand, addMasterParams, setHodRingErrors).               *)
THEOREM RingIsSound == RingSpec => []RingSound
  <1>1. RingInit => RingInv
    BY RingInitInv
  <1>2. RingInv /\ [RingNext]_hodRingVars => RingInv'
    BY RingNextInv
  <1>3. RingInv => RingSound
    BY RingInvSound
  <1>4. QED  BY <1>1, <1>2, <1>3, PTL DEF RingSpec

-----------------------------------------------------------------------------
(* What the ring maps to in Cluster.                                       *)
Phase == [s \in Services |-> IF initialized[s] THEN "up"
                             ELSE IF launched[s] THEN "launching" ELSE "down"]
Workers == {n \in Nodes : cmds[n] # <<>> /\ cmds[n][1].name \in {"datanode", "tasktracker"}}

LEMMA SamePhase ==
  ASSUME UNCHANGED <<launched, initialized>>
  PROVE  Phase' = Phase
  BY DEF Phase

LEMMA SameWorkers ==
  ASSUME UNCHANGED cmds
  PROVE  Workers' = Workers
  BY DEF Workers

LEMMA Launches ==
  ASSUME Always, NEW n \in Nodes, TakeMaster(n), UNCHANGED cmds
  PROVE  Abstract!Next \/ UNCHANGED <<Phase, Workers>>
  <1>1. PICK s \in Services : /\ ~launched[s] /\ launched'[s]
                              /\ s = "mapred" => initialized["hdfs"]
                              /\ \A r \in Services : r # s => launched'[r] = launched[r]
                              /\ initialized' = initialized
    <2>1. Wanting(NextMaster) /\ NextMaster \in Services
      BY DEF TakeMaster, MastersDone, NextMaster, Services
    <2>2. launched' = [launched EXCEPT ![NextMaster] = TRUE] /\ initialized' = initialized
      BY DEF TakeMaster, setlaunchedMaster
    <2>3. QED  BY <2>1, <2>2 DEF Wanting, isLaunchable, Always, RingTypeOK, ServicesTypeOK
  <1>2. Workers' = Workers
    BY SameWorkers
  <1>3. CASE initialized[s]
    <2>1. Phase' = Phase
      BY <1>1, <1>3 DEF Phase
    <2>2. QED  BY <1>2, <2>1
  <1>4. CASE ~initialized[s]
    <2>1. Phase[s] = "down" /\ (s = "mapred" => Phase["hdfs"] = "up")
      BY <1>1, <1>4 DEF Phase, Services
    <2>2. Phase' = [Phase EXCEPT ![s] = "launching"]
      BY <1>1, <1>4 DEF Phase
    <2>3. Abstract!Launch(s)
      BY <1>2, <2>1, <2>2 DEF Abstract!Launch, Phase, Workers
    <2>4. QED  BY <1>1, <2>3 DEF Abstract!Next, Services
  <1>5. QED  BY <1>3, <1>4

LEMMA Rises ==
  ASSUME Always, NEW n \in Nodes, NEW sent, addMasterParams(n, sent), sent \subseteq GivenMaster(n),
         UNCHANGED cmds
  PROVE  Abstract!Next \/ UNCHANGED <<Phase, Workers>>
  <1>1. /\ UNCHANGED launched
        /\ \A s \in Services : initialized'[s] = initialized[s] \/ (s \in sent /\ launched[s] /\ initialized'[s])
    BY ParamsHandled
  <1>2. Workers' = Workers
    BY SameWorkers
  <1>3. CASE \A s \in Services : initialized'[s] = initialized[s]
    <2>1. Phase' = Phase
      BY <1>1, <1>3 DEF Phase
    <2>2. QED  BY <1>2, <2>1
  <1>4. ASSUME NEW s \in Services, initialized'[s] # initialized[s]
        PROVE  Abstract!Next
    <2>1. launched[s] /\ GivenMaster(n) = {s} /\ initialized'[s] /\ ~initialized[s]
      <3>1. s \in GivenMaster(n) /\ launched[s] /\ initialized'[s]
        BY <1>1, <1>4
      <3>2. initialized[s] \in BOOLEAN /\ initialized'[s] \in BOOLEAN
        BY ParamsHandled DEF Always, RingTypeOK, ServicesTypeOK
      <3>3. GivenMaster(n) = {s}
        BY <3>1, FilledIsGiven DEF Always
      <3>4. QED  BY <1>4, <3>1, <3>2, <3>3
    <2>2. \A r \in Services : r # s => initialized'[r] = initialized[r]
      BY <1>1, <2>1
    <2>3. Phase[s] = "launching" /\ Phase' = [Phase EXCEPT ![s] = "up"]
      BY <1>1, <2>1, <2>2 DEF Phase
    <2>4. Abstract!ComeUp(s)
      BY <1>2, <2>3 DEF Abstract!ComeUp, Phase, Workers
    <2>5. QED  BY <2>4 DEF Abstract!Next, Services
  <1>5. QED  BY <1>3, <1>4

LEMMA Abandons ==
  ASSUME Always, NEW n \in Nodes, setHodRingErrors(n), UNCHANGED cmds
  PROVE  Abstract!Next \/ UNCHANGED <<Phase, Workers>>
  <1>1. Workers' = Workers
    BY SameWorkers
  <1>2. CASE UNCHANGED serviceVars
    <2>1. UNCHANGED <<launched, initialized>>
      BY <1>2 DEF serviceVars
    <2>2. QED  BY <1>1, <2>1, SamePhase
  <1>3. ASSUME NEW s \in Services \ External, launched[s], MasterFailed(s)
        PROVE  Abstract!Next \/ UNCHANGED <<Phase, Workers>>
    <2>1. /\ ~launched'[s] /\ initialized' = initialized
          /\ \A r \in Services : r # s => launched'[r] = launched[r]
      BY <1>3, FailureCounted DEF Always, RingTypeOK
    <2>2. CASE initialized[s]
      <3>1. Phase' = Phase
        BY <2>1, <2>2 DEF Phase
      <3>2. QED  BY <1>1, <3>1
    <2>3. CASE ~initialized[s]
      <3>1. Phase[s] = "launching" /\ Phase' = [Phase EXCEPT ![s] = "down"]
        BY <1>3, <2>1, <2>3 DEF Phase
      <3>2. Abstract!Abandon(s)
        BY <1>1, <3>1 DEF Abstract!Abandon, Phase, Workers
      <3>3. QED  BY <3>2 DEF Abstract!Next, Services
    <2>4. QED  BY <2>2, <2>3
  <1>4. QED  BY <1>2, <1>3, ErrorsHandled DEF MasteredBy

(* A hodring becomes a worker, or gets nothing.                            *)
LEMMA Joins ==
  ASSUME Always, NEW n \in Nodes, ringPc[n] = "poll", UNCHANGED rmVars,
         cmds' = [cmds EXCEPT ![n] = WorkerCommands]
  PROVE  Abstract!Next \/ UNCHANGED <<Phase, Workers>>
  <1>1. /\ cmds[n] = <<>> /\ cmds'[n] = WorkerCommands
        /\ \A m \in Nodes : m # n => cmds'[m] = cmds[m]
    BY DEF Always, Given, RingTypeOK
  <1>2. Phase' = Phase
    <2>1. UNCHANGED <<launched, initialized>>
      BY DEF rmVars, serviceVars
    <2>2. QED  BY <2>1, SamePhase
  <1>3. CASE WorkerCommands = <<>>
    <2>1. Workers' = Workers
      BY <1>1, <1>3 DEF Workers
    <2>2. QED  BY <1>2, <2>1
  <1>4. CASE WorkerCommands # <<>>
    <2>1. WorkerCommands \in Seq(Commands) /\ AreWorkers(WorkerCommands) /\ \A s \in Services : initialized[s]
      BY <1>4, WorkersGiven, WorkersReplied DEF Always, RingTypeOK
    <2>2. 1 \in DOMAIN WorkerCommands
      BY <1>4, <2>1
    <2>3. cmds'[n] # <<>> /\ cmds'[n][1].name \in {"datanode", "tasktracker"}
      BY <1>1, <1>4, <2>1, <2>2 DEF AreWorkers
    <2>4. Workers' = Workers \cup {n}
      BY <1>1, <2>3 DEF Workers
    <2>5. \A s \in Services : Phase[s] = "up"
      BY <2>1 DEF Phase
    <2>6. Abstract!Join(n)
      BY <1>2, <2>4, <2>5 DEF Abstract!Join, Phase, Workers, Services
    <2>7. QED  BY <2>6 DEF Abstract!Next
  <1>5. QED  BY <1>3, <1>4

(* The reply to a hodring that is to be a master makes no worker of it.    *)
LEMMA Answers ==
  ASSUME Always, NEW n \in Nodes, Answer(n)
  PROVE  UNCHANGED <<Phase, Workers>>
  <1>1. UNCHANGED <<launched, initialized>> /\ giving.to = n
    BY DEF Answer, GiveMaster, setMasterAddress
  <1>2. CASE UNCHANGED cmds
    BY <1>1, <1>2, SamePhase, SameWorkers
  <1>3. CASE ringPc[n] = "asked" /\ cmds' = [cmds EXCEPT ![n] = giving.cmds]
    <2>1. giving # NoGift
      BY <1>1, Gifts
    <2>2. giving.service \in Services /\ IsMaster(giving.cmds, giving.service)
      BY <2>1 DEF Always, RingTypeOK, Gift
    <2>3. giving.cmds[1].name \in {"namenode", "jobtracker"}
      BY <2>2, ShapeOfMaster DEF MasterName, Services
    <2>4. /\ cmds[n] = <<>> /\ cmds'[n] = giving.cmds
          /\ \A m \in Nodes : m # n => cmds'[m] = cmds[m]
      BY <1>3 DEF Always, Given, RingTypeOK
    <2>5. Workers' = Workers
      BY <2>3, <2>4 DEF Workers
    <2>6. QED  BY <1>1, <2>5, SamePhase
  <1>4. QED  BY <1>2, <1>3 DEF Answer

LEMMA StepMaps ==
  ASSUME RingInv, [RingNext]_hodRingVars
  PROVE  [Abstract!Next]_<<Phase, Workers>>
  <1> DEFINE Maps == Abstract!Next \/ UNCHANGED <<Phase, Workers>>
  <1>0. Always
    BY DEF RingInv
  <1>1. ASSUME UNCHANGED cmds, UNCHANGED serviceVars PROVE Maps
    <2>1. UNCHANGED <<launched, initialized>>
      BY <1>1 DEF serviceVars
    <2>2. QED  BY <1>1, <2>1, SamePhase, SameWorkers
  <1>2. CASE RMStarts
    BY <1>1, <1>2 DEF RMStarts, StartRM, ringVars
  <1>3. ASSUME NEW n \in Nodes, RingStep(n) \/ TimeOut(n) \/ MissReply(n) \/ Unreachable(n) \/ Crash(n)
        PROVE  Maps
    <2>1. CASE Poll(n)
      <3>1. CASE TakeMaster(n) /\ UNCHANGED cmds
        BY <1>0, <3>1, Launches
      <3>2. CASE UNCHANGED rmVars /\ cmds' = [cmds EXCEPT ![n] = WorkerCommands]
        BY <1>0, <2>1, <3>2, Joins DEF Poll
      <3>3. QED  BY <2>1, <3>1, <3>2 DEF Poll
    <2>2. CASE Answer(n)
      BY <1>0, <2>2, Answers
    <2>3. CASE Report(n)
      <3>1. Filled(n) \subseteq GivenMaster(n)
        BY <1>0, FilledIsGiven DEF Always
      <3>2. QED  BY <1>0, <2>3, <3>1, Rises DEF Report
    <2>4. CASE Fail(n)
      BY <1>0, <2>4, Abandons DEF Fail, TellErrors
    <2>5. CASE \/ StartRing(n) \/ CommandFails(n) \/ CommandRuns(n)
               \/ TimeOut(n) \/ MissReply(n) \/ Unreachable(n) \/ Crash(n)
      BY <1>1, <2>5 DEF StartRing, CommandFails, CommandRuns, TimeOut, MissReply, Unreachable, Crash, rmVars
    <2>6. QED  BY <1>3, <2>1, <2>2, <2>3, <2>4, <2>5 DEF RingStep
  <1>4. ASSUME NEW c \in late, HandleLate(c[1], c[2], c[3]) PROVE Maps
    <2>1. c[2] \in {"getCommand", "addMasterParams", "setHodRingErrors"} /\ c[1] \in Nodes
      BY <1>0 DEF Always, RingTypeOK
    <2>2. UNCHANGED cmds
      BY <1>4 DEF HandleLate
    <2>3. CASE c[2] = "getCommand"
      <3>1. TakeMaster(c[1]) \/ UNCHANGED serviceVars
        BY <1>4, <2>3 DEF HandleLate
      <3>2. QED  BY <1>0, <1>1, <2>1, <2>2, <3>1, Launches
    <2>4. CASE c[2] = "addMasterParams"
      <3>1. c[3] \subseteq GivenMaster(c[1])
        BY <1>0, <2>4 DEF Always, LateCalls
      <3>2. QED  BY <1>0, <1>4, <2>1, <2>2, <2>4, <3>1, Rises DEF HandleLate
    <2>5. CASE c[2] = "setHodRingErrors"
      BY <1>0, <1>4, <2>1, <2>2, <2>5, Abandons DEF HandleLate, TellErrors
    <2>6. QED  BY <2>1, <2>3, <2>4, <2>5
  <1>5. CASE UNCHANGED hodRingVars
    BY <1>1, <1>5 DEF hodRingVars, rmVars, ringVars
  <1>6. QED  BY <1>2, <1>3, <1>4, <1>5 DEF RingNext

LEMMA InitMaps == RingInit => Abstract!Init
  <1> SUFFICES ASSUME RingInit PROVE Abstract!Init
    OBVIOUS
  <1>1. Phase = [s \in Services |-> IF s \in External THEN "up" ELSE "down"]
    BY DEF RingInit, RMInit, ServicesInit, Phase
  <1>2. Workers = {}
    BY DEF RingInit, Workers
  <1>3. QED  BY <1>1, <1>2 DEF Abstract!Init, Phase, Workers, Services

(* The hodrings and their ring master keep the promise of Cluster: masters *)
(* come up one after the other, Map/Reduce over an HDFS that works, a      *)
(* master that came up stays known, and workers join only a cluster whose  *)
(* masters are up, even when the ring master was disturbed                 *)
(* (getCommand, addMasterParams, setHodRingErrors).                        *)
THEOREM RingImplementsCluster == RingSpec => ImplementsCluster
  <1>1. RingInit => RingInv
    BY RingInitInv
  <1>2. RingInv /\ [RingNext]_hodRingVars => RingInv'
    BY RingNextInv
  <1>3. RingInit => Abstract!Init
    BY InitMaps
  <1>4. RingInv /\ [RingNext]_hodRingVars => [Abstract!Next]_<<Phase, Workers>>
    BY StepMaps
  <1>5. QED
    BY <1>1, <1>2, <1>3, <1>4, PTL DEF RingSpec, ImplementsCluster, Abstract!Spec, Phase, Workers

-----------------------------------------------------------------------------
(* The clients                                                             *)

One == INSTANCE HodProofs WITH
  Jobs <- {j1, j2}, NodeLimit <- 4, Attributes <- Attrs, Clients <- {p1}, Dirs <- {d1},
  DirsOf <- [p \in {p1} |-> {d1}], Ops <- {"allocate", "deallocate", "script", "info", "list"},
  Requests <- {Request(3, FALSE, 5), Request(5, TRUE, 0)}, Usage <- {2}, Retries <- 2,
  FeasibilityAttr <- TRUE, ScriptCode <- 99, MaxOps <- 2, MaxMishaps <- 1,
  pc <- hodPc, request <- allocation, asked <- jobArgs
Two == INSTANCE HodProofs WITH
  Jobs <- {j1, j2}, NodeLimit <- 4, Attributes <- Attrs, Clients <- {p1, p2}, Dirs <- {d1, d2},
  DirsOf <- [p \in {p1, p2} |-> IF p = p1 THEN {d1} ELSE {d2}],
  Ops <- {"allocate", "deallocate"},
  Requests <- {Request(3, FALSE, 0)}, Usage <- {0}, Retries <- 1,
  FeasibilityAttr <- FALSE, ScriptCode <- 99, MaxOps <- 2, MaxMishaps <- 0,
  pc <- hodPc, request <- allocation, asked <- jobArgs

(* These are the instances of Hod that the runs check.                     *)
LEMMA SameOne == /\ OneClient!Init <=> One!Init
                 /\ OneClient!Next <=> One!Next
<1>1. OneClient!Init <=> One!Init
  BY DEF OneClient!Init, One!Init, OneClient!NoEntries, One!NoEntries
<1>2. OneClient!Next <=> One!Next
  BY DEF
    OneClient!batchVars, One!batchVars, OneClient!Live, One!Live, OneClient!Submitted,
    One!Submitted, OneClient!QsubFailures, One!QsubFailures, OneClient!qsub, One!qsub,
    OneClient!getJobInfo, One!getJobInfo, OneClient!isJobFeasible, One!isJobFeasible,
    OneClient!deleteJob, One!deleteJob, OneClient!JobRuns, One!JobRuns, OneClient!fileVars,
    One!fileVars, OneClient!ringVars, One!ringVars, OneClient!callVars, One!callVars,
    OneClient!pollVars, One!pollVars, OneClient!saveVars, One!saveVars, OneClient!showVars,
    One!showVars, OneClient!Services, One!Services, OneClient!NoEntries, One!NoEntries,
    OneClient!CanAccess, One!CanAccess, OneClient!readUser, One!readUser, OneClient!StateFiles,
    One!StateFiles, OneClient!LastFile, One!LastFile, OneClient!readCluster, One!readCluster,
    OneClient!clear, One!clear, OneClient!Goto, One!Goto, OneClient!InScript, One!InScript,
    OneClient!Return, One!Return, OneClient!Handler, One!Handler, OneClient!RaiseInterrupt,
    One!RaiseInterrupt, OneClient!Raise, One!Raise, OneClient!Blame, One!Blame,
    OneClient!check_cluster, One!check_cluster, OneClient!is_cluster_deallocated,
    One!is_cluster_deallocated, OneClient!RingAlive, One!RingAlive, OneClient!stopRM, One!stopRM,
    OneClient!TellRM, One!TellRM, OneClient!WritesRecord, One!WritesRecord,
    OneClient!Start, One!Start, OneClient!Allocate, One!Allocate, OneClient!AllocateListed,
    One!AllocateListed, OneClient!ClearDead, One!ClearDead, OneClient!VerifyAccount,
    One!VerifyAccount, OneClient!GiveUp, One!GiveUp, OneClient!InterruptJob, One!InterruptJob,
    OneClient!CanRetry, One!CanRetry, OneClient!CountFailure, One!CountFailure, OneClient!Submit,
    One!Submit, OneClient!CheckJobStatus, One!CheckJobStatus, OneClient!FindRing, One!FindRing,
    OneClient!FindService, One!FindService, OneClient!GenSiteConf, One!GenSiteConf,
    OneClient!WriteOpen, One!WriteOpen, OneClient!WriteDump, One!WriteDump, OneClient!RecordFails,
    One!RecordFails, OneClient!RecordRead, One!RecordRead, OneClient!RemoveRead, One!RemoveRead,
    OneClient!UserOpen, One!UserOpen, OneClient!UserDump, One!UserDump, OneClient!End, One!End,
    OneClient!InvalidDirectory, One!InvalidDirectory, OneClient!Deallocate, One!Deallocate,
    OneClient!ClearState, One!ClearState, OneClient!Info, One!Info, OneClient!List, One!List,
    OneClient!RunScript, One!RunScript, OneClient!ScriptEnd, One!ScriptEnd, OneClient!ScriptExit,
    One!ScriptExit, OneClient!Running, One!Running, OneClient!Mishap, One!Mishap,
    OneClient!Interrupt, One!Interrupt, OneClient!Crash, One!Crash, OneClient!RingUp, One!RingUp,
    OneClient!ServiceUp, One!ServiceUp, OneClient!ServiceDies, One!ServiceDies,
    OneClient!RingStops, One!RingStops, OneClient!JobEnds, One!JobEnds, OneClient!Misfortune,
    One!Misfortune, OneClient!World, One!World, OneClient!Step, One!Step, OneClient!Next, One!Next
<1>3. QED BY <1>1, <1>2

LEMMA SameTwo == /\ TwoClients!Init <=> Two!Init
                 /\ TwoClients!Next <=> Two!Next
<1>1. TwoClients!Init <=> Two!Init
  BY DEF TwoClients!Init, Two!Init, TwoClients!NoEntries, Two!NoEntries
<1>2. TwoClients!Next <=> Two!Next
  BY DEF
    TwoClients!batchVars, Two!batchVars, TwoClients!Live, Two!Live, TwoClients!Submitted,
    Two!Submitted, TwoClients!QsubFailures, Two!QsubFailures, TwoClients!qsub, Two!qsub,
    TwoClients!getJobInfo, Two!getJobInfo, TwoClients!isJobFeasible, Two!isJobFeasible,
    TwoClients!deleteJob, Two!deleteJob, TwoClients!JobRuns, Two!JobRuns, TwoClients!fileVars,
    Two!fileVars, TwoClients!ringVars, Two!ringVars, TwoClients!callVars, Two!callVars,
    TwoClients!pollVars, Two!pollVars, TwoClients!saveVars, Two!saveVars, TwoClients!showVars,
    Two!showVars, TwoClients!Services, Two!Services, TwoClients!NoEntries, Two!NoEntries,
    TwoClients!CanAccess, Two!CanAccess, TwoClients!readUser, Two!readUser, TwoClients!StateFiles,
    Two!StateFiles, TwoClients!LastFile, Two!LastFile, TwoClients!readCluster, Two!readCluster,
    TwoClients!clear, Two!clear, TwoClients!Goto, Two!Goto, TwoClients!InScript, Two!InScript,
    TwoClients!Return, Two!Return, TwoClients!Handler, Two!Handler, TwoClients!RaiseInterrupt,
    Two!RaiseInterrupt, TwoClients!Raise, Two!Raise, TwoClients!Blame, Two!Blame,
    TwoClients!check_cluster, Two!check_cluster, TwoClients!is_cluster_deallocated,
    Two!is_cluster_deallocated, TwoClients!RingAlive, Two!RingAlive, TwoClients!stopRM, Two!stopRM,
    TwoClients!TellRM, Two!TellRM, TwoClients!WritesRecord, Two!WritesRecord,
    TwoClients!Start, Two!Start, TwoClients!Allocate, Two!Allocate, TwoClients!AllocateListed,
    Two!AllocateListed, TwoClients!ClearDead, Two!ClearDead, TwoClients!VerifyAccount,
    Two!VerifyAccount, TwoClients!GiveUp, Two!GiveUp, TwoClients!InterruptJob, Two!InterruptJob,
    TwoClients!CanRetry, Two!CanRetry, TwoClients!CountFailure, Two!CountFailure,
    TwoClients!Submit, Two!Submit, TwoClients!CheckJobStatus, Two!CheckJobStatus,
    TwoClients!FindRing, Two!FindRing, TwoClients!FindService, Two!FindService,
    TwoClients!GenSiteConf, Two!GenSiteConf, TwoClients!WriteOpen, Two!WriteOpen,
    TwoClients!WriteDump, Two!WriteDump, TwoClients!RecordFails, Two!RecordFails,
    TwoClients!RecordRead, Two!RecordRead, TwoClients!RemoveRead, Two!RemoveRead,
    TwoClients!UserOpen, Two!UserOpen, TwoClients!UserDump, Two!UserDump, TwoClients!End, Two!End,
    TwoClients!InvalidDirectory, Two!InvalidDirectory, TwoClients!Deallocate, Two!Deallocate,
    TwoClients!ClearState, Two!ClearState, TwoClients!Info, Two!Info, TwoClients!List, Two!List,
    TwoClients!RunScript, Two!RunScript, TwoClients!ScriptEnd, Two!ScriptEnd,
    TwoClients!ScriptExit, Two!ScriptExit, TwoClients!Running, Two!Running, TwoClients!Mishap,
    Two!Mishap, TwoClients!Interrupt, Two!Interrupt, TwoClients!Crash, Two!Crash,
    TwoClients!RingUp, Two!RingUp, TwoClients!ServiceUp, Two!ServiceUp, TwoClients!ServiceDies,
    Two!ServiceDies, TwoClients!RingStops, Two!RingStops, TwoClients!JobEnds, Two!JobEnds,
    TwoClients!Misfortune, Two!Misfortune, TwoClients!World, Two!World, TwoClients!Step, Two!Step,
    TwoClients!Next, Two!Next
<1>3. QED BY <1>1, <1>2

(* And they say the same.                                                  *)
LEMMA SameSaidOne ==
  /\ OneClient!TypeOK <=> One!TypeOK
  /\ OneClient!NoOrphan <=> One!NoOrphan
  /\ OneClient!ZeroMeansCluster <=> One!ZeroMeansCluster
  /\ OneClient!ScriptReleases <=> One!ScriptReleases
  /\ OneClient!StopsOnlyItsOwn <=> One!StopsOnlyItsOwn
  /\ OneClient!UserFileRestored <=> One!UserFileRestored
BY DEF
  OneClient!TypeOK, One!TypeOK, OneClient!NoOrphan, One!NoOrphan, OneClient!ZeroMeansCluster,
  One!ZeroMeansCluster, OneClient!ScriptReleases, One!ScriptReleases, OneClient!StopsOnlyItsOwn,
  One!StopsOnlyItsOwn, OneClient!UserFileRestored, One!UserFileRestored, OneClient!Live, One!Live,
  OneClient!Running, One!Running, OneClient!Recorded, One!Recorded

LEMMA SameSaidTwo ==
  /\ TwoClients!TypeOK <=> Two!TypeOK
  /\ TwoClients!NoOrphan <=> Two!NoOrphan
  /\ TwoClients!ZeroMeansCluster <=> Two!ZeroMeansCluster
  /\ TwoClients!ScriptReleases <=> Two!ScriptReleases
  /\ TwoClients!StopsOnlyItsOwn <=> Two!StopsOnlyItsOwn
  /\ TwoClients!UserFileRestored <=> Two!UserFileRestored
BY DEF
  TwoClients!TypeOK, Two!TypeOK, TwoClients!NoOrphan, Two!NoOrphan, TwoClients!ZeroMeansCluster,
  Two!ZeroMeansCluster, TwoClients!ScriptReleases, Two!ScriptReleases, TwoClients!StopsOnlyItsOwn,
  Two!StopsOnlyItsOwn, TwoClients!UserFileRestored, Two!UserFileRestored, TwoClients!Live,
  Two!Live, TwoClients!Running, Two!Running, TwoClients!Recorded, Two!Recorded

(* Both give every client a directory of its own.                          *)
LEMMA OneAssumed == One!HodAssumption
BY ClientAssumption DEF One!HodAssumption

LEMMA TwoAssumed == Two!HodAssumption
<1> DEFINE f == [p \in {p1, p2} |-> IF p = p1 THEN {d1} ELSE {d2}]
<1>1. f \in [{p1, p2} -> SUBSET {d1, d2}]
  OBVIOUS
<1>2. \A p, q \in {p1, p2} : p # q => f[p] \cap f[q] = {}
  BY ClientAssumption
<1> HIDE DEF f
<1>3. NoJob \notin {j1, j2}
  BY ClientAssumption
<1>4. QED BY <1>1, <1>2, <1>3 DEF Two!HodAssumption, f

(* The variables of the two are those of the part.                         *)
LEMMA SameVars == /\ UNCHANGED clientPart <=> UNCHANGED One!vars
                  /\ UNCHANGED clientPart <=> UNCHANGED Two!vars
BY DEF clientPart,
  One!vars, One!fileVars, One!batchVars, One!ringVars, One!callVars, One!pollVars, One!saveVars,
  One!showVars, Two!vars, Two!fileVars, Two!batchVars, Two!ringVars, Two!callVars, Two!pollVars,
  Two!saveVars, Two!showVars

(* Each part keeps the invariant of HodProofs.                              *)
ClientInv == /\ part = "client" => One!IInv
             /\ part = "clients" => Two!IInv

LEMMA ClientInit == AllInit => ClientInv
<1> SUFFICES ASSUME AllInit PROVE ClientInv
  OBVIOUS
<1>1. CASE part = "client"
  <2>1. One!Init
    BY <1>1, SameOne DEF AllInit
  <2>2. QED BY <1>1, <2>1, OneAssumed, One!InitIInv DEF ClientInv
<1>2. CASE part = "clients"
  <2>1. Two!Init
    BY <1>2, SameTwo DEF AllInit
  <2>2. QED BY <1>2, <2>1, TwoAssumed, Two!InitIInv DEF ClientInv
<1>3. QED BY <1>1, <1>2 DEF ClientInv

LEMMA ClientSteps ==
  ASSUME [AllNext]_allVars
  PROVE  /\ part' = part
         /\ part = "client" => [One!Next]_(One!vars)
         /\ part = "clients" => [Two!Next]_(Two!vars)
<1>1. part' = part
  BY DEF AllNext, Only, allVars
<1>2. \/ UNCHANGED clientPart
      \/ part = "client" /\ OneClient!Next
      \/ part = "clients" /\ TwoClients!Next
  BY DEF AllNext, Only, allVars
<1>3. QED BY <1>1, <1>2, SameVars, SameOne, SameTwo

LEMMA ClientStep == ClientInv /\ [AllNext]_allVars => ClientInv'
<1> SUFFICES ASSUME ClientInv, [AllNext]_allVars PROVE ClientInv'
  OBVIOUS
<1>1. part' = part
  BY ClientSteps
<1>2. CASE part = "client"
  <2>1. One!IInv /\ [One!Next]_(One!vars)
    BY <1>2, ClientSteps DEF ClientInv
  <2>2. One!IInv'
    BY <2>1, OneAssumed, One!NextIInv
  <2>3. QED BY <1>1, <1>2, <2>2 DEF ClientInv
<1>3. CASE part = "clients"
  <2>1. Two!IInv /\ [Two!Next]_(Two!vars)
    BY <1>3, ClientSteps DEF ClientInv
  <2>2. Two!IInv'
    BY <2>1, TwoAssumed, Two!NextIInv
  <2>3. QED BY <1>1, <1>3, <2>2 DEF ClientInv
<1>4. QED BY <1>1, <1>2, <1>3 DEF ClientInv

LEMMA ClientSays == ClientInv => NoOrphan /\ EndsAsReported
BY OneAssumed, TwoAssumed, One!IInvHolds, Two!IInvHolds, SameSaidOne, SameSaidTwo
   DEF ClientInv, NoOrphan, EndsAsReported, One!IInv, Two!IInv

(* No cluster is left without anyone who knows of it, and the list of the  *)
(* user's clusters is never lost.  (hadoopCluster.allocate, hodState)      *)
THEOREM NoClusterIsLost == AllSpec => []NoOrphan
BY ClientInit, ClientStep, ClientSays, PTL DEF AllSpec

(* Exit code 0 of allocate means the cluster that was asked for, recorded  *)
(* where deallocate finds it, and a script's cluster is released.          *)
(* (_op_allocate, script)                                                  *)
THEOREM ReportsAreTrue == AllSpec => []EndsAsReported
BY ClientInit, ClientStep, ClientSays, PTL DEF AllSpec

Own == /\ part = "client" => OneClient!StopsOnlyItsOwn
       /\ part = "clients" => TwoClients!StopsOnlyItsOwn
LEMMA OwnStep == ClientInv /\ [AllNext]_allVars => [Own]_clientPart
<1> SUFFICES ASSUME ClientInv, [AllNext]_allVars, clientPart' # clientPart PROVE Own
  BY DEF Own
<1>1. CASE part = "client"
  <2>1. One!IInv /\ [One!Next]_(One!vars)
    BY <1>1, ClientSteps DEF ClientInv
  <2>2. clientPart' # clientPart => ~UNCHANGED One!vars
    BY SameVars
  <2>3. [One!StopsOnlyItsOwn]_(One!vars)
    BY <2>1, OneAssumed, One!NextOwned
  <2>4. QED BY <1>1, <2>2, <2>3, SameSaidOne DEF Own
<1>2. CASE part = "clients"
  <2>1. Two!IInv /\ [Two!Next]_(Two!vars)
    BY <1>2, ClientSteps DEF ClientInv
  <2>2. clientPart' # clientPart => ~UNCHANGED Two!vars
    BY SameVars
  <2>3. [Two!StopsOnlyItsOwn]_(Two!vars)
    BY <2>1, TwoAssumed, Two!NextOwned
  <2>4. QED BY <1>2, <2>2, <2>3, SameSaidTwo DEF Own
<1>3. QED BY <1>1, <1>2 DEF Own

(* Two clients of one user never stop each other's clusters.               *)
(* (deallocate, delete_job, readCluster)                                   *)
THEOREM StopsOnlyOwn == AllSpec => OwnClustersOnly
<1>1. ClientInv /\ [AllNext]_allVars => [Own]_clientPart
  BY OwnStep
<1>2. QED BY <1>1, ClientInit, ClientStep, PTL DEF AllSpec, OwnClustersOnly, Own
=============================================================================
