------------------------------ MODULE HW4Proofs ------------------------------
(***************************************************************************)
(* What any number of runs of HW4 make of the two tables, for any labels,  *)
(* any division into training and testing instances and wherever the runs  *)
(* die: a row of randforest is the whole work of one run, and the constant *)
(* the precision is computed with is right for a table with enough rows.   *)
(***************************************************************************)
EXTENDS HW4, FiniteSetTheorems, SequenceTheorems, WellFoundedInduction,
        NaturalsInduction, TLAPS

-----------------------------------------------------------------------------
(* The inductive invariant, in parts.                                      *)

(* The types, with those of the tables and of the records as a whole.      *)
Runner == [pc : {"idle", "building", "classified", "stored", "died"},
           rfid : Rfids \cup {0}, N : TreeCounts \cup {0},
           training : SUBSET Instances, testing : SUBSET Instances,
           trees : Seq(SUBSET Labels), stats : Stats, matchCount : Nat]
RowOf == [trees : Seq(SUBSET Labels), stats : Stats, n : TreeCounts,
          precision : [num : Nat, den : Nat]]
Typed ==
  /\ forex \subseteq Instances
  /\ DOMAIN randforest \subseteq Rfids
  /\ randforest \in [DOMAIN randforest -> RowOf]
  /\ run \in [Runs -> Runner]

(* What the constants make of the rows that were read, for one run.  When  *)
(* there are testing instances, all the places for training are taken.     *)
Divided(x) ==
  /\ x.training \cap x.testing = {}
  /\ Cardinality(x.training) <= TRAIN_COUNT /\ Cardinality(x.testing) <= TEST_COUNT
  /\ x.testing # {} => Cardinality(x.training) = TRAIN_COUNT

(* The trees so far have their statistics, and those that are counted are  *)
(* among those that were tested.                                           *)
Grown(x) ==
  /\ x.pc \in {"building", "classified"} => x.rfid \in Rfids /\ x.N \in TreeCounts
  /\ Len(x.trees) = Len(x.stats) /\ Len(x.trees) <= x.N
  /\ \A i \in DOMAIN x.stats : x.stats[i].matched <= x.stats[i].tested
  /\ x.matchCount <= Cardinality(x.testing)
  /\ x.pc = "classified" => x.N > 0 /\ Len(x.trees) = x.N

RunsSound == \A c \in Runs : Divided(run[c]) /\ Grown(run[c])

IInv == Typed /\ RunsSound /\ RowOfOneRun /\ StoredForestWhole

-----------------------------------------------------------------------------
(* The rows that a query with a LIMIT returns.                             *)
LEMMA LeastOf ==
  ASSUME NEW S, S \subseteq Nat, S # {}
  PROVE  \E x \in S : \A y \in S : ~(y < x)
<1>1. PICK x \in S : \A y \in S : <<y, x>> \notin OpToRel(<, Nat)
  BY NatLessThanWellFounded, WFMin
<1> QED
  BY <1>1 DEF OpToRel

LEMMA GreatestOf ==
  ASSUME NEW n \in Nat, NEW S, S \subseteq 1..n, S # {}
  PROVE  \E x \in S : \A y \in S : y <= x
<1> DEFINE T == {n - x : x \in S}
<1>1. PICK z \in T : \A y \in T : ~(y < z)
  <2>1. T \subseteq Nat
    <3> SUFFICES ASSUME NEW x \in S PROVE n - x \in Nat
      OBVIOUS
    <3>1. x \in 1..n
      OBVIOUS
    <3> QED
      BY <3>1
  <2>2. T # {}
    OBVIOUS
  <2> HIDE DEF T
  <2> QED
    BY <2>1, <2>2, LeastOf
<1>2. PICK x \in S : z = n - x
  BY <1>1
<1>3. ASSUME NEW y \in S PROVE y <= x
  <2>1. ~(n - y < n - x)
    BY <1>1, <1>2
  <2>2. x \in 1..n /\ y \in 1..n
    OBVIOUS
  <2> QED
    BY <2>1, <2>2
<1> QED
  BY <1>3

LEMMA InstancesType == Instances = 1..Len(label) /\ Len(label) \in Nat
<1>1. label \in Seq(Labels)
  BY HW4Assumption
<1> QED
  BY <1>1, LenProperties DEF Instances

LEMMA InstancesFinite ==
  ASSUME NEW S, S \subseteq Instances
  PROVE  IsFiniteSet(S) /\ Cardinality(S) \in Nat
<1>2. Instances = 1..Len(label) /\ Len(label) \in Nat
  BY InstancesType
<1>3. IsFiniteSet(Instances)
  BY <1>2, FS_Interval
<1> QED
  BY <1>2, <1>3, FS_Subset, FS_CardinalityType

(* A query returns no more rows than its LIMIT, and all rows when it       *)
(* returns fewer.                                                          *)
LEMMA FirstBounds ==
  ASSUME NEW S, S \subseteq Instances, NEW n \in Nat
  PROVE  /\ First(S, n) \subseteq S
         /\ Cardinality(First(S, n)) <= n
         /\ Cardinality(First(S, n)) < n => First(S, n) = S
<1> DEFINE F == First(S, n)
           Below(x) == {y \in S : y < x}
<1>1. F \subseteq S /\ \A x \in S : x \in F <=> Cardinality(Below(x)) < n
  BY DEF First
<1>i. Instances = 1..Len(label) /\ Len(label) \in Nat
  BY InstancesType
<1>2. Cardinality(F) <= n
  <2>1. CASE F = {}
    BY <2>1, FS_EmptySet
  <2>2. CASE F # {}
    <3>1. PICK m \in F : \A y \in F : y <= m
      BY <1>1, <1>i, <2>2, GreatestOf
    <3>2. F \subseteq Below(m) \cup {m}
      <4> SUFFICES ASSUME NEW y \in F, y # m PROVE y < m
        BY <1>1
      <4>1. y \in 1..Len(label) /\ m \in 1..Len(label) /\ y <= m
        BY <1>1, <1>i, <3>1
      <4> QED
        BY <4>1, <1>i
    <3>3. IsFiniteSet(Below(m)) /\ m \notin Below(m) /\ Cardinality(Below(m)) \in Nat
      <4>1. Below(m) \subseteq Instances
        OBVIOUS
      <4>2. m \in 1..Len(label)
        BY <1>1, <1>i, <3>1
      <4>3. m \notin Below(m)
        BY <4>2, <1>i
      <4> QED
        BY <4>1, <4>3, InstancesFinite
    <3>4. /\ IsFiniteSet(Below(m) \cup {m})
          /\ Cardinality(Below(m) \cup {m}) = Cardinality(Below(m)) + 1
      BY <3>3, FS_AddElement
    <3>5. Cardinality(F) <= Cardinality(Below(m) \cup {m}) /\ Cardinality(F) \in Nat
      BY <1>1, <3>2, <3>4, FS_Subset, InstancesFinite
    <3>6. Cardinality(Below(m)) < n
      BY <1>1, <3>1
    <3> QED
      BY <3>3, <3>4, <3>5, <3>6
  <2> QED
    BY <2>1, <2>2
<1>3. ASSUME Cardinality(F) < n PROVE F = S
  <2> SUFFICES ASSUME S \ F # {} PROVE FALSE
    BY <1>1
  <2>a. S \ F \subseteq Nat
    <3> SUFFICES ASSUME NEW y \in S PROVE y \in Nat
      OBVIOUS
    <3>1. y \in 1..Len(label)
      BY <1>i
    <3> QED
      BY <3>1, <1>i
  <2>1. PICK m \in S \ F : \A y \in S \ F : ~(y < m)
    BY <2>a, LeastOf
  <2>2. Below(m) \subseteq F
    BY <2>1
  <2>3. Cardinality(Below(m)) <= Cardinality(F) /\ Cardinality(Below(m)) \in Nat /\ Cardinality(F) \in Nat
    BY <1>1, <2>2, InstancesFinite, FS_Subset
  <2>4. ~(Cardinality(Below(m)) < n)
    BY <1>1, <2>1
  <2> QED
    BY <1>3, <2>3, <2>4
<1> QED
  BY <1>1, <1>2, <1>3

(* What Select reads is divided as the constants say.                      *)
LEMMA Division ==
  ASSUME NEW S, S \subseteq Instances,
         NEW rows, rows = First(S, LIMIT),
         NEW train, train = First(rows, TRAIN_COUNT)
  PROVE  /\ train \subseteq Instances /\ rows \ train \subseteq Instances
         /\ Cardinality(train) <= TRAIN_COUNT /\ Cardinality(rows \ train) <= TEST_COUNT
         /\ rows \ train # {} => Cardinality(train) = TRAIN_COUNT
<1>0. TRAIN_COUNT \in Nat /\ TEST_COUNT \in Nat /\ LIMIT = TRAIN_COUNT + TEST_COUNT /\ LIMIT \in Nat
  BY HW4Assumption
<1>1. rows \subseteq Instances /\ Cardinality(rows) <= LIMIT
  BY <1>0, FirstBounds
<1>2. /\ train \subseteq rows /\ Cardinality(train) <= TRAIN_COUNT
      /\ Cardinality(train) < TRAIN_COUNT => train = rows
  BY <1>0, <1>1, FirstBounds
<1>3. /\ IsFiniteSet(rows) /\ IsFiniteSet(train)
      /\ Cardinality(rows) \in Nat /\ Cardinality(train) \in Nat
  BY <1>1, <1>2, InstancesFinite
<1>4. rows \cap train = train
  BY <1>2
<1>5. Cardinality(rows \ train) = Cardinality(rows) - Cardinality(train)
  <2>1. Cardinality(rows \ train) = Cardinality(rows) - Cardinality(rows \cap train)
    BY <1>3, FS_Difference
  <2> QED
    BY <1>4, <2>1
<1>6. rows \ train # {} => Cardinality(train) = TRAIN_COUNT
  BY <1>0, <1>2, <1>3
<1>7. Cardinality(rows \ train) <= TEST_COUNT
  <2>1. CASE train = rows
    <3>1. rows \ train = {}
      BY <2>1
    <3> QED
      BY <3>1, <1>0, FS_EmptySet
  <2>2. CASE train # rows
    BY <2>2, <1>0, <1>1, <1>2, <1>3, <1>5
  <2> QED
    BY <2>1, <2>2
<1> QED
  BY <1>1, <1>2, <1>6, <1>7

-----------------------------------------------------------------------------
(* A step of one run leaves the others, and with them the rows that they   *)
(* have stored.                                                            *)
LEMMA OneRun ==
  ASSUME IInv, NEW c \in Runs, NEW x \in Runner, Divided(x), Grown(x),
         run' = [run EXCEPT ![c] = x]
  PROVE  (\A d \in Runs : run'[d] \in Runner /\ Divided(run'[d]) /\ Grown(run'[d])) /\ RunsSound'
         /\ run' \in [Runs -> Runner] /\ \A d \in Runs \ {c} : run'[d] = run[d]
BY DEF IInv, Typed, RunsSound

LEMMA RowsStay ==
  ASSUME IInv, NEW c \in Runs, run[c].pc \notin {"stored", "died"},
         \A d \in Runs \ {c} : run'[d] = run[d], UNCHANGED randforest
  PROVE  RowOfOneRun' /\ StoredForestWhole'
<1>1. RowOfOneRun'
  <2> SUFFICES ASSUME NEW r \in DOMAIN randforest
               PROVE  \E d \in Runs : /\ run'[d].rfid = r /\ run'[d].pc \in {"stored", "died"}
                                      /\ randforest[r] = Row(d)'
    BY DEF RowOfOneRun
  <2>1. PICK d \in Runs : /\ run[d].rfid = r /\ run[d].pc \in {"stored", "died"}
                          /\ randforest[r] = Row(d)
    BY DEF IInv, RowOfOneRun
  <2>2. d # c
    BY <2>1
  <2> QED
    BY <2>1, <2>2 DEF Row, precision
<1>2. StoredForestWhole'
  BY DEF IInv, StoredForestWhole
<1> QED
  BY <1>1, <1>2

(* The INSERT of a run that has classified.                                *)
LEMMA RowReplaced ==
  ASSUME IInv, NEW c \in Runs, run[c].pc = "classified", randforest' = Stored(c),
         \A d \in Runs \ {c} : run'[d] = run[d],
         NEW at \in {"stored", "died"}, run'[c] = [run[c] EXCEPT !.pc = at]
  PROVE  /\ DOMAIN randforest' \subseteq Rfids
         /\ randforest' \in [DOMAIN randforest' -> RowOf]
         /\ RowOfOneRun' /\ StoredForestWhole'
<1> DEFINE x == run[c]
<1>1. x \in Runner /\ Divided(x) /\ Grown(x)
  BY DEF IInv, Typed, RunsSound
<1>2. x.rfid \in Rfids /\ x.N \in TreeCounts /\ x.N > 0 /\ Len(x.trees) = x.N /\ Len(x.stats) = x.N
  BY <1>1 DEF Grown
<1>3. /\ DOMAIN randforest' = DOMAIN randforest \cup {x.rfid}
      /\ randforest'[x.rfid] = Row(c)
      /\ \A r \in DOMAIN randforest \ {x.rfid} : randforest'[r] = randforest[r]
      /\ randforest' = [r \in DOMAIN randforest' |-> randforest'[r]]
  BY DEF Stored
<1>4. Row(c) \in RowOf
  BY <1>1, <1>2, HW4Assumption DEF Row, precision, RowOf, Runner
<1>5. Row(c)' = Row(c) /\ run'[c].rfid = x.rfid /\ run'[c].pc = at
  BY <1>1 DEF Row, precision, Runner
<1>6. DOMAIN randforest' \subseteq Rfids
  BY <1>2, <1>3 DEF IInv, Typed
<1>7. \A r \in DOMAIN randforest' : randforest'[r] \in RowOf
  BY <1>3, <1>4 DEF IInv, Typed
<1>8. RowOfOneRun'
  <2> SUFFICES ASSUME NEW r \in DOMAIN randforest'
               PROVE  \E d \in Runs : /\ run'[d].rfid = r /\ run'[d].pc \in {"stored", "died"}
                                      /\ randforest'[r] = Row(d)'
    BY DEF RowOfOneRun
  <2>1. CASE r = x.rfid
    BY <2>1, <1>3, <1>5
  <2>2. CASE r # x.rfid
    <3>1. r \in DOMAIN randforest /\ randforest'[r] = randforest[r]
      BY <2>2, <1>3
    <3>2. PICK d \in Runs : /\ run[d].rfid = r /\ run[d].pc \in {"stored", "died"}
                            /\ randforest[r] = Row(d)
      BY <3>1 DEF IInv, RowOfOneRun
    <3>3. d # c
      BY <3>2
    <3>4. Row(d)' = Row(d) /\ run'[d] = run[d]
      BY <3>3 DEF Row, precision
    <3> QED
      BY <3>1, <3>2, <3>4
  <2> QED
    BY <2>1, <2>2
<1>9. StoredForestWhole'
  <2> SUFFICES ASSUME NEW r \in DOMAIN randforest'
               PROVE  LET f == randforest'[r]
                      IN  /\ f.n > 0 /\ Len(f.trees) = f.n /\ Len(f.stats) = f.n
                          /\ \A i \in 1..f.n : f.stats[i].matched <= f.stats[i].tested
    BY DEF StoredForestWhole
  <2>1. CASE r = x.rfid
    <3>1. /\ randforest'[r].n = x.N /\ randforest'[r].trees = x.trees
          /\ randforest'[r].stats = x.stats
      BY <2>1, <1>3 DEF Row
    <3>2. DOMAIN x.stats = 1..x.N
      BY <1>1, <1>2 DEF Runner, Stats
    <3> QED
      BY <3>1, <3>2, <1>1, <1>2 DEF Grown
  <2>2. CASE r # x.rfid
    BY <2>2, <1>3 DEF IInv, StoredForestWhole
  <2> QED
    BY <2>1, <2>2
<1> QED
  BY <1>3, <1>6, <1>7, <1>8, <1>9

-----------------------------------------------------------------------------
LEMMA InitIInv == Init => IInv
<1> SUFFICES ASSUME Init PROVE IInv
  OBVIOUS
<1>1. NotStarted \in Runner
  BY DEF NotStarted, Runner, Stats
<1>2. Typed
  BY <1>1 DEF Init, Typed, RowOf
<1>3. Divided(NotStarted) /\ Grown(NotStarted)
  BY FS_EmptySet, HW4Assumption DEF NotStarted, Divided, Grown
<1>4. RunsSound
  BY <1>3 DEF Init, RunsSound
<1>5. RowOfOneRun /\ StoredForestWhole
  BY DEF Init, RowOfOneRun, StoredForestWhole
<1> QED
  BY <1>2, <1>4, <1>5 DEF IInv

(* main reads the table.                                                   *)
LEMMA SelectStep ==
  ASSUME IInv, NEW c \in Runs, NEW r \in Rfids, NEW n \in TreeCounts, Select(c, r, n)
  PROVE  IInv'
<1> DEFINE rows == First(forex, LIMIT)
           train == First(rows, TRAIN_COUNT)
           x == [NotStarted EXCEPT !.pc = "building", !.rfid = r, !.N = n,
                                   !.training = train, !.testing = rows \ train]
<1>1. /\ run[c].pc = "idle" /\ run' = [run EXCEPT ![c] = x]
      /\ UNCHANGED <<forex, randforest>>
  BY DEF Select
<1>2. /\ train \subseteq Instances /\ rows \ train \subseteq Instances
      /\ Cardinality(train) <= TRAIN_COUNT /\ Cardinality(rows \ train) <= TEST_COUNT
      /\ rows \ train # {} => Cardinality(train) = TRAIN_COUNT
  <2>1. forex \subseteq Instances
    BY DEF IInv, Typed
  <2> HIDE DEF rows, train
  <2>2. rows = First(forex, LIMIT) /\ train = First(rows, TRAIN_COUNT)
    BY DEF rows, train
  <2> QED
    BY <2>1, <2>2, Division
<1>3. n \in Nat /\ Cardinality(rows \ train) \in Nat
  BY <1>2, HW4Assumption, InstancesFinite
<1>4. /\ x.pc = "building" /\ x.rfid = r /\ x.N = n /\ x.training = train
      /\ x.testing = rows \ train /\ x.trees = <<>> /\ x.stats = <<>> /\ x.matchCount = 0
  BY DEF NotStarted
<1>5. x \in Runner
  <2>1. <<>> \in Seq(SUBSET Labels) /\ <<>> \in Stats /\ 0 \in Nat
    BY DEF Stats
  <2> HIDE DEF rows, train
  <2> QED
    BY <1>2, <2>1 DEF Runner, NotStarted
<1> HIDE DEF x
<1>6. Divided(x)
  BY <1>2, <1>4 DEF Divided
<1>7. Grown(x)
  BY <1>3, <1>4 DEF Grown
<1>8. RunsSound' /\ run' \in [Runs -> Runner] /\ \A d \in Runs \ {c} : run'[d] = run[d]
  BY <1>1, <1>5, <1>6, <1>7, OneRun
<1>9. RowOfOneRun' /\ StoredForestWhole'
  BY <1>1, <1>8, RowsStay
<1> QED
  BY <1>1, <1>8, <1>9 DEF IInv, Typed

(* buildForest.                                                            *)
LEMMA GrowStep ==
  ASSUME IInv, NEW c \in Runs, NEW train, train \subseteq run[c].training, NEW predict,
         GrowTree(c, train, predict)
  PROVE  IInv'
<1> DEFINE o == run[c]
           test == o.training \ train
           hit == {i \in test : predict[i] = label[i]}
           st == [matched |-> Cardinality(hit), tested |-> Cardinality(test)]
           x == [o EXCEPT !.trees = Append(@, LabelsOf(train)), !.stats = Append(@, st)]
<1>1. /\ o.pc = "building" /\ Len(o.trees) < o.N /\ UNCHANGED <<forex, randforest>>
  BY DEF GrowTree, Building
<1>2. o \in Runner /\ Divided(o) /\ Grown(o)
  BY DEF IInv, Typed, RunsSound
<1>3. run' = [run EXCEPT ![c] = x]
  BY <1>2 DEF GrowTree, IInv, Typed, Runner
<1>4. st \in [matched : Nat, tested : Nat] /\ st.matched <= st.tested
  <2>1. test \subseteq Instances /\ hit \subseteq test
    BY <1>2 DEF Runner
  <2>2. /\ IsFiniteSet(test) /\ Cardinality(test) \in Nat /\ Cardinality(hit) \in Nat
        /\ Cardinality(hit) <= Cardinality(test)
    BY <2>1, InstancesFinite, FS_Subset
  <2> QED
    BY <2>2
<1>5. LabelsOf(train) \in SUBSET Labels
  BY <1>2, HW4Assumption DEF LabelsOf, Runner, Instances
<1> HIDE DEF st
<1>6. /\ x.pc = o.pc /\ x.rfid = o.rfid /\ x.N = o.N /\ x.training = o.training
      /\ x.testing = o.testing /\ x.matchCount = o.matchCount
      /\ x.trees = Append(o.trees, LabelsOf(train)) /\ x.stats = Append(o.stats, st)
  BY <1>2 DEF Runner
<1>7. x \in Runner
  <2>1. /\ Append(o.trees, LabelsOf(train)) \in Seq(SUBSET Labels)
        /\ Append(o.stats, st) \in Stats
    BY <1>2, <1>4, <1>5 DEF Runner, Stats
  <2> QED
    BY <1>2, <2>1 DEF Runner
<1> HIDE DEF x
<1>8. Divided(x)
  BY <1>2, <1>6 DEF Divided
<1>9. Grown(x)
  <2>a. o.trees \in Seq(SUBSET Labels) /\ o.stats \in Seq([matched : Nat, tested : Nat])
    BY <1>2 DEF Runner, Stats
  <2>b. Len(x.trees) = Len(o.trees) + 1 /\ Len(o.trees) \in Nat
    BY <1>5, <1>6, <2>a, AppendProperties, LenProperties
  <2>c. /\ Len(x.stats) = Len(o.stats) + 1 /\ DOMAIN o.stats = 1..Len(o.stats)
        /\ Len(o.stats) \in Nat /\ DOMAIN x.stats = 1..(Len(o.stats) + 1)
        /\ x.stats[Len(o.stats) + 1] = st
        /\ \A i \in 1..Len(o.stats) : x.stats[i] = o.stats[i]
    BY <1>4, <1>6, <2>a
  <2>1. /\ Len(x.trees) = Len(o.trees) + 1 /\ Len(x.stats) = Len(o.stats) + 1
        /\ Len(o.trees) \in Nat /\ DOMAIN o.stats = 1..Len(o.stats)
        /\ DOMAIN x.stats = 1..(Len(o.stats) + 1) /\ x.stats[Len(o.stats) + 1] = st
        /\ \A i \in DOMAIN o.stats : x.stats[i] = o.stats[i]
    BY <2>b, <2>c
  <2>2. o.N \in Nat
    <3>1. o.N \in TreeCounts
      BY <1>1, <1>2 DEF Grown
    <3> QED
      BY <3>1, HW4Assumption
  <2>3. \A i \in DOMAIN x.stats : x.stats[i].matched <= x.stats[i].tested
    <3> SUFFICES ASSUME NEW i \in DOMAIN x.stats PROVE x.stats[i].matched <= x.stats[i].tested
      OBVIOUS
    <3>1. i \in DOMAIN o.stats \/ x.stats[i] = st
      BY <2>1, <1>2 DEF Grown
    <3> QED
      BY <3>1, <2>1, <1>2, <1>4 DEF Grown
  <2> QED
    BY <1>1, <1>2, <1>6, <2>1, <2>2, <2>3 DEF Grown
<1>10. RunsSound' /\ run' \in [Runs -> Runner] /\ \A d \in Runs \ {c} : run'[d] = run[d]
  BY <1>3, <1>7, <1>8, <1>9, OneRun
<1>11. RowOfOneRun' /\ StoredForestWhole'
  BY <1>1, <1>10, RowsStay
<1> QED
  BY <1>1, <1>10, <1>11 DEF IInv, Typed

(* classify.                                                               *)
LEMMA ClassifyStep ==
  ASSUME IInv, NEW c \in Runs, NEW labels, classify(c, labels)
  PROVE  IInv'
<1> DEFINE o == run[c]
           hit == {t \in o.testing : label[t] = MaxEntry(labels[t])}
           x == [o EXCEPT !.pc = "classified", !.matchCount = Cardinality(hit)]
<1>1. /\ o.pc = "building" /\ Len(o.trees) = o.N /\ o.N > 0 /\ UNCHANGED <<forex, randforest>>
  BY DEF classify
<1>2. o \in Runner /\ Divided(o) /\ Grown(o)
  BY DEF IInv, Typed, RunsSound
<1>3. run' = [run EXCEPT ![c] = x]
  BY <1>2 DEF classify, IInv, Typed, Runner
<1>4. Cardinality(hit) \in Nat /\ Cardinality(hit) <= Cardinality(o.testing)
  <2>1. o.testing \subseteq Instances /\ hit \subseteq o.testing
    BY <1>2 DEF Runner
  <2> QED
    BY <2>1, InstancesFinite, FS_Subset
<1> HIDE DEF hit
<1>5. /\ x.pc = "classified" /\ x.rfid = o.rfid /\ x.N = o.N /\ x.training = o.training
      /\ x.testing = o.testing /\ x.matchCount = Cardinality(hit)
      /\ x.trees = o.trees /\ x.stats = o.stats /\ x \in Runner
  BY <1>2, <1>4 DEF Runner
<1> HIDE DEF x
<1>6. Divided(x) /\ Grown(x)
  BY <1>1, <1>2, <1>4, <1>5 DEF Divided, Grown
<1>7. RunsSound' /\ run' \in [Runs -> Runner] /\ \A d \in Runs \ {c} : run'[d] = run[d]
  BY <1>3, <1>5, <1>6, OneRun
<1>8. RowOfOneRun' /\ StoredForestWhole'
  BY <1>1, <1>7, RowsStay
<1> QED
  BY <1>1, <1>7, <1>8 DEF IInv, Typed

(* The end of a run, with its INSERT made or not.                          *)
LEMMA EndStep ==
  ASSUME IInv, NEW c \in Runs, run[c].pc \notin {"stored", "died"}, UNCHANGED forex,
         NEW at \in {"stored", "died"}, run' = [run EXCEPT ![c].pc = at],
         UNCHANGED randforest \/ (run[c].pc = "classified" /\ randforest' = Stored(c))
  PROVE  IInv'
<1> DEFINE o == run[c]
           x == [o EXCEPT !.pc = at]
<1>1. o \in Runner /\ Divided(o) /\ Grown(o)
  BY DEF IInv, Typed, RunsSound
<1>2. run' = [run EXCEPT ![c] = x]
  BY DEF IInv, Typed
<1>3. /\ x.pc = at /\ x.rfid = o.rfid /\ x.N = o.N /\ x.training = o.training
      /\ x.testing = o.testing /\ x.matchCount = o.matchCount
      /\ x.trees = o.trees /\ x.stats = o.stats /\ x \in Runner
  BY <1>1 DEF Runner
<1>4. run'[c] = x
  BY <1>2 DEF IInv, Typed
<1>5. run'[c] = [run[c] EXCEPT !.pc = at]
  BY <1>4
<1> HIDE DEF x
<1>6. Divided(x) /\ Grown(x)
  BY <1>1, <1>3 DEF Divided, Grown
<1>7. RunsSound' /\ run' \in [Runs -> Runner] /\ \A d \in Runs \ {c} : run'[d] = run[d]
  BY <1>2, <1>3, <1>6, OneRun
<1>8. CASE UNCHANGED randforest
  <2>1. RowOfOneRun' /\ StoredForestWhole'
    BY <1>7, <1>8, RowsStay
  <2> QED
    BY <1>7, <1>8, <2>1 DEF IInv, Typed
<1>9. CASE run[c].pc = "classified" /\ randforest' = Stored(c)
  <2>1. /\ DOMAIN randforest' \subseteq Rfids
        /\ randforest' \in [DOMAIN randforest' -> RowOf]
        /\ RowOfOneRun' /\ StoredForestWhole'
    BY <1>5, <1>7, <1>9, RowReplaced
  <2> QED
    BY <1>7, <2>1 DEF IInv, Typed
<1> QED
  BY <1>8, <1>9

LEMMA WorkStep == ASSUME IInv, NEW c \in Runs, Work(c) PROVE IInv'
<1>1. ASSUME NEW train \in kSubset(TrainSize(c), run[c].training),
             NEW predict \in [run[c].training \ train -> LabelsOf(train)],
             GrowTree(c, train, predict)
      PROVE  IInv'
  <2>1. train \subseteq run[c].training
    BY DEF kSubset
  <2> QED
    BY <1>1, <2>1, GrowStep
<1>2. ASSUME NEW labels, classify(c, labels) PROVE IInv'
  BY <1>2, ClassifyStep
<1>3. CASE EmptyTree(c) \/ NoTrees(c)
  <2>1. /\ run[c].pc = "building" /\ run' = [run EXCEPT ![c].pc = "died"]
        /\ UNCHANGED <<forex, randforest>>
    BY <1>3 DEF EmptyTree, NoTrees, Building, Die
  <2> QED
    BY <2>1, EndStep
<1>4. CASE Insert(c)
  <2>1. /\ run[c].pc = "classified" /\ run' = [run EXCEPT ![c].pc = "stored"]
        /\ randforest' = Stored(c) /\ UNCHANGED forex
    BY <1>4 DEF Insert
  <2> QED
    BY <2>1, EndStep
<1> QED
  BY <1>1, <1>2, <1>3, <1>4 DEF Work

LEMMA NextIInv == IInv /\ [Next]_vars => IInv'
<1> SUFFICES ASSUME IInv, [Next]_vars PROVE IInv'
  OBVIOUS
<1>1. ASSUME UNCHANGED <<randforest, run>>, forex' \subseteq Instances PROVE IInv'
  <2>1. Typed' /\ RunsSound' /\ StoredForestWhole'
    BY <1>1 DEF IInv, Typed, RunsSound, StoredForestWhole
  <2>2. RowOfOneRun'
    BY <1>1 DEF IInv, RowOfOneRun, Row, precision
  <2> QED
    BY <2>1, <2>2 DEF IInv
<1>2. CASE UNCHANGED vars
  BY <1>1, <1>2 DEF vars, IInv, Typed
<1>3. ASSUME NEW i \in Instances, Load(i) PROVE IInv'
  BY <1>1, <1>3 DEF Load, IInv, Typed
<1>4. ASSUME NEW c \in Runs, Fails(c) PROVE IInv'
  BY <1>4, EndStep DEF Fails, Die
<1> QED
  BY <1>2, <1>3, <1>4, SelectStep, WorkStep DEF Next, Rest

-----------------------------------------------------------------------------
LEMMA IInvSound == IInv => RowSound
<1> SUFFICES ASSUME IInv PROVE RowSound
  OBVIOUS
<1>1. TypeOK
  <2>1. \A r \in DOMAIN randforest : randforest[r] \in RowOf
    BY DEF IInv, Typed
  <2>2. \A c \in Runs : run[c] \in Runner
    BY DEF IInv, Typed
  <2> QED
    BY <2>1, <2>2 DEF TypeOK, RowOf, Runner, IInv, Typed
<1>2. PrecisionSound
  <2> SUFFICES ASSUME NEW c \in Runs, run[c].pc = "classified"
               PROVE  /\ precision(c).num <= precision(c).den
                      /\ precision(c).num > 0 => Cardinality(run[c].training) = TRAIN_COUNT
                      /\ Cardinality(run[c].training \cup run[c].testing) = LIMIT =>
                           Cardinality(run[c].testing) = precision(c).den
    BY DEF PrecisionSound
  <2> DEFINE x == run[c]
  <2>1. x \in Runner /\ Divided(x) /\ Grown(x)
    BY DEF IInv, Typed, RunsSound
  <2>2. precision(c).num = x.matchCount /\ precision(c).den = TEST_COUNT
    BY DEF precision
  <2>3. /\ IsFiniteSet(x.training) /\ IsFiniteSet(x.testing)
        /\ Cardinality(x.training) \in Nat /\ Cardinality(x.testing) \in Nat
        /\ x.matchCount \in Nat /\ TRAIN_COUNT \in Nat /\ TEST_COUNT \in Nat
    BY <2>1, InstancesFinite, HW4Assumption DEF Runner
  <2>4. x.matchCount <= TEST_COUNT
    BY <2>1, <2>3 DEF Divided, Grown
  <2>5. x.matchCount > 0 => x.testing # {}
    BY <2>1, <2>3, FS_EmptySet DEF Grown
  <2>6. Cardinality(x.training \cup x.testing) = Cardinality(x.training) + Cardinality(x.testing)
    <3>1. Cardinality(x.training \cap x.testing) = 0
      BY <2>1, FS_EmptySet DEF Divided
    <3>2. Cardinality(x.training \cup x.testing)
            = Cardinality(x.training) + Cardinality(x.testing) - Cardinality(x.training \cap x.testing)
      BY <2>3, FS_Union
    <3> QED
      BY <2>3, <3>1, <3>2
  <2> QED
    BY <2>1, <2>2, <2>3, <2>4, <2>5, <2>6, HW4Assumption DEF Divided
<1> QED
  BY <1>1, <1>2 DEF RowSound, IInv

(* However many runs are given the same rfid, and wherever they die, a row *)
(* is the whole work of one of them, and 2000 is right as the number of    *)
(* testing instances of a full table (main of HW4).                        *)
THEOREM RowsAreSound == Spec => []RowSound
<1>1. Init => IInv
  BY InitIInv
<1>2. IInv /\ [Next]_vars => IInv'
  BY NextIInv
<1>3. IInv => RowSound
  BY IInvSound
<1> QED
  BY <1>1, <1>2, <1>3, PTL DEF Spec
=============================================================================
