------------------------- MODULE RandomForestProofs -------------------------
(***************************************************************************)
(* What HW3 reports, for any file, any number of trees and any features:   *)
(* every testing instance gets the label with most votes, ties are decided *)
(* as the order of the HashMap has it, no label is predicted that was not  *)
(* trained on, and the report is whole or empty.                           *)
(***************************************************************************)
EXTENDS RandomForest, FiniteSetTheorems, SequenceTheorems, WellFoundedInduction,
        NaturalsInduction, TLAPS

-----------------------------------------------------------------------------
(* countVotes.                                                             *)

LEMMA LeastOf ==
  ASSUME NEW S, S \subseteq Nat, S # {}
  PROVE  \E x \in S : \A y \in S : x <= y
<1>1. PICK x \in S : \A y \in S : <<y, x>> \notin OpToRel(<, Nat)
  BY NatLessThanWellFounded, WFMin
<1>2. \A y \in S : ~(y < x)
  BY <1>1 DEF OpToRel
<1> QED
  BY <1>2

(* A label has votes when it is in the column, and then a first one.       *)
LEMMA VotesType ==
  ASSUME NEW n \in Nat, NEW col \in [1..n -> Labels], NEW l
  PROVE  /\ Votes(col, l) \in Nat
         /\ Votes(col, l) > 0 <=> \E i \in 1..n : col[i] = l
         /\ (\E i \in 1..n : col[i] = l) =>
              FirstVote(col, l) \in 1..n /\ col[FirstVote(col, l)] = l
<1> DEFINE V == {i \in DOMAIN col : col[i] = l}
<1>1. V \subseteq 1..n /\ (V # {} <=> \E i \in 1..n : col[i] = l)
  OBVIOUS
<1>2. IsFiniteSet(V) /\ Cardinality(V) \in Nat
  <2>1. IsFiniteSet(1..n)
    BY FS_Interval
  <2>2. IsFiniteSet(V)
    BY <1>1, <2>1, FS_Subset
  <2> QED
    BY <2>2, FS_CardinalityType
<1>3. Cardinality(V) = 0 <=> V = {}
  BY <1>2, FS_EmptySet
<1>4. ASSUME V # {} PROVE Min(V) \in V
  <2>1. V \subseteq Nat
    BY <1>1
  <2>2. \E x \in V : \A y \in V : x <= y
    BY <1>4, <2>1, LeastOf
  <2> QED
    BY <2>2 DEF Min
<1>5. Votes(col, l) = Cardinality(V) /\ FirstVote(col, l) = Min(V)
  BY DEF Votes, FirstVote
<1>6. V # {} => FirstVote(col, l) \in 1..n /\ col[FirstVote(col, l)] = l
  BY <1>1, <1>4, <1>5
<1> QED
  BY <1>1, <1>2, <1>3, <1>5, <1>6

(* One entry comes before another when it has more votes, or as many and   *)
(* is yielded first.                                                       *)
Beats(col, l, m) ==
  \/ m = l
  \/ Votes(col, l) > Votes(col, m)
  \/ Votes(col, l) = Votes(col, m) /\ EntryBefore(col, l, m)

(* There are three labels: what is total and transitive on them has a      *)
(* first one among any of them.                                            *)
LEMMA BestExists ==
  ASSUME NEW n \in Nat, n > 0, NEW col \in [1..n -> Labels]
  PROVE  \E l \in {col[i] : i \in DOMAIN col} :
           \A m \in {col[i] : i \in DOMAIN col} : Beats(col, l, m)
<1> DEFINE S == {col[i] : i \in DOMAIN col}
           v(l) == Votes(col, l)
           f(l) == FirstVote(col, l)
<1>1. S \subseteq {-1, 0, 1} /\ S # {}
  <2>1. col[1] \in S
    OBVIOUS
  <2>2. S \subseteq {-1, 0, 1}
    BY DEF Labels
  <2> QED
    BY <2>1, <2>2
<1>2. v(-1) \in Nat /\ v(0) \in Nat /\ v(1) \in Nat
  BY VotesType
<1>3. -1 \in S /\ 0 \in S => f(-1) \in Nat /\ f(0) \in Nat /\ f(-1) # f(0)
  <2> SUFFICES ASSUME -1 \in S, 0 \in S PROVE f(-1) \in Nat /\ f(0) \in Nat /\ f(-1) # f(0)
    OBVIOUS
  <2>1. (\E i \in 1..n : col[i] = -1) /\ \E i \in 1..n : col[i] = 0
    OBVIOUS
  <2>2. f(-1) \in 1..n /\ col[f(-1)] = -1 /\ f(0) \in 1..n /\ col[f(0)] = 0
    BY <2>1, VotesType
  <2> QED
    BY <2>2
<1>4. /\ \A l \in {-1, 0} : v(l) >= v(1) => Beats(col, l, 1)
      /\ v(-1) > v(0) \/ (v(-1) = v(0) /\ f(-1) < f(0)) => Beats(col, -1, 0)
      /\ v(0) > v(-1) \/ (v(-1) = v(0) /\ f(0) < f(-1)) => Beats(col, 0, -1)
      /\ \A l \in {-1, 0} : v(1) > v(l) => Beats(col, 1, l)
      /\ \A l : Beats(col, l, l)
  BY <1>2 DEF Beats, EntryBefore
<1> HIDE DEF S, v, f
<1>5. \E l \in S : \A m \in S : Beats(col, l, m)
  <2>1. CASE 1 \in S /\ (-1 \in S => v(1) > v(-1)) /\ (0 \in S => v(1) > v(0))
    BY <1>1, <1>4, <2>1
  <2>2. CASE -1 \in S /\ (0 \in S => v(-1) > v(0) \/ (v(-1) = v(0) /\ f(-1) < f(0)))
                      /\ (1 \in S => v(-1) >= v(1))
    BY <1>1, <1>4, <2>2
  <2>3. CASE 0 \in S /\ (-1 \in S => v(0) > v(-1) \/ (v(-1) = v(0) /\ f(0) < f(-1)))
                     /\ (1 \in S => v(0) >= v(1))
    BY <1>1, <1>4, <2>3
  <2>4. -1 \in S \/ 0 \in S \/ 1 \in S
    BY <1>1
  <2>5. /\ v(-1) > v(0) \/ v(-1) = v(0) \/ v(0) > v(-1)
        /\ v(1) > v(-1) \/ v(-1) >= v(1)
        /\ v(1) > v(0) \/ v(0) >= v(1)
        /\ v(1) > v(-1) /\ v(0) >= v(1) => v(0) > v(-1)
        /\ v(1) > v(0) /\ v(-1) >= v(1) => v(-1) > v(0)
        /\ v(-1) > v(0) /\ v(0) >= v(1) => v(-1) >= v(1)
        /\ v(0) > v(-1) /\ v(-1) >= v(1) => v(0) >= v(1)
        /\ v(0) = v(-1) /\ v(0) >= v(1) => v(-1) >= v(1)
        /\ v(0) = v(-1) /\ v(-1) >= v(1) => v(0) >= v(1)
    BY <1>2
  <2>6. -1 \in S /\ 0 \in S => f(-1) < f(0) \/ f(0) < f(-1)
    BY <1>3
  <2> QED
    BY <2>1, <2>2, <2>3, <2>4, <2>5, <2>6
<1> QED
  BY <1>5 DEF S

(* The label countVotes picks has been voted for, and comes before all     *)
(* others.                                                                 *)
LEMMA MaxEntryBest ==
  ASSUME NEW n \in Nat, n > 0, NEW col \in [1..n -> Labels]
  PROVE  /\ \E i \in 1..n : MaxEntry(col) = col[i]
         /\ \A l \in Labels : Votes(col, l) <= Votes(col, MaxEntry(col))
         /\ \A l \in Labels \ {MaxEntry(col)} :
              Votes(col, l) = Votes(col, MaxEntry(col)) =>
                /\ MaxEntry(col) # 1
                /\ l # 1 => FirstVote(col, MaxEntry(col)) < FirstVote(col, l)
<1> DEFINE S == {col[i] : i \in DOMAIN col}
           best == MaxEntry(col)
<1>1. best \in S /\ \A m \in S : Beats(col, best, m)
  <2>1. best = CHOOSE l \in S : \A m \in S : Beats(col, l, m)
    BY DEF MaxEntry, Beats
  <2>2. \E l \in S : \A m \in S : Beats(col, l, m)
    BY BestExists
  <2> QED
    BY <2>1, <2>2
<1>2. \E i \in 1..n : best = col[i]
  BY <1>1
<1>3. Votes(col, best) \in Nat /\ Votes(col, best) > 0
  BY <1>2, VotesType
<1>4. \A l \in Labels : Votes(col, l) \in Nat /\ (l \notin S => Votes(col, l) = 0)
  <2> SUFFICES ASSUME NEW l \in Labels
               PROVE  Votes(col, l) \in Nat /\ (l \notin S => Votes(col, l) = 0)
    OBVIOUS
  <2>1. Votes(col, l) \in Nat /\ (Votes(col, l) > 0 <=> \E i \in 1..n : col[i] = l)
    BY VotesType
  <2> QED
    BY <2>1
<1> HIDE DEF S, best
<1>5. \A l \in Labels : Votes(col, l) <= Votes(col, best)
  BY <1>1, <1>3, <1>4 DEF Beats
<1>6. ASSUME NEW l \in Labels, l # best, Votes(col, l) = Votes(col, best)
      PROVE  best # 1 /\ (l # 1 => FirstVote(col, best) < FirstVote(col, l))
  <2>1. EntryBefore(col, best, l)
    BY <1>1, <1>3, <1>4, <1>6 DEF Beats
  <2> QED
    BY <2>1 DEF EntryBefore
<1> QED
  BY <1>2, <1>5, <1>6 DEF best

-----------------------------------------------------------------------------
(* The inductive invariant, in parts.                                      *)

(* A fifth of TOTAL_INSTANCES is for testing.                              *)
Split == pc = "building" => Cardinality(testing) = TestSize

(* Every tree has its performance, and knows only labels of the training   *)
(* instances.                                                              *)
Forest ==
  /\ Len(trees) = Len(stats) /\ Len(trees) <= N
  /\ pc = "start" => trees = <<>>
  /\ \A i \in DOMAIN trees : trees[i].labels \subseteq LabelsOf(training)

(* What is predicted is the vote of the trees.                             *)
Unvoted == columns = None /\ predicted = None /\ out = [lines |-> None, counts |-> {}]
Voted ==
  /\ N > 0 /\ Len(trees) = N /\ Cardinality(testing) = TestSize
  /\ columns \in [testing -> [1..N -> Labels]]
  /\ predicted = [t \in testing |-> MaxEntry(columns[t])]
  /\ \A t \in testing, i \in 1..N : columns[t][i] \in LabelsOf(training)

(* What has reached the file.                                              *)
Reported ==
  \/ pc # "closed" /\ \E S \in SUBSET testing : out = [lines |-> Lines(S), counts |-> {}]
  \/ pc # "voted" /\ out = Whole

Course == \/ pc \notin {"voted", "closed"} /\ Unvoted
          \/ pc \notin {"start", "building"} /\ Voted /\ Reported

IInv == TypeOK /\ Split /\ Forest /\ Course

-----------------------------------------------------------------------------
LEMMA FileType == ASSUME TypeOK PROVE DOMAIN file = 1..Len(file) /\ \A i \in DOMAIN file : file[i] \in Labels
BY LenProperties DEF TypeOK

LEMMA InitIInv == Init => IInv
<1> SUFFICES ASSUME Init PROVE IInv
  OBVIOUS
<1>1. file \in Seq(Labels) /\ N \in Nat
  BY RandomForestAssumption DEF Init
<1>2. columns \in [DOMAIN columns -> [1..N -> Labels]] /\ predicted \in [DOMAIN columns -> Labels]
  BY DEF Init, None
<1>3. TypeOK
  BY <1>1, <1>2 DEF Init, TypeOK, Features
<1>4. Split /\ Course
  BY DEF Init, Split, Course, Unvoted
<1>5. Forest
  BY <1>1 DEF Init, Forest
<1> QED
  BY <1>3, <1>4, <1>5 DEF IInv

(* The instances are divided.                                              *)
LEMMA SplitStep ==
  ASSUME IInv, NEW test \in kSubset(TestSize, DOMAIN file),
         NEW train \in kSubset(TOTAL_INSTANCES - TestSize, DOMAIN file \ test),
         SplitInstances(test, train)
  PROVE  IInv'
<1>1. /\ pc = "start" /\ pc' = "building" /\ testing' = test /\ training' = train
      /\ UNCHANGED <<file, N, totalFeatures, trees, stats, columns, predicted, out>>
  BY DEF SplitInstances
<1>2. test \subseteq DOMAIN file /\ Cardinality(test) = TestSize /\ train \subseteq DOMAIN file
  BY DEF kSubset
<1>3. TypeOK'
  BY <1>1, <1>2 DEF IInv, TypeOK
<1>4. Split'
  BY <1>1, <1>2 DEF Split, TestSize
<1>5. Forest'
  BY <1>1 DEF IInv, Forest
<1>6. Course'
  BY <1>1 DEF IInv, Course, Unvoted, None
<1> QED
  BY <1>3, <1>4, <1>5, <1>6 DEF IInv

(* buildForest.                                                            *)
LEMMA GrowStep ==
  ASSUME IInv, NEW train \in kSubset(TrainSize, training), NEW pair \in FeaturePairs,
         NEW predict, GrowTree(train, pair, predict)
  PROVE  IInv'
<1> DEFINE test == training \ train
           hit == {i \in test : predict[i] = file[i]}
           st == [matched |-> Cardinality(hit), tested |-> Cardinality(test)]
           tree == [labels |-> LabelsOf(train), grownOn |-> pair]
<1>1. /\ pc = "building" /\ Len(trees) < N /\ totalFeatures' = pair
      /\ trees' = Append(trees, tree) /\ stats' = Append(stats, st)
      /\ UNCHANGED <<file, N, pc, testing, training, columns, predicted, out>>
  BY DEF GrowTree
<1>2. train \subseteq training /\ training \subseteq DOMAIN file
  BY DEF kSubset, IInv, TypeOK
<1>3. st \in [matched : Nat, tested : Nat]
  <2>1. test \subseteq 1..Len(file) /\ hit \subseteq test /\ Len(file) \in Nat
    BY <1>2, FileType, LenProperties DEF IInv, TypeOK
  <2>2. IsFiniteSet(1..Len(file))
    BY <2>1, FS_Interval
  <2>3. IsFiniteSet(test) /\ IsFiniteSet(hit)
    <3>1. hit \subseteq 1..Len(file)
      BY <2>1
    <3> HIDE DEF test, hit
    <3> QED
      BY <2>1, <2>2, <3>1, FS_Subset
  <2> QED
    BY <2>3, FS_CardinalityType
<1>4. LabelsOf(train) \subseteq Labels /\ LabelsOf(train) \subseteq LabelsOf(training)
  BY <1>2, FileType DEF LabelsOf, IInv
<1>5. pair \in Features \X Features
  BY RandomForestAssumption
<1>6. tree \in [labels : SUBSET Labels, grownOn : Features \X Features]
  BY <1>4, <1>5
<1> HIDE DEF st
<1>7. /\ trees \in Seq([labels : SUBSET Labels, grownOn : Features \X Features])
      /\ stats \in Seq([matched : Nat, tested : Nat]) /\ N \in Nat
  BY DEF IInv, TypeOK
<1>8. /\ trees' \in Seq([labels : SUBSET Labels, grownOn : Features \X Features])
      /\ Len(trees') = Len(trees) + 1 /\ Len(trees) \in Nat
      /\ \A i \in DOMAIN trees' : (i \in DOMAIN trees /\ trees'[i] = trees[i]) \/ trees'[i] = tree
  <2> HIDE DEF tree
  <2> QED
    BY <1>1, <1>6, <1>7
<1>9. stats' \in Seq([matched : Nat, tested : Nat]) /\ Len(stats') = Len(stats) + 1
  BY <1>1, <1>3, <1>7
<1>10. TypeOK'
  BY <1>1, <1>5, <1>8, <1>9 DEF IInv, TypeOK
<1>11. LabelsOf(training)' = LabelsOf(training)
  BY <1>1 DEF LabelsOf
<1>12. Forest'
  <2>1. \A i \in DOMAIN trees' : trees'[i].labels \subseteq LabelsOf(training)
    BY <1>4, <1>8 DEF IInv, Forest
  <2> QED
    BY <1>1, <1>7, <1>8, <1>9, <1>11, <2>1 DEF IInv, Forest
<1>13. Split' /\ Course'
  BY <1>1 DEF IInv, Split, Course, Unvoted, TestSize, None
<1> QED
  BY <1>10, <1>12, <1>13 DEF IInv

(* classify.                                                               *)
LEMMA ClassifyStep ==
  ASSUME IInv, NEW labels \in [testing -> [1..N -> Labels]], classify(labels)
  PROVE  IInv'
<1>1. /\ pc = "building" /\ pc' = "voted" /\ Len(trees) = N /\ N > 0 /\ columns' = labels
      /\ predicted' = [t \in testing |-> MaxEntry(labels[t])]
      /\ \A t \in testing, i \in 1..N : labels[t][i] \in trees[i].labels
      /\ UNCHANGED <<file, N, testing, training, totalFeatures, trees, stats, out>>
  BY DEF classify
<1>2. N \in Nat /\ DOMAIN trees = 1..N
  BY <1>1, LenProperties DEF IInv, TypeOK
<1>3. \A t \in testing : MaxEntry(labels[t]) \in Labels
  <2> SUFFICES ASSUME NEW t \in testing PROVE MaxEntry(labels[t]) \in Labels
    OBVIOUS
  <2>1. labels[t] \in [1..N -> Labels]
    OBVIOUS
  <2>2. PICK i \in 1..N : MaxEntry(labels[t]) = labels[t][i]
    BY <1>1, <1>2, <2>1, MaxEntryBest
  <2> QED
    BY <2>1, <2>2
<1>4. TypeOK'
  <2>1. columns' \in [DOMAIN columns' -> [1..N -> Labels]] /\ DOMAIN columns' = testing
    BY <1>1
  <2>2. predicted' \in [testing -> Labels]
    BY <1>1, <1>3
  <2> QED
    BY <1>1, <2>1, <2>2 DEF IInv, TypeOK
<1>5. LabelsOf(training)' = LabelsOf(training)
  BY <1>1 DEF LabelsOf
<1>6. \A t \in testing, i \in 1..N : labels[t][i] \in LabelsOf(training)
  BY <1>1, <1>2 DEF IInv, Forest
<1>7. Voted'
  <2>1. Cardinality(testing) = TestSize
    BY <1>1 DEF IInv, Split
  <2> QED
    BY <1>1, <1>5, <1>6, <2>1 DEF Voted, TestSize
<1>8. Forest' /\ Split'
  BY <1>1, <1>5 DEF IInv, Forest, Split
<1>9. Reported'
  <2>1. out' = [lines |-> None, counts |-> {}]
    BY <1>1 DEF IInv, Course, Unvoted
  <2>2. Lines({})' = None
    BY DEF Lines, None
  <2> QED
    BY <1>1, <2>1, <2>2 DEF Reported
<1> QED
  BY <1>1, <1>4, <1>7, <1>8, <1>9 DEF IInv, Course

(* The report of main: a part of it, or all of it.                         *)
LEMMA WriteStep ==
  ASSUME IInv, (\E S \in SUBSET testing : Flush(S)) \/ Report \/ WriteFails
  PROVE  IInv'
<1>1. /\ pc = "voted" /\ pc' \in {"voted", "closed", "died"}
      /\ UNCHANGED <<file, N, testing, training, totalFeatures, trees, stats, columns, predicted>>
  BY DEF Flush, Report, WriteFails
<1>2. Voted /\ \E S \in SUBSET testing : out = [lines |-> Lines(S), counts |-> {}]
  BY <1>1 DEF IInv, Course, Reported
<1>3. LabelsOf(training)' = LabelsOf(training) /\ TestSize' = TestSize
  BY <1>1 DEF LabelsOf, TestSize
<1>4. Whole' = Whole /\ \A S : Lines(S)' = Lines(S)
  BY <1>1 DEF Whole, Lines
<1>5. Reported'
  <2>1. CASE \E S \in SUBSET testing : Flush(S)
    <3>1. PICK S \in SUBSET testing : Flush(S)
      BY <2>1
    <3>2. out' = [lines |-> Lines(S), counts |-> {}]
      BY <1>2, <3>1 DEF Flush
    <3> QED
      BY <1>1, <1>4, <3>1, <3>2 DEF Reported, Flush
  <2>2. CASE Report
    BY <1>4, <2>2 DEF Reported, Report
  <2>3. CASE WriteFails
    BY <1>1, <1>2, <1>4, <2>3 DEF Reported, WriteFails
  <2> QED
    BY <2>1, <2>2, <2>3
<1>6. TypeOK' /\ Split' /\ Forest'
  BY <1>1, <1>3 DEF IInv, TypeOK, Split, Forest
<1>7. Voted'
  BY <1>1, <1>2, <1>3 DEF Voted
<1> QED
  BY <1>1, <1>5, <1>6, <1>7 DEF IInv, Course

(* The program dies, of its input or of a forest without trees.            *)
LEMMA DieStep == ASSUME IInv, TooFewRecords \/ BadRecord \/ NoTrees PROVE IInv'
<1>1. /\ pc \in {"start", "building"} /\ pc' = "died"
      /\ UNCHANGED <<file, N, testing, training, totalFeatures, trees, stats, columns, predicted, out>>
  BY DEF TooFewRecords, BadRecord, NoTrees
<1>2. LabelsOf(training)' = LabelsOf(training)
  BY <1>1 DEF LabelsOf
<1> QED
  BY <1>1, <1>2 DEF IInv, TypeOK, Split, Forest, Course, Unvoted, None

LEMMA NextIInv == IInv /\ [Next]_vars => IInv'
<1> SUFFICES ASSUME IInv, [Next]_vars PROVE IInv'
  OBVIOUS
<1>1. CASE UNCHANGED vars
  <2>1. LabelsOf(training)' = LabelsOf(training)
    BY <1>1 DEF LabelsOf, vars
  <2> QED
    BY <1>1, <2>1 DEF vars, IInv, TypeOK, Split, Forest, Course, Unvoted, Voted, Reported,
                      Lines, Whole, TestSize, None
<1>2. CASE Ended
  BY <1>1, <1>2 DEF Ended
<1> QED
  BY <1>1, <1>2, SplitStep, GrowStep, ClassifyStep, WriteStep, DieStep DEF Next

-----------------------------------------------------------------------------
LEMMA IInvSound == IInv => ForestSound
<1> SUFFICES ASSUME IInv PROVE ForestSound
  OBVIOUS
<1>1. CASE pc \notin {"start", "building"} /\ Voted /\ Reported
  <2>1. /\ columns \in [testing -> [1..N -> Labels]] /\ N \in Nat /\ N > 0
        /\ DOMAIN predicted = testing
        /\ \A t \in testing : predicted[t] = MaxEntry(columns[t])
        /\ \A t \in testing, i \in 1..N : columns[t][i] \in LabelsOf(training)
    BY <1>1 DEF IInv, Voted, TypeOK
  <2>2. ASSUME NEW t \in testing
        PROVE  /\ predicted[t] \in LabelsOf(training)
               /\ \A l \in Labels : Votes(columns[t], l) <= Votes(columns[t], predicted[t])
               /\ \A l \in Labels \ {predicted[t]} :
                    Votes(columns[t], l) = Votes(columns[t], predicted[t]) =>
                      /\ predicted[t] # 1
                      /\ l # 1 => FirstVote(columns[t], predicted[t]) < FirstVote(columns[t], l)
    <3>1. columns[t] \in [1..N -> Labels] /\ predicted[t] = MaxEntry(columns[t])
      BY <2>1
    <3>2. PICK i \in 1..N : MaxEntry(columns[t]) = columns[t][i]
      BY <2>1, <3>1, MaxEntryBest
    <3>3. predicted[t] \in LabelsOf(training)
      BY <2>1, <3>1, <3>2
    <3> QED
      BY <2>1, <3>1, <3>3, MaxEntryBest
  <2>3. VoteIsPlurality /\ PredictsTrainedLabels
    BY <2>1, <2>2 DEF VoteIsPlurality, PredictsTrainedLabels
  <2>4. TiesDecided
    BY <2>1, <2>2 DEF TiesDecided
  <2>5. ReportSound
    <3>1. ASSUME NEW S \in SUBSET testing, out = [lines |-> Lines(S), counts |-> {}], pc # "closed"
          PROVE  ReportSound
      BY <2>1, <3>1 DEF ReportSound, Lines
    <3>2. CASE out = Whole
      <4>1. {t \in testing : Lines(testing)[t].label = Lines(testing)[t].predicted}
              = {t \in testing : file[t] = predicted[t]}
        BY DEF Lines
      <4>2. DOMAIN Lines(testing) = testing
        BY DEF Lines
      <4>3. \A t \in testing : Lines(testing)[t] = [label |-> file[t], predicted |-> predicted[t]]
        BY DEF Lines
      <4>4. Len(trees) = N /\ Len(stats) = N /\ Cardinality(testing) = TestSize
        BY <1>1 DEF Voted, IInv, Forest
      <4> QED
        BY <2>1, <3>2, <4>1, <4>2, <4>3, <4>4 DEF ReportSound, Whole
    <3> QED
      BY <1>1, <3>1, <3>2 DEF Reported
  <2> QED
    BY <2>3, <2>4, <2>5 DEF ForestSound, IInv
<1>2. CASE pc \notin {"voted", "closed"} /\ Unvoted
  <2>1. DOMAIN predicted = {}
    BY <1>2 DEF Unvoted, None
  <2>2. VoteIsPlurality /\ PredictsTrainedLabels /\ TiesDecided
    BY <2>1 DEF VoteIsPlurality, PredictsTrainedLabels, TiesDecided
  <2>3. ReportSound
    BY <1>2 DEF ReportSound, Unvoted, None
  <2> QED
    BY <2>2, <2>3 DEF ForestSound, IInv
<1> QED
  BY <1>1, <1>2 DEF IInv, Course

(* The forest of HW3, its votes and its report: for every testing instance *)
(* the label with most votes, ties decided in the order of the HashMap, a  *)
(* report that is true at every moment, a number of matches only below    *)
(* all the lines (buildForest, classify, countVotes, main of HW3).         *)
THEOREM ForestIsSound == Spec => []ForestSound
<1>1. Init => IInv
  BY InitIInv
<1>2. IInv /\ [Next]_vars => IInv'
  BY NextIInv
<1>3. IInv => ForestSound
  BY IInvSound
<1> QED
  BY <1>1, <1>2, <1>3, PTL DEF Spec
=============================================================================
