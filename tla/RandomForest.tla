---------------------------- MODULE RandomForest ----------------------------
(***************************************************************************)
(* RandomForest/src: HW3.main, which splits a file of prepared records     *)
(* into testing and training instances, grows a forest and reports how     *)
(* many testing instances it predicts; and the class RandomForest, which   *)
(* grows N trees, each on two thirds of the training instances and on two  *)
(* features, and predicts by vote.                                         *)
(*                                                                         *)
(* An instance is the number of its line in the file.  A tree is taken     *)
(* from module DecisionTree as a classifier that answers with the label of *)
(* one of the instances it was trained on.                                 *)
(***************************************************************************)
EXTENDS CountVotes, Sequences

CONSTANTS
  Files,            \* the files HW3 may be given, as lists of labels
  TreeCounts,       \* the values of N it may be given
  FeaturePairs,     \* the pairs that may come first when the features are
                    \*   shuffled
  TOTAL_INSTANCES   \* 10000 in the code

Features == 0..3

ASSUME RandomForestAssumption ==
  /\ Files \subseteq Seq(Labels)
  /\ TreeCounts \subseteq Nat
  /\ FeaturePairs \subseteq {q \in Features \X Features : q[1] # q[2]}
  /\ TOTAL_INSTANCES \in Nat /\ TOTAL_INSTANCES >= 5

VARIABLES
  file,           \* the labels of the lines of the input file
  N,              \* the number of trees to grow
  pc,             \* "start", "building", "voted", "closed" or "died", of an
                  \*   exception, which main may catch
  testing,        \* the testing instances
  training,       \* the training instances, a list that every tree shuffles
  totalFeatures,  \* the first two elements of the static list of features
  trees,          \* the trees grown so far
  stats,          \* for each tree the number of instances it was tested on
                  \*   and of those it predicted
  columns,        \* for each testing instance the labels the trees predict
  predicted,      \* for each testing instance the label with most votes
  out             \* what the output file holds: lines of testing instances,
                  \*   and the numbers of matches

vars == <<file, N, pc, testing, training, totalFeatures, trees, stats,
          columns, predicted, out>>

TestSize == TOTAL_INSTANCES \div 5     \* (int) (TOTAL_INSTANCES * 0.2)
TrainSize == (2 * Cardinality(training)) \div 3
LabelsOf(S) == {file[i] : i \in S}
None == [i \in {} |-> 0]

-----------------------------------------------------------------------------
Init ==
  /\ file \in Files
  /\ N \in TreeCounts
  /\ pc = "start"
  /\ testing = {} /\ training = {}
  /\ totalFeatures = <<0, 1>>
  /\ trees = <<>> /\ stats = <<>>
  /\ columns = None /\ predicted = None
  /\ out = [lines |-> None, counts |-> {}]

(* The output file is opened, and emptied, before the input is read.  An   *)
(* input with fewer than TOTAL_INSTANCES records makes subList throw, and  *)
(* so does a record that cannot be parsed.                                 *)
TooFewRecords ==
  /\ pc = "start"
  /\ Len(file) < TOTAL_INSTANCES
  /\ pc' = "died"
  /\ UNCHANGED <<file, N, testing, training, totalFeatures, trees, stats,
                 columns, predicted, out>>

BadRecord ==
  /\ pc = "start"
  /\ pc' = "died"
  /\ UNCHANGED <<file, N, testing, training, totalFeatures, trees, stats,
                 columns, predicted, out>>

(* All the records are shuffled; the first fifth of TOTAL_INSTANCES are    *)
(* for testing and the rest of TOTAL_INSTANCES for training.               *)
SplitInstances(test, train) ==
  /\ pc = "start"
  /\ Len(file) >= TOTAL_INSTANCES
  /\ Cardinality(train) = TOTAL_INSTANCES - TestSize
  /\ test \cap train = {}
  /\ testing' = test
  /\ training' = train
  /\ pc' = "building"
  /\ UNCHANGED <<file, N, totalFeatures, trees, stats, columns, predicted, out>>

(* One turn of the loop in buildForest: the instances are shuffled and the *)
(* first two thirds train the tree; the shared list of features is         *)
(* shuffled and the tree is handed a view of its first two elements, with  *)
(* which it is trained at once; the tree is tested on the other instances. *)
GrowTree(train, pair, predict) ==
  /\ pc = "building" /\ Len(trees) < N
  /\ LET test == training \ train
     IN  /\ predict \in [test -> LabelsOf(train)]
         /\ stats' = Append(stats,
              [matched |-> Cardinality({i \in test : predict[i] = file[i]}),
               tested |-> Cardinality(test)])
  /\ totalFeatures' = pair
  /\ trees' = Append(trees, [labels |-> LabelsOf(train), grownOn |-> pair])
  /\ UNCHANGED <<file, N, pc, testing, training, columns, predicted, out>>

(* DecisionTree's field featureIdx is the view, not a copy of it: what it  *)
(* holds is what the shared list holds now.                                *)
featureIdx(i) == totalFeatures

-----------------------------------------------------------------------------
(* classify asks every tree for every testing instance and counts votes.   *)
classify(labels) ==
  /\ pc = "building" /\ Len(trees) = N /\ N > 0
  /\ \A t \in testing, i \in 1..N : labels[t][i] \in trees[i].labels
  /\ columns' = labels
  /\ predicted' = [t \in testing |-> MaxEntry(labels[t])]
  /\ pc' = "voted"
  /\ UNCHANGED <<file, N, testing, training, totalFeatures, trees, stats, out>>

(* countVotes on a forest without trees: get(0) throws.                    *)
NoTrees ==
  /\ pc = "building" /\ N = 0
  /\ pc' = "died"
  /\ UNCHANGED <<file, N, testing, training, totalFeatures, trees, stats,
                 columns, predicted, out>>

(* One line per testing instance, and a line with the number of matches.   *)
Lines(S) == [t \in S |-> [label |-> file[t], predicted |-> predicted[t]]]
Whole == [lines |-> Lines(testing),
          counts |-> {Cardinality({t \in testing : file[t] = predicted[t]})}]

(* The buffer of the writer is full: some of the lines reach the file.     *)
Flush(S) ==
  /\ pc = "voted"
  /\ DOMAIN out.lines \subseteq S
  /\ out' = [out EXCEPT !.lines = Lines(S)]
  /\ UNCHANGED <<file, N, pc, testing, training, totalFeatures, trees, stats,
                 columns, predicted>>

(* The rest reaches the file when the writer is flushed and closed.        *)
Report ==
  /\ pc = "voted"
  /\ out' = Whole
  /\ pc' = "closed"
  /\ UNCHANGED <<file, N, testing, training, totalFeatures, trees, stats,
                 columns, predicted>>

(* A write or the last flush fails: main catches the IOException and ends. *)
WriteFails ==
  /\ pc = "voted"
  /\ out' \in {out, Whole}
  /\ pc' = "died"
  /\ UNCHANGED <<file, N, testing, training, totalFeatures, trees, stats,
                 columns, predicted>>

Ended == pc \in {"closed", "died"} /\ UNCHANGED vars

Next ==
  \/ TooFewRecords \/ BadRecord
  \/ \E test \in kSubset(TestSize, DOMAIN file) :
       \E train \in kSubset(TOTAL_INSTANCES - TestSize, DOMAIN file \ test) :
         SplitInstances(test, train)
  \/ \E train \in kSubset(TrainSize, training), pair \in FeaturePairs :
       \E predict \in [training \ train -> LabelsOf(train)] :
         GrowTree(train, pair, predict)
  \/ \E labels \in [testing -> [1..N -> Labels]] : classify(labels)
  \/ NoTrees
  \/ \E S \in SUBSET testing : Flush(S)
  \/ Report \/ WriteFails
  \/ Ended

Spec == Init /\ [][Next]_vars

-----------------------------------------------------------------------------
(* Every variable has the type the program gives it.                       *)
TypeOK ==
  /\ file \in Seq(Labels) /\ N \in Nat
  /\ pc \in {"start", "building", "voted", "closed", "died"}
  /\ testing \subseteq DOMAIN file /\ training \subseteq DOMAIN file
  /\ totalFeatures \in Features \X Features
  /\ trees \in Seq([labels : SUBSET Labels, grownOn : Features \X Features])
  /\ stats \in Seq([matched : Nat, tested : Nat])
  /\ columns \in [DOMAIN columns -> [1..N -> Labels]]
  /\ predicted \in [DOMAIN columns -> Labels]

(* countVotes, "the label with max votes": no label has more votes of the  *)
(* trees than the predicted one, for every testing instance.               *)
VoteIsPlurality ==
  \A t \in DOMAIN predicted, l \in Labels :
    Votes(columns[t], l) <= Votes(columns[t], predicted[t])

(* How the strict comparison and the order of the HashMap decide a tie: a  *)
(* predicted rise has more votes than either other label, and between an   *)
(* equally voted drop and no change the tree asked first decides.          *)
TiesDecided ==
  \A t \in DOMAIN predicted : \A l \in Labels \ {predicted[t]} :
    LET col == columns[t]
    IN  Votes(col, l) = Votes(col, predicted[t]) =>
          /\ predicted[t] # 1
          /\ l # 1 => FirstVote(col, predicted[t]) < FirstVote(col, l)

(* The testing instances never reach a tree: a label that no training      *)
(* instance has is never predicted.                                        *)
PredictsTrainedLabels ==
  \A t \in DOMAIN predicted : predicted[t] \in LabelsOf(training)

(* What is in the file is true, wherever the run dies: its lines are of    *)
(* testing instances and say what was voted, so that there is none before  *)
(* the vote.  A number of matches is there only below a line for each of a *)
(* fifth of TOTAL_INSTANCES, it is the number of those that match, and the *)
(* forest behind it has N trees, each with its performance.                *)
ReportSound ==
  /\ \A t \in DOMAIN out.lines :
       /\ t \in DOMAIN predicted
       /\ out.lines[t] = [label |-> file[t], predicted |-> predicted[t]]
  /\ \A c \in out.counts :
       /\ Cardinality(DOMAIN out.lines) = TestSize
       /\ c = Cardinality({t \in DOMAIN out.lines :
                             out.lines[t].label = out.lines[t].predicted})
       /\ Len(trees) = N /\ Len(stats) = N
  /\ pc = "closed" => out.counts # {}

(* "features used by this DTree": the field featureIdx of a tree in the    *)
(* forest holds the features the tree was grown on.                        *)
FeatureIdxIsOwn ==
  \A i \in DOMAIN trees : featureIdx(i) = trees[i].grownOn

(* The invariants above, of a forest, its votes and its report.            *)
(* (countVotes, main of HW3)                                               *)
ForestSound ==
  TypeOK /\ VoteIsPlurality /\ TiesDecided /\ PredictsTrainedLabels /\ ReportSound
=============================================================================
