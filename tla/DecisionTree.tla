---------------------------- MODULE DecisionTree ----------------------------
(***************************************************************************)
(* DecisionTree/src: growing a binary decision tree over candlesticks and  *)
(* classifying with it.  The copy in RandomForest/src differs only in the  *)
(* list of features the loop runs over, which is featureIdx here (the list *)
(* 0, 1, 2, 3 in DecisionTree/src).                                        *)
(*                                                                         *)
(* An instance is its position in the training list the tree is built      *)
(* from; a list of instances is a sequence of positions.  A DTNode is      *)
(* named by the path to it from the root, 0 for left and 1 for right, and  *)
(* stack is the stack of calls of buildDTree that have not returned, the   *)
(* current one first.                                                      *)
(***************************************************************************)
EXTENDS Integers, Sequences, FiniteSets, Functions

CONSTANTS
  TrainingLists,  \* the lists of candlesticks a tree may be trained on
  FeatureLists,   \* the lists of features a tree may be given
  TestInstances   \* the candlesticks a tree may be asked to classify

Labels == {-1, 0, 1}
CandleStick == [time : Int, high : Int, low : Int, close : Int, label : Labels]
Features == 0..3

ASSUME DecisionTreeAssumption ==
  /\ TrainingLists \subseteq Seq(CandleStick)
  /\ FeatureLists \subseteq Seq(Features) \ {<<>>}
  /\ TestInstances \subseteq CandleStick

VARIABLES
  training,    \* the training list, fixed when the tree is created
  featureIdx,  \* the features used by this tree
  nodes,       \* the DTNodes created so far, by path
  stack,       \* the calls of buildDTree that have not returned
  fi,          \* position in featureIdx of the loop of the current call, or
               \*   0 when the call has not begun
  sorted,      \* the current turn of that loop has sorted the list
  best,        \* the best split of the current call so far
  pc,          \* "training", "trained", "matching", "answered" or "died"
  query,       \* the candlestick findMatch is called with
  cursor,      \* the node findMatch is at
  predicted    \* the label the last findMatch returned

treeVars == <<nodes, stack, fi, sorted, best>>
matchVars == <<query, cursor, predicted>>
vars == <<training, featureIdx, treeVars, pc, matchVars>>

Left(p) == Append(p, 0)
Right(p) == Append(p, 1)
root == <<>>

(* new DTNode() with its instances: the other fields have Java's defaults, *)
(* so the entropy of a node that was never visited is zero.                *)
DTNode(instances) ==
  [instances |-> instances, pure |-> TRUE, testCond |-> 0, thresholdIns |-> 0]
HasChildren(p) == Left(p) \in DOMAIN nodes

-----------------------------------------------------------------------------
(* The value of feature f of a candlestick: compareWith and the four       *)
(* comparators order candlesticks by it.                                   *)
Feature(c, f) ==
  CASE f = 0 -> c.time
    [] f = 1 -> c.high
    [] f = 2 -> c.low
    [] f = 3 -> c.close

(* List.sort is stable: the instance at position i goes behind those with  *)
(* a smaller value and those with the same value that were before it.      *)
Before(s, f, j, i) ==
  \/ Feature(training[s[j]], f) < Feature(training[s[i]], f)
  \/ Feature(training[s[j]], f) = Feature(training[s[i]], f) /\ j < i
Rank(s, f, i) == Cardinality({j \in DOMAIN s : Before(s, f, j, i)}) + 1
StableSort(s, f) ==
  [r \in DOMAIN s |-> s[CHOOSE i \in DOMAIN s : Rank(s, f, i) = r]]

(* calcEntropy counts the labels of the instances.                         *)
Counts(s) ==
  [l \in Labels |-> Cardinality({k \in DOMAIN s : training[s[k]].label = l})]

(* calcEntropy(s) = 0.  It is NaN, and not 0, for the empty list.          *)
Pure(s) == s # <<>> /\ \E l \in Labels : Counts(s)[l] = Len(s)

(* The entropy of s times the size of s is the logarithm of                *)
(* Power(Size(s)) / Weight(s), so information gains are compared exactly   *)
(* by comparing fractions of integers.                                     *)
Exp(b, k) == LET p[i \in Nat] == IF i = 0 THEN 1 ELSE b * p[i - 1] IN p[k]
Power(n) == Exp(n, n)
Weight(s) == LET c == Counts(s) IN Power(c[-1]) * Power(c[0]) * Power(c[1])
Size(s) == Cardinality(DOMAIN s)
Numerator(c) == Power(Size(c.left)) * Power(Size(c.right))
Denominator(c) == Weight(c.left) * Weight(c.right)

(* The information gain of split c is greater than that of split d.        *)
GainsMore(c, d) == Numerator(c) * Denominator(d) < Numerator(d) * Denominator(c)

(* Mutant: the right list starts one too early.                            *)
MutSplitOverlap(s, f, k) ==
  [attr |-> f, thresholdInstance |-> s[k + 1],
   left |-> SubSeq(s, 1, k), right |-> SubSeq(s, k, Len(s))]

(* The split of the sorted list s behind its first k instances; and no     *)
(* split at all, whose gain is the initial value of bestIG.                *)
Split(s, f, k) ==
  [attr |-> f, thresholdInstance |-> s[k + 1],
   left |-> SubSeq(s, 1, k), right |-> SubSeq(s, k + 1, Len(s))]
NoSplit(s) ==
  [attr |-> -1, thresholdInstance |-> 0, left |-> s, right |-> <<>>]

(* Two splits with the same label counts have the same infoGain to the     *)
(* last bit.  Splits whose gains are equal but computed from different     *)
(* counts may be told apart by rounding, in either direction.              *)
SameCounts(c, d) ==
  Counts(c.left) = Counts(d.left) /\ Counts(c.right) = Counts(d.right)

(* Mutants: the best split is forgotten when the next feature is tried;    *)
(* the loop leaves out the last threshold.                                 *)
MutBestForgotten(s, f) ==
  LET cand == [k \in 1..(Len(s) - 1) |-> Split(s, f, k)]
  IN  {c \in Range(cand) : \A k \in DOMAIN cand : ~GainsMore(cand[k], c)}

(* The best splits the threshold loop over the sorted list s can end with: *)
(* a split replaces the best one only when its infoGain is greater.        *)
BestAfter(s, f) ==
  LET cand == [k \in 1..(Len(s) - 1) |-> Split(s, f, k)]
      late(k) == \/ SameCounts(best, cand[k])
                 \/ \E j \in 1..(k - 1) : SameCounts(cand[j], cand[k])
      new == {cand[k] : k \in {j \in DOMAIN cand : ~late(j)}}
  IN  {c \in {best} \cup new :
         /\ ~GainsMore(best, c)
         /\ \A k \in DOMAIN cand : ~GainsMore(cand[k], c)}

-----------------------------------------------------------------------------
(* A candlestick as the constructor without arguments leaves it.           *)
noQuery == [time |-> 0, high |-> 0, low |-> 0, close |-> 0, label |-> 0]

Init ==
  /\ training \in TrainingLists
  /\ featureIdx \in FeatureLists
  /\ nodes = [p \in {root} |-> DTNode([k \in DOMAIN training |-> k])]
  /\ stack = <<root>>
  /\ fi = 0 /\ sorted = FALSE
  /\ best = NoSplit(<<>>)
  /\ pc = "training"
  /\ query = noQuery /\ cursor = root /\ predicted = 0

(* The current call returns.                                               *)
Return ==
  /\ stack' = Tail(stack)
  /\ fi' = 0
  /\ pc' = IF Len(stack) = 1 THEN "trained" ELSE pc

(* buildDTree on a pure node sets its entropy and returns.                 *)
CallOnLeaf ==
  /\ pc = "training" /\ fi = 0
  /\ Pure(nodes[Head(stack)].instances)
  /\ nodes' = [nodes EXCEPT ![Head(stack)].pure = TRUE]
  /\ Return
  /\ UNCHANGED <<training, featureIdx, sorted, best, matchVars>>

(* buildDTree on any other node sets its entropy and begins the search.    *)
CallOnNode ==
  /\ pc = "training" /\ fi = 0
  /\ ~Pure(nodes[Head(stack)].instances)
  /\ nodes' = [nodes EXCEPT ![Head(stack)].pure = FALSE]
  /\ fi' = 1
  /\ best' = NoSplit(nodes[Head(stack)].instances)
  /\ UNCHANGED <<training, featureIdx, stack, sorted, pc, matchVars>>

(* One turn of the loop over the features: the node's own list is sorted   *)
(* in place, ...                                                           *)
SortByFeature ==
  /\ pc = "training" /\ fi \in 1..Len(featureIdx) /\ ~sorted
  /\ nodes' = [nodes EXCEPT ![Head(stack)].instances =
                 StableSort(@, featureIdx[fi])]
  /\ sorted' = TRUE
  /\ UNCHANGED <<training, featureIdx, stack, fi, best, pc, matchVars>>

(* Mutant: the loop over the features does not advance.                    *)
MutTryThresholds ==
  /\ pc = "training" /\ fi \in 1..Len(featureIdx) /\ sorted
  /\ best' \in BestAfter(nodes[Head(stack)].instances, featureIdx[fi])
  /\ sorted' = FALSE
  /\ UNCHANGED <<training, featureIdx, nodes, stack, fi, pc, matchVars>>

(* ... and every split of the sorted list is tried.                        *)
TryThresholds ==
  /\ pc = "training" /\ fi \in 1..Len(featureIdx) /\ sorted
  /\ best' \in BestAfter(nodes[Head(stack)].instances, featureIdx[fi])
  /\ fi' = fi + 1
  /\ sorted' = FALSE
  /\ UNCHANGED <<training, featureIdx, nodes, stack, pc, matchVars>>

(* bestAttr is still -1: the node stays a leaf.                            *)
NoBestSplit ==
  /\ pc = "training" /\ fi = Len(featureIdx) + 1
  /\ best.attr = -1
  /\ Return
  /\ UNCHANGED <<training, featureIdx, nodes, sorted, best, matchVars>>

(* The node gets its test condition and its children, and buildDTree is    *)
(* called on the left and then on the right child.                         *)
Grow ==
  /\ pc = "training" /\ fi = Len(featureIdx) + 1
  /\ best.attr # -1
  /\ LET p == Head(stack)
     IN  /\ nodes' =
              [q \in DOMAIN nodes \cup {Left(p), Right(p)} |->
                 CASE q = p -> [nodes[p] EXCEPT
                                  !.testCond = best.attr,
                                  !.thresholdIns = best.thresholdInstance]
                   [] q = Left(p) -> DTNode(best.left)
                   [] q = Right(p) -> DTNode(best.right)
                   [] OTHER -> nodes[q]]
         /\ stack' = <<Left(p), Right(p)>> \o Tail(stack)
  /\ fi' = 0
  /\ UNCHANGED <<training, featureIdx, sorted, best, pc, matchVars>>

-----------------------------------------------------------------------------
(* classify calls findMatch on the root for one testing instance.          *)
classify(cs) ==
  /\ pc = "trained"
  /\ query' = cs
  /\ pc' = "matching"
  /\ UNCHANGED <<training, featureIdx, treeVars, cursor, predicted>>

AtLeaf == nodes[cursor].pure \/ ~HasChildren(cursor)

(* Mutant: a candlestick that equals the threshold goes left.              *)
MutInLeftBranch(p, cs) ==
  Feature(cs, nodes[p].testCond) <=
    Feature(training[nodes[p].thresholdIns], nodes[p].testCond)

inLeftBranch(p, cs) ==
  Feature(cs, nodes[p].testCond) <
    Feature(training[nodes[p].thresholdIns], nodes[p].testCond)

(* findMatch calls itself on one of the two children.                      *)
Descend ==
  /\ pc = "matching" /\ ~AtLeaf
  /\ cursor' = IF inLeftBranch(cursor, query) THEN Left(cursor)
                                              ELSE Right(cursor)
  /\ UNCHANGED <<training, featureIdx, treeVars, pc, query, predicted>>

(* findMatch returns the label of the leaf's first instance.               *)
Answer ==
  /\ pc = "matching" /\ AtLeaf
  /\ nodes[cursor].instances # <<>>
  /\ predicted' = training[nodes[cursor].instances[1]].label
  /\ pc' = "answered"
  /\ UNCHANGED <<training, featureIdx, treeVars, query, cursor>>

(* get(0) on a leaf without instances throws.                              *)
EmptyLeaf ==
  /\ pc = "matching" /\ AtLeaf
  /\ nodes[cursor].instances = <<>>
  /\ pc' = "died"
  /\ UNCHANGED <<training, featureIdx, treeVars, matchVars>>

(* The label is in the list of predicted labels: the next turn of the loop *)
(* in classify.                                                            *)
NextInstance ==
  /\ pc = "answered"
  /\ pc' = "trained"
  /\ query' = noQuery /\ cursor' = root /\ predicted' = 0
  /\ UNCHANGED <<training, featureIdx, treeVars>>

Died == pc = "died" /\ UNCHANGED vars

BuildStep == CallOnLeaf \/ CallOnNode \/ SortByFeature \/ TryThresholds \/ NoBestSplit \/ Grow
MatchStep == Descend \/ Answer \/ EmptyLeaf

Next ==
  \/ CallOnLeaf \/ CallOnNode \/ SortByFeature \/ TryThresholds \/ NoBestSplit \/ Grow
  \/ \E cs \in TestInstances : classify(cs)
  \/ Descend \/ Answer \/ EmptyLeaf
  \/ NextInstance
  \/ Died

(* One thread runs the program: a step that can be taken is taken.         *)
Spec == Init /\ [][Next]_vars /\ WF_vars(BuildStep) /\ WF_vars(MatchStep)

-----------------------------------------------------------------------------
Node == [instances : Seq(DOMAIN training), pure : BOOLEAN, testCond : Features,
         thresholdIns : DOMAIN training \cup {0}]

(* Every variable has the type the program gives it.                       *)
TypeOK ==
  /\ training \in Seq(CandleStick)
  /\ featureIdx \in Seq(Features)
  /\ DOMAIN nodes \subseteq Seq({0, 1})
  /\ \A p \in DOMAIN nodes : nodes[p] \in Node
  /\ stack \in Seq(DOMAIN nodes)
  /\ pc = "training" <=> stack # <<>>
  /\ fi \in 0..(Len(featureIdx) + 1)
  /\ sorted \in BOOLEAN
  /\ best \in [attr : Features \cup {-1},
               thresholdInstance : DOMAIN training \cup {0},
               left : Seq(DOMAIN training), right : Seq(DOMAIN training)]
  /\ pc \in {"training", "trained", "matching", "answered", "died"}
  /\ query \in CandleStick
  /\ cursor \in DOMAIN nodes
  /\ predicted \in Labels

InstancesOf(p) == Range(nodes[p].instances)
Leaves == {p \in DOMAIN nodes : ~HasChildren(p)}
Ancestors(p) == {SubSeq(p, 1, k) : k \in 0..(Len(p) - 1)}

(* At every moment of the recursion every training instance is in exactly  *)
(* one node without children, once, and a node with children has both: the *)
(* in-place sorts, the copies of the sublists and the order of the         *)
(* recursive calls lose and duplicate nothing, and findMatch finds a child *)
(* on whichever side it goes to.                                           *)
LeavesPartition ==
  /\ \A p \in DOMAIN nodes :
       /\ IsInjective(nodes[p].instances)
       /\ HasChildren(p) <=> Right(p) \in DOMAIN nodes
  /\ \A i \in DOMAIN training :
       Cardinality({p \in Leaves : i \in InstancesOf(p)}) = 1

(* The test condition of a node separates its children: no instance on the *)
(* left is above the threshold instance and none on the right below it,    *)
(* also after the children's own lists were sorted and split again.        *)
SplitsOrdered ==
  \A p \in DOMAIN nodes : HasChildren(p) =>
    LET val(i) == Feature(training[i], nodes[p].testCond)
    IN  /\ \A i \in InstancesOf(Left(p)) : val(i) <= val(nodes[p].thresholdIns)
        /\ \A i \in InstancesOf(Right(p)) : val(nodes[p].thresholdIns) <= val(i)
        /\ nodes[p].thresholdIns \in InstancesOf(Right(p))

(* The comment "leaf node, all nodes are pure": when training is over the  *)
(* leaves of a tree grown from at least one instance are pure, whatever    *)
(* the ties in the data, so the search never ends with bestAttr = -1.      *)
LeavesPure ==
  pc # "training" /\ training # <<>> =>
    \A p \in Leaves : nodes[p].pure /\ Pure(nodes[p].instances)

(* "argmax(IG)": the split of a node gains at least as much as any cut     *)
(* between two different values of any feature of the tree.  The sorts     *)
(* share one list and the running best crosses the features, so the choice *)
(* could depend on the order in which the features are tried.              *)
SplitIsArgmax ==
  pc = "trained" =>
   \A p \in DOMAIN nodes : HasChildren(p) =>
    \A f \in Range(featureIdx), t \in InstancesOf(p) :
      LET below == {i \in InstancesOf(p) :
                     Feature(training[i], f) < Feature(training[t], f)}
          cut == [left |-> [i \in below |-> i],
                  right |-> [i \in InstancesOf(p) \ below |-> i]]
          chosen == [left |-> nodes[Left(p)].instances,
                     right |-> nodes[Right(p)].instances]
      IN  ~GainsMore(cut, chosen)

(* Every level of the tree loses an instance, so the recursion is never    *)
(* deeper than the number of training instances.                           *)
DepthBounded ==
  training # <<>> =>
    \A p \in DOMAIN nodes :
      Len(nodes[p].instances) >= 1 /\ Len(p) + Len(nodes[p].instances) <= Len(training)

(* The training instances with the features of candlestick cs.             *)
SameFeatures(cs, i) ==
  \A f \in Features : Feature(cs, f) = Feature(training[i], f)

(* findMatch leads a training instance out of the subset buildDTree put it *)
(* into at one kind of node only: one where its value equals the threshold *)
(* instance's although it is in the left list.                             *)
MisroutedOnlyByTies ==
  pc \in {"matching", "answered"} =>
    \A i \in DOMAIN training :
      SameFeatures(query, i) /\ i \notin InstancesOf(cursor) =>
        \E p \in Ancestors(cursor) :
          /\ i \in InstancesOf(Left(p))
          /\ Feature(query, nodes[p].testCond) =
               Feature(training[nodes[p].thresholdIns], nodes[p].testCond)

(* Two training instances that differ have a feature that tells them apart *)
(* among the features of the tree.                                         *)
Separable ==
  \A i, j \in DOMAIN training :
    i # j => \E f \in Range(featureIdx) :
      Feature(training[i], f) # Feature(training[j], f)

(* "find which deepest subset given CandleStick obj should be grouped      *)
(* into": a training instance that some feature tells from every other is  *)
(* led to the leaf it was put into, and so gets its own label back.        *)
GroupedIntoOwnSubset ==
  pc = "answered" /\ Separable =>
    \A i \in DOMAIN training :
      SameFeatures(query, i) => i \in InstancesOf(cursor)

(* The recursion of buildDTree ends, and so does every findMatch.          *)
TrainingEnds == <>(pc # "training")
MatchEnds == pc = "matching" ~> pc \in {"answered", "died"}

(* What holds of the tree while it grows and after, whatever the splits    *)
(* gain.  (buildDTree, findMatch)                                          *)
TreeSound == TypeOK /\ LeavesPartition /\ SplitsOrdered /\ DepthBounded

(* What the search gains: the splits are the best and leave nothing to     *)
(* split.  (buildDTree, calcEntropy)                                       *)
SplitsBest == SplitIsArgmax /\ LeavesPure

(* Training and every matching come to an end.  (buildDTree, findMatch)    *)
WorkEnds == TrainingEnds /\ MatchEnds
=============================================================================
