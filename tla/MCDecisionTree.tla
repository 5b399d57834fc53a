--------------------------- MODULE MCDecisionTree ---------------------------
(* Small training lists for DecisionTree: candlesticks that tie in some    *)
(* features and differ in others, in every order and with every labelling. *)
EXTENDS DecisionTree, SequencesExt

Stick(t, h, l, c) == [time |-> t, high |-> h, low |-> l, close |-> c]
WithLabel(c, b) ==
  [time |-> c.time, high |-> c.high, low |-> c.low, close |-> c.close,
   label |-> b]
Labelled(S, B) == {WithLabel(c, b) : c \in S, b \in B}

A == Stick(0, 1, 0, 1)
B == Stick(0, 2, 1, 1)
C == Stick(1, 2, 0, 2)
D == Stick(1, 1, 1, 1)

MCTrainingLists ==
  BoundedSeq(Labelled({A, B, C}, Labels), 3)
    \cup [1..4 -> Labelled({A, B, D}, {-1, 1})]
MCTestInstances == Labelled({A, B, C, D}, {0})

(* DecisionTree/src tries all four features, RandomForest/src any two.     *)
AllFeatures == {<<0, 1, 2, 3>>}
=============================================================================
