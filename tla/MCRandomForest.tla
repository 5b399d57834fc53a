--------------------------- MODULE MCRandomForest ---------------------------
(* HW3 with TOTAL_INSTANCES = 5: one testing instance, four training       *)
(* instances and two thirds of them for each of up to three trees.         *)
EXTENDS RandomForest

MCFiles == {<<1, -1, 0, 1, -1>>, <<0, 1, 1, -1, -1, 0>>, <<1, 0, 0, 0>>}

(* One pair is enough where only votes matter.                             *)
OneFeaturePair == {<<3, 0>>}
TwoFeaturePairs == {<<0, 1>>, <<3, 0>>}
=============================================================================
