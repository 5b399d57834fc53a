------------------------------- MODULE MCHW4 -------------------------------
(* Two runs over a table of up to four rows, of which three are selected:  *)
(* two for training, so that a tree is grown on one of them and tested on  *)
(* the other, and one for testing.                                         *)
EXTENDS HW4

MCLabel == <<1, 0, 1, -1>>
=============================================================================
