------------------------- MODULE MCMRRandomForest -------------------------
(* Three trees in two map tasks, two of the records of a file for each: a  *)
(* file out of order, one with a record twice, one that is too long and    *)
(* one that is empty.                                                      *)
EXTENDS MRRandomForest

MCInputFiles == {<<2, 1>>, <<1, 1>>, <<3, 1, 2>>, <<>>}
MCRanges == {{0, 1}, {2}}
=============================================================================
