----------------------------- MODULE CountVotes -----------------------------
(***************************************************************************)
(* How the class RandomForest, in RandomForest/src and again in            *)
(* Cassandra/src, makes one label of the labels its trees predict for an   *)
(* instance.  A column is the list of these labels, in the order of the    *)
(* trees.                                                                  *)
(***************************************************************************)
EXTENDS Integers, FiniteSets, FiniteSetsExt

Labels == {-1, 0, 1}

(* The votes for a label in a column of predicted labels, and the tree     *)
(* that was first to vote for it.                                          *)
Votes(col, l) == Cardinality({i \in DOMAIN col : col[i] = l})
FirstVote(col, l) == Min({i \in DOMAIN col : col[i] = l})

(* The order in which votes.entrySet() yields two labels: -1 and 0 fall in *)
(* the same bucket of the HashMap and keep the order of insertion, 1 falls *)
(* in the bucket behind it.                                                *)
EntryBefore(col, l, m) ==
  \/ m = 1 /\ l # 1
  \/ m # 1 /\ l # 1 /\ FirstVote(col, l) < FirstVote(col, m)

(* Mutant: the first tree decides.                                         *)
MutFirstTree(col) == col[1]

(* The label countVotes picks: the first entry no other entry has more     *)
(* votes than.                                                             *)
MaxEntry(col) ==
  CHOOSE l \in {col[i] : i \in DOMAIN col} :
    \A m \in {col[i] : i \in DOMAIN col} :
      \/ m = l
      \/ Votes(col, l) > Votes(col, m)
      \/ Votes(col, l) = Votes(col, m) /\ EntryBefore(col, l, m)

=============================================================================
