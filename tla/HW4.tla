--------------------------------- MODULE HW4 ---------------------------------
(***************************************************************************)
(* Cassandra/src: HW4.main, which takes its instances from the table forex *)
(* of a Cassandra cluster, grows a random forest on the first of them,     *)
(* tests it on the others and stores it in the table randforest.  Several  *)
(* runs of the program may be under way, and it may be run again after it  *)
(* died.                                                                   *)
(*                                                                         *)
(* An instance is a number, and the order of the numbers is the order in   *)
(* which Cassandra returns the rows.  A tree is the set of labels it was   *)
(* trained on, as in module RandomForest.  Loading the table is commented  *)
(* out in the program ("only executed once") and may be going on.          *)
(***************************************************************************)
EXTENDS CountVotes, Sequences

CONSTANTS
  Runs,         \* the runs of the program
  Rfids,        \* the values of rfid a run may be given
  TreeCounts,   \* the values of N a run may be given
  label,        \* the label of every instance
  LIMIT,        \* SELECT ... LIMIT 10000
  TRAIN_COUNT,  \* i < 8000
  TEST_COUNT    \* matchCount / 2000

Instances == DOMAIN label

ASSUME HW4Assumption ==
  /\ TreeCounts \subseteq Nat
  /\ label \in Seq(Labels)
  /\ TRAIN_COUNT \in Nat /\ TEST_COUNT \in Nat
  /\ LIMIT = TRAIN_COUNT + TEST_COUNT

VARIABLES
  forex,       \* the instances in the table forex
  randforest,  \* the table randforest, by rfid
  run          \* the runs: where each is, and its local variables

vars == <<forex, randforest, run>>

NotStarted ==
  [pc |-> "idle", rfid |-> 0, N |-> 0, training |-> {}, testing |-> {},
   trees |-> <<>>, stats |-> <<>>, matchCount |-> 0]

LabelsOf(S) == {label[i] : i \in S}
First(S, n) == {x \in S : Cardinality({y \in S : y < x}) < n}
TrainSize(c) == (2 * Cardinality(run[c].training)) \div 3

Init ==
  /\ forex \in SUBSET Instances
  /\ randforest = [r \in {} |-> {}]
  /\ run = [c \in Runs |-> NotStarted]

(* Another program adds a row to the table.                                *)
Load(i) ==
  /\ i \notin forex
  /\ forex' = forex \cup {i}
  /\ UNCHANGED <<randforest, run>>

(* The run reads the table: the rows that come first are for training,     *)
(* those behind them for testing.                                          *)
Select(c, rfid, N) ==
  /\ run[c].pc = "idle"
  /\ LET rows == First(forex, LIMIT)
         train == First(rows, TRAIN_COUNT)
     IN  run' = [run EXCEPT ![c] = [NotStarted EXCEPT
           !.pc = "building", !.rfid = rfid, !.N = N,
           !.training = train, !.testing = rows \ train]]
  /\ UNCHANGED <<forex, randforest>>

Building(c) == run[c].pc = "building" /\ Len(run[c].trees) < run[c].N

(* buildForest: one tree is trained on two thirds of the training          *)
(* instances and tested on the others.                                     *)
GrowTree(c, train, predict) ==
  /\ Building(c)
  /\ LET test == run[c].training \ train
     IN  run' = [run EXCEPT
           ![c].trees = Append(@, LabelsOf(train)),
           ![c].stats = Append(@,
              [matched |-> Cardinality({i \in test : predict[i] = label[i]}),
               tested |-> Cardinality(test)])]
  /\ UNCHANGED <<forex, randforest>>

Die(c) == run' = [run EXCEPT ![c].pc = "died"]

(* One training instance: the tree is grown on none and cannot answer for  *)
(* the one it is tested on.                                                *)
EmptyTree(c) ==
  /\ Building(c)
  /\ TrainSize(c) = 0 /\ run[c].training # {}
  /\ Die(c)
  /\ UNCHANGED <<forex, randforest>>

(* classify, and the loop that counts the matches.                         *)
classify(c, labels) ==
  /\ run[c].pc = "building" /\ Len(run[c].trees) = run[c].N /\ run[c].N > 0
  /\ \A t \in run[c].testing, i \in 1..run[c].N :
       labels[t][i] \in run[c].trees[i]
  /\ run' = [run EXCEPT
       ![c].pc = "classified",
       ![c].matchCount = Cardinality({t \in run[c].testing :
                                        label[t] = MaxEntry(labels[t])})]
  /\ UNCHANGED <<forex, randforest>>

(* countVotes on a forest without trees: get(0) throws.                    *)
NoTrees(c) ==
  /\ run[c].pc = "building" /\ run[c].N = 0
  /\ Die(c)
  /\ UNCHANGED <<forex, randforest>>

(* precision is matchCount over the constant.                              *)
precision(c) == [num |-> run[c].matchCount, den |-> TEST_COUNT]

Row(c) ==
  [trees |-> run[c].trees, stats |-> run[c].stats, n |-> run[c].N,
   precision |-> precision(c)]

(* Mutant: only the numbers of a row that exists are replaced.             *)
MutStored(c) ==
  [r \in DOMAIN randforest \cup {run[c].rfid} |->
     CASE r # run[c].rfid -> randforest[r]
       [] r = run[c].rfid /\ r \notin DOMAIN randforest -> Row(c)
       [] OTHER -> [randforest[r] EXCEPT !.precision = precision(c)]]

(* The table after the INSERT, which in Cassandra replaces a row that has  *)
(* the same rfid.                                                          *)
Stored(c) ==
  [r \in DOMAIN randforest \cup {run[c].rfid} |->
     IF r = run[c].rfid THEN Row(c) ELSE randforest[r]]

(* The run stores its forest and ends.                                     *)
Insert(c) ==
  /\ run[c].pc = "classified"
  /\ randforest' = Stored(c)
  /\ run' = [run EXCEPT ![c].pc = "stored"]
  /\ UNCHANGED forex

(* Cassandra cannot be reached, an argument is not a number or the process *)
(* is killed.  An INSERT that was not answered may have been made.         *)
Fails(c) ==
  /\ run[c].pc \notin {"stored", "died"}
  /\ Die(c)
  /\ \/ UNCHANGED randforest
     \/ run[c].pc = "classified" /\ randforest' = Stored(c)
  /\ UNCHANGED forex

Work(c) ==
  \/ \E train \in kSubset(TrainSize(c), run[c].training) :
       \E predict \in [run[c].training \ train -> LabelsOf(train)] :
         GrowTree(c, train, predict)
  \/ EmptyTree(c) \/ NoTrees(c)
  \/ \E labels \in [run[c].testing -> [1..run[c].N -> Labels]] :
       classify(c, labels)
  \/ Insert(c)

(* Nobody starts another run.                                              *)
Rest ==
  /\ \A c \in Runs : run[c].pc \in {"idle", "stored", "died"}
  /\ UNCHANGED vars

Next ==
  \/ \E i \in Instances : Load(i)
  \/ \E c \in Runs, r \in Rfids, n \in TreeCounts : Select(c, r, n)
  \/ \E c \in Runs : Work(c)
  \/ \E c \in Runs : Fails(c)
  \/ Rest

Spec == Init /\ [][Next]_vars

-----------------------------------------------------------------------------
(* Every variable has the type the program and the tables give it.         *)
Stats == Seq([matched : Nat, tested : Nat])
TypeOK ==
  /\ forex \subseteq Instances
  /\ DOMAIN randforest \subseteq Rfids
  /\ \A r \in DOMAIN randforest :
       /\ randforest[r].trees \in Seq(SUBSET Labels)
       /\ randforest[r].stats \in Stats /\ randforest[r].n \in TreeCounts
       /\ randforest[r].precision \in [num : Nat, den : Nat]
  /\ \A c \in Runs :
       /\ run[c].pc \in {"idle", "building", "classified", "stored", "died"}
       /\ run[c].training \subseteq Instances /\ run[c].testing \subseteq Instances
       /\ run[c].trees \in Seq(SUBSET Labels) /\ run[c].stats \in Stats
       /\ run[c].matchCount \in Nat

(* However many runs are given the same rfid, and wherever they die, the   *)
(* row is the work of one of them: its trees, their statistics, their      *)
(* number and the precision belong together.                               *)
RowOfOneRun ==
  \A r \in DOMAIN randforest : \E c \in Runs :
    /\ run[c].rfid = r /\ run[c].pc \in {"stored", "died"}
    /\ randforest[r] = Row(c)

(* The forest that is stored is whole: n trees, each with its statistics,  *)
(* and at least one.                                                       *)
StoredForestWhole ==
  \A r \in DOMAIN randforest :
    LET f == randforest[r]
    IN  /\ f.n > 0 /\ Len(f.trees) = f.n /\ Len(f.stats) = f.n
        /\ \A i \in 1..f.n : f.stats[i].matched <= f.stats[i].tested

(* The constant 2000 in main is right for a table with LIMIT rows, and the *)
(* precision never exceeds one; it is positive only for a forest that was  *)
(* grown on all 8000 training instances.                                   *)
PrecisionSound ==
  \A c \in Runs : run[c].pc = "classified" =>
    /\ precision(c).num <= precision(c).den
    /\ precision(c).num > 0 => Cardinality(run[c].training) = TRAIN_COUNT
    /\ Cardinality(run[c].training \cup run[c].testing) = LIMIT =>
         Cardinality(run[c].testing) = precision(c).den

(* "10000 is chosen as the dataset size with 8K being training data and 2K *)
(* being testing data": the precision that is stored is the share of the   *)
(* testing instances that were predicted.                                  *)
PrecisionIsShare ==
  \A c \in Runs : run[c].pc = "stored" =>
    run[c].matchCount * precision(c).den
      = precision(c).num * Cardinality(run[c].testing)

(* The invariants above, of the row that several runs share.               *)
(* (main of HW4)                                                           *)
RowSound == TypeOK /\ RowOfOneRun /\ StoredForestWhole /\ PrecisionSound
=============================================================================
