------------------------ MODULE MRRandomForestSetup ------------------------
(***************************************************************************)
(* MRRandonForest/src/MRRandomForestSetup: the program that reads prepared *)
(* records and stores them in Cassandra, once for every tree of a forest,  *)
(* as the names of the counter columns of one row.                         *)
(*                                                                         *)
(* A record is a natural number, and the order of the numbers is the order *)
(* of Cassandra's UTF8Type comparator.  Cassandra is external: a row is    *)
(* the set of its columns, adding zero to a counter creates the column or  *)
(* changes nothing, and a keyspace that exists cannot be added again.      *)
(***************************************************************************)
EXTENDS Integers, Sequences, FiniteSets, FiniteSetsExt

CONSTANTS
  InputFiles,      \* the files of records the program may find
  N,               \* the number of trees
  TRAINING_COUNT,  \* 10000 in the code
  MaxSetups        \* bound on the number of times the program is run

ASSUME SetupAssumption ==
  /\ InputFiles \subseteq Seq(Nat)
  /\ N \in Nat
  /\ TRAINING_COUNT \in Nat \ {0, 1}
  /\ MaxSetups \in Nat

VARIABLES
  input,        \* the records of the input file
  setup,        \* "idle", "connected", "adding", "done" or "died"
  setups,       \* how often the program was run
  totTraining,  \* the records it has read
  keyspace,     \* the keyspace exists in Cassandra
  creator,      \* history: the run that added the keyspace
  rows,         \* for every key the columns of its row
  row,          \* the key whose columns are being added
  left          \* the positions in totTraining still to be added to it

setupVars == <<input, setup, setups, totTraining, keyspace, creator, rows,
               row, left>>

Keys == 0..(N - 1)

SetupInit ==
  /\ input \in InputFiles
  /\ setup = "idle" /\ setups = 0
  /\ totTraining = <<>>
  /\ keyspace = FALSE /\ creator = 0
  /\ rows = [k \in Keys |-> {}]
  /\ row = 0 /\ left = {}

(* The program is run, for the first time or again after it ended or died. *)
(* It reads at most TRAINING_COUNT records; a file that is missing or      *)
(* cannot be read further is reported, and the program goes on with the    *)
(* records it has.                                                         *)
ReadRecords(n) ==
  /\ setup \in {"idle", "done", "died"} /\ setups < MaxSetups
  /\ setups' = setups + 1
  /\ n <= TRAINING_COUNT
  /\ totTraining' = SubSeq(input, 1, n)
  /\ setup' = "connected"
  /\ UNCHANGED <<input, keyspace, creator, rows, row, left>>

(* A record that does not parse: nothing has reached Cassandra.            *)
BadRecord ==
  /\ setup \in {"idle", "done", "died"} /\ setups < MaxSetups
  /\ setups' = setups + 1
  /\ setup' = "died"
  /\ UNCHANGED <<input, totTraining, keyspace, creator, rows, row, left>>

(* setupKeyspace: adding the keyspace and its column family.               *)
setupKeyspace ==
  /\ setup = "connected" /\ ~keyspace
  /\ keyspace' = TRUE /\ creator' = setups
  /\ setup' = IF N = 0 THEN "done" ELSE "adding"
  /\ row' = 0 /\ left' = DOMAIN totTraining
  /\ UNCHANGED <<input, setups, totTraining, rows>>

KeyspaceExists ==
  /\ setup = "connected" /\ keyspace
  /\ setup' = "died"
  /\ UNCHANGED <<input, setups, totTraining, keyspace, creator, rows, row,
                 left>>

(* client.add of one record, in the order of the last shuffle.             *)
AddColumn(i) ==
  /\ setup = "adding" /\ i \in left
  /\ rows' = [rows EXCEPT ![row] = @ \cup {totTraining[i]}]
  /\ left' = left \ {i}
  /\ UNCHANGED <<input, setup, setups, totTraining, keyspace, creator, row>>

(* The row has all its columns: the next one is shuffled and added.        *)
NextRow ==
  /\ setup = "adding" /\ left = {}
  /\ IF row + 1 < N
     THEN /\ row' = row + 1 /\ left' = DOMAIN totTraining
          /\ UNCHANGED setup
     ELSE setup' = "done" /\ UNCHANGED <<row, left>>
  /\ UNCHANGED <<input, setups, totTraining, keyspace, creator, rows>>

(* Cassandra refuses or does not answer, or the process dies: an add that  *)
(* is reported as failed may still have been made.                         *)
SetupFails ==
  /\ setup \in {"connected", "adding"}
  /\ setup' = "died"
  /\ \/ UNCHANGED rows
     \/ \E i \in left : setup = "adding" /\
          rows' = [rows EXCEPT ![row] = @ \cup {totTraining[i]}]
  /\ UNCHANGED <<input, setups, totTraining, keyspace, creator, row, left>>

SetupNext ==
  \/ \E n \in 0..Len(input) : ReadRecords(n)
  \/ BadRecord
  \/ setupKeyspace \/ KeyspaceExists
  \/ \E i \in left : AddColumn(i)
  \/ NextRow
  \/ SetupFails

=============================================================================
