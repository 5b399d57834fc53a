------------------------ MODULE MRRandomForestProofs ------------------------
(***************************************************************************)
(* What MRRandomForestSetup and the job make of any file, for any number   *)
(* of trees, of map tasks and of attempts: the model holds one tree of a   *)
(* row, all of the same instances, the rows have one writer, and a model   *)
(* that is there stays.                                                    *)
(***************************************************************************)
EXTENDS MRRandomForest, FiniteSetTheorems, WellFoundedInduction, NaturalsInduction, TLAPS

-----------------------------------------------------------------------------
(* The inductive invariant, in parts.                                      *)

(* The program that adds columns is the one that made the keyspace; the    *)
(* rows before the one it is at are complete, those behind it empty.       *)
Read == {totTraining[i] : i \in DOMAIN totTraining}
Adding ==
  setup = "adding" =>
    /\ keyspace /\ setups = creator /\ row \in Keys /\ left \subseteq DOMAIN totTraining
    /\ \A k \in Keys :
         /\ k < row => rows[k] = Read
         /\ k = row => rows[k] = {totTraining[i] : i \in DOMAIN totTraining \ left}
         /\ k > row => rows[k] = {}

(* A row has no more columns than are read of it, and all rows are the     *)
(* same when the setup is done, which they stay.                           *)
AllEqual == \A k, j \in Keys : rows[k] = rows[j]
Stored ==
  /\ \A k \in Keys : IsFiniteSet(rows[k]) /\ Cardinality(rows[k]) <= TRAINING_COUNT
  /\ ~keyspace => \A k \in Keys : rows[k] = {}
  /\ setup = "done" => keyspace /\ AllEqual
  /\ afterSetup => keyspace /\ setup # "adding" /\ AllEqual

(* A job runs over an output directory of its own.                         *)
Output == /\ job = "running" => outputDir /\ ~modelFile
          /\ modelFile => outputDir
          /\ ~modelFile => model = {}

(* A map task has emitted at most one tree for a key it has read.          *)
OneEach(T) == /\ \A s, t \in T : s.key = t.key => s = t
              /\ \A t \in T : t.train # {}
Emitted ==
  /\ emitted = [r \in Ranges |-> emitted[r]]
  /\ \A r \in Ranges : /\ toRead[r] \subseteq r /\ OneEach(emitted[r])
                       /\ \A t \in emitted[r] : t.key \in r \ toRead[r]

(* The trees of a job that was submitted after the setup was done: of the  *)
(* whole row, and of every row that has columns.                           *)
Grown(t) == t = Tree(t.key, First(rows[t.key], SLICE_COUNT))
Complete(T, K) == /\ \A t \in T : t.key \in Keys /\ Grown(t)
                  /\ \A k \in K : rows[k] # {} => \E t \in T : t.key = k
Forest ==
  afterSetup =>
    /\ job = "running" => \A r \in Ranges : Complete(emitted[r], r \ toRead[r])
    /\ job = "succeeded" => Complete(model, Keys)

IInv == TypeOK /\ Adding /\ Stored /\ Output /\ Emitted /\ OneTreePerRow /\ Forest

-----------------------------------------------------------------------------
(* The first columns of a row.                                             *)
LEMMA LeastOf ==
  ASSUME NEW S, S \subseteq Nat, S # {}
  PROVE  \E x \in S : \A y \in S : ~(y < x)
  <1>1. PICK x \in S : \A y \in S : <<y, x>> \notin OpToRel(<, Nat)
    BY NatLessThanWellFounded, WFMin
  <1>2. QED  BY <1>1 DEF OpToRel

LEMMA FirstNotEmpty ==
  ASSUME NEW S, S \subseteq Nat, S # {}, NEW n \in Nat, n >= 1
  PROVE  First(S, n) # {}
  <1>1. PICK x \in S : \A y \in S : ~(y < x)
    BY LeastOf
  <1>2. {y \in S : y < x} = {}
    BY <1>1
  <1>3. Cardinality({y \in S : y < x}) = 0
    BY <1>2, FS_EmptySet
  <1>4. QED  BY <1>3 DEF First

LEMMA FirstOfFew ==
  ASSUME NEW S, S \subseteq Nat, IsFiniteSet(S), NEW n \in Nat, Cardinality(S) <= n
  PROVE  First(S, n) = S
  <1> SUFFICES ASSUME NEW x \in S PROVE Cardinality({y \in S : y < x}) < n
    BY DEF First
  <1>1. {y \in S : y < x} \in SUBSET (S \ {x})
    OBVIOUS
  <1>2. IsFiniteSet(S \ {x}) /\ Cardinality(S \ {x}) = Cardinality(S) - 1
        /\ Cardinality(S) \in Nat
    BY FS_RemoveElement, FS_CardinalityType
  <1>3. Cardinality({y \in S : y < x}) <= Cardinality(S \ {x})
        /\ Cardinality({y \in S : y < x}) \in Nat
    BY <1>1, <1>2, FS_Subset, FS_CardinalityType
  <1>4. QED  BY <1>2, <1>3

(* A tree has instances, and with those it is tested on the columns.       *)
LEMMA TreeOf ==
  ASSUME NEW S, S \subseteq Nat, NEW k
  PROVE  /\ Tree(k, S).key = k
         /\ Tree(k, S).train \subseteq S /\ Tree(k, S).train \cup Tree(k, S).test = S
         /\ S # {} => Tree(k, S).train # {}
  <1> DEFINE n == (TRAINING_COUNT * 2) \div 3
  <1>1. n \in Nat /\ n >= 1
    BY SetupAssumption
  <1>2. /\ Tree(k, S).key = k /\ Tree(k, S).train = First(S, n)
        /\ Tree(k, S).test = S \ First(S, n)
    BY DEF Tree
  <1>3. First(S, n) \subseteq S
    BY DEF First
  <1>4. S # {} => First(S, n) # {}
    BY <1>1, FirstNotEmpty
  <1>5. QED  BY <1>2, <1>3, <1>4

(* What is read of a row, and the tree of it.                              *)
LEMMA SliceOf ==
  ASSUME NEW S, S \subseteq Nat, IsFiniteSet(S), Cardinality(S) <= TRAINING_COUNT, NEW k
  PROVE  /\ First(S, SLICE_COUNT) = S
         /\ Tree(k, First(S, SLICE_COUNT)).key = k
         /\ S # {} => Tree(k, First(S, SLICE_COUNT)).train # {}
         /\ Tree(k, First(S, SLICE_COUNT)).train \subseteq S
         /\ Tree(k, First(S, SLICE_COUNT)).train \cup Tree(k, First(S, SLICE_COUNT)).test = S
  <1>1. SLICE_COUNT \in Nat /\ Cardinality(S) <= SLICE_COUNT
    BY JobAssumption, SetupAssumption, FS_CardinalityType
  <1>2. First(S, SLICE_COUNT) = S
    BY <1>1, FirstOfFew
  <1>3. QED  BY <1>2, TreeOf

(* The records, and what has been read of them.                            *)
LEMMA RecordsRead ==
  ASSUME TypeOK
  PROVE  /\ Records \subseteq Nat
         /\ \A k \in Keys : rows[k] \subseteq Nat
         /\ Read \subseteq Records /\ IsFiniteSet(Read) /\ Cardinality(Read) <= TRAINING_COUNT
         /\ Cardinality(Read) \in Nat
  <1>1. Records \subseteq Nat /\ \A k \in Keys : rows[k] \subseteq Records
    BY DEF TypeOK, Records
  <1>2. DOMAIN totTraining = 1 .. Len(totTraining) /\ Len(totTraining) \in Nat
        /\ Read \subseteq Records
    BY DEF TypeOK, Read
  <1>3. IsFiniteSet(1 .. Len(totTraining)) /\ Cardinality(1 .. Len(totTraining)) = Len(totTraining)
    <2>1. \A m \in Nat : IsFiniteSet(1 .. m) /\ Cardinality(1 .. m) = m
      <3>1. \A a, b \in Int : /\ IsFiniteSet(a .. b)
                             /\ Cardinality(a .. b) = IF a > b THEN 0 ELSE b - a + 1
        BY FS_Interval
      <3>2. QED  BY <3>1
    <2>2. QED  BY <1>2, <2>1
  <1>4. totTraining \in Surjection(1 .. Len(totTraining), Read)
    BY <1>2 DEF Surjection, Read, TypeOK
  <1>5. IsFiniteSet(Read) /\ Cardinality(Read) <= Len(totTraining)
    BY <1>3, <1>4, FS_Surjection
  <1>6. Len(totTraining) <= TRAINING_COUNT /\ TRAINING_COUNT \in Nat /\ Cardinality(Read) \in Nat
    BY <1>5, FS_CardinalityType, SetupAssumption DEF TypeOK
  <1>7. \A x, y, z \in Nat : x <= y /\ y <= z => x <= z
    OBVIOUS
  <1>8. Cardinality(Read) <= TRAINING_COUNT
    BY <1>2, <1>5, <1>6, <1>7
  <1>9. \A k \in Keys : rows[k] \subseteq Nat
    BY <1>1
  <1>10. QED  BY <1>1, <1>2, <1>5, <1>6, <1>8, <1>9

-----------------------------------------------------------------------------
(* Init.                                                                   *)
LEMMA InitIInv == Init => IInv
  <1> SUFFICES ASSUME Init PROVE IInv
    OBVIOUS
  <1> USE DEF Init, SetupInit, JobInit
  <1>1. input \in Seq(Nat)
    BY SetupAssumption
  <1>2. TypeOK
    <2>1. totTraining \in Seq(Records) /\ Len(totTraining) <= TRAINING_COUNT
      BY SetupAssumption
    <2>2. /\ setups \in 0 .. MaxSetups /\ creator \in 0 .. MaxSetups /\ jobs \in 0 .. MaxJobs
          /\ attempts \in [Ranges -> 0 .. (MaxAttempts - 1)]
      BY SetupAssumption, JobAssumption
    <2>3. rows \in [Keys -> SUBSET Records] /\ toRead \in [Ranges -> SUBSET Keys]
      BY JobAssumption
    <2>4. QED  BY <1>1, <2>1, <2>2, <2>3 DEF TypeOK
  <1>3. Adding /\ Output /\ Emitted /\ OneTreePerRow /\ Forest
    BY DEF Adding, Output, Emitted, OneEach, OneTreePerRow, Forest
  <1>4. Stored
    <2>1. IsFiniteSet({}) /\ Cardinality({}) = 0
      BY FS_EmptySet
    <2>2. QED  BY <2>1, SetupAssumption DEF Stored, AllEqual
  <1>5. QED  BY <1>2, <1>3, <1>4 DEF IInv

(* The steps of the setup.  They change no row once a job has been         *)
(* submitted after the setup was done.                                     *)
LEMMA SetupKeeps ==
  ASSUME IInv, UNCHANGED jobVars, afterSetup => rows' = rows
  PROVE  Output' /\ Emitted' /\ OneTreePerRow' /\ Forest'
  <1>1. Output' /\ Emitted' /\ OneTreePerRow'
    BY DEF IInv, jobVars, Output, Emitted, OneEach, OneTreePerRow
  <1>2. Forest'
    BY DEF IInv, jobVars, Forest, Complete, Grown
  <1>3. QED  BY <1>1, <1>2

LEMMA ReadRecordsStep ==
  ASSUME IInv, NEW n \in 0 .. Len(input), ReadRecords(n), UNCHANGED jobVars
  PROVE  IInv'
  <1> USE DEF IInv
  <1>1. /\ setup \in {"idle", "done", "died"} /\ setup' = "connected"
        /\ setups < MaxSetups /\ setups' = setups + 1
        /\ n <= TRAINING_COUNT /\ totTraining' = SubSeq(input, 1, n)
        /\ UNCHANGED <<input, keyspace, creator, rows, row, left>>
    BY DEF ReadRecords
  <1>2. TypeOK'
    <2>1. totTraining' \in Seq(Records) /\ Len(totTraining') <= TRAINING_COUNT
      <3>1. input \in Seq(Nat) /\ n \in 0 .. Len(input)
        BY DEF TypeOK
      <3>2. SubSeq(input, 1, n) \in Seq(Records) /\ Len(SubSeq(input, 1, n)) = n
        BY <3>1 DEF Records
      <3>3. QED  BY <1>1, <3>2
    <2>2. setups' \in 0 .. MaxSetups
      BY <1>1, SetupAssumption DEF TypeOK
    <2>3. Records' = Records
      BY <1>1 DEF Records
    <2>4. QED  BY <1>1, <2>1, <2>2, <2>3 DEF TypeOK, jobVars
  <1>3. Adding'
    BY <1>1 DEF Adding
  <1>4. Stored'
    BY <1>1 DEF Stored, AllEqual, jobVars
  <1>5. QED  BY <1>1, <1>2, <1>3, <1>4, SetupKeeps

LEMMA BadRecordStep == ASSUME IInv, BadRecord, UNCHANGED jobVars PROVE IInv'
  <1> USE DEF IInv, BadRecord
  <1>1. TypeOK'
    BY SetupAssumption DEF TypeOK, jobVars, Records
  <1>2. Adding' /\ Stored'
    BY DEF Adding, Stored, AllEqual, jobVars
  <1>3. QED  BY <1>1, <1>2, SetupKeeps

LEMMA SetupKeyspaceStep == ASSUME IInv, setupKeyspace, UNCHANGED jobVars PROVE IInv'
  <1> USE DEF IInv, setupKeyspace
  <1>1. DOMAIN totTraining = 1 .. Len(totTraining) /\ Len(totTraining) \in Nat
        /\ Len(totTraining) <= TRAINING_COUNT
    BY DEF TypeOK
  <1>2. TypeOK'
    <2>1. left' \subseteq 1 .. TRAINING_COUNT
      BY <1>1, SetupAssumption
    <2>2. QED  BY <2>1 DEF TypeOK, jobVars, Records
  <1>3. Adding'
    <2>1. setup' = "adding" => 0 \in Keys
      BY SetupAssumption DEF Keys
    <2>2. \A k \in Keys : k >= 0 /\ rows[k] = {}
      BY SetupAssumption DEF Keys, Stored
    <2>3. \A k \in Keys : k \in Int /\ ~(k < 0)
      BY SetupAssumption DEF Keys
    <2>4. QED  BY <2>1, <2>2, <2>3 DEF Adding, Keys
  <1>4. Stored'
    BY DEF Stored, AllEqual, jobVars
  <1>5. QED  BY <1>2, <1>3, <1>4, SetupKeeps

LEMMA KeyspaceExistsStep == ASSUME IInv, KeyspaceExists, UNCHANGED jobVars PROVE IInv'
  <1> USE DEF IInv, KeyspaceExists
  <1>1. TypeOK'
    BY DEF TypeOK, jobVars, Records
  <1>2. Adding' /\ Stored'
    BY DEF Adding, Stored, AllEqual, jobVars
  <1>3. QED  BY <1>1, <1>2, SetupKeeps

(* One column more of the row the setup is at, reported or not.            *)
LEMMA ColumnAdded ==
  ASSUME IInv, setup = "adding", NEW i \in left, rows' = [rows EXCEPT ![row] = @ \cup {totTraining[i]}],
         UNCHANGED <<input, totTraining>>
  PROVE  /\ rows' \in [Keys -> SUBSET Records] /\ row \in Keys
         /\ \A k \in Keys : k # row => rows'[k] = rows[k]
         /\ rows'[row] = {totTraining[j] : j \in DOMAIN totTraining \ (left \ {i})}
         /\ \A k \in Keys : IsFiniteSet(rows'[k]) /\ Cardinality(rows'[k]) <= TRAINING_COUNT
  <1> USE DEF IInv
  <1>1. /\ row \in Keys /\ left \subseteq DOMAIN totTraining
        /\ rows[row] = {totTraining[j] : j \in DOMAIN totTraining \ left}
    BY DEF Adding
  <1>2. totTraining[i] \in Records /\ rows \in [Keys -> SUBSET Records]
    BY <1>1, RecordsRead DEF TypeOK, Read
  <1>3. /\ rows' \in [Keys -> SUBSET Records]
        /\ \A k \in Keys : k # row => rows'[k] = rows[k]
        /\ rows'[row] = rows[row] \cup {totTraining[i]}
    BY <1>1, <1>2
  <1>4. rows'[row] = {totTraining[j] : j \in DOMAIN totTraining \ (left \ {i})}
    BY <1>1, <1>3
  <1>5. IsFiniteSet(rows'[row]) /\ Cardinality(rows'[row]) <= TRAINING_COUNT
    <2>1. rows'[row] \in SUBSET Read
      BY <1>4 DEF Read
    <2>2. IsFiniteSet(Read) /\ Cardinality(Read) <= TRAINING_COUNT /\ Cardinality(Read) \in Nat
      BY RecordsRead
    <2>3. IsFiniteSet(rows'[row]) /\ Cardinality(rows'[row]) <= Cardinality(Read)
          /\ Cardinality(rows'[row]) \in Nat
      BY <2>1, <2>2, FS_Subset, FS_CardinalityType
    <2>4. QED  BY <2>2, <2>3, SetupAssumption
  <1>6. QED  BY <1>1, <1>3, <1>4, <1>5 DEF Stored

LEMMA AddColumnStep ==
  ASSUME IInv, NEW i \in left, AddColumn(i), UNCHANGED jobVars
  PROVE  IInv'
  <1> USE DEF IInv
  <1>1. /\ setup = "adding" /\ setup' = "adding" /\ left' = left \ {i}
        /\ rows' = [rows EXCEPT ![row] = @ \cup {totTraining[i]}]
        /\ UNCHANGED <<input, setups, totTraining, keyspace, creator, row>>
    BY DEF AddColumn
  <1>2. /\ rows' \in [Keys -> SUBSET Records] /\ row \in Keys
        /\ \A k \in Keys : k # row => rows'[k] = rows[k]
        /\ rows'[row] = {totTraining[j] : j \in DOMAIN totTraining \ (left \ {i})}
        /\ \A k \in Keys : IsFiniteSet(rows'[k]) /\ Cardinality(rows'[k]) <= TRAINING_COUNT
    BY <1>1, ColumnAdded
  <1>3. TypeOK'
    BY <1>1, <1>2 DEF TypeOK, jobVars, Records
  <1>4. Adding'
    <2>1. \A k \in Keys : k \in Int
      BY DEF Keys
    <2>2. Read' = Read
      BY <1>1 DEF Read
    <2>3. \A k \in Keys : /\ k < row => rows'[k] = Read
                          /\ k = row => rows'[k] = {totTraining[j] : j \in DOMAIN totTraining \ left'}
                          /\ k > row => rows'[k] = {}
      BY <1>1, <1>2, <2>1 DEF Adding
    <2>4. QED  BY <1>1, <2>2, <2>3 DEF Adding
  <1>5. Stored'
    BY <1>1, <1>2 DEF Stored, Adding, jobVars
  <1>6. QED  BY <1>1, <1>3, <1>4, <1>5, SetupKeeps DEF Stored

LEMMA SetupFailsStep == ASSUME IInv, SetupFails, UNCHANGED jobVars PROVE IInv'
  <1> USE DEF IInv
  <1>1. /\ setup' = "died" /\ UNCHANGED <<input, setups, totTraining, keyspace, creator, row, left>>
        /\ \/ UNCHANGED rows
           \/ setup = "adding" /\ \E i \in left : rows' = [rows EXCEPT ![row] = @ \cup {totTraining[i]}]
    BY DEF SetupFails
  <1>2. /\ rows' \in [Keys -> SUBSET Records]
        /\ \A k \in Keys : IsFiniteSet(rows'[k]) /\ Cardinality(rows'[k]) <= TRAINING_COUNT
    BY <1>1, ColumnAdded DEF TypeOK, Stored
  <1>3. TypeOK'
    BY <1>1, <1>2 DEF TypeOK, jobVars, Records
  <1>4. Adding' /\ Stored'
    BY <1>1, <1>2 DEF Adding, Stored, AllEqual, jobVars
  <1>5. QED  BY <1>1, <1>3, <1>4, SetupKeeps DEF Stored

LEMMA NextRowStep == ASSUME IInv, NextRow, UNCHANGED jobVars PROVE IInv'
  <1> USE DEF IInv
  <1>1. /\ setup = "adding" /\ left = {}
        /\ UNCHANGED <<input, setups, totTraining, keyspace, creator, rows>>
        /\ \/ row + 1 < N /\ row' = row + 1 /\ left' = DOMAIN totTraining /\ setup' = "adding"
           \/ ~(row + 1 < N) /\ setup' = "done" /\ UNCHANGED <<row, left>>
    BY DEF NextRow
  <1>2. /\ \A k \in Keys : /\ k < row => rows[k] = Read
                           /\ k = row => rows[k] = Read
                           /\ k > row => rows[k] = {}
        /\ row \in Keys /\ keyspace /\ setups = creator
    BY <1>1 DEF Adding, Read
  <1>3. \A k \in Keys : k \in Nat /\ k < N
    BY SetupAssumption DEF Keys
  <1>4. DOMAIN totTraining \subseteq 1 .. TRAINING_COUNT
    BY SetupAssumption DEF TypeOK
  <1>5. TypeOK'
    BY <1>1, <1>2, <1>3, <1>4 DEF TypeOK, jobVars, Records
  <1>6. Adding'
    <2>1. CASE setup' = "done"
      BY <2>1 DEF Adding
    <2>2. CASE row + 1 < N /\ row' = row + 1 /\ left' = DOMAIN totTraining
      <3>1. row' \in Keys
        BY <1>2, <1>3, <2>2, SetupAssumption DEF Keys
      <3>2. Read' = Read
        BY <1>1 DEF Read
      <3>3. \A k \in Keys : /\ k < row' => rows[k] = Read
                            /\ k = row' => rows[k] = {}
                            /\ k > row' => rows[k] = {}
        BY <1>2, <1>3, <2>2
      <3>4. QED  BY <1>1, <1>2, <2>2, <3>1, <3>2, <3>3 DEF Adding
    <2>3. QED  BY <1>1, <2>1, <2>2
  <1>7. Stored'
    <2>1. ~(row + 1 < N) => \A k \in Keys : rows[k] = Read
      BY <1>2, <1>3, SetupAssumption
    <2>2. QED  BY <1>1, <1>2, <2>1 DEF Stored, AllEqual, jobVars
  <1>8. QED  BY <1>1, <1>5, <1>6, <1>7, SetupKeeps

LEMMA SetupStepInv == ASSUME IInv, SetupStep PROVE IInv'
  BY ReadRecordsStep, BadRecordStep, SetupKeyspaceStep, KeyspaceExistsStep, AddColumnStep, NextRowStep,
     SetupFailsStep DEF SetupStep, SetupNext

-----------------------------------------------------------------------------
(* The steps of the job.  They change nothing of the setup.                *)
LEMMA JobKeeps ==
  ASSUME IInv, UNCHANGED setupVars
  PROVE  /\ Adding' /\ Records' = Records /\ AllEqual' = AllEqual
         /\ UNCHANGED afterSetup => Stored'
  BY DEF IInv, setupVars, Adding, Read, Records, Stored, AllEqual

(* Nothing of the trees of this attempt or of this job is left.            *)
LEMMA SubmitStep == ASSUME IInv, Submit PROVE IInv'
  <1> USE DEF IInv
  <1>1. /\ UNCHANGED setupVars /\ UNCHANGED <<modelFile, model, exit>>
        /\ job' = "running" /\ outputDir' = TRUE /\ ~outputDir
        /\ attempts' = [r \in Ranges |-> 0] /\ toRead' = [r \in Ranges |-> r]
        /\ emitted' = [r \in Ranges |-> {}] /\ afterSetup' = (setup = "done")
        /\ jobs < MaxJobs /\ jobs' = jobs + 1
    BY DEF Submit, CanRun
  <1>2. Adding' /\ Records' = Records
    BY <1>1, JobKeeps
  <1>3. TypeOK'
    <2>1. attempts' \in [Ranges -> 0 .. (MaxAttempts - 1)]
      BY <1>1, JobAssumption
    <2>2. toRead' \in [Ranges -> SUBSET Keys]
      BY <1>1, JobAssumption
    <2>3. jobs' \in 0 .. MaxJobs
      BY <1>1, JobAssumption DEF TypeOK
    <2>4. QED  BY <1>1, <1>2, <2>1, <2>2, <2>3 DEF TypeOK, setupVars
  <1>4. Stored'
    BY <1>1 DEF Stored, AllEqual, setupVars
  <1>5. Output' /\ OneTreePerRow'
    BY <1>1 DEF Output, OneTreePerRow
  <1>6. Emitted' /\ Forest'
    BY <1>1 DEF Emitted, OneEach, Forest, Complete
  <1>7. QED  BY <1>2, <1>3, <1>4, <1>5, <1>6

LEMMA RefusedStep == ASSUME IInv, Refused PROVE IInv'
  <1> USE DEF IInv
  <1>1. /\ UNCHANGED setupVars /\ job' = "refused" /\ exit' = 1
        /\ jobs < MaxJobs /\ jobs' = jobs + 1
        /\ UNCHANGED <<attempts, toRead, emitted, outputDir, modelFile, model, afterSetup>>
    BY DEF Refused, CanRun
  <1>2. Adding' /\ Records' = Records /\ Stored'
    BY <1>1, JobKeeps
  <1>3. TypeOK'
    <2>1. jobs' \in 0 .. MaxJobs
      BY <1>1, JobAssumption DEF TypeOK
    <2>2. QED  BY <1>1, <1>2, <2>1 DEF TypeOK, setupVars
  <1>4. Output' /\ OneTreePerRow' /\ Emitted' /\ Forest'
    BY <1>1 DEF Output, OneTreePerRow, Emitted, OneEach, Forest
  <1>5. QED  BY <1>2, <1>3, <1>4

(* A key is read, and a tree of its row emitted if it has columns.         *)
LEMMA MapStep == ASSUME IInv, NEW r \in Ranges, NEW k \in Keys, map(r, k) PROVE IInv'
  <1> USE DEF IInv
  <1> DEFINE t == Tree(k, First(rows[k], SLICE_COUNT))
             T == IF rows[k] = {} THEN emitted[r] ELSE emitted[r] \cup {t}
  <1>1. /\ job = "running" /\ k \in toRead[r] /\ toRead' = [toRead EXCEPT ![r] = @ \ {k}]
        /\ emitted' = IF rows[k] = {} THEN emitted ELSE [emitted EXCEPT ![r] = @ \cup {t}]
        /\ UNCHANGED setupVars
        /\ UNCHANGED <<job, jobs, attempts, outputDir, modelFile, model, exit, afterSetup>>
    BY DEF map
  <1>2. Adding' /\ Records' = Records /\ Stored'
    BY <1>1, JobKeeps
  <1>3. TypeOK' /\ Output' /\ OneTreePerRow'
    BY <1>1, <1>2 DEF TypeOK, setupVars, Output, OneTreePerRow
  <1>4. /\ t.key = k /\ (rows[k] # {} => t.train # {})
    BY SliceOf, RecordsRead DEF Stored
  <1>5. /\ toRead'[r] = toRead[r] \ {k} /\ toRead[r] \subseteq r /\ r \subseteq Keys
        /\ \A q \in Ranges : q # r => toRead'[q] = toRead[q]
    BY <1>1, JobAssumption DEF TypeOK, Emitted
  <1>6. \A q \in Ranges : emitted'[q] = IF q = r THEN T ELSE emitted[q]
    BY <1>1 DEF Emitted
  <1> HIDE DEF t
  <1>7. Emitted'
    <2>1. OneEach(T) /\ \A s \in T : s.key \in r \ toRead'[r]
      BY <1>1, <1>4, <1>5 DEF Emitted, OneEach
    <2>2. \A q \in Ranges : /\ toRead'[q] \subseteq q /\ OneEach(emitted'[q])
                            /\ \A s \in emitted'[q] : s.key \in q \ toRead'[q]
      BY <1>5, <1>6, <2>1 DEF Emitted
    <2>3. emitted' = [q \in Ranges |-> emitted'[q]]
      BY <1>1 DEF Emitted
    <2>4. QED  BY <2>2, <2>3 DEF Emitted, OneEach
  <1>8. Forest'
    <2>1. SUFFICES ASSUME afterSetup, NEW q \in Ranges
                   PROVE  Complete(emitted'[q], q \ toRead'[q])
      BY <1>1 DEF Forest, Complete, Grown, setupVars
    <2>2. Complete(emitted[q], q \ toRead[q])
      BY <1>1, <2>1 DEF Forest
    <2>3. CASE q # r
      BY <1>5, <1>6, <2>2, <2>3
    <2>4. CASE q = r
      <3>1. \A s \in T : s.key \in Keys /\ Grown(s)
        BY <1>4, <2>2, <2>4 DEF Complete, Grown, t
      <3>2. ASSUME NEW j \in r \ (toRead[r] \ {k}), rows[j] # {} PROVE \E s \in T : s.key = j
        BY <1>4, <2>2, <2>4, <3>2 DEF Complete
      <3>3. Complete(T, r \ (toRead[r] \ {k}))
        BY <3>1, <3>2 DEF Complete
      <3>4. QED  BY <1>5, <1>6, <2>4, <3>3
    <2>5. QED  BY <2>3, <2>4
  <1>9. QED  BY <1>2, <1>3, <1>7, <1>8

LEMMA AttemptFailsStep == ASSUME IInv, NEW r \in Ranges, AttemptFails(r) PROVE IInv'
  <1> USE DEF IInv
  <1>1. /\ attempts[r] + 1 < MaxAttempts /\ attempts' = [attempts EXCEPT ![r] = @ + 1]
        /\ toRead' = [toRead EXCEPT ![r] = r] /\ emitted' = [emitted EXCEPT ![r] = {}]
        /\ UNCHANGED setupVars
        /\ UNCHANGED <<job, jobs, outputDir, modelFile, model, exit, afterSetup>>
    BY DEF AttemptFails
  <1>2. Adding' /\ Records' = Records /\ Stored'
    BY <1>1, JobKeeps
  <1>3. TypeOK'
    <2>1. attempts' \in [Ranges -> 0 .. (MaxAttempts - 1)]
      BY <1>1, JobAssumption DEF TypeOK
    <2>2. toRead' \in [Ranges -> SUBSET Keys]
      BY <1>1, JobAssumption DEF TypeOK
    <2>3. QED  BY <1>1, <1>2, <2>1, <2>2 DEF TypeOK, setupVars
  <1>4. Output' /\ OneTreePerRow'
    BY <1>1 DEF Output, OneTreePerRow
  <1>5. /\ toRead'[r] = r /\ emitted'[r] = {}
        /\ \A q \in Ranges : q # r => toRead'[q] = toRead[q] /\ emitted'[q] = emitted[q]
    BY <1>1 DEF TypeOK, Emitted
  <1>6. Emitted'
    <2>1. emitted' = [q \in Ranges |-> emitted'[q]]
      BY <1>1 DEF Emitted
    <2>2. QED  BY <1>5, <2>1 DEF Emitted, OneEach
  <1>7. Forest'
    <2>1. SUFFICES ASSUME afterSetup, job = "running", NEW q \in Ranges
                   PROVE  Complete(emitted'[q], q \ toRead'[q])
      BY <1>1 DEF Forest, Complete, Grown, setupVars
    <2>2. QED  BY <1>5, <2>1 DEF Forest, Complete
  <1>8. QED  BY <1>2, <1>3, <1>4, <1>6, <1>7

LEMMA JobFailsStep == ASSUME IInv, JobFails PROVE IInv'
  <1> USE DEF IInv, JobFails
  <1>1. Adding' /\ Records' = Records /\ Stored'
    BY JobKeeps
  <1>2. TypeOK' /\ Output' /\ OneTreePerRow'
    BY <1>1 DEF TypeOK, setupVars, Output, OneTreePerRow
  <1>3. Emitted' /\ Forest'
    BY DEF Emitted, OneEach, Forest
  <1>4. QED  BY <1>1, <1>2, <1>3

(* The ranges are disjoint: no two tasks have emitted a tree of one row.   *)
LEMMA ReduceStep == ASSUME IInv, reduce PROVE IInv'
  <1> USE DEF IInv
  <1> DEFINE M == UNION {emitted[r] : r \in Ranges}
  <1>1. /\ job = "running" /\ \A r \in Ranges : toRead[r] = {}
        /\ modelFile' = TRUE /\ model' = M /\ job' = "succeeded" /\ exit' = 0
        /\ UNCHANGED setupVars
        /\ UNCHANGED <<jobs, attempts, toRead, emitted, outputDir, afterSetup>>
    BY DEF reduce
  <1>2. Adding' /\ Records' = Records /\ Stored'
    BY <1>1, JobKeeps
  <1>3. TypeOK' /\ Output' /\ Emitted'
    BY <1>1, <1>2 DEF TypeOK, setupVars, Output, Emitted, OneEach
  <1>4. \A t \in M : \E r \in Ranges : t \in emitted[r] /\ t.key \in r
    BY DEF Emitted
  <1>5. OneTreePerRow'
    <2>1. ASSUME NEW s \in M, NEW t \in M, s.key = t.key PROVE s = t
      <3>1. PICK r \in Ranges : s \in emitted[r] /\ s.key \in r
        BY <1>4
      <3>2. PICK q \in Ranges : t \in emitted[q] /\ t.key \in q
        BY <1>4
      <3>3. r = q
        BY <2>1, <3>1, <3>2, JobAssumption
      <3>4. QED  BY <2>1, <3>1, <3>2, <3>3 DEF Emitted, OneEach
    <2>2. \A t \in M : t.train # {}
      BY DEF Emitted, OneEach
    <2>3. QED  BY <1>1, <2>1, <2>2 DEF OneTreePerRow
  <1>6. Forest'
    <2>1. SUFFICES ASSUME afterSetup PROVE Complete(M, Keys)
      BY <1>1 DEF Forest, Complete, Grown, setupVars
    <2>2. \A r \in Ranges : Complete(emitted[r], r)
      BY <1>1, <2>1 DEF Forest
    <2>3. \A k \in Keys : \E r \in Ranges : k \in r
      BY JobAssumption
    <2>4. QED  BY <2>2, <2>3 DEF Complete
  <1>7. QED  BY <1>2, <1>3, <1>5, <1>6

LEMMA NextIInv == IInv /\ [Next]_vars => IInv'
  <1> SUFFICES ASSUME IInv, [Next]_vars PROVE IInv'
    OBVIOUS
  <1>1. CASE SetupStep
    BY <1>1, SetupStepInv
  <1>2. CASE Submit \/ Refused
    BY <1>2, SubmitStep, RefusedStep
  <1>3. CASE JobStep
    BY <1>3, MapStep, AttemptFailsStep, JobFailsStep, ReduceStep DEF JobStep
  <1>4. CASE UNCHANGED vars
    <2> USE <1>4 DEF vars, setupVars, jobVars
    <2>1. Adding' /\ Records' = Records /\ Stored'
      BY JobKeeps
    <2>2. TypeOK' /\ Output' /\ OneTreePerRow'
      BY <2>1 DEF IInv, TypeOK, Output, OneTreePerRow
    <2>3. Emitted' /\ Forest'
      BY DEF IInv, Emitted, OneEach, Forest, Complete, Grown
    <2>4. QED  BY <2>1, <2>2, <2>3 DEF IInv
  <1>5. QED  BY <1>1, <1>2, <1>3, <1>4 DEF Next, Rest

-----------------------------------------------------------------------------
(* What the invariant says of a model.                                     *)
LEMMA IInvSound == IInv => RowsSound
  <1> SUFFICES ASSUME IInv, modelFile, afterSetup, job = "succeeded" PROVE ForestOfEqualSamples
    BY DEF RowsSound, IInv, ForestOfEqualSamples
  <1> USE DEF IInv
  <1>1. Complete(model, Keys) /\ AllEqual
    BY DEF Forest, Stored
  <1>2. ASSUME NEW t \in model
        PROVE  /\ t.key \in Keys /\ rows[t.key] # {}
               /\ t.train = Tree(t.key, First(rows[t.key], SLICE_COUNT)).train
               /\ t.test = Tree(t.key, First(rows[t.key], SLICE_COUNT)).test
               /\ t.train \cup t.test = rows[t.key]
    <2>1. t.key \in Keys /\ t = Tree(t.key, First(rows[t.key], SLICE_COUNT)) /\ t.train # {}
      BY <1>1 DEF Complete, Grown, OneTreePerRow
    <2>2. /\ Tree(t.key, First(rows[t.key], SLICE_COUNT)).train \subseteq rows[t.key]
          /\ Tree(t.key, First(rows[t.key], SLICE_COUNT)).train
               \cup Tree(t.key, First(rows[t.key], SLICE_COUNT)).test = rows[t.key]
      BY <2>1, RecordsRead, SliceOf DEF Stored
    <2>3. QED  BY <2>1, <2>2
  <1>3. model = {} \/ {t.key : t \in model} = Keys
    <2>1. model # {} => \A k \in Keys : rows[k] # {}
      BY <1>1, <1>2 DEF AllEqual
    <2>2. QED  BY <1>1, <1>2, <2>1 DEF Complete
  <1>4. \A s, t \in model : s.train = t.train /\ s.test = t.test
    <2> SUFFICES ASSUME NEW s \in model, NEW t \in model PROVE s.train = t.train /\ s.test = t.test
      OBVIOUS
    <2>1. rows[s.key] = rows[t.key]
      BY <1>1, <1>2 DEF AllEqual
    <2>2. \A S, j, k : Tree(j, S).train = Tree(k, S).train /\ Tree(j, S).test = Tree(k, S).test
      BY DEF Tree
    <2>3. QED  BY <1>2, <2>1, <2>2
  <1>5. QED  BY <1>2, <1>3, <1>4 DEF ForestOfEqualSamples

(* Attempts that fail leave no trace in the model, which has at most one   *)
(* tree of a row and, when the setup was done, one of every row, all of    *)
(* the same instances (MRRandomForestSetup, GrowTreeMapper.map,            *)
(* AggregateReducer.reduce).                                               *)
THEOREM RowsAreSound == Spec => []RowsSound
  <1>1. Init => IInv
    BY InitIInv
  <1>2. IInv /\ [Next]_vars => IInv'
    BY NextIInv
  <1>3. IInv => RowsSound
    BY IInvSound
  <1>4. QED  BY <1>1, <1>2, <1>3, PTL DEF Spec

(* Only the run of the setup that added the keyspace writes rows, and a    *)
(* model is never replaced (setupKeyspace, MRRandomForest.run).            *)
THEOREM ModelIsSafe == Spec => ModelSafe
  <1>1. Init => IInv
    BY InitIInv
  <1>2. IInv /\ [Next]_vars => IInv'
    BY NextIInv
  <1>3. IInv /\ [Next]_vars => [rows' # rows => setups = creator]_vars
    <2> SUFFICES ASSUME IInv, Next, rows' # rows PROVE setups = creator
      BY DEF vars, setupVars
    <2>1. SetupStep
      BY DEF Next, Submit, Refused, JobStep, map, AttemptFails, JobFails, reduce, Rest, vars, setupVars
    <2>2. setup = "adding"
      BY <2>1 DEF SetupStep, SetupNext, ReadRecords, BadRecord, setupKeyspace, KeyspaceExists,
                  AddColumn, NextRow, SetupFails
    <2>3. QED  BY <2>2 DEF IInv, Adding
  <1>4. IInv /\ [Next]_vars => [modelFile => modelFile' /\ model' = model]_vars
    <2> SUFFICES ASSUME IInv, Next, modelFile PROVE modelFile' /\ model' = model
      BY DEF vars, jobVars
    <2>1. job # "running"
      BY DEF IInv, Output
    <2>2. QED
      BY <2>1 DEF Next, SetupStep, jobVars, Submit, Refused, JobStep, map, AttemptFails, JobFails,
                  reduce, Rest, vars
  <1>5. QED
    BY <1>1, <1>2, <1>3, <1>4, PTL DEF Spec, ModelSafe, SingleWriter, ModelKept
=============================================================================
