-------------------------- MODULE MRRandomForest --------------------------
(***************************************************************************)
(* MRRandonForest/src/MRRandomForest: the Hadoop job that grows one tree   *)
(* for every row MRRandomForestSetup has stored and gathers the trees in   *)
(* one model, together with that setup.  Nothing in the two programs keeps *)
(* the job from running before, while or after the setup runs.             *)
(*                                                                         *)
(* Hadoop is external: the keys are divided into ranges, each the input of *)
(* one map task; an attempt of a task that fails loses what it emitted and *)
(* the task is tried again, a bounded number of times; the output          *)
(* directory must not exist when the job is submitted, and stays when the  *)
(* job fails.                                                              *)
(***************************************************************************)
EXTENDS MRRandomForestSetup

CONSTANTS
  Ranges,       \* the partition of the keys into input splits
  SLICE_COUNT,  \* setCount(10000): the columns read of a row
  MaxAttempts,  \* how often a map task is tried
  MaxJobs       \* bound on the number of times the job is run

ASSUME JobAssumption ==
  /\ Ranges \subseteq SUBSET Keys
  /\ UNION Ranges = Keys
  /\ \A r, q \in Ranges : r # q => r \cap q = {}
  /\ SLICE_COUNT \in Nat /\ SLICE_COUNT >= TRAINING_COUNT
  /\ MaxAttempts \in Nat \ {0} /\ MaxJobs \in Nat

VARIABLES
  job,        \* "idle", "running", "succeeded", "failed" or "refused"
  jobs,       \* how often the job was run
  attempts,   \* for every map task how many of its attempts have failed
  toRead,     \* for every map task the keys its attempt has still to read
  emitted,    \* for every map task the trees its attempt has emitted
  outputDir,  \* randomforest_model exists
  modelFile,  \* part-r-00000 exists
  model,      \* the trees in it
  exit,       \* exit status of the last run of MRRandomForest
  afterSetup  \* history: the setup was done when the job was submitted

jobVars == <<job, jobs, attempts, toRead, emitted, outputDir, modelFile,
             model, exit, afterSetup>>
vars == <<setupVars, jobVars>>

(* The first n columns of a row.                                           *)
First(S, n) == {x \in S : Cardinality({y \in S : y < x}) < n}

(* GrowTreeMapper.map: the first two thirds of TRAINING_COUNT columns      *)
(* train the tree, the columns behind them test it.                        *)
Tree(key, columns) ==
  LET train == First(columns, (TRAINING_COUNT * 2) \div 3)
  IN  [key |-> key, train |-> train, test |-> columns \ train]

JobInit ==
  /\ job = "idle" /\ jobs = 0
  /\ attempts = [r \in Ranges |-> 0]
  /\ toRead = [r \in Ranges |-> r]
  /\ emitted = [r \in Ranges |-> {}]
  /\ outputDir = FALSE
  /\ modelFile = FALSE /\ model = {}
  /\ exit = 0
  /\ afterSetup = FALSE

CanRun == job # "running" /\ jobs < MaxJobs /\ jobs' = jobs + 1

(* Mutant: an output directory from an earlier job does not matter.        *)
MutSubmit ==
  /\ CanRun
  /\ keyspace
  /\ job' = "running"
  /\ attempts' = [r \in Ranges |-> 0]
  /\ toRead' = [r \in Ranges |-> r]
  /\ emitted' = [r \in Ranges |-> {}]
  /\ outputDir' = TRUE
  /\ afterSetup' = (setup = "done")
  /\ UNCHANGED <<setupVars, modelFile, model, exit>>

(* run: the job is accepted.                                               *)
Submit ==
  /\ CanRun
  /\ ~outputDir /\ keyspace
  /\ job' = "running"
  /\ attempts' = [r \in Ranges |-> 0]
  /\ toRead' = [r \in Ranges |-> r]
  /\ emitted' = [r \in Ranges |-> {}]
  /\ outputDir' = TRUE
  /\ afterSetup' = (setup = "done")
  /\ UNCHANGED <<setupVars, modelFile, model, exit>>

(* run: without the keyspace, or over an existing output directory, the    *)
(* submission throws and main dies of it.                                  *)
Refused ==
  /\ CanRun
  /\ outputDir \/ ~keyspace
  /\ job' = "refused"
  /\ exit' = 1
  /\ UNCHANGED <<setupVars, attempts, toRead, emitted, outputDir,
                 modelFile, model, afterSetup>>

(* Mutant: the tree is written in the loop over the columns.               *)
MutWriteInLoop(r, k) ==
  /\ job = "running" /\ k \in toRead[r]
  /\ toRead' = [toRead EXCEPT ![r] = @ \ {k}]
  /\ emitted' = [emitted EXCEPT ![r] = @ \cup
                   {Tree(k, First(rows[k], n)) : n \in 1..Cardinality(rows[k])}]
  /\ UNCHANGED <<setupVars, job, jobs, attempts, outputDir, modelFile, model,
                 exit, afterSetup>>

(* The attempt of task r comes to a key; a row without columns is not a    *)
(* row, and map is not called.                                             *)
map(r, k) ==
  /\ job = "running" /\ k \in toRead[r]
  /\ toRead' = [toRead EXCEPT ![r] = @ \ {k}]
  /\ emitted' = IF rows[k] = {} THEN emitted
                ELSE [emitted EXCEPT
                        ![r] = @ \cup {Tree(k, First(rows[k], SLICE_COUNT))}]
  /\ UNCHANGED <<setupVars, job, jobs, attempts, outputDir, modelFile, model,
                 exit, afterSetup>>

(* The attempt of task r fails and the task is tried again.                *)
AttemptFails(r) ==
  /\ job = "running" /\ attempts[r] + 1 < MaxAttempts
  /\ attempts' = [attempts EXCEPT ![r] = @ + 1]
  /\ toRead' = [toRead EXCEPT ![r] = r]
  /\ emitted' = [emitted EXCEPT ![r] = {}]
  /\ UNCHANGED <<setupVars, job, jobs, outputDir, modelFile, model, exit,
                 afterSetup>>

(* Mutant: a job that failed is submitted again until it succeeds.         *)
MutRetryForever ==
  /\ job = "running"
  /\ attempts' = [r \in Ranges |-> 0]
  /\ toRead' = [r \in Ranges |-> r]
  /\ emitted' = [r \in Ranges |-> {}]
  /\ UNCHANGED <<setupVars, job, jobs, outputDir, modelFile, model, exit,
                 afterSetup>>

(* A task has failed too often, or the reducer has: the job fails.         *)
(* waitForCompletion returns false, run returns 0 and main exits with 0.   *)
JobFails ==
  /\ job = "running"
  /\ job' = "failed"
  /\ exit' = 0
  /\ UNCHANGED <<setupVars, jobs, attempts, toRead, emitted, outputDir,
                 modelFile, model, afterSetup>>

(* AggregateReducer.reduce: all trees come under the key "rf" and form one *)
(* array.  Without any tree the file is empty.  The job succeeds.          *)
reduce ==
  /\ job = "running" /\ \A r \in Ranges : toRead[r] = {}
  /\ modelFile' = TRUE
  /\ model' = UNION {emitted[r] : r \in Ranges}
  /\ job' = "succeeded"
  /\ exit' = 0
  /\ UNCHANGED <<setupVars, jobs, attempts, toRead, emitted, outputDir,
                 afterSetup>>

JobStep ==
  \/ \E r \in Ranges, k \in Keys : map(r, k)
  \/ \E r \in Ranges : AttemptFails(r)
  \/ JobFails
  \/ reduce

SetupStep == SetupNext /\ UNCHANGED jobVars

(* Both programs have been run as often as the bounds allow, or nobody     *)
(* runs them again.                                                        *)
Rest ==
  /\ job # "running" /\ setup \notin {"connected", "adding"}
  /\ UNCHANGED vars

Init == SetupInit /\ JobInit
Next ==
  \/ SetupStep
  \/ Submit \/ Refused
  \/ JobStep
  \/ Rest

(* A job that was accepted is driven to its end by Hadoop, and a setup     *)
(* that runs goes on.  Nobody has to run either program again.             *)
SetupGoesOn == setup \in {"connected", "adding"} /\ SetupStep
Spec == Init /\ [][Next]_vars /\ WF_vars(JobStep) /\ WF_vars(SetupGoesOn)

-----------------------------------------------------------------------------
Records == {input[i] : i \in DOMAIN input}

(* Every variable has the type the programs and their platforms give it.   *)
TypeOK ==
  /\ input \in Seq(Nat) /\ totTraining \in Seq(Records)
  /\ Len(totTraining) <= TRAINING_COUNT
  /\ setup \in {"idle", "connected", "adding", "done", "died"}
  /\ setups \in 0..MaxSetups /\ creator \in 0..MaxSetups
  /\ keyspace \in BOOLEAN
  /\ rows \in [Keys -> SUBSET Records]
  /\ row \in Nat /\ left \subseteq 1..TRAINING_COUNT
  /\ job \in {"idle", "running", "succeeded", "failed", "refused"}
  /\ jobs \in 0..MaxJobs
  /\ attempts \in [Ranges -> 0..(MaxAttempts - 1)]
  /\ toRead \in [Ranges -> SUBSET Keys]
  /\ outputDir \in BOOLEAN /\ modelFile \in BOOLEAN
  /\ exit \in {0, 1} /\ afterSetup \in BOOLEAN

(* Attempts that fail and are tried again leave no trace: a model holds at *)
(* most one tree for each row, and none without training instances.        *)
OneTreePerRow ==
  /\ \A s, t \in model : s.key = t.key => s = t
  /\ \A t \in model : t.train # {}

(* The shuffle of the setup has no effect: a job submitted after the setup *)
(* was done makes a tree of every row, or none if no record was read, and  *)
(* all the trees are trained on the same instances, as Cassandra returns   *)
(* the columns in its own order.                                           *)
ForestOfEqualSamples ==
  modelFile /\ afterSetup /\ job = "succeeded" =>
    /\ model = {} \/ {t.key : t \in model} = Keys
    /\ \A s, t \in model : s.train = t.train /\ s.test = t.test
    /\ \A t \in model : t.train \cup t.test = rows[t.key]

(* Only one run of the setup ever writes rows, the one that added the      *)
(* keyspace: when it dies half way no later run completes its rows.        *)
SingleWriter == [][rows' # rows => setups = creator]_vars

(* A model is never replaced, and a job that was refused changes nothing   *)
(* in the output directory.                                                *)
ModelKept == [][modelFile => modelFile' /\ model' = model]_vars

(* README.txt: "The RandomForest JSON serialized model is stored at        *)
(* randomforest_model/part-r-00000".  A run of MRRandomForest that says    *)
(* with its exit status that it has succeeded has left that file.          *)
SuccessMeansModel ==
  job \in {"succeeded", "failed", "refused"} /\ exit = 0 => modelFile

(* Every job that is accepted by Hadoop ends.                              *)
JobEnds == job = "running" ~> job # "running"

(* Every run of MRRandomForestSetup that has reached Cassandra adds all    *)
(* its rows or dies.                                                       *)
SetupEnds == setup \in {"connected", "adding"} ~> setup \in {"done", "died"}

(* The invariants above, of the rows and the model made of them.           *)
(* (MRRandomForest.map, MRRandomForestSetup)                               *)
RowsSound == TypeOK /\ OneTreePerRow /\ ForestOfEqualSamples

(* A row has one writer, and a model that is there stays as it is.         *)
(* (MRRandomForestSetup, MRRandomForest.reduce)                            *)
ModelSafe == SingleWriter /\ ModelKept

(* The setup and every job come to an end.                                 *)
ProgramsEnd == JobEnds /\ SetupEnds
=============================================================================
