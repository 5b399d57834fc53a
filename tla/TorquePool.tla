----------------------------- MODULE TorquePool -----------------------------
(***************************************************************************)
(* The batch system behind HOD as its client sees it: TorquePool           *)
(* (NodePools/torque.py), its base class (Hod/nodePool.py) and the         *)
(* commands qsub, qstat and qdel it runs (Schedulers/torque.py).  The      *)
(* batch system itself is external: a job it runs is a ring master.        *)
(***************************************************************************)
EXTENDS Integers, FiniteSets

CONSTANTS
  Jobs,          \* the ids qsub may hand out
  NoJob,         \* stands for Python's None and for an absent id
  NodeLimit,     \* nodes the batch system allows one user
  Attributes     \* the <<option, suboption>> -> value pairs of nodepooldesc.attrs

VARIABLE
  job,     \* the state of every job id: "unused" before qsub, then Q, R, C
  asked    \* the qsub arguments a job was submitted with

batchVars == <<job, asked>>

(* The job exists and has not completed. *)
Live(j) == job[j] \in {"Q", "R"}

(* Mutant: the configured number of nodes wins.                            *)
MutSubmitted(nodes, walltime) ==
  [o \in {"l"} |-> [s \in {"nodes", "walltime"} |->
     IF s = "nodes" THEN Attributes[<<"l", "nodes">>] ELSE walltime]]

(* process_qsub_attributes: the configured pairs, with the number of nodes *)
(* and, if one is set, the wall time put over them, grouped by option.     *)
Submitted(nodes, walltime) ==
  LET raw == [k \in {<<"W", "x">>, <<"l", "nodes">>} \cup DOMAIN Attributes |->
                CASE k = <<"l", "nodes">>             -> nodes
                  [] k = <<"W", "x">> /\ k \notin DOMAIN Attributes -> 0
                  [] OTHER                           -> Attributes[k]]
      all == IF walltime = 0 THEN raw
             ELSE [k \in DOMAIN raw \cup {<<"l", "walltime">>} |->
                     IF k = <<"l", "walltime">> THEN walltime ELSE raw[k]]
  IN  [o \in {k[1] : k \in DOMAIN all} |->
         [s \in {k[2] : k \in {i \in DOMAIN all : i[1] = o}} |-> all[<<o, s>>]]]

(* qsub gives an id and 0, or no id: FALSE and the exit code of the        *)
(* command (188: more than the cluster has), or None when qsub exits       *)
(* before it has read the script from its standard input.                  *)
QsubFailures == {<<"False", 188>>, <<"False", 1>>, <<"None", 1>>}

qsub(j, args) == /\ job[j] = "unused"
                 /\ job' = [job EXCEPT ![j] = "Q"]
                 /\ asked' = [asked EXCEPT ![j] = args]

(* getJobInfo: what qstat says of the job.  "False" is a qstat that fails; *)
(* exit code 153, a job the batch system has forgotten, counts as C.       *)
getJobInfo(j) == {"False"} \cup
                 (IF j = NoJob THEN {} ELSE IF job[j] = "unused" THEN {"C"} ELSE {job[j]})

(* isJobFeasible, from the numbers a site's checklimits script puts in the *)
(* comment of the job.                                                     *)
isJobFeasible(nodes, used) == CASE nodes > NodeLimit        -> "Never"
                                [] nodes + used > NodeLimit -> "False"
                                [] OTHER                    -> "True"

(* deleteJob: qdel may fail, and no caller looks at its exit code.         *)
deleteJob(j, works) ==
  /\ job' = IF works /\ j # NoJob /\ Live(j) THEN [job EXCEPT ![j] = "C"] ELSE job
  /\ UNCHANGED asked

(* What the scheduler, the nodes and the wall time do.                     *)
JobRuns(j) == job[j] = "Q" /\ job' = [job EXCEPT ![j] = "R"] /\ UNCHANGED asked
=============================================================================
