-------------------------------- MODULE Hod --------------------------------
(***************************************************************************)
(* The HOD client: hodRunner with its state files (Hod/hod.py) and the     *)
(* hadoopCluster it drives (Hod/hadoop.py).  Several clients of one user   *)
(* run at once: they share the file of the user's clusters, the cluster    *)
(* directories and the batch system.  Between any two steps of a client    *)
(* the others move, it may be interrupted or killed, and jobs, ring        *)
(* masters and daemons come and go.                                        *)
(***************************************************************************)
EXTENDS TorquePool

CONSTANTS
  Clients,          \* processes that run bin/hod for one user
  Dirs,             \* cluster directories
  DirsOf,           \* the directories the user gives to each client
  Ops,              \* the operations that are run
  Requests,         \* an allocation: [nodes, range, walltime]; range: nodes was given as n-m
  Usage,            \* nodes the user holds, in the comment of a job
  Retries,          \* hod.job-status-query-failure-retries
  FeasibilityAttr,  \* is hod.job-feasibility-attr set
  ScriptCode,       \* the exit code of a script that fails
  MaxOps,           \* bound: operations per client
  MaxMishaps        \* bound: signals, kills, jobs that end and daemons that die

VARIABLES
  access,        \* what the user may do with an existing clusters.state
  userFile,      \* clusters.state: "absent", "empty" (opened for writing), "full"
                 \* or "torn" (empty, its write failed)
  userState,     \* its content: the job recorded for each directory
  clusterFiles,  \* clusterFiles[d][j]: the file j.state in directory d
  site,          \* the job the hadoop-site.xml of a directory belongs to
  ring,          \* ring master of a job: "none", "up", "stopping", "gone"
  announced,     \* services whose address the ring master gives out
  alive,         \* services that accept connections
  pc,            \* where each client is
  op, dir, request, runs,     \* what it was asked to do, and its operations so far
  opCode,        \* __opCode, the exit code once pc is "done"
  interrupted,   \* hodInterrupt
  failures, feasible, jobId,  \* locals of allocate and __check_job_status
  snap, after,   \* the user's list as read, and what follows its update
  ran, listing,  \* the outcome of the script and the output of list
  mishaps,       \* how many have happened
  blame          \* history: jobs a client left behind without a successful qdel or stopRM

fileVars == <<access, userFile, userState, clusterFiles, site>>
ringVars == <<ring, announced, alive>>
callVars == <<op, dir, request, runs>>
pollVars == <<failures, feasible, jobId>>
saveVars == <<snap, after>>
showVars == <<ran, listing, blame>>
vars == <<fileVars, batchVars, ringVars, callVars, pollVars, saveVars, showVars,
          pc, opCode, interrupted, mishaps>>

Services == {"hdfs", "mapred"}
NoEntries == [d \in Dirs |-> NoJob]
-----------------------------------------------------------------------------
(* hodState                                                                *)

(* checkStateFile: a file that does not exist can be made.                 *)
CanAccess(modes) == userFile = "absent" \/ modes \subseteq access

(* read: a file that was opened for writing and not yet written is empty.  *)
readUser == IF userFile = "full" THEN userState ELSE NoEntries

StateFiles(d) == {j \in Jobs : clusterFiles[d][j] # "none"}

(* __set_state_file without an id: the last state file os.listdir gives,   *)
(* an arbitrary but fixed one.                                             *)
LastFile(d) == CHOOSE j \in StateFiles(d) : TRUE

(* Mutant: looks among the files of all directories.                       *)
MutReadCluster(d) ==
  LET found == UNION {StateFiles(e) : e \in Dirs}
  IN  IF found = {} THEN NoJob ELSE CHOOSE j \in found : TRUE

readCluster(d) == IF StateFiles(d) = {} \/ clusterFiles[d][LastFile(d)] = "empty"
                  THEN NoJob ELSE LastFile(d)

(* clear without an id                                                     *)
clear(d) == clusterFiles' = IF StateFiles(d) = {} THEN clusterFiles
                            ELSE [clusterFiles EXCEPT ![d][LastFile(d)] = "none"]
-----------------------------------------------------------------------------
(* How an operation goes on and how it ends                                *)

Goto(p, l) == pc' = [pc EXCEPT ![p] = l] /\ UNCHANGED opCode

InScript(p) == op[p] = "script"

(* A return of _op_allocate or _op_deallocate; script goes on from there.  *)
Return(p, code) ==
  /\ opCode' = [opCode EXCEPT ![p] = code]
  /\ pc' = [pc EXCEPT ![p] = IF ~InScript(p) THEN "done"
                             ELSE IF after[p] = "script" THEN "script" ELSE "exit"]

(* HodInterruptException, and any other exception, as operation and script *)
(* catch them: the second one leaves __opCode as it is.                    *)
Handler(p) == IF InScript(p) THEN "exit" ELSE "done"
RaiseInterrupt(p) == /\ opCode' = [opCode EXCEPT ![p] = 127]
                     /\ pc' = [pc EXCEPT ![p] = Handler(p)]
Raise(p) == Goto(p, Handler(p))

(* Jobs the program has given up without a completed qdel or stop.         *)
Blame(j) == blame' = blame \cup ({j} \cap Jobs)
-----------------------------------------------------------------------------
(* get_cluster_status and check_cluster: are the two ports of the cluster  *)
(* open?                                                                   *)
check_cluster(j) ==
  IF j = NoJob THEN 15
  ELSE CASE alive[j] = Services      -> 12
         [] alive[j] = {"mapred"}    -> 13
         [] alive[j] = {"hdfs"}      -> 14
         [] OTHER                    -> 10

(* is_cluster_deallocated: one of the answers the query can give           *)
is_cluster_deallocated(j, state) == state = "C" /\ state \in getJobInfo(j)

(* __isRingMasterAlive                                                     *)
RingAlive(j) == ring[j] \in {"up", "stopping"}

(* stopRM, called on the ring master of a job.  hodXRClient tries the call *)
(* a number of times and then returns as if it had been made.              *)
stopRM(j) == ring' = IF ring[j] = "up" THEN [ring EXCEPT ![j] = "stopping"] ELSE ring
TellRM(j) == \/ stopRM(j) /\ UNCHANGED blame
             \/ Blame(j) /\ UNCHANGED ring
-----------------------------------------------------------------------------
Init ==
  /\ job = [j \in Jobs |-> "unused"]
  /\ asked = [j \in Jobs |-> <<>>]
  /\ access \in {{"R", "W"}, {"R"}, {}}
  /\ userFile \in {"absent", "full"}
  /\ userFile = "absent" => access = {"R", "W"}
  /\ userState = NoEntries
  /\ clusterFiles = [d \in Dirs |-> [j \in Jobs |-> "none"]]
  /\ site = NoEntries
  /\ ring = [j \in Jobs |-> "none"]
  /\ announced = [j \in Jobs |-> {}]
  /\ alive = [j \in Jobs |-> {}]
  /\ pc = [p \in Clients |-> "done"]
  /\ op = [p \in Clients |-> "none"]
  /\ dir = [p \in Clients |-> CHOOSE d \in Dirs : TRUE]
  /\ request = [p \in Clients |-> CHOOSE r \in Requests : TRUE]
  /\ opCode = [p \in Clients |-> 0]
  /\ interrupted = [p \in Clients |-> FALSE]
  /\ failures = [p \in Clients |-> 0]
  /\ feasible = [p \in Clients |-> FALSE]
  /\ jobId = [p \in Clients |-> NoJob]
  /\ snap = [p \in Clients |-> NoEntries]
  /\ after = [p \in Clients |-> "done"]
  /\ runs = [p \in Clients |-> 0]
  /\ mishaps = 0
  /\ ran = [p \in Clients |-> "no"]
  /\ listing = [p \in Clients |-> {}]
  /\ blame = {}

(* bin/hod starts; operation() and script() up to the first call.          *)
Start(p, o, d, r) ==
  /\ pc[p] = "done" /\ runs[p] < MaxOps /\ d \in DirsOf[p]
  /\ runs' = [runs EXCEPT ![p] = @ + 1]
  /\ op' = [op EXCEPT ![p] = o]
  /\ dir' = [dir EXCEPT ![p] = d]
  /\ request' = [request EXCEPT ![p] = r]
  /\ interrupted' = [interrupted EXCEPT ![p] = FALSE]
  /\ jobId' = [jobId EXCEPT ![p] = NoJob]
  /\ failures' = [failures EXCEPT ![p] = 0]
  /\ feasible' = [feasible EXCEPT ![p] = FALSE]
  /\ after' = [after EXCEPT ![p] = IF o = "script" THEN "script" ELSE "done"]
  /\ snap' = [snap EXCEPT ![p] = NoEntries]
  /\ ran' = [ran EXCEPT ![p] = "no"]
  /\ listing' = [listing EXCEPT ![p] = {}]
  /\ \/ /\ o = "script"
        /\ \/ /\ r.nodes >= 3 /\ ~r.range
              /\ pc' = [pc EXCEPT ![p] = "allocate"] /\ opCode' = [opCode EXCEPT ![p] = 0]
           \/ /\ ~r.range      \* no such script or directory, or too few nodes
              /\ UNCHANGED pc /\ opCode' = [opCode EXCEPT ![p] = 3]
           \/ /\ r.range       \* int('3-5') raises outside the try of script
              /\ UNCHANGED pc /\ opCode' = [opCode EXCEPT ![p] = 1]
     \/ /\ o # "script" /\ CanAccess({"R"})
        /\ pc' = [pc EXCEPT ![p] = o] /\ opCode' = [opCode EXCEPT ![p] = 0]
     \/ /\ o # "script" /\ ~CanAccess({"R"})
        /\ UNCHANGED pc /\ opCode' = [opCode EXCEPT ![p] = 1]
  /\ UNCHANGED <<fileVars, batchVars, ringVars, blame, mishaps>>
-----------------------------------------------------------------------------
(* _op_allocate, up to the call of hadoopCluster.allocate                  *)

(* Arguments and permissions; int('3-5') raises.  Then the user's list.    *)
Allocate(p) ==
  /\ pc[p] = "allocate"
  /\ IF request[p].range THEN Raise(p)
     ELSE IF request[p].nodes < 3 THEN Return(p, 3)
     ELSE IF ~CanAccess({"R", "W"}) THEN Return(p, 1)
     ELSE Goto(p, IF readUser[dir[p]] = NoJob THEN "account" ELSE "listed")
  /\ UNCHANGED <<fileVars, batchVars, ringVars, callVars, pollVars, saveVars, showVars, interrupted>>

(* The directory is in the user's list: allocation goes on only if the job *)
(* in the directory is known to be dead.                                   *)
AllocateListed(p) ==
  LET j == readCluster(dir[p])
  IN  /\ pc[p] = "listed"
      /\ \/ /\ j # NoJob /\ is_cluster_deallocated(j, "C")
            /\ Goto(p, "remove") /\ after' = [after EXCEPT ![p] = "clearDead"]
         \/ /\ j = NoJob \/ \E s \in getJobInfo(j) : ~is_cluster_deallocated(j, s)
            /\ Return(p, 12) /\ UNCHANGED after
      /\ UNCHANGED <<fileVars, batchVars, ringVars, callVars, pollVars, snap, showVars, interrupted>>

ClearDead(p) ==
  /\ pc[p] = "clearDead"
  /\ clear(dir[p])
  /\ Goto(p, "account")
  /\ after' = [after EXCEPT ![p] = IF InScript(p) THEN "script" ELSE "done"]
  /\ UNCHANGED <<access, userFile, userState, site, batchVars, ringVars, callVars, pollVars, snap, showVars, interrupted>>

(* is_valid_account, then the state of the directory: a cluster in it      *)
(* stops the allocation, dead or alive.                                    *)
VerifyAccount(p) ==
  LET status == check_cluster(readCluster(dir[p]))
  IN  /\ pc[p] = "account"
      /\ \/ Return(p, 4)
         \/ status # 15 /\ Return(p, status)
         \/ /\ status = 15
            /\ opCode' = [opCode EXCEPT ![p] = 15]
            /\ pc' = [pc EXCEPT ![p] = "submit"]
      /\ UNCHANGED <<fileVars, batchVars, ringVars, callVars, pollVars, saveVars, showVars, interrupted>>
-----------------------------------------------------------------------------
(* hadoopCluster.allocate                                                  *)

(* Mutant: nobody deletes the job.                                         *)
MutGiveUp(p, status) == Return(p, status) /\ UNCHANGED <<batchVars, ring, blame>>

(* The call returns a status other than 0: the ring master, if it was      *)
(* found, is told to stop, and the job is deleted if it was not.           *)
GiveUp(p, status) ==
  /\ Return(p, status)
  /\ CASE status = 6       -> \E works \in BOOLEAN :
                                /\ deleteJob(jobId[p], works)
                                /\ UNCHANGED ring
                                /\ IF works THEN UNCHANGED blame ELSE Blame(jobId[p])
       [] status \in {7, 8} -> TellRM(jobId[p]) /\ UNCHANGED batchVars

(* An interrupt between submission and the end: delete the job unless the  *)
(* ring master is known, which is then told to stop.                       *)
InterruptJob(p, known) ==
  /\ interrupted[p]
  /\ RaiseInterrupt(p)
  /\ IF known THEN TellRM(jobId[p]) /\ UNCHANGED batchVars
     ELSE \E works \in BOOLEAN :
            /\ deleteJob(jobId[p], works)
            /\ UNCHANGED ring
            /\ IF works THEN UNCHANGED blame ELSE Blame(jobId[p])

(* A qsub or a qstat that fails is tried again a number of times.          *)
CanRetry(p) == failures[p] + 1 < Retries
CountFailure(p) == failures' = [failures EXCEPT ![p] = @ + 1]

(* Submit, with retries unless the cluster is too small for the request.   *)
Submit(p) ==
  /\ pc[p] = "submit"
  /\ \/ /\ interrupted[p] /\ RaiseInterrupt(p) /\ UNCHANGED <<batchVars, pollVars>>
     \/ \E j \in Jobs :
          /\ qsub(j, Submitted(request[p].nodes, request[p].walltime))
          /\ jobId' = [jobId EXCEPT ![p] = j]
          /\ failures' = [failures EXCEPT ![p] = 0]
          /\ Goto(p, "status") /\ UNCHANGED feasible
     \/ \E f \in QsubFailures :
          /\ IF f = <<"False", 1>> /\ CanRetry(p)
             THEN CountFailure(p) /\ UNCHANGED <<pc, opCode>>
             ELSE Return(p, 4) /\ UNCHANGED failures
          /\ UNCHANGED <<batchVars, feasible, jobId>>
  /\ UNCHANGED <<fileVars, ringVars, callVars, saveVars, showVars, interrupted>>

(* __check_job_status, one turn of its loop.  The status it returns is     *)
(* that of the last isJobFeasible if the job has ended or cannot be        *)
(* queried.                                                                *)
CheckJobStatus(p) ==
  LET Leave(state) == IF state = "R" \/ feasible[p] THEN Goto(p, "ring")
                      ELSE Return(p, 5)
  IN  /\ pc[p] = "status"
      /\ \/ InterruptJob(p, FALSE) /\ UNCHANGED <<failures, feasible>>
         \/ /\ ~interrupted[p] /\ UNCHANGED ring
            /\ \E state \in getJobInfo(jobId[p]) :
                 \/ /\ state = "False" /\ ~CanRetry(p)
                    /\ Leave(state) /\ UNCHANGED <<batchVars, failures, feasible>>
                    /\ IF feasible[p] THEN UNCHANGED blame ELSE Blame(jobId[p])
                 \/ /\ state \in {"R", "C"}
                    /\ Leave(state) /\ UNCHANGED <<batchVars, failures, feasible, blame>>
                 \/ /\ state = "Q" \/ (state = "False" /\ CanRetry(p))
                    /\ IF state = "Q" THEN UNCHANGED failures ELSE CountFailure(p)
                    /\ \E used \in Usage :
                         LET verdict == isJobFeasible(request[p].nodes, used)
                         IN  \/ /\ FeasibilityAttr /\ verdict = "Never"
                                /\ Return(p, 4) /\ UNCHANGED feasible
                                /\ \E works \in BOOLEAN :
                                     /\ deleteJob(jobId[p], works)
                                     /\ IF works THEN UNCHANGED blame ELSE Blame(jobId[p])
                             \/ /\ ~(FeasibilityAttr /\ verdict = "Never")
                                /\ feasible' = [feasible EXCEPT ![p] =
                                                  FeasibilityAttr /\ verdict = "True"]
                                /\ UNCHANGED <<batchVars, pc, opCode, blame>>
      /\ UNCHANGED <<fileVars, announced, alive, callVars, saveVars, jobId, ran, listing, interrupted>>

(* __get_ringmaster_client: found, or given up after the time to wait or   *)
(* because the job has gone.                                               *)
FindRing(p) ==
  /\ pc[p] = "ring"
  /\ \/ InterruptJob(p, FALSE)
     \/ ~interrupted[p] /\ ring[jobId[p]] # "none" /\ Goto(p, "hdfs") /\ UNCHANGED <<batchVars, ring, blame>>
     \/ ~interrupted[p] /\ GiveUp(p, 6)
  /\ UNCHANGED <<fileVars, announced, alive, callVars, pollVars, saveVars, ran, listing, interrupted>>

(* __init_hadoop_service, for hdfs and then for mapred                     *)
FindService(p, s, next, status) ==
  /\ pc[p] = s
  /\ \/ InterruptJob(p, TRUE)
     \/ /\ ~interrupted[p] /\ s \in announced[jobId[p]] /\ RingAlive(jobId[p])
        /\ Goto(p, next) /\ UNCHANGED <<batchVars, ring, blame>>
     \/ ~interrupted[p] /\ GiveUp(p, status)
  /\ UNCHANGED <<fileVars, announced, alive, callVars, pollVars, saveVars, ran, listing, interrupted>>

(* gen_site_conf writes hadoop-site.xml, or raises.                        *)
GenSiteConf(p) ==
  /\ pc[p] = "site"
  /\ \/ /\ site' = [site EXCEPT ![dir[p]] = jobId[p]] /\ Goto(p, "write") /\ UNCHANGED blame
     \/ Raise(p) /\ Blame(jobId[p]) /\ UNCHANGED site
  /\ UNCHANGED <<access, userFile, userState, clusterFiles, batchVars, ringVars, callVars, pollVars, saveVars, ran, listing, interrupted>>
-----------------------------------------------------------------------------
(* The record of the new cluster                                           *)

(* clusterState.write opens the file of the job; with another state file   *)
(* in the directory its call of clear removes by a name that is relative   *)
(* to another directory, which raises.                                     *)
WriteOpen(p) ==
  /\ pc[p] = "write" /\ StateFiles(dir[p]) \subseteq {jobId[p]}
  /\ clusterFiles' = [clusterFiles EXCEPT ![dir[p]][jobId[p]] = "empty"]
  /\ Goto(p, "writeDump")
  /\ UNCHANGED <<access, userFile, userState, site, batchVars, ringVars, callVars, pollVars, saveVars, showVars, interrupted>>

WriteDump(p) ==
  /\ pc[p] = "writeDump"
  /\ clusterFiles' = [clusterFiles EXCEPT ![dir[p]][jobId[p]] =
                        IF @ = "none" THEN "none" ELSE "full"]   \* removed meanwhile
  /\ Goto(p, "record")
  /\ UNCHANGED <<access, userFile, userState, site, batchVars, ringVars, callVars, pollVars, saveVars, showVars, interrupted>>

(* Whatever goes wrong with the record or with its line in the user's      *)
(* list, the new cluster is deallocated; an interrupt ends the first call  *)
(* that fails.                                                             *)
WritesRecord(p) ==
  \/ pc[p] \in {"write", "writeDump", "record"}
  \/ pc[p] \in {"open", "dump"} /\ after[p] = "recorded"
RecordFails(p) ==
  /\ WritesRecord(p)
  /\ userFile' = IF pc[p] = "dump" /\ userFile = "empty" THEN "torn" ELSE userFile
  /\ \E code \in {1, 127} :
       /\ opCode' = [opCode EXCEPT ![p] = code]
       /\ IF RingAlive(jobId[p])
          THEN /\ UNCHANGED batchVars
               /\ IF code = 1 THEN TellRM(jobId[p])
                  ELSE interrupted[p] /\ Blame(jobId[p]) /\ UNCHANGED ring
          ELSE /\ code = 1 /\ UNCHANGED ring
               /\ \E works \in BOOLEAN : /\ deleteJob(jobId[p], works)
                                        /\ IF works THEN UNCHANGED blame ELSE Blame(jobId[p])
  /\ pc' = [pc EXCEPT ![p] = Handler(p)]
  /\ UNCHANGED <<access, userState, clusterFiles, site, announced, alive, callVars, pollVars, saveVars,
                 ran, listing, interrupted>>

(* __set_user_state_info and __remove_cluster read the user's list ...     *)
RecordRead(p) ==
  /\ pc[p] = "record"
  /\ snap' = [snap EXCEPT ![p] = [readUser EXCEPT ![dir[p]] = jobId[p]]]
  /\ after' = [after EXCEPT ![p] = "recorded"]
  /\ Goto(p, "open")
  /\ UNCHANGED <<fileVars, batchVars, ringVars, callVars, pollVars, showVars, interrupted>>

RemoveRead(p) ==
  /\ pc[p] = "remove"
  /\ IF readUser[dir[p]] = NoJob THEN Goto(p, after[p]) /\ UNCHANGED snap
     ELSE Goto(p, "open") /\ snap' = [snap EXCEPT ![p] = [readUser EXCEPT ![dir[p]] = NoJob]]
  /\ UNCHANGED <<fileVars, batchVars, ringVars, callVars, pollVars, after, showVars, interrupted>>

(* ... open it for writing, which empties it, and write it back whole.     *)
UserOpen(p) ==
  /\ pc[p] = "open" /\ userFile' = "empty" /\ Goto(p, "dump")
  /\ UNCHANGED <<access, userState, clusterFiles, site, batchVars, ringVars, callVars, pollVars, saveVars, showVars, interrupted>>

UserDump(p) ==
  /\ pc[p] = "dump" /\ userFile' = "full" /\ userState' = snap[p] /\ Goto(p, after[p])
  /\ UNCHANGED <<access, clusterFiles, site, batchVars, ringVars, callVars, pollVars, saveVars, showVars, interrupted>>

(* The operation is over.  script runs the script after an allocation      *)
(* and leaves after a deallocation.                                        *)
End(p) ==
  /\ pc[p] \in {"recorded", "removed", "invalid"}
  /\ opCode' = [opCode EXCEPT ![p] = CASE pc[p] = "recorded" -> 0
                                       [] pc[p] = "invalid"  -> 3
                                       [] OTHER              -> @]
  /\ pc' = [pc EXCEPT ![p] = IF ~InScript(p) THEN "done"
                             ELSE IF pc[p] = "recorded" THEN "script" ELSE "exit"]
  /\ UNCHANGED <<fileVars, batchVars, ringVars, callVars, pollVars, saveVars, showVars, interrupted>>
-----------------------------------------------------------------------------
(* _op_deallocate                                                          *)

(* __handle_invalid_cluster_directory: nothing is known of the directory;  *)
(* deallocate frees the job the user's list has for it.                    *)
InvalidDirectory(p, cleanUp) ==
  LET j == readUser[dir[p]]
  IN  /\ IF ~CanAccess({"R"}) THEN Return(p, 1) /\ UNCHANGED after
         ELSE IF j = NoJob THEN Return(p, 15) /\ UNCHANGED after
         ELSE IF ~cleanUp THEN Return(p, 3) /\ UNCHANGED after
         ELSE IF ~CanAccess({"W"}) THEN Return(p, 1) /\ UNCHANGED after
         ELSE Goto(p, "remove") /\ after' = [after EXCEPT ![p] = "invalid"]
      /\ IF cleanUp /\ CanAccess({"R"}) /\ j # NoJob
         THEN \E works \in BOOLEAN : /\ deleteJob(j, works)
                                     /\ IF works THEN UNCHANGED blame ELSE Blame(j)
         ELSE UNCHANGED <<batchVars, blame>>
      /\ UNCHANGED <<ring, jobId>>

(* hadoopCluster.deallocate: a ring master that is alive is told to stop,  *)
(* which may be lost; otherwise the job is deleted.                        *)
Deallocate(p) ==
  LET j == readCluster(dir[p])
  IN  /\ pc[p] = "deallocate"
      /\ \/ j = NoJob /\ InvalidDirectory(p, TRUE)
         \/ /\ j # NoJob /\ jobId' = [jobId EXCEPT ![p] = j] /\ UNCHANGED after
            /\ \/ /\ RingAlive(j) /\ interrupted[p] /\ RaiseInterrupt(p)
                  /\ UNCHANGED <<batchVars, ring, blame>>
               \/ \E works \in BOOLEAN :
                    /\ opCode' = [opCode EXCEPT ![p] = IF RingAlive(j) THEN 0 ELSE 10]
                    /\ pc' = [pc EXCEPT ![p] = "clear"]
                    /\ IF ~RingAlive(j) THEN deleteJob(j, works) /\ UNCHANGED ring
                       ELSE UNCHANGED batchVars /\ IF works THEN stopRM(j) ELSE UNCHANGED ring
                    /\ IF works THEN UNCHANGED blame ELSE Blame(j)
      /\ UNCHANGED <<fileVars, announced, alive, callVars, failures, feasible, snap, ran, listing, interrupted>>

ClearState(p) ==
  /\ pc[p] = "clear"
  /\ clear(dir[p])
  /\ IF CanAccess({"W"}) THEN Goto(p, "remove") /\ after' = [after EXCEPT ![p] = "removed"]
     ELSE Return(p, 1) /\ UNCHANGED after
  /\ UNCHANGED <<access, userFile, userState, site, batchVars, ringVars, callVars, pollVars, snap, showVars, interrupted>>
-----------------------------------------------------------------------------
(* _op_info, _op_list and script                                           *)

Info(p) ==
  LET status == check_cluster(readCluster(dir[p]))
  IN  /\ pc[p] = "info"
      /\ IF status = 15 THEN InvalidDirectory(p, FALSE)
         ELSE /\ Return(p, IF status = 12 THEN opCode[p] ELSE status)
              /\ UNCHANGED <<batchVars, ring, jobId, after, blame>>
      /\ UNCHANGED <<fileVars, announced, alive, callVars, failures, feasible, snap, ran, listing, interrupted>>

List(p) ==
  /\ pc[p] = "list"
  /\ listing' = [listing EXCEPT ![p] =
       {<<check_cluster(readCluster(d)), d>> : d \in {e \in Dirs : readUser[e] # NoJob}}]
  /\ Return(p, opCode[p])
  /\ UNCHANGED <<fileVars, batchVars, ringVars, callVars, pollVars, saveVars, ran, blame, interrupted>>

(* The script runs only if the allocation went well.                       *)
RunScript(p) ==
  /\ pc[p] = "script"
  /\ IF opCode[p] = 0 /\ ~interrupted[p]
     THEN \E result \in {"ok", "failed"} :
            /\ ran' = [ran EXCEPT ![p] = result]
            /\ opCode' = [opCode EXCEPT ![p] = IF result = "ok" THEN 0 ELSE ScriptCode]
     ELSE UNCHANGED <<ran, opCode>>
  /\ pc' = [pc EXCEPT ![p] = "scriptEnd"]
  /\ UNCHANGED <<fileVars, batchVars, ringVars, callVars, pollVars, saveVars, listing, blame, interrupted>>

(* _is_cluster_allocated: whatever cluster is in the directory now is      *)
(* deallocated.                                                            *)
ScriptEnd(p) ==
  /\ pc[p] = "scriptEnd"
  /\ interrupted' = [interrupted EXCEPT ![p] = FALSE]
  /\ after' = [after EXCEPT ![p] = "removed"]
  /\ Goto(p, IF readCluster(dir[p]) = NoJob THEN "exit" ELSE "deallocate")
  /\ UNCHANGED <<fileVars, batchVars, ringVars, callVars, pollVars, snap, showVars>>

(* handle_script_exit_code                                                 *)
ScriptExit(p) ==
  /\ pc[p] = "exit"
  /\ opCode' = [opCode EXCEPT ![p] = IF ran[p] = "failed" THEN ScriptCode ELSE @]
  /\ pc' = [pc EXCEPT ![p] = "done"]
  /\ UNCHANGED <<fileVars, batchVars, ringVars, callVars, pollVars, saveVars, showVars, interrupted>>
-----------------------------------------------------------------------------
(* The world around the clients                                            *)

Running(p) == pc[p] \notin {"done", "crashed"}

Mishap == mishaps < MaxMishaps /\ mishaps' = mishaps + 1

Interrupt(p) ==      \* a signal: HodInterrupt.setFlag
  /\ Mishap /\ Running(p) /\ ~interrupted[p] /\ interrupted' = [interrupted EXCEPT ![p] = TRUE]
  /\ UNCHANGED <<fileVars, batchVars, ringVars, callVars, pollVars, saveVars, showVars, pc, opCode>>

Crash(p) ==          \* the client is killed
  /\ Mishap /\ Running(p) /\ pc' = [pc EXCEPT ![p] = "crashed"]
  /\ Blame(jobId[p])
  /\ UNCHANGED <<fileVars, batchVars, ringVars, callVars, pollVars, saveVars, ran, listing, interrupted, opCode>>

RingUp(j) ==         \* the ring master of a running job registers
  /\ job[j] = "R" /\ ring[j] = "none" /\ ring' = [ring EXCEPT ![j] = "up"]
  /\ UNCHANGED <<batchVars, announced, alive>>

ServiceUp(j, s) ==   \* hdfs first: mapred is launched once hdfs is initialised
  /\ ring[j] = "up" /\ s \notin announced[j] /\ (s = "mapred" => "hdfs" \in announced[j])
  /\ announced' = [announced EXCEPT ![j] = @ \cup {s}]
  /\ alive' = [alive EXCEPT ![j] = @ \cup {s}]
  /\ UNCHANGED <<batchVars, ring>>

ServiceDies(j, s) == /\ Mishap /\ s \in alive[j] /\ alive' = [alive EXCEPT ![j] = @ \ {s}]
                     /\ UNCHANGED <<batchVars, ring, announced>>

RingStops(j) ==      \* the ring master ends, and with it the job
  /\ ring[j] = "stopping" \/ (RingAlive(j) /\ job[j] = "C")
  /\ ring' = [ring EXCEPT ![j] = "gone"]
  /\ alive' = [alive EXCEPT ![j] = {}]
  /\ job' = [job EXCEPT ![j] = "C"]
  /\ UNCHANGED <<asked, announced>>

JobEnds(j) ==        \* wall time, idleness, a node that fails
  /\ Mishap /\ Live(j) /\ job' = [job EXCEPT ![j] = "C"]
  /\ UNCHANGED <<asked, ringVars>>

Misfortune(j) == /\ JobEnds(j) \/ \E s \in Services : ServiceDies(j, s)
                 /\ UNCHANGED <<fileVars, callVars, pollVars, saveVars, showVars, pc, opCode, interrupted>>

World(j) == /\ \/ JobRuns(j) /\ UNCHANGED ringVars
               \/ RingUp(j) \/ RingStops(j) \/ \E s \in Services : ServiceUp(j, s)
            /\ UNCHANGED <<fileVars, callVars, pollVars, saveVars, showVars, pc, opCode, interrupted, mishaps>>
-----------------------------------------------------------------------------
Step(p) == \/ Allocate(p) \/ AllocateListed(p) \/ ClearDead(p) \/ VerifyAccount(p)
           \/ Submit(p) \/ CheckJobStatus(p) \/ FindRing(p)
           \/ FindService(p, "hdfs", "mapred", 7) \/ FindService(p, "mapred", "site", 8)
           \/ GenSiteConf(p) \/ WriteOpen(p) \/ WriteDump(p) \/ RecordFails(p)
           \/ RecordRead(p) \/ RemoveRead(p) \/ UserOpen(p) \/ UserDump(p) \/ End(p)
           \/ Deallocate(p) \/ ClearState(p) \/ Info(p) \/ List(p)
           \/ RunScript(p) \/ ScriptEnd(p) \/ ScriptExit(p)

Next == \/ \E p \in Clients : (Step(p) /\ UNCHANGED mishaps) \/ Interrupt(p) \/ Crash(p)
        \/ \E p \in Clients, o \in Ops, d \in Dirs, r \in Requests : Start(p, o, d, r)
        \/ \E j \in Jobs : World(j) \/ Misfortune(j)

Spec == Init /\ [][Next]_vars
-----------------------------------------------------------------------------
TypeOK ==
  /\ job \in [Jobs -> {"unused", "Q", "R", "C"}]
  /\ userFile \in {"absent", "empty", "full", "torn"}
  /\ userState \in [Dirs -> Jobs \cup {NoJob}]
  /\ snap \in [Clients -> [Dirs -> Jobs \cup {NoJob}]]
  /\ site \in [Dirs -> Jobs \cup {NoJob}]
  /\ clusterFiles \in [Dirs -> [Jobs -> {"none", "empty", "full"}]]
  /\ jobId \in [Clients -> Jobs \cup {NoJob}]
  /\ failures \in [Clients -> 0 .. Retries - 1]
  /\ opCode \in [Clients -> {0, 1, 3, 4, 5, 6, 7, 8, 10, 12, 13, 14, 15, 127, ScriptCode}]

(* Codes below show: a cluster is there to be deallocated.                 *)
Recorded(j) == \E d \in Dirs : clusterFiles[d][j] = "full"

(* No cluster is left behind: a job that lives has a client at work on it, *)
(* or a ring master that stops, or a record deallocate can find, unless    *)
(* a client was killed, gave the job up after failing queries, raised, or  *)
(* lost a qdel or stopRM.  (deleteJob and stopRM in allocate, write)       *)
NoOrphan ==
  \A j \in Jobs : Live(j) =>
     \/ \E p \in Clients : Running(p) /\ jobId[p] = j
     \/ ring[j] = "stopping" \/ Recorded(j) \/ j \in blame

(* allocate ends with exit code 0 only with a cluster: its job is recorded *)
(* in the directory, hadoop-site.xml is the one of that cluster, and the   *)
(* job was asked for with the nodes and wall time of this allocation.      *)
(* Node counts given as a range excepted.  (_op_allocate, gen_site_conf)   *)
ZeroMeansCluster ==
  \A p \in Clients :
    pc[p] = "done" /\ op[p] = "allocate" /\ opCode[p] = 0 /\ ~request[p].range =>
      /\ jobId[p] # NoJob
      /\ site[dir[p]] = jobId[p]
      /\ clusterFiles[dir[p]][jobId[p]] = "full"
      /\ asked[jobId[p]]["l"]["nodes"] = request[p].nodes
      /\ request[p].walltime # 0 => asked[jobId[p]]["l"]["walltime"] = request[p].walltime

(* A script run ends without a cluster: unless deallocation was            *)
(* interrupted, the cluster it allocated is stopped or being stopped.      *)
(* (script, _op_deallocate)                                                *)
ScriptReleases ==
  \A p \in Clients :
    LET j == jobId[p]
    IN  pc[p] = "done" /\ op[p] = "script" /\ ran[p] # "no" /\ opCode[p] # 127 /\ ~interrupted[p]
          => ~Live(j) \/ ring[j] = "stopping" \/ j \in blame

(* A client stops or deletes no cluster but the one it allocates and those *)
(* recorded for its directory: what a step may do.  (deallocate,           *)
(* delete_job)                                                             *)
StopsOnlyItsOwn ==
  \A j \in Jobs :
    \/ (ring[j] = "up" /\ ring'[j] = "stopping")
    \/ (Live(j) /\ job'[j] = "C" /\ ring[j] # "stopping" /\ mishaps' = mishaps)
    => \E p \in Clients :
         /\ pc'[p] # pc[p]
         /\ j = jobId[p] \/ clusterFiles[dir[p]][j] # "none" \/ userState[dir[p]] = j

(* The file clusters.state never shrinks to nothing for good: a client     *)
(* that is not killed and whose write does not fail puts a whole list      *)
(* back.  (hodState.write)                                                 *)
UserFileRestored == userFile = "empty" => \E p \in Clients : pc[p] \in {"dump", "crashed"}
=============================================================================
