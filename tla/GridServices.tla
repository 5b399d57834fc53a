---------------------------- MODULE GridServices ----------------------------
(***************************************************************************)
(* The two grid services a ring master keeps (GridServices/service.py,     *)
(* hdfs.py, mapred.py): which master was launched where, whether it came   *)
(* up, how often it failed, and the commands that run masters and workers. *)
(* A command keeps the attributes other nodes depend on: the addresses of  *)
(* the two masters.                                                        *)
(***************************************************************************)
EXTENDS Integers, Sequences, FiniteSets

CONSTANTS
  Nodes,             \* the hodrings, one per node, known as host_pid
  NoNode,            \* 'none' and None
  ExternalHost,      \* the host of a service that is configured as external
  External,          \* the services that are
  WorkersPerRing,
  MaxMasterFailures  \* ringmaster.max-master-failures
ASSUME ServicesAssumption == /\ IsFiniteSet(Nodes) /\ NoNode \notin Nodes
                             /\ WorkersPerRing \in Nat /\ MaxMasterFailures \in Nat

Services == {"hdfs", "mapred"}

VARIABLES
  launched,       \* launchedMaster
  initialized,    \* masterInitialized
  masterAddress,  \* the hodring the master was given to
  masterAddr,     \* the address the master serves at (its host)
  failed,         \* is there a failedMsg
  failureCount    \* masterFailureCount

serviceVars == <<launched, initialized, masterAddress, masterAddr, failed, failureCount>>

ServicesInit ==
  /\ launched = [s \in Services |-> s \in External]
  /\ initialized = [s \in Services |-> s \in External]
  /\ masterAddress = [s \in Services |-> NoNode]
  /\ masterAddr = [s \in Services |-> IF s \in External THEN ExternalHost ELSE NoNode]
  /\ failed = [s \in Services |-> FALSE]
  /\ failureCount = [s \in Services |-> 0]

(* Mutant: Map/Reduce does not wait for HDFS.                              *)
MutIsLaunchable(s) == TRUE

(* Map/Reduce is launched over an HDFS that works.                         *)
isLaunchable(s) == s = "mapred" => initialized["hdfs"]

(* A command: what it runs, and the masters it is told of.  'fillin' marks *)
(* an address the hodring chooses on its own host.                         *)
Command(name, fg, fs, jt) == [name |-> name, fg |-> fg, fs |-> fs, jt |-> jt]
FillIn == "fillinhostport"

NameNodeCommand(format) == Command("namenode", format, FillIn, "")
JobTrackerCommand == Command("jobtracker", FALSE, masterAddr["hdfs"], FillIn)
DataNodeCommand == Command("datanode", FALSE, masterAddr["hdfs"], "")
TaskTrackerCommand == Command("tasktracker", FALSE, masterAddr["hdfs"], masterAddr["mapred"])

(* The name node is formatted, in the foreground, before it runs.          *)
getMasterCommands(s) ==
  CASE s \in External -> <<>>
    [] s = "hdfs"     -> <<NameNodeCommand(TRUE), NameNodeCommand(FALSE)>>
    [] OTHER          -> <<JobTrackerCommand>>

getWorkerCommands(s) ==
  IF s \in External THEN <<>>
  ELSE [i \in 1 .. WorkersPerRing |-> IF s = "hdfs" THEN DataNodeCommand ELSE TaskTrackerCommand]

setlaunchedMaster(s) ==
  /\ launched' = [launched EXCEPT ![s] = TRUE]
  /\ UNCHANGED <<initialized, masterAddress, masterAddr, failed, failureCount>>
setMasterAddress(s, n) ==
  /\ masterAddress' = [masterAddress EXCEPT ![s] = n]
  /\ UNCHANGED <<launched, initialized, masterAddr, failed, failureCount>>

(* setMasterParams and setMasterInitialized, for a set of services         *)
MastersUp(S, host) ==
  /\ masterAddr' = [s \in Services |-> IF s \in S THEN host ELSE masterAddr[s]]
  /\ initialized' = [s \in Services |-> s \in S \/ initialized[s]]
  /\ failureCount' = [s \in Services |-> IF s \in S THEN 0 ELSE failureCount[s]]
  /\ failed' = [s \in Services |-> s \notin S /\ failed[s]]
  /\ UNCHANGED <<launched, masterAddress>>

(* Mutant: the master still counts as launched.                            *)
MutMasterFailed(s) ==
  /\ failureCount' = [failureCount EXCEPT ![s] = @ + 1]
  /\ failed' = [failed EXCEPT ![s] = TRUE]
  /\ UNCHANGED <<launched, initialized, masterAddress, masterAddr>>

(* setMasterFailed                                                         *)
MasterFailed(s) ==
  /\ failureCount' = [failureCount EXCEPT ![s] = @ + 1]
  /\ failed' = [failed EXCEPT ![s] = TRUE]
  /\ launched' = [launched EXCEPT ![s] = FALSE]
  /\ UNCHANGED <<initialized, masterAddress, masterAddr>>

Addresses == Nodes \cup {NoNode, ExternalHost, FillIn, ""}
Commands == [name : {"namenode", "jobtracker", "datanode", "tasktracker"}, fg : BOOLEAN,
             fs : Addresses, jt : Addresses]

ServicesTypeOK ==
  /\ launched \in [Services -> BOOLEAN]
  /\ initialized \in [Services -> BOOLEAN]
  /\ masterAddress \in [Services -> Nodes \cup {NoNode}]
  /\ masterAddr \in [Services -> Nodes \cup {NoNode, ExternalHost}]
  /\ failed \in [Services -> BOOLEAN]
  /\ failureCount \in [Services -> Nat]
=============================================================================
