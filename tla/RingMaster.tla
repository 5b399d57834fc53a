----------------------------- MODULE RingMaster -----------------------------
(***************************************************************************)
(* The calls a ring master answers (_LogMasterSources in ringMaster.py):   *)
(* what it tells the hodrings to run, what it learns from them, and what   *)
(* it tells the client.  A thread handles each call: getCommand under one  *)
(* lock (cmdLock), the others under another (masterParamLock).  A call of  *)
(* each may so be at work at once: getCommand, which writes two fields of  *)
(* a service, is two steps, and the others, of which it reads the field    *)
(* they write last, are one.  Python gives the two services in the order   *)
(* hdfs, mapred.                                                           *)
(***************************************************************************)
EXTENDS GridServices

VARIABLES
  rm,      \* the ring master: "init", "up", or "failed" at its start
  giving   \* the getCommand between its writes: the service, to whom, the commands

rmVars == <<serviceVars, rm, giving>>
NoGift == [service |-> "none", to |-> NoNode, cmds |-> <<>>]
RMInit == ServicesInit /\ rm = "init" /\ giving = NoGift

(* RingMaster.__init__: the parameters of an external Map/Reduce are set   *)
(* by an item assignment to an object that has no items, which raises;     *)
(* an external HDFS is set up well.                                        *)
StartRM == /\ rm = "init"
           /\ rm' = IF "mapred" \in External THEN "failed" ELSE "up"
           /\ UNCHANGED <<serviceVars, giving>>

(* The services whose master getCommand may give away, and the next one.   *)
Wanting(s) == /\ s \notin External /\ isLaunchable(s)
              /\ ~launched[s] /\ failureCount[s] <= MaxMasterFailures
MastersDone == \A s \in Services : ~Wanting(s)
NextMaster == IF Wanting("hdfs") THEN "hdfs" ELSE "mapred"

(* The second loop of getCommand asks isExternal of v, where the first one *)
(* has left it: the last service.                                          *)
WorkerCommands ==
  IF "mapred" \in External \/ \E s \in Services : ~initialized[s] THEN <<>>
  ELSE getWorkerCommands("hdfs") \o getWorkerCommands("mapred")

(* getCommand replies with WorkerCommands, in one step, when no master is  *)
(* wanted.  A master it gives away it marks as launched first; it writes   *)
(* then to whom, and leaves the lock.                                      *)
CmdLockFree == giving = NoGift
TakeMaster(n) ==
  /\ ~MastersDone
  /\ giving' = [service |-> NextMaster, to |-> n, cmds |-> getMasterCommands(NextMaster)]
  /\ setlaunchedMaster(NextMaster)
GiveMaster == setMasterAddress(giving.service, giving.to) /\ giving' = NoGift

(* Mutant: the address of the hodring is not compared.                     *)
MutMasteredBy(n) == {s \in Services : launched[s]}

(* The services that were given to a hodring.                              *)
MasteredBy(n) == {s \in Services : launched[s] /\ masterAddress[s] = n}

(* addMasterParams: the hodring sends the attributes of the commands it    *)
(* ran.  A service whose master was not among them sets the address it     *)
(* knows again and then misses the info address, which ends the loop.      *)
addMasterParams(n, filled) ==
  MastersUp({s \in MasteredBy(n) \cap filled : s = "mapred" => "hdfs" \notin MasteredBy(n) \ filled}, n)

(* setHodRingErrors.  The first match strips the pid from the address, so  *)
(* that no later one can match.                                            *)
setHodRingErrors(n) ==
  CASE "hdfs" \in MasteredBy(n) -> MasterFailed("hdfs")
    [] MasteredBy(n) = {"mapred"} -> MasterFailed("mapred")
    [] OTHER -> UNCHANGED serviceVars

(* getServiceAddr: the address, "not found" or "Error"                     *)
Flagged(s) == failed[s] /\ failureCount[s] > MaxMasterFailures
getServiceAddr(s) == CASE Flagged(s)     -> "Error"
                       [] initialized[s] -> masterAddr[s]
                       [] OTHER          -> "not found"
=============================================================================
