------------------------------ MODULE HodRing ------------------------------
(***************************************************************************)
(* The hodrings of a cluster (hodRing.py, bin/hodring) and their ring      *)
(* master.  A hodring asks for commands until it gets some, runs them one  *)
(* after the other and tells the ring master the addresses it filled in,   *)
(* or its failure.  Its calls go through hodXRClient, which gives a call   *)
(* up after a while and calls again, up to 30 times: a call may be handled *)
(* late, twice, or not at all.                                             *)
(***************************************************************************)
EXTENDS RingMaster

CONSTANT MaxLosses   \* bound on crashes and on calls given up
ASSUME LossesAssumption == MaxLosses \in Nat

VARIABLES
  ringPc,   \* "off", "poll", "asked", "run", "report", "up", "failing" or "gone"
  cmds,     \* _cfg['commanddesc']: what the hodring runs
  at,       \* the next command
  daemons,  \* __running, of which a hodring that fails leaves some behind
  late,     \* calls given up by the hodring that may still be handled
  losses,
  disturbed \* history: a failure was counted against a service being given away

ringVars == <<ringPc, cmds, at, daemons, late, losses, disturbed>>
hodRingVars == <<rmVars, ringVars>>

RingInit == /\ RMInit
            /\ ringPc = [n \in Nodes |-> "off"]
            /\ cmds = [n \in Nodes |-> <<>>] /\ at = [n \in Nodes |-> 1]
            /\ daemons = [n \in Nodes |-> {}] /\ late = {} /\ losses = 0 /\ disturbed = FALSE

Go(n, pc) == ringPc' = [ringPc EXCEPT ![n] = pc]

RMStarts == StartRM /\ UNCHANGED ringVars

(* HodRing.start, to the first call of getCommand: the package may fail    *)
(* to be downloaded or untarred.                                           *)
StartRing(n) ==
  /\ ringPc[n] = "off" /\ rm = "up"
  /\ Go(n, "poll") \/ Go(n, "failing")
  /\ UNCHANGED <<cmds, at, daemons, late, losses, disturbed>> /\ UNCHANGED rmVars

(* getCommand: the reply is the empty list, over which the hodring sleeps  *)
(* and asks again, or workers, or it is to be a master.                    *)
Poll(n) ==
  /\ ringPc[n] = "poll" /\ CmdLockFree
  /\ \/ /\ MastersDone /\ UNCHANGED rmVars
        /\ cmds' = [cmds EXCEPT ![n] = WorkerCommands]
        /\ Go(n, IF WorkerCommands = <<>> THEN "poll" ELSE "run")
     \/ TakeMaster(n) /\ Go(n, "asked") /\ UNCHANGED <<cmds, rm>>
  /\ UNCHANGED <<at, daemons, late, losses, disturbed>>

(* The ring master replies, to a hodring that may not wait any more.       *)
Answer(n) ==
  /\ giving.to = n /\ GiveMaster
  /\ IF ringPc[n] = "asked" THEN Go(n, "run") /\ cmds' = [cmds EXCEPT ![n] = giving.cmds]
     ELSE UNCHANGED <<ringPc, cmds>>
  /\ UNCHANGED <<at, daemons, late, losses, disturbed, rm>>

Loss == losses < MaxLosses /\ losses' = losses + 1

MasterName == [hdfs |-> "namenode", mapred |-> "jobtracker"]
Filled(n) == {s \in Services : \E c \in daemons[n] : c.name = MasterName[s]}

(* A call that is given up and repeated, with the addresses it sends.      *)
CallIn == [poll |-> "getCommand", report |-> "addMasterParams", failing |-> "setHodRingErrors"]
Sent(n) == IF ringPc[n] = "report" THEN Filled(n) ELSE {}
TimeOut(n) ==
  /\ ringPc[n] \in DOMAIN CallIn /\ Loss
  /\ late' = late \cup {<<n, CallIn[ringPc[n]], Sent(n)>>}
  /\ UNCHANGED <<ringPc, cmds, at, daemons, disturbed>> /\ UNCHANGED rmVars

(* It is given up when the ring master has begun to handle it: the reply   *)
(* is lost, and the hodring asks again.                                    *)
MissReply(n) ==
  /\ ringPc[n] = "asked" /\ Loss /\ Go(n, "poll")
  /\ UNCHANGED <<cmds, at, daemons, late, disturbed>> /\ UNCHANGED rmVars

(* setHodRingErrors, and whether the address it was compared with was the  *)
(* one of the hodring before, while the service is given to another.       *)
TellErrors(n) ==
  /\ setHodRingErrors(n)
  /\ disturbed' = (disturbed \/ giving.service \in MasteredBy(n))
  /\ UNCHANGED <<giving, rm>>

(* The ring master handles it, wherever the hodring is by then.            *)
HandleLate(n, call, sent) ==
  /\ <<n, call, sent>> \in late /\ late' = late \ {<<n, call, sent>>}
  /\ \/ /\ call = "getCommand" /\ CmdLockFree /\ UNCHANGED <<disturbed, rm>>
        /\ TakeMaster(n) \/ (MastersDone /\ UNCHANGED <<serviceVars, giving>>)
     \/ /\ call = "addMasterParams"
        /\ addMasterParams(n, sent) /\ UNCHANGED <<disturbed, giving, rm>>
     \/ call = "setHodRingErrors" /\ TellErrors(n)
  /\ UNCHANGED <<ringPc, cmds, at, daemons, losses>>

(* The 30th call in vain returns None: start raises over the commands it   *)
(* has not got, and goes on without a word when it has reported.           *)
OnNone == [poll |-> "failing", asked |-> "failing", report |-> "up", failing |-> "gone"]
Unreachable(n) ==
  /\ ringPc[n] \in DOMAIN OnNone /\ Loss /\ Go(n, OnNone[ringPc[n]])
  /\ UNCHANGED <<cmds, at, daemons, late, disturbed>> /\ UNCHANGED rmVars

(* One round of __run_hadoop_commands.                                     *)
Command1(n) == cmds[n][at[n]]

(* The command fails, or the job tracker does not answer in time: it is    *)
(* left running then.                                                      *)
CommandFails(n) ==
  /\ ringPc[n] = "run"
  /\ \/ UNCHANGED daemons
     \/ /\ Command1(n).name = "jobtracker"
        /\ daemons' = [daemons EXCEPT ![n] = @ \cup {Command1(n)}]
  /\ Go(n, "failing")
  /\ UNCHANGED <<cmds, at, late, losses, disturbed>> /\ UNCHANGED rmVars

CommandRuns(n) ==
  /\ ringPc[n] = "run"
  /\ daemons' = IF Command1(n).fg THEN daemons ELSE [daemons EXCEPT ![n] = @ \cup {Command1(n)}]
  /\ at' = [at EXCEPT ![n] = @ + 1]
  /\ Go(n, IF at[n] = Len(cmds[n]) THEN "report" ELSE "run")
  /\ UNCHANGED <<cmds, late, losses, disturbed>> /\ UNCHANGED rmVars

Report(n) ==
  /\ ringPc[n] = "report"
  /\ addMasterParams(n, Filled(n))
  /\ Go(n, "up")
  /\ UNCHANGED <<cmds, at, daemons, late, losses, disturbed, giving, rm>>

(* bin/hodring tells of the exception and ends.                            *)
Fail(n) ==
  /\ ringPc[n] = "failing"
  /\ TellErrors(n)
  /\ Go(n, "gone")
  /\ UNCHANGED <<cmds, at, daemons, late, losses>>

Crash(n) ==
  /\ ringPc[n] \notin {"off", "gone"} /\ Loss
  /\ Go(n, "gone") /\ daemons' = [daemons EXCEPT ![n] = {}]
  /\ UNCHANGED <<cmds, at, late, disturbed>> /\ UNCHANGED rmVars

RingStep(n) == \/ StartRing(n) \/ Poll(n) \/ Answer(n) \/ CommandFails(n) \/ CommandRuns(n)
               \/ Report(n) \/ Fail(n)

RingNext == \/ RMStarts
            \/ \E n \in Nodes : RingStep(n) \/ TimeOut(n) \/ MissReply(n) \/ Unreachable(n) \/ Crash(n)
            \/ \E c \in late : HandleLate(c[1], c[2], c[3])

RingSpec == RingInit /\ [][RingNext]_hodRingVars

-----------------------------------------------------------------------------
Masters == Services \ External
GivenMaster(n) == {s \in Services : cmds[n] # <<>> /\ cmds[n][1].name = MasterName[s]}
Gone == {n \in Nodes : ringPc[n] = "gone"}

(* The states of the ring master and of the hodrings are what they may be. *)
RingTypeOK ==
  /\ ServicesTypeOK /\ rm \in {"init", "up", "failed"}
  /\ giving \in [service : Services, to : Nodes, cmds : Seq(Commands)] \cup {NoGift}
  /\ ringPc \in [Nodes -> {"off", "poll", "asked", "run", "report", "up", "failing", "gone"}]
  /\ cmds \in [Nodes -> Seq(Commands)] /\ at \in [Nodes -> Nat \ {0}]
  /\ \A n \in Nodes : ringPc[n] = "run" => at[n] \in DOMAIN cmds[n]
  /\ daemons \in [Nodes -> SUBSET Commands] /\ losses \in Nat /\ disturbed \in BOOLEAN
  /\ late \subseteq Nodes \X {"getCommand", "addMasterParams", "setHodRingErrors"} \X SUBSET Services

(* A ring master that replied twice or handled a late call never has two   *)
(* hodrings at work on the master of one service, unless disturbed.        *)
OneMasterPerService ==
  \A n, m \in Nodes : \A s \in Services :
    /\ ringPc[n] \in {"run", "report", "up"} /\ ringPc[m] \in {"run", "report", "up"}
    /\ s \in GivenMaster(n) /\ s \in GivenMaster(m)
    => n = m

(* Every daemon is told of the masters the client is told of: none talks   *)
(* to a name node or a job tracker that was replaced.                      *)
MastersAgree ==
  \A n \in Nodes : \A c \in daemons[n] :
    /\ c.fs # FillIn => c.fs = masterAddr["hdfs"]
    /\ c.jt \notin {"", FillIn} => c.jt = masterAddr["mapred"]

(* The address the client is told of a service is of a hodring that has    *)
(* run the whole command of its master, or that has crashed since.         *)
AddressIsOfMaster ==
  \A s \in Masters : initialized[s] =>
    LET n == masterAddr[s]
    IN  n \in Nodes /\ GivenMaster(n) = {s} /\ (ringPc[n] = "gone" \/ s \in Filled(n))

(* Each hodring that fails counts once against a service, whatever is      *)
(* reported twice or late; only a getCommand that is handled late, after   *)
(* the hodring has failed, lets it count again, at two losses.             *)
FailedRings == Cardinality({n \in Nodes : ringPc[n] \in {"failing", "gone"}})
FailuresCounted == \A s \in Services : failureCount[s] <= FailedRings + losses \div 2

(* Even a ring master that is disturbed counts no more than one failure    *)
(* for a call that was given up.                                           *)
FailuresBounded == \A s \in Services : failureCount[s] <= FailedRings + losses

(* Whatever is lost, repeated or handled late between the hodrings and the *)
(* ring master: the client is told of a master that has run, and failures  *)
(* are counted within a bound.  One hodring at most runs the master of a   *)
(* service, all daemons and the client are told of the same one, and no    *)
(* failure is counted for nothing, unless a failure of the hodring before  *)
(* was told again while a service was given to the next: getCommand and    *)
(* setHodRingErrors hold different locks.  That takes a call given up.     *)
(* (getCommand, addMasterParams, setHodRingErrors)                         *)
RingSound == /\ RingTypeOK /\ AddressIsOfMaster /\ FailuresBounded
             /\ disturbed => losses > 0
             /\ ~disturbed => OneMasterPerService /\ MastersAgree /\ FailuresCounted

(* The promise the hodrings keep, with what it maps to.                    *)
Abstract == INSTANCE Cluster WITH
  phase <- [s \in Services |-> IF initialized[s] THEN "up"
                               ELSE IF launched[s] THEN "launching" ELSE "down"],
  workers <- {n \in Nodes : cmds[n] # <<>> /\ cmds[n][1].name \in {"datanode", "tasktracker"}}
ImplementsCluster == Abstract!Spec

(* Without losses the client learns of both masters, unless more hodrings  *)
(* fail than the nodes the masters leave over.                             *)
ComesUp == \/ <>(\A s \in Services : getServiceAddr(s) \notin {"not found", "Error"})
           \/ <>(Cardinality(Gone) > Cardinality(Nodes) - Cardinality(Masters))

=============================================================================
