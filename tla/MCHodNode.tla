------------------------------ MODULE MCHodNode ------------------------------
(***************************************************************************)
(* The processes and threads on the nodes of a cluster, one part at a      *)
(* time: "end" (HodRingEnd), "tar" (TarSources), "ring" (HodRing without   *)
(* faults), "stop" (RingMasterStop), "server" (SocketServer), "ports"      *)
(* (Ports), "command" (SimpleCommand) and "loop" (LoopThread).  The parts  *)
(* share no state: the reachable states are the sum of theirs, and the     *)
(* parts that do not run stay in their first state.                        *)
(***************************************************************************)
EXTENDS HodRingEnd, TarSources

CONSTANTS
  h1, h2, h3, ExternalHost,
  ServerRequests, ServerEvents,                                       \* server
  PortRings, ServerLow, ServerHigh, Low, High, Wanted, PortRetries,   \* ports
  ExitCodes, Obedient, MaxTerms,                                      \* command
  IdlenessLimit, MaxTime,                                             \* stop
  LoopEvents                                                          \* loop

VARIABLES
  part,
  launched, initialized, masterAddress, masterAddr, failed, failureCount,   \* ring
  rm, giving, ringPc, ringCmds, at, daemons, ringLate, ringLosses, disturbed,
  stopPc, stopInProgress, isStopped, exitCode, returned, cluster, finder, url, \* stop
  monitor, joined, stopFlag, now, firstIdleTime, idle, found,
  instance, jtMonitor, constructed, early,
  kind, server, run, stopForever, caller, pending, arrived, paused, stopped, \* server
  serverEvents,
  holder, portPc, portTries, probed, localPortUsed, filled, serving, lostPorts, \* ports
  thread, child, code, output, cmdStatus, pid, isFinished, killer, terms,      \* command
  loopPc, waiting, loopStop, loopRunning, pausedCalls, stoppedCalls, loopEvents \* loop

Ring == INSTANCE HodRing WITH
  Nodes <- HodRings, NoNode <- None, External <- {}, WorkersPerRing <- 1,
  MaxMasterFailures <- 1, MaxLosses <- 0,
  cmds <- ringCmds, late <- ringLate, losses <- ringLosses
Stopper == INSTANCE RingMasterStop WITH pc <- stopPc
Server == INSTANCE SocketServer WITH
  MaxRequests <- ServerRequests, MaxEvents <- ServerEvents,
  thread <- server, events <- serverEvents
Port == INSTANCE Ports WITH
  Rings <- PortRings, Retries <- PortRetries, pc <- portPc, tries <- portTries, lost <- lostPorts
Command == INSTANCE SimpleCommand WITH status <- cmdStatus
Loop == INSTANCE LoopThread WITH
  MaxEvents <- LoopEvents, pc <- loopPc, stopFlag <- loopStop, running <- loopRunning,
  events <- loopEvents

(* The ports are numbers, a ring is not another program, and the code that *)
(* a command may end with is a byte (WEXITSTATUS).                         *)
ASSUME NodeAssumption ==
  /\ {ServerLow, ServerHigh, Low, High, Wanted} \subseteq Nat
  /\ {Port!Free, Port!Foreign} \cap PortRings = {}
  /\ ExitCodes \subseteq 0..255

(* What a hodring may be given: the master of HDFS, with its format, the   *)
(* master of MapReduce, or the workers, two to a ring.                     *)
Start(name, fg, work) == [name |-> name, fg |-> fg, work |-> work]
MapReduceMaster == <<Start("jobtracker", FALSE, "mapred-jt")>>
SmallLists == {
  <<Start("namenode", TRUE, "hdfs-nn"), Start("namenode", FALSE, "hdfs-nn")>>,
  MapReduceMaster,
  <<Start("tasktracker", FALSE, "mapred-tt-1"), Start("tasktracker", FALSE, "mapred-tt-2")>>}
MCRings == {h1, h2, h3}
TwoRings == {h1, h2}
ThreeCodes == {0, 1, 255}

-----------------------------------------------------------------------------
Parts == {"end", "tar", "ring", "stop", "server", "ports", "command", "loop"}
ringPart == <<launched, initialized, masterAddress, masterAddr, failed, failureCount,
              rm, giving, ringPc, ringCmds, at, daemons, ringLate, ringLosses, disturbed>>
stopPart == <<stopPc, stopInProgress, isStopped, exitCode, returned, cluster, finder, url,
              monitor, joined, stopFlag, now, firstIdleTime, idle, found,
              instance, jtMonitor, constructed, early>>
serverPart == <<kind, server, run, stopForever, caller, pending, arrived, paused, stopped,
                serverEvents>>
portsPart == <<holder, portPc, portTries, probed, localPortUsed, filled, serving, lostPorts>>
commandPart == <<thread, child, code, output, cmdStatus, pid, isFinished, killer, terms>>
loopPart == <<loopPc, waiting, loopStop, loopRunning, pausedCalls, stoppedCalls, loopEvents>>
allVars == <<part, vars, tarVars, ringPart, stopPart, serverPart, portsPart, commandPart,
             loopPart>>

NodeInit ==
  /\ part \in Parts
  /\ Init /\ TarInit /\ Ring!RingInit /\ Stopper!Init /\ Server!Init /\ Port!Init
  /\ Command!Init /\ Loop!Init
  /\ part # "end" => cmds = MapReduceMaster
  /\ part # "server" => kind = "threaded"
  /\ part # "ports" => holder = [n \in DOMAIN holder |-> "free"]
  /\ part # "loop" => ~waiting

Only(p) == /\ part = p /\ UNCHANGED part
           /\ (p # "end" => UNCHANGED vars) /\ (p # "tar" => UNCHANGED tarVars)
           /\ (p # "ring" => UNCHANGED ringPart) /\ (p # "stop" => UNCHANGED stopPart)
           /\ (p # "server" => UNCHANGED serverPart) /\ (p # "ports" => UNCHANGED portsPart)
           /\ (p # "command" => UNCHANGED commandPart) /\ (p # "loop" => UNCHANGED loopPart)

NodeNext ==
  \/ Only("end") /\ Next
  \/ Only("tar") /\ TarNext
  \/ Only("ring") /\ Ring!RingNext
  \/ Only("stop") /\ Stopper!Next
  \/ Only("server") /\ Server!Next
  \/ Only("ports") /\ Port!Next
  \/ Only("command") /\ Command!Next
  \/ Only("loop") /\ Loop!Next

-----------------------------------------------------------------------------
(* The fairness of each part's own specification, for as long as it runs.  *)
NodeSpec ==
  /\ NodeInit /\ [][NodeNext]_allVars
  /\ WF_vars(part = "end" /\ HodRing) /\ WF_vars(part = "end" /\ Cleanup)
  /\ \A h \in MCRings : /\ WF_tarVars(part = "tar" /\ Download(h))
                        /\ WF_ringPart(part = "ring" /\ Ring!RingStep(h))
  /\ WF_ringPart(part = "ring" /\ Ring!RMStarts)
  /\ WF_stopPart(part = "stop" /\ Stopper!Construct)
  /\ WF_stopPart(part = "stop" /\ Stopper!RunWorkers)
  /\ WF_stopPart(part = "stop" /\ Stopper!MainLoop)
  /\ \A t \in Stopper!Threads : WF_stopPart(part = "stop" /\ Stopper!Stopping(t))
  /\ WF_stopPart(part = "stop" /\ Stopper!FinderStep)
  /\ WF_stopPart(part = "stop" /\ Stopper!MonitorEnds)
  /\ WF_serverPart(part = "server" /\ Server!Top) /\ WF_serverPart(part = "server" /\ Server!Select)
  /\ WF_serverPart(part = "server" /\ Server!Handle) /\ WF_serverPart(part = "server" /\ Server!Gate)
  /\ WF_serverPart(part = "server" /\ Server!Listen) /\ WF_serverPart(part = "server" /\ Server!Render)
  /\ WF_serverPart(part = "server" /\ Server!Unblock)
  /\ WF_serverPart(part = "server" /\ Server!StopThread)
  /\ WF_serverPart(part = "server" /\ Server!Main)
  /\ \A r \in PortRings : WF_portsPart(part = "ports" /\ Port!RingStep(r))
  /\ WF_commandPart(part = "command" /\ Command!Run)
  /\ WF_commandPart(part = "command" /\ Command!KillLoop)
  /\ WF_commandPart(part = "command" /\ Command!KillJoin)
  /\ WF_loopPart(part = "loop" /\ Loop!Step)

-----------------------------------------------------------------------------
(* Every hodring gets what it needs to start, whatever the order of the    *)
(* calls: without faults the whole cluster comes up (getCommand,           *)
(* addMasterParams), and the tarball is fetched unless every slot of every *)
(* server was lost (getTarList).  The hodrings are alike: one stands for   *)
(* all.                                                                    *)
StartsEnd == /\ part = "ring" => Ring!ComesUp
             /\ part = "tar" => EndsOrStarves(h1)

(* Whoever waits for another to stop waits to an end: the main thread of   *)
(* the ring master (stop), who stops a server (baseSocketServer.stop),     *)
(* who kills a command or joins a loop (threads.py), unless it is paused;  *)
(* and a hodring that is stopped is cleaned up after (bin/hodcleanup).     *)
WaitsEnd == /\ Stopper!StopEnds /\ Server!StopReturns
            /\ Command!KillEnds /\ Loop!JoinEndsUnlessPaused
            /\ part = "end" => StopCleansUp

(* What is told of an end is true: the ring master is stopped only after   *)
(* an exit code was found and the monitor told (stop), and who waited for  *)
(* a command is told the code that it ended with (exit_code).              *)
EndsAreTrue == Stopper!StoppedAfterFound /\ Command!FinishedTellsCode

(* A flag that pauses or stops a thread lets at most the one call through  *)
(* that had passed its test.  (loop.run, baseSocketServer._serve_forever)  *)
LateBounded == Loop!OneLateCall /\ Server!OneLateRequest

(* The addresses of a daemon are apart, although nothing stays bound while *)
(* they are chosen, and it loses one only to another ring or program.      *)
(* (getUniqRandomPort)                                                     *)
PortsApart == Port!AddressesDistinct /\ Port!LostToOthers
=============================================================================
