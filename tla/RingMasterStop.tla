--------------------------- MODULE RingMasterStop ---------------------------
(***************************************************************************)
(* How a ring master is made and ends (RingMaster.__init__, start, stop    *)
(* and main in ringMaster.py, JobTrackerMonitor in idleJobTracker.py).     *)
(* stop runs on the main thread, on the thread of a stopRM call and in the *)
(* handler of a signal, which is installed first of all, with flags that   *)
(* are tested and set without a lock.  Two more threads look for the job   *)
(* tracker and watch whether it is idle.                                   *)
(***************************************************************************)
EXTENDS Integers

CONSTANTS IdlenessLimit,  \* ringmaster.idleness-limit
          MaxTime         \* bound on the clock

Threads == {"main", "stopper", "signal"}
NotYet == -1
ClientError == -2   \* HadoopClientException

VARIABLES
  pc, stopInProgress, isStopped, exitCode, returned,
  instance,    \* ringMasterServer.instance is set
  jtMonitor,   \* __jtMonitor is set
  constructed, \* has the constructor returned
  cluster,     \* what the services have come to: "nohdfs", "nomapred", "up"
  finder, url, \* JTURLFinderThread and __jobTrackerURL
  monitor, joined, stopFlag,   \* JTMonitorThread, its stopFlag, the monitor's
  now, firstIdleTime, idle,
  found,       \* what set the exit code: "no", the "code" found, "none" to find
  early        \* was a stop begun before the constructor had returned

stopVars == <<stopInProgress, isStopped, exitCode, returned, found, early>>
parts == <<instance, jtMonitor, constructed>>
watchVars == <<firstIdleTime, idle>>
threadVars == <<finder, url, monitor, joined, stopFlag>>
vars == <<pc, stopVars, parts, cluster, threadVars, now, watchVars>>

Constructing == {"build", "serve", "register", "watch", "startwatch"}

(* From the line that installs the handlers on.                            *)
Init == /\ pc = [t \in Threads |-> IF t = "main" THEN "build" ELSE "off"]
        /\ stopInProgress = FALSE /\ isStopped = FALSE
        /\ exitCode = 0 /\ returned = NotYet /\ found = "no" /\ early = FALSE
        /\ instance = FALSE /\ jtMonitor = FALSE /\ constructed = FALSE
        /\ cluster = "nohdfs" /\ finder = "off" /\ url = FALSE
        /\ monitor = "off" /\ joined = FALSE /\ stopFlag = FALSE
        /\ now = 1 /\ firstIdleTime = 0 /\ idle = FALSE

(* The handler of a signal runs on the main thread, between two of its     *)
(* steps, to its own end.                                                  *)
Runs(t) == t = "main" => pc["signal"] \in {"off", "done"}
At(t, p) == pc[t] = p /\ Runs(t)
Go(t, p) == pc' = [pc EXCEPT ![t] = p]

(* The constructor: the node pool, the temporary directory and the         *)
(* services; the server and its instance; the registration, from which on  *)
(* a stopRM may come; the monitor, without which it goes on when the       *)
(* monitor cannot be made or started.                                      *)
Build == At("main", "build") /\ Go("main", "serve")
         /\ UNCHANGED <<stopVars, parts, cluster, threadVars, now, watchVars>>
startService == /\ At("main", "serve") /\ instance' = TRUE /\ Go("main", "register")
                /\ UNCHANGED <<stopVars, jtMonitor, constructed, cluster, threadVars, now, watchVars>>
Register == At("main", "register") /\ Go("main", "watch")
            /\ UNCHANGED <<stopVars, parts, cluster, threadVars, now, watchVars>>
MakeMonitor ==
  /\ At("main", "watch") /\ jtMonitor' \in BOOLEAN /\ constructed' = ~jtMonitor'
  /\ Go("main", IF jtMonitor' THEN "startwatch" ELSE "start")
  /\ UNCHANGED <<stopVars, instance, cluster, threadVars, now, watchVars>>
StartMonitor ==
  /\ At("main", "startwatch") /\ finder' \in {"ask", "off"} /\ constructed' = TRUE
  /\ Go("main", "start")
  /\ UNCHANGED <<stopVars, instance, jtMonitor, cluster, url, monitor, joined, stopFlag, now, watchVars>>
Construct == Build \/ startService \/ Register \/ MakeMonitor \/ StartMonitor

(* The constructor raises: main raises too, and bin/ringmaster exits       *)
(* with 6.                                                                 *)
Raise == /\ pc["main"] \in Constructing \ {"startwatch"} /\ Runs("main")
         /\ Go("main", "done") /\ returned' = 6
         /\ UNCHANGED <<stopInProgress, isStopped, exitCode, found, early, parts, cluster, threadVars,
                        now, watchVars>>

(* start and the loop of main: runWorkers returns, and main waits.         *)
RunWorkers == At("main", "start") /\ Go("main", "loop")
              /\ UNCHANGED <<stopVars, parts, cluster, threadVars, now, watchVars>>
shouldStop == idle \/ isStopped
MainLoop == At("main", "loop") /\ shouldStop /\ Go("main", "check")
            /\ UNCHANGED <<stopVars, parts, cluster, threadVars, now, watchVars>>

stopRM == /\ pc["stopper"] = "off" /\ pc["main"] \notin {"build", "serve", "done"}
          /\ Go("stopper", "check")
          /\ UNCHANGED <<stopVars, parts, cluster, threadVars, now, watchVars>>
sigStop == /\ pc["signal"] = "off" /\ pc["main"] \notin {"join", "done"} /\ Go("signal", "check")
           /\ UNCHANGED <<stopVars, parts, cluster, threadVars, now, watchVars>>

(* RingMaster.stop, a step at a time.                                      *)
Check(t) == /\ At(t, "check")
            /\ Go(t, IF stopInProgress \/ isStopped THEN "end" ELSE "set")
            /\ UNCHANGED <<stopVars, parts, cluster, threadVars, now, watchVars>>

(* Mutant: stopped before the exit code is found.                          *)
MutSetInProgress(t) == /\ At(t, "set") /\ stopInProgress' = TRUE /\ isStopped' = TRUE /\ Go(t, "find")
                       /\ early' = (early \/ ~constructed)
                       /\ UNCHANGED <<exitCode, returned, found, parts, cluster, threadVars, now, watchVars>>

SetInProgress(t) == /\ At(t, "set") /\ stopInProgress' = TRUE /\ Go(t, "find")
                    /\ early' = (early \/ ~constructed)
                    /\ UNCHANGED <<isStopped, exitCode, returned, found, parts, cluster, threadVars,
                                   now, watchVars>>

(* __findHadoopJobsExitCode, of how many jobs went well and how many not   *)
JobsExitCode(well, failed) == IF failed = 0 THEN 0 ELSE IF well = 0 THEN 16 ELSE 17

(* __findExitCode, when there are services to ask; the status of a cluster *)
(* that is up may be 10, 13 or 14, and no job is known without a monitor.  *)
JobsExitCodes == IF jtMonitor THEN {JobsExitCode(w, f) : w, f \in {0, 1}} ELSE {0}
FindExitCode(t) ==
  /\ At(t, "find") /\ Go(t, "monitor")
  /\ exitCode' \in CASE ~instance             -> {6}
                     [] instance /\ cluster = "nohdfs"   -> {7}
                     [] instance /\ cluster = "nomapred" -> {8}
                     [] OTHER -> {10, 13, 14} \cup JobsExitCodes
  /\ found' = IF instance THEN "code" ELSE "none"
  /\ UNCHANGED <<stopInProgress, isStopped, returned, early, parts, cluster, threadVars, now, watchVars>>

(* Mutant: the monitor is waited for without being told.                   *)
MutStopMonitor(t) ==
  /\ At(t, "monitor") /\ stopFlag' = (stopFlag \/ jtMonitor) /\ UNCHANGED joined
  /\ Go(t, IF monitor = "run" THEN "join" ELSE "clean")
  /\ UNCHANGED <<stopVars, parts, cluster, finder, url, monitor, now, watchVars>>

(* JobTrackerMonitor.stop, when there is one                               *)
StopMonitor(t) ==
  /\ At(t, "monitor") /\ stopFlag' = (stopFlag \/ jtMonitor)
  /\ joined' = (joined \/ monitor = "run")
  /\ Go(t, IF monitor = "run" THEN "join" ELSE "clean")
  /\ UNCHANGED <<stopVars, parts, cluster, finder, url, monitor, now, watchVars>>
JoinMonitor(t) == /\ At(t, "join") /\ monitor = "done" /\ Go(t, "clean")
                  /\ UNCHANGED <<stopVars, parts, cluster, threadVars, now, watchVars>>

CleanUp(t) == /\ At(t, "clean") /\ isStopped' = TRUE /\ Go(t, "end")
              /\ UNCHANGED <<stopInProgress, exitCode, returned, found, early, parts, cluster, threadVars,
                             now, watchVars>>
(* Before there is a node pool, whose id names the directory, a handler    *)
(* that cleans up raises, into the constructor that it interrupts.         *)
CleanUpRaises ==
  /\ pc["signal"] = "clean" /\ pc["main"] = "build"
  /\ pc' = [pc EXCEPT !["signal"] = "done", !["main"] = "done"] /\ returned' = 6
  /\ UNCHANGED <<stopInProgress, isStopped, exitCode, found, early, parts, cluster, threadVars,
                 now, watchVars>>

(* stop returns; main returns the exit code.                               *)
Return(t) == /\ At(t, "end") /\ Go(t, "done")
             /\ returned' = IF t = "main" THEN exitCode ELSE returned
             /\ UNCHANGED <<stopInProgress, isStopped, exitCode, found, early, parts, cluster, threadVars,
                            now, watchVars>>

Stopping(t) == \/ Check(t) \/ SetInProgress(t) \/ FindExitCode(t)
               \/ StopMonitor(t) \/ JoinMonitor(t) \/ CleanUp(t) \/ Return(t)

(* A service comes up.                                                     *)
ServiceUp == /\ cluster # "up" /\ cluster' = IF cluster = "nohdfs" THEN "nomapred" ELSE "up"
             /\ UNCHANGED <<pc, stopVars, parts, threadVars, now, watchVars>>

(* getJobTrackerURL, of which every test of the stop flag is a step        *)
FinderAsk == /\ finder = "ask" /\ url' = (cluster = "up") /\ finder' = "test"
             /\ UNCHANGED <<pc, stopVars, parts, cluster, monitor, joined, stopFlag, now, watchVars>>
FinderTest == /\ finder = "test"
              /\ finder' = IF ~stopFlag /\ ~url THEN "sleep" ELSE "decide"
              /\ UNCHANGED <<pc, stopVars, parts, cluster, url, monitor, joined, stopFlag, now, watchVars>>
FinderWake == /\ finder = "sleep"
              /\ finder' = IF stopFlag THEN "decide" ELSE "ask"
              /\ UNCHANGED <<pc, stopVars, parts, cluster, url, monitor, joined, stopFlag, now, watchVars>>
FinderDecide == /\ finder = "decide" /\ finder' = "done"
                /\ monitor' = IF url THEN "run" ELSE monitor
                /\ UNCHANGED <<pc, stopVars, parts, cluster, url, joined, stopFlag, now, watchVars>>

(* __isIdle: an error of the client counts as no job at all, and an output *)
(* without a count as a job.                                               *)
FirstIdle(busy) == IF busy THEN 0 ELSE IF firstIdleTime = 0 THEN now ELSE firstIdleTime
Monitor(jobs) ==
  LET busy == jobs \notin {0, ClientError}
  IN  /\ monitor = "run" /\ ~joined
      /\ firstIdleTime' = FirstIdle(busy)
      /\ idle' = (idle \/ (~busy /\ firstIdleTime # 0 /\ now - firstIdleTime >= IdlenessLimit))
      /\ UNCHANGED <<pc, stopVars, parts, cluster, threadVars, now>>
MonitorEnds == /\ monitor = "run" /\ joined /\ monitor' = "done"
               /\ UNCHANGED <<pc, stopVars, parts, cluster, finder, url, joined, stopFlag, now, watchVars>>

Tick == /\ now < MaxTime /\ now' = now + 1
        /\ UNCHANGED <<pc, stopVars, parts, cluster, threadVars, watchVars>>

FinderStep == FinderAsk \/ FinderTest \/ FinderWake \/ FinderDecide
MonitorStep == MonitorEnds \/ \E jobs \in {0, 1, -1, ClientError} : Monitor(jobs)
Next == \/ Construct \/ Raise \/ CleanUpRaises \/ RunWorkers \/ MainLoop \/ stopRM \/ sigStop
        \/ \E t \in Threads : Stopping(t)
        \/ ServiceUp \/ FinderStep \/ MonitorStep \/ Tick

Spec == Init /\ [][Next]_vars

-----------------------------------------------------------------------------

(* However the threads meet in stop, a stopRM call ends the main thread:   *)
(* none of them waits for ever.                                            *)
StopEnds == pc["stopper"] = "check" ~> pc["main"] = "done"

(* Whoever stops the ring master, it is stopped only after an exit code    *)
(* was found and the monitor was told, if the stop began when all of it    *)
(* was made; a stop that interrupts the constructor may find nothing to    *)
(* ask, and then the code is 6.                                            *)
StoppedAfterFound ==
  isStopped => IF early THEN found = "code" \/ (found = "none" /\ exitCode = 6)
               ELSE found = "code" /\ (jtMonitor => stopFlag)

=============================================================================
