----------------------------- MODULE HodRingEnd -----------------------------
(***************************************************************************)
(* One hodring from its first command to the last directory it leaves      *)
(* (hodRing.py, hodsvc.py, bin/hodring, bin/hodcleanup).  It runs its      *)
(* commands, waits to be stopped, and hands what there is to clean up to a *)
(* process of its own, which waits for the job tracker to exit, removes    *)
(* its system directory, archives the logs and removes the directories.    *)
(* The daemons are stopped by the resource manager, not by the hodring.    *)
(***************************************************************************)
EXTENDS Naturals, Sequences, FiniteSets

CONSTANTS CommandLists,  \* what getCommand may return: sequences of [name, fg, work]
          JettyTries,    \* sleeps of __check_jobtracker, of 0.5 to 32 seconds
          Retries        \* of MRSystemDirectoryManager
(* A command in the foreground works in the directory of one behind it: it *)
(* is the format of the name node that comes next (_getNameNodeCommand).   *)
(* There is one job tracker to a cluster, in the background.               *)
ASSUME CommandListsAssumption ==
  /\ CommandLists \subseteq Seq([name: STRING, fg: BOOLEAN, work: STRING])
  /\ \A l \in CommandLists : \A i \in 1..Len(l) :
       /\ l[i].fg => \E j \in 1..Len(l) : ~l[j].fg /\ l[j].work = l[i].work
       /\ l[i].name = "jobtracker" => /\ ~l[i].fg
                                      /\ \A j \in 1..Len(l) : l[j].name = "jobtracker" => j = i
ASSUME RetriesAssumption == Retries \in Nat

VARIABLES
  cmds, id, pc,
  proc,      \* of each command: "none", "live", "ended" (with 0) or "failed"
  noticed,   \* the commands whose thread has polled their end
  port,      \* who listens at Jetty's address: "free", "own" or "other"
  running,   \* __running
  logDirs,   \* __hadoopLogDirs, by command
  answered,  \* who has given a 200 at Jetty's address: "none", "own" or "other"
  tries, stop,
  dirs,      \* the directories on the node
  mrSysDir,  \* is there a MapReduce system directory in the DFS
  cleaner,   \* hodcleanup: "none", "poll", "rmr", "archive", "remove", "done"
  list,      \* --hodring-cleanup-list
  active, count, \* of removeMRSystemDirectory
  gaveUp,    \* has it warned that the job tracker did not exit
  toArchive, kept, \* log directories left to archive, and those archived
  status,    \* what hodcleanup calls the archive status
  lost,      \* has a tar or a copy failed
  settled    \* was no daemon left when the directories began to be removed

ringVars == <<cmds, id, pc, running, logDirs, answered, tries, stop>>
jtVars == <<active, count, gaveUp>>
archiveVars == <<toArchive, kept, status, lost>>
procVars == <<proc, noticed, port>>
vars == <<ringVars, procVars, dirs, mrSysDir, cleaner, list, jtVars, archiveVars, settled>>

Ids == 1..Len(cmds)
Temp == <<"temp", "">>
Work(i) == <<"work", cmds[i].work>>
Conf(i) == <<"conf", i>>
Log(i) == <<"log", i>>
(* The configuration and log directories are made in the temporary one.    *)
Tree(d) == IF d = Temp THEN {e \in dirs : e[1] # "work"} ELSE {d}

Init ==
  /\ cmds \in CommandLists /\ id = 1 /\ pc = "make"
  /\ proc = [i \in Ids |-> "none"] /\ noticed = {} /\ port = "free"
  /\ running = {} /\ logDirs = {} /\ answered = "none" /\ tries = 0 /\ stop = FALSE
  /\ dirs = {Temp} /\ mrSysDir = FALSE
  /\ cleaner = "none" /\ list = {} /\ active = FALSE /\ count = 0 /\ gaveUp = FALSE
  /\ toArchive = {} /\ kept = {} /\ status = TRUE /\ lost = FALSE /\ settled = FALSE

Exited(i) == proc[i] \in {"ended", "failed"}
IsJobTracker(i) == cmds[i].name = "jobtracker"
JTLive == \E i \in Ids : IsJobTracker(i) /\ proc[i] = "live"
cleanVars == <<cleaner, list, jtVars, archiveVars, settled>>

(* getCommandStatus: the exit code of a command is 0 or not there yet.  It *)
(* is of its end only when the thread of the command has polled it; until  *)
(* then it is missing or, after a poll just before the end, not 0.         *)
getCommandStatus(i) == IF proc[i] = "live" THEN {TRUE}
                       ELSE IF i \in noticed THEN {proc[i] # "failed"} ELSE BOOLEAN
-----------------------------------------------------------------------------

(* HadoopCommand.__init__, which may find a work directory it cannot use   *)
MakeCommand ==
  /\ pc = "make" /\ id \in Ids
  /\ \/ pc' = "failed" /\ UNCHANGED <<dirs, logDirs>>
     \/ /\ pc' = "launch" /\ logDirs' = logDirs \cup {id}
        /\ dirs' = dirs \cup {Work(id), Conf(id), Log(id)}
  /\ UNCHANGED <<cmds, id, procVars, running, answered, tries, stop, mrSysDir>>
  /\ UNCHANGED cleanVars

(* HadoopCommand.run, to the end of the input of the command               *)
Launch ==
  /\ pc = "launch" /\ pc' = "run"
  /\ \E s \in {"live", "failed"} : proc' = [proc EXCEPT ![id] = s]
  /\ UNCHANGED <<cmds, id, noticed, port, running, logDirs, answered, tries, stop, dirs, mrSysDir>>
  /\ UNCHANGED cleanVars

(* The rest of run and of __run_hadoop_commands.  A command in the         *)
(* foreground is waited for; one in the background has failed only if that *)
(* is already known.                                                       *)
Run ==
  /\ pc = "run" /\ (cmds[id].fg => Exited(id) /\ id \in noticed)
  /\ \/ /\ FALSE \in getCommandStatus(id)
        /\ running' = running \cup {id} /\ pc' = "failed" /\ UNCHANGED id
     \/ /\ TRUE \in getCommandStatus(id)
        /\ running' = IF cmds[id].fg THEN running ELSE running \cup {id}
        /\ IF IsJobTracker(id) THEN pc' = "jetty" /\ UNCHANGED id
                               ELSE pc' = "make" /\ id' = id + 1
  /\ UNCHANGED <<cmds, procVars, logDirs, answered, tries, stop, dirs, mrSysDir>>
  /\ UNCHANGED cleanVars

(* Mutant: the command is not looked at again.                             *)
MutCheckJobTracker ==
  /\ pc = "jetty" /\ pc' = IF tries < JettyTries THEN "head" ELSE "failed"
  /\ UNCHANGED <<cmds, id, procVars, running, logDirs, answered, tries, stop, dirs, mrSysDir>>
  /\ UNCHANGED cleanVars

(* __check_jobtracker, once around its loop, while it may sleep: first the *)
(* command is looked at, for it may have failed.                           *)
CheckJobTracker ==
  /\ pc = "jetty"
  /\ \/ tries < JettyTries /\ TRUE \in getCommandStatus(id) /\ pc' = "head"
     \/ tries < JettyTries /\ FALSE \in getCommandStatus(id) /\ pc' = "failed"
     \/ tries = JettyTries /\ pc' = "failed"
  /\ UNCHANGED <<cmds, id, procVars, running, logDirs, answered, tries, stop, dirs, mrSysDir>>
  /\ UNCHANGED cleanVars

(* Then whoever listens at the address is asked, and answers with a 200 or *)
(* with something else.  Nobody listens, or the answer takes more than a   *)
(* second: it is tried again after a sleep.                                *)
AskJetty ==
  /\ pc = "head"
  /\ \/ port # "free" /\ answered' = port /\ pc' = "make" /\ id' = id + 1 /\ UNCHANGED tries
     \/ port # "free" /\ pc' = "failed" /\ UNCHANGED <<answered, id, tries>>
     \/ pc' = "jetty" /\ tries' = tries + 1 /\ UNCHANGED <<answered, id>>
  /\ UNCHANGED <<cmds, procVars, running, logDirs, stop, dirs, mrSysDir>> /\ UNCHANGED cleanVars

(* The end of HodRing.start: the ring master may not be reached.           *)
Report ==
  /\ pc = "make" /\ id \notin Ids /\ pc' \in {"up", "failed"}
  /\ UNCHANGED <<cmds, id, procVars, running, logDirs, answered, tries, stop, dirs, mrSysDir>>
  /\ UNCHANGED cleanVars

(* sigStop: the flag is set, whatever the hodring is doing.                *)
Stop ==
  /\ pc # "gone" /\ ~stop /\ stop' = TRUE
  /\ UNCHANGED <<cmds, id, pc, procVars, running, logDirs, answered, tries, dirs, mrSysDir>>
  /\ UNCHANGED cleanVars
Wait ==
  /\ pc = "up" /\ stop /\ pc' = "main"
  /\ UNCHANGED <<cmds, id, procVars, running, logDirs, answered, tries, stop, dirs, mrSysDir>>
  /\ UNCHANGED cleanVars

(* Mutant: the configuration directories, and not the temporary one.       *)
MutCleanupList == UNION {{Work(i), Conf(i)} : i \in running}

(* addCleanup of every running command, and the temporary directory        *)
CleanupList == {Temp} \cup UNION {{Work(i), Conf(i)} : i \in running}

(* main, after wait: the cleanup is a child, unless the fork fails.        *)
Fork ==
  /\ pc = "main" /\ pc' = "gone"
  /\ \/ /\ cleaner' = IF \E i \in running : IsJobTracker(i) THEN "poll" ELSE "archive"
        /\ list' = CleanupList /\ toArchive' = logDirs /\ active' = JTLive
     \/ UNCHANGED <<cleaner, list, toArchive, active>>
  /\ UNCHANGED <<cmds, id, procVars, running, logDirs, answered, tries, stop, dirs, mrSysDir>>
  /\ UNCHANGED <<count, gaveUp, kept, status, lost, settled>>

(* main, after an exception: the ring master is told.                      *)
Fail ==
  /\ pc = "failed" /\ pc' = "gone"
  /\ UNCHANGED <<cmds, id, procVars, running, logDirs, answered, tries, stop, dirs, mrSysDir>>
  /\ UNCHANGED cleanVars
-----------------------------------------------------------------------------
(* The daemons: they exit, write in their directories, and the job tracker *)
(* makes its system directory.                                             *)
Exit(i) ==
  /\ proc[i] = "live"
  /\ \E s \in {"ended", "failed"} : proc' = [proc EXCEPT ![i] = s]
  /\ port' = IF IsJobTracker(i) /\ port = "own" THEN "free" ELSE port
  /\ UNCHANGED <<ringVars, noticed, dirs, mrSysDir, cleanVars>>
Write(i) ==
  /\ proc[i] = "live" /\ dirs' = dirs \cup {Work(i), Log(i)}
  /\ mrSysDir' = (mrSysDir \/ IsJobTracker(i))
  /\ UNCHANGED <<ringVars, procVars, cleanVars>>

(* The Jetty of the job tracker begins to listen; until then, and after it *)
(* has exited, another process may take its address, for a while.          *)
Listen(i) ==
  /\ IsJobTracker(i)
  /\ \/ port = "free" /\ proc[i] = "live" /\ port' = "own"
     \/ port = "free" /\ port' = "other"
     \/ port = "other" /\ port' = "free"
  /\ UNCHANGED <<ringVars, proc, noticed, dirs, mrSysDir, cleanVars>>

(* The thread of a command polls its end.                                  *)
Notice(i) ==
  /\ Exited(i) /\ noticed' = noticed \cup {i}
  /\ UNCHANGED <<ringVars, proc, port, dirs, mrSysDir, cleanVars>>

Daemon == \E i \in Ids : Exit(i) \/ Write(i) \/ Listen(i) \/ Notice(i)
nodeVars == <<ringVars, procVars, dirs, mrSysDir>>
-----------------------------------------------------------------------------
(* removeMRSystemDirectory                                                 *)
Asking == active /\ count < Retries

Poll ==
  /\ cleaner = "poll" /\ Asking
  /\ active' = JTLive /\ count' = count + 1
  /\ UNCHANGED <<nodeVars, cleaner, list, gaveUp, archiveVars, settled>>

(* Mutant: after the last retry the directory is removed all the same.     *)
MutPolled ==
  /\ cleaner = "poll" /\ ~Asking /\ cleaner' = "rmr" /\ UNCHANGED gaveUp
  /\ UNCHANGED <<nodeVars, list, active, count, archiveVars, settled>>

Polled ==
  /\ cleaner = "poll" /\ ~Asking
  /\ gaveUp' = (count = Retries)
  /\ cleaner' = IF count = Retries THEN "archive" ELSE "rmr"
  /\ UNCHANGED <<nodeVars, list, active, count, archiveVars, settled>>

(* dfs -rmr: its failure is logged.                                        *)
RemoveMRSystemDirectory ==
  /\ cleaner = "rmr" /\ cleaner' = "archive"
  /\ mrSysDir' \in {mrSysDir, FALSE}
  /\ UNCHANGED <<ringVars, procVars, dirs, list, jtVars, archiveVars, settled>>

(* __archive_logs, for one directory: a tar that fails leaves the status   *)
(* to the next one, a copy to the DFS that fails goes unnoticed, and an    *)
(* exception ends the loop.                                                *)
Archive(i) ==
  /\ cleaner = "archive" /\ i \in toArchive
  /\ \/ /\ toArchive' = toArchive \ {i} /\ kept' = kept \cup {i}
        /\ status' = TRUE /\ UNCHANGED lost
     \/ /\ toArchive' = toArchive \ {i} /\ UNCHANGED kept
        /\ lost' = TRUE /\ status' \in {TRUE, FALSE}
     \/ /\ toArchive' = {} /\ lost' = TRUE /\ status' = FALSE /\ UNCHANGED kept
  /\ UNCHANGED <<nodeVars, cleaner, list, jtVars, settled>>

Archived ==
  /\ cleaner = "archive" /\ toArchive = {} /\ cleaner' = "remove"
  /\ settled' = (\A i \in Ids : proc[i] # "live")
  /\ UNCHANGED <<nodeVars, list, jtVars, archiveVars>>

RemoveDir(d) ==
  /\ cleaner = "remove" /\ d \in list /\ list' = list \ {d}
  /\ dirs' = dirs \ Tree(d)
  /\ UNCHANGED <<ringVars, procVars, mrSysDir, cleaner, jtVars, archiveVars, settled>>
Removed ==
  /\ cleaner = "remove" /\ list = {} /\ cleaner' = "done"
  /\ UNCHANGED <<nodeVars, list, jtVars, archiveVars, settled>>

HodRing == \/ MakeCommand \/ Launch \/ Run \/ CheckJobTracker \/ AskJetty
           \/ Report \/ Wait \/ Fork \/ Fail
Cleanup == \/ Poll \/ Polled \/ RemoveMRSystemDirectory
           \/ \E i \in Ids : Archive(i)
           \/ Archived \/ (\E d \in list : RemoveDir(d)) \/ Removed
Next == HodRing \/ Stop \/ Daemon \/ Cleanup

Spec == Init /\ [][Next]_vars

-----------------------------------------------------------------------------
(* The system directory is never removed from under a job tracker that     *)
(* runs, whatever it does between the last poll and the rmr.               *)
RemovedOnlyAfterExit == [][mrSysDir /\ ~mrSysDir' => ~JTLive]_vars

(* A hodring that says it is up has had a 200 at the address of its job    *)
(* tracker, and once the failure of the job tracker is known before a      *)
(* question, it never says so, whoever may then answer at that address.    *)
KnownFailed == pc = "jetty" /\ id \in noticed /\ proc[id] = "failed"
UpMeansAnswered ==
  /\ [](pc = "up" => answered # "none" \/ \A i \in Ids : ~IsJobTracker(i))
  /\ [](KnownFailed => [](pc # "up"))

(* After a stop, and with the daemons gone when the removal begins, no     *)
(* directory that the commands were given is left on the node.             *)
NoLeftovers == cleaner = "done" /\ settled => dirs = {}

(* No log is removed that was not archived, unless archiving one failed.   *)
LogsKept == [][\A i \in Ids : Log(i) \in dirs /\ Log(i) \notin dirs' => i \in kept \/ lost]_vars

(* Nothing is removed that is in use or that has not been saved: the       *)
(* system directory only after the job tracker has exited                  *)
(* (MRSystemDirectoryManager), the logs only after they were archived or   *)
(* the archiving was tried (hodcleanup).                                   *)
NothingLost == RemovedOnlyAfterExit /\ LogsKept

(* A hodring that is up and is told to stop has its directories removed    *)
(* however long the daemons go on, unless its fork failed.                 *)
StopCleansUp == pc = "up" /\ stop ~> cleaner = "done" \/ (pc = "gone" /\ cleaner = "none")

=============================================================================
