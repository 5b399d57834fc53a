---------------------------- MODULE HodNodeProofs ----------------------------
(***************************************************************************)
(* What the parts on a node of the cluster promise, for every value of the *)
(* constants.                                                              *)
(*                                                                         *)
(* A hodring and its cleanup (HodRingEnd), for every list of commands and  *)
(* every number of retries: the system directory and the logs are not      *)
(* removed too early, a hodring that is up has been answered, and nothing  *)
(* that was made on the node is left.                                      *)
(*                                                                         *)
(* The distribution of the tarball (TarSources), for any number of         *)
(* hodrings, crashes and failures: it is well typed, and until a call is   *)
(* given up no server has more than max-connect downloads.  A server's     *)
(* count covers the hodrings that hold one of its slots, and a hodring     *)
(* that has not registered is not listed, so that no registration resets a *)
(* count in use.                                                           *)
(*                                                                         *)
(* The threads and servers (RingMasterStop, SimpleCommand, LoopThread,     *)
(* SocketServer) and the choice of ports (Ports), as the parts of          *)
(* MCHodNode: the ring master is stopped only after its exit code was      *)
(* found, who waits for a command is told its code, one late call or       *)
(* request at most follows a pause or a join, and the addresses of a       *)
(* daemon are apart and only lost to another ring.                         *)
(***************************************************************************)
EXTENDS MCHodNode, FiniteSetTheorems, SequenceTheorems, TLAPS

(* What the other parts rest on: the types of what is counted and indexed. *)
Typed == /\ cmds \in Seq([name: STRING, fg: BOOLEAN, work: STRING])
         /\ id \in Nat \ {0} /\ count \in Nat 
         /\ proc \in [Ids -> {"none", "live", "ended", "failed"}]
         /\ noticed \subseteq Ids /\ port \in {"free", "own", "other"}

(* The cleanup begins when the hodring is gone, and no command is started  *)
(* any more.                                                               *)
Afterwards == cleaner # "none" => pc = "gone"

(* Whatever the last poll saw of the job tracker that was not running      *)
(* still holds when the cleanup acts on it.                                *)
Seen == /\ cleaner = "none" => count = 0
        /\ cleaner = "poll" => count <= Retries
        /\ cleaner = "poll" /\ ~active => ~JTLive
        /\ cleaner = "rmr" => ~JTLive

(* The hodring goes past a job tracker only when somebody has answered.    *)
Asked == /\ answered # "none" \/ \A i \in Ids : IsJobTracker(i) => i >= id
         /\ pc = "up" => id > Len(cmds)

(* Every log directory is noted before its command runs, and is archived   *)
(* or lost before anything is removed.                                     *)
Noted == /\ \A i \in Ids : Log(i) \in dirs => i \in logDirs
         /\ \A i \in Ids : proc[i] = "live" => i \in logDirs
         /\ pc = "launch" => id \in logDirs
         /\ cleaner # "none" => \A i \in logDirs : i \in toArchive \/ i \in kept \/ lost = TRUE
         /\ cleaner \in {"remove", "done"} => toArchive = {}

IInv == Typed /\ Afterwards /\ Seen /\ Asked /\ Noted

(* A hodring starts with none of its directories and no command run.       *)
LEMMA InitIInv == Init => IInv
<1> SUFFICES ASSUME Init PROVE IInv
  OBVIOUS
<1>1. Typed
  BY CommandListsAssumption DEF Init, Typed, Ids
<1>2. Afterwards /\ Seen
  BY DEF Init, Afterwards, Seen
<1>3. Asked
  BY <1>1 DEF Init, Asked, Ids, Typed
<1>4. Noted
  BY DEF Init, Noted, Log, Temp, Ids
<1> QED
  BY <1>1, <1>2, <1>3, <1>4 DEF IInv

(* A step of the hodring to the next command, past no job tracker that has *)
(* not been answered for.                                                  *)
LEMMA PastStep ==
  ASSUME IInv, Noted', cleaner = "none", UNCHANGED <<cmds, procVars, cleaner, count>>,
         id' \in {id, id + 1}, pc' \in {"failed", "jetty", "head", "make"},
         \/ answered' # "none"
         \/ answered' = answered /\ (IsJobTracker(id) => id' = id)
  PROVE  IInv'
<1> USE DEF IInv, procVars
<1>1. Ids' = Ids /\ \A i \in Ids : IsJobTracker(i)' = IsJobTracker(i)
  BY DEF Ids, IsJobTracker
<1>2. Typed' /\ Afterwards' /\ Seen'
  BY DEF Typed, Afterwards, Seen, Ids
<1>3. \A i \in Ids : i >= id /\ i # id => i >= id + 1
  BY DEF Typed, Ids
<1>4. Asked'
  <2>1. CASE answered' # "none"
    BY <2>1 DEF Asked
  <2>2. CASE answered' = answered /\ (IsJobTracker(id) => id' = id)
    BY <1>1, <1>3, <2>2 DEF Asked
  <2> QED
    BY <2>1, <2>2
<1> QED
  BY <1>2, <1>4

(* The steps of the hodring, before there is a cleanup.                    *)
LEMMA HodRingStep == ASSUME IInv, HodRing PROVE IInv'
<1> USE DEF IInv
<1>1. CASE MakeCommand
  <2> USE <1>1 DEF MakeCommand, procVars, cleanVars, jtVars, archiveVars
  <2>1. Typed' /\ Afterwards' /\ Seen' /\ Asked'
    BY DEF Typed, Afterwards, Seen, Asked, Ids, JTLive, IsJobTracker
  <2>2. cleaner = "none"
    BY DEF Afterwards
  <2>3. \A i \in Ids : Log(i)' = Log(i) /\ Log(i) \notin {Work(id), Conf(id)}
    BY DEF Log, Work, Conf
  <2>4. \A i \in Ids : Log(i) = Log(id) => i = id
    BY DEF Log
  <2>5. Noted'
    BY <2>2, <2>3, <2>4 DEF Noted, Ids
  <2> QED
    BY <2>1, <2>5
<1>2. CASE Launch
  <2> USE <1>2 DEF Launch, cleanVars, jtVars, archiveVars
  <2>1. cleaner = "none"
    BY DEF Afterwards
  <2>2. Typed'
    BY DEF Typed, Ids
  <2>3. Afterwards' /\ Seen' /\ Asked'
    BY <2>1 DEF Afterwards, Seen, Asked, Ids, IsJobTracker
  <2>4. \A i \in Ids : proc'[i] = "live" => i = id \/ proc[i] = "live"
    BY DEF Typed
  <2>5. Noted'
    BY <2>1, <2>4 DEF Noted, Ids, Log
  <2> QED
    BY <2>2, <2>3, <2>5
<1>3. CASE Run
  <2> USE <1>3 DEF Run, procVars, cleanVars, jtVars, archiveVars
  <2>1. cleaner = "none"
    BY DEF Afterwards
  <2>2. /\ UNCHANGED <<cmds, procVars, cleaner, count, answered>> /\ id' \in {id, id + 1}
        /\ IsJobTracker(id) => id' = id
        /\ pc' \in {"failed", "jetty", "make"}
    OBVIOUS
  <2>3. Noted'
    BY <2>1 DEF Noted, Ids, Log
  <2> QED
    BY <2>1, <2>2, <2>3, PastStep
<1>4. CASE CheckJobTracker \/ AskJetty
  <2> USE <1>4 DEF CheckJobTracker, AskJetty, procVars, cleanVars, jtVars, archiveVars
  <2>1. cleaner = "none"
    BY DEF Afterwards
  <2>2. /\ UNCHANGED <<cmds, procVars, cleaner, count>> /\ id' \in {id, id + 1}
        /\ (answered' = answered /\ id' = id) \/ answered' # "none"
        /\ pc' \in {"failed", "jetty", "head", "make"}
    BY DEF Typed
  <2>3. Noted'
    BY <2>1 DEF Noted, Ids, Log
  <2> QED
    BY <2>1, <2>2, <2>3, PastStep
<1>5. CASE Report
  <2> USE <1>5 DEF Report, procVars, cleanVars, jtVars, archiveVars
  <2>1. cleaner = "none"
    BY DEF Afterwards
  <2>2. Typed' /\ Afterwards' /\ Seen'
    BY <2>1 DEF Typed, Afterwards, Seen, Ids
  <2>3. Len(cmds) \in Nat
    BY DEF Typed
  <2>4. Asked'
    BY <2>3 DEF Asked, Typed, Ids, IsJobTracker
  <2>5. Noted'
    BY <2>1 DEF Noted, Ids, Log
  <2> QED
    BY <2>2, <2>4, <2>5
<1>6. CASE Wait \/ Fail
  <2> USE <1>6 DEF Wait, Fail, procVars, cleanVars, jtVars, archiveVars
  <2>1. Typed' /\ Afterwards' /\ Seen' /\ Asked'
    BY DEF Typed, Afterwards, Seen, Asked, Ids, JTLive, IsJobTracker
  <2>2. Noted'
    BY DEF Noted, Ids, Log
  <2> QED
    BY <2>1, <2>2
<1>7. CASE Fork
  <2> USE <1>7 DEF Fork, procVars
  <2>1. cleaner = "none"
    BY DEF Afterwards
  <2>2. Typed' /\ Afterwards' /\ Asked'
    BY DEF Typed, Afterwards, Asked, Ids, IsJobTracker
  <2>3. JTLive' = JTLive /\ count' = count
    BY DEF JTLive, Ids, IsJobTracker
  <2>4. CASE cleaner' = "none"
    BY <2>4, <2>1, <2>2 DEF Seen, Noted, Ids, Log
  <2>5. CASE cleaner' # "none"
    <3>1. /\ cleaner' \in {"poll", "archive"} /\ active' = JTLive /\ toArchive' = logDirs
      BY <2>1, <2>5
    <3>2. Noted'
      BY <3>1 DEF Noted, Ids, Log
    <3>3. Seen'
      BY <3>1, <2>1, <2>3, RetriesAssumption DEF Seen
    <3> QED
      BY <3>2, <3>3, <2>2
  <2> QED
    BY <2>4, <2>5
<1> QED
  BY <1>1, <1>2, <1>3, <1>4, <1>5, <1>6, <1>7 DEF HodRing

(* The steps of the daemons and the signal: no daemon starts again.        *)
LEMMA DaemonStep == ASSUME IInv, Stop \/ Daemon PROVE IInv'
<1> USE DEF IInv
<1>1. CASE Stop
  <2> USE <1>1 DEF Stop, procVars, cleanVars, jtVars, archiveVars
  <2>1. Typed' /\ Afterwards' /\ Seen' /\ Asked'
    BY DEF Typed, Afterwards, Seen, Asked, Ids, JTLive, IsJobTracker
  <2>2. Noted'
    BY DEF Noted, Ids, Log
  <2> QED
    BY <2>1, <2>2
<1>2. ASSUME NEW i \in Ids, Exit(i) PROVE IInv'
  <2> USE <1>2 DEF Exit, ringVars, cleanVars, jtVars, archiveVars
  <2>1. Typed'
    BY DEF Typed, Ids
  <2>2. \A j \in Ids : proc'[j] = "live" => proc[j] = "live"
    BY DEF Typed
  <2>3. JTLive' => JTLive
    BY <2>2 DEF JTLive, Ids, IsJobTracker
  <2>4. Afterwards' /\ Seen' /\ Asked'
    BY <2>3 DEF Afterwards, Seen, Asked, Ids, IsJobTracker
  <2>5. Noted'
    BY <2>2 DEF Noted, Ids, Log
  <2> QED
    BY <2>1, <2>4, <2>5
<1>3. ASSUME NEW i \in Ids, Write(i) PROVE IInv'
  <2> USE <1>3 DEF Write, ringVars, procVars, cleanVars, jtVars, archiveVars
  <2>1. Typed' /\ Afterwards' /\ Seen' /\ Asked'
    BY DEF Typed, Afterwards, Seen, Asked, Ids, JTLive, IsJobTracker
  <2>2. \A j \in Ids : Log(j) \in dirs' => j = i \/ Log(j) \in dirs
    BY DEF Log, Work
  <2>3. Noted'
    BY <2>2 DEF Noted, Ids, Log
  <2> QED
    BY <2>1, <2>3
<1>4. ASSUME NEW i \in Ids, Listen(i) \/ Notice(i) PROVE IInv'
  <2> USE <1>4 DEF Listen, Notice, ringVars, cleanVars, jtVars, archiveVars
  <2>1. Typed' /\ Afterwards' /\ Seen' /\ Asked'
    BY DEF Typed, Afterwards, Seen, Asked, Ids, JTLive, IsJobTracker
  <2>2. Noted'
    BY DEF Noted, Ids, Log
  <2> QED
    BY <2>1, <2>2
<1> QED
  BY <1>1, <1>2, <1>3, <1>4 DEF Daemon

(* The steps of the cleanup: the number of retries bounds its polls, and   *)
(* directories only go.                                                    *)
LEMMA CleanupStep == ASSUME IInv, Cleanup PROVE IInv'
<1> USE DEF IInv, nodeVars, procVars, ringVars, jtVars, archiveVars
<1>1. cleaner # "none" /\ Typed' /\ Asked'
  <2>1. /\ cleaner # "none" /\ UNCHANGED <<cmds, id, procVars, answered, pc>>
        /\ count' \in {count, count + 1}
    BY DEF Cleanup, Poll, Polled, RemoveMRSystemDirectory, Archive, Archived, RemoveDir, Removed
  <2> QED
    BY <2>1 DEF Typed, Asked, Ids, IsJobTracker
<1>2. CASE Poll
  <2> USE <1>2 DEF Poll, Asking
  <2>1. JTLive' = JTLive
    BY DEF JTLive, Ids, IsJobTracker
  <2>2. Afterwards' /\ Seen'
    BY <1>1, <2>1, RetriesAssumption DEF Afterwards, Seen, Typed
  <2>3. Noted'
    BY DEF Noted, Ids, Log
  <2> QED
    BY <1>1, <2>2, <2>3
<1>3. CASE Polled
  <2> USE <1>3 DEF Polled, Asking
  <2>1. JTLive' = JTLive
    BY DEF JTLive, Ids, IsJobTracker
  <2>2. cleaner' = "rmr" => ~active
    BY RetriesAssumption DEF Seen, Typed
  <2>3. Afterwards' /\ Seen'
    BY <1>1, <2>1, <2>2 DEF Afterwards, Seen
  <2>4. Noted'
    BY DEF Noted, Ids, Log
  <2> QED
    BY <1>1, <2>3, <2>4
<1>4. CASE RemoveMRSystemDirectory
  <2> USE <1>4 DEF RemoveMRSystemDirectory
  <2>1. Afterwards' /\ Seen'
    BY <1>1 DEF Afterwards, Seen
  <2>2. Noted'
    BY <1>1 DEF Noted, Ids, Log
  <2> QED
    BY <1>1, <2>1, <2>2
<1>8. CASE Removed
  <2> USE <1>8 DEF Removed
  <2>1. Afterwards' /\ Seen'
    BY <1>1 DEF Afterwards, Seen
  <2>2. Noted'
    BY <1>1 DEF Noted, Ids, Log
  <2> QED
    BY <1>1, <2>1, <2>2
<1>5. ASSUME NEW i \in Ids, Archive(i) PROVE IInv'
  <2> USE <1>5 DEF Archive
  <2>1. Afterwards' /\ Seen'
    BY <1>1 DEF Afterwards, Seen
  <2>2. lost = TRUE => lost' = TRUE
    OBVIOUS
  <2>3. kept \subseteq kept' /\ \A j \in toArchive : j \in toArchive' \/ j \in kept' \/ lost' = TRUE
    OBVIOUS
  <2>4. Noted'
    BY <2>2, <2>3 DEF Noted, Ids, Log
  <2> QED
    BY <1>1, <2>1, <2>4
<1>6. CASE Archived
  <2> USE <1>6 DEF Archived
  <2>1. Afterwards' /\ Seen'
    BY <1>1 DEF Afterwards, Seen
  <2>2. Noted'
    BY DEF Noted, Ids, Log
  <2> QED
    BY <1>1, <2>1, <2>2
<1>7. ASSUME NEW d \in list, RemoveDir(d) PROVE IInv'
  <2> USE <1>7 DEF RemoveDir
  <2>1. Afterwards' /\ Seen'
    BY <1>1 DEF Afterwards, Seen
  <2>2. dirs' \subseteq dirs
    OBVIOUS
  <2>3. Noted'
    BY <2>2 DEF Noted, Ids, Log
  <2> QED
    BY <1>1, <2>1, <2>3
<1> QED
  BY <1>2, <1>3, <1>4, <1>5, <1>6, <1>7, <1>8 DEF Cleanup

(* The invariant of a hodring.                                             *)
THEOREM Invariance == Spec => []IInv
<1>1. Init => IInv
  BY InitIInv
<1>2. IInv /\ [Next]_vars => IInv'
  <2> SUFFICES ASSUME IInv, [Next]_vars PROVE IInv'
    OBVIOUS
  <2>1. CASE UNCHANGED vars
    BY <2>1 DEF vars, ringVars, procVars, jtVars, archiveVars, IInv, Typed, Afterwards, Seen, Asked,
                Noted, Ids, JTLive, IsJobTracker, Log
  <2> QED
    BY <2>1, HodRingStep, DaemonStep, CleanupStep DEF Next
<1> QED
  BY <1>1, <1>2, PTL DEF Spec

(* A hodring that was given a job tracker says it is up (its start has     *)
(* returned) only after a 200 at its address, and never when the failure   *)
(* of the job tracker was known before a question: __check_jobtracker.     *)
THEOREM Answered == Spec => UpMeansAnswered
<1> DEFINE A == pc = "up" => answered # "none" \/ \A i \in Ids : ~IsJobTracker(i)
           Lost == KnownFailed \/ pc \in {"failed", "gone"}
           Down == pc # "up"
<1>1. IInv => A
  BY DEF IInv, Typed, Asked, Ids
<1>2. IInv /\ Lost /\ [Next]_vars => Lost'
  <2> SUFFICES ASSUME IInv, Lost, [Next]_vars PROVE Lost'
    OBVIOUS
  <2>1. CASE UNCHANGED vars
    BY <2>1 DEF vars, ringVars, procVars, KnownFailed
  <2>2. CASE HodRing
    BY <2>2 DEF HodRing, MakeCommand, Launch, Run, CheckJobTracker, AskJetty, Report, Wait, Fork,
                Fail, KnownFailed, getCommandStatus
  <2>3. CASE Stop
    BY <2>3 DEF Stop, procVars, KnownFailed
  <2>4. ASSUME NEW i \in Ids, Exit(i) \/ Write(i) \/ Listen(i) \/ Notice(i) PROVE Lost'
    <3>1. UNCHANGED <<id, pc>>
      BY <2>4 DEF Exit, Write, Listen, Notice, ringVars
    <3>2. CASE KnownFailed
      <4>1. id \in noticed' /\ proc'[id] = proc[id]
        BY <2>4, <3>2 DEF Exit, Write, Listen, Notice, procVars, KnownFailed, IInv, Typed
      <4> QED
        BY <3>1, <3>2, <4>1 DEF KnownFailed
    <3> QED
      BY <3>1, <3>2
  <2>5. CASE Cleanup
    <3>1. UNCHANGED <<id, pc, noticed, proc>>
      BY <2>5 DEF Cleanup, Poll, Polled, RemoveMRSystemDirectory, Archive, Archived, RemoveDir,
                  Removed, nodeVars, ringVars, procVars
    <3> QED
      BY <3>1 DEF KnownFailed
  <2> QED
    BY <2>1, <2>2, <2>3, <2>4, <2>5 DEF Next, Daemon
<1>3. Lost => Down
  BY DEF KnownFailed
<1>4. KnownFailed => Lost
  OBVIOUS
<1> HIDE DEF A, Lost, Down
<1> QED
  <2>1. Spec => []A
    BY <1>1, Invariance, PTL
  <2>2. Spec => [](KnownFailed => []Down)
    BY <1>2, <1>3, <1>4, Invariance, PTL DEF Spec
  <2> QED
    BY <2>1, <2>2, PTL DEF UpMeansAnswered, A, Down

(* removeMRSystemDirectory removes no system directory under a job tracker *)
(* that runs.                                                              *)
THEOREM RemovedAfterExit == Spec => RemovedOnlyAfterExit
<1>1. IInv /\ [Next]_vars => [mrSysDir /\ ~mrSysDir' => ~JTLive]_vars
  <2> SUFFICES ASSUME IInv, Next, mrSysDir, ~mrSysDir' PROVE ~JTLive
    BY DEF vars
  <2>1. RemoveMRSystemDirectory
    BY DEF Next, HodRing, Stop, Daemon, Cleanup, MakeCommand, Launch, Run, CheckJobTracker, AskJetty,
           Report, Wait, Fork, Fail, Exit, Write, Listen, Notice, Poll, Polled, Archive, Archived,
           RemoveDir, Removed, nodeVars, ringVars
  <2> QED
    BY <2>1 DEF RemoveMRSystemDirectory, IInv, Seen
<1> QED
  BY <1>1, Invariance, PTL DEF Spec, RemovedOnlyAfterExit

(* hodcleanup removes no log that it has neither archived nor lost.        *)
THEOREM Archives == Spec => LogsKept
<1> DEFINE Kept == \A i \in Ids : Log(i) \in dirs /\ Log(i) \notin dirs' => i \in kept \/ lost
<1>1. IInv /\ [Next]_vars => [Kept]_vars
  <2> SUFFICES ASSUME IInv, Next, NEW i \in Ids, Log(i) \in dirs, Log(i) \notin dirs'
               PROVE i \in kept \/ lost
    BY DEF vars
  <2>1. PICK d \in list : RemoveDir(d)
    BY DEF Next, HodRing, Stop, Daemon, Cleanup, MakeCommand, Launch, Run, CheckJobTracker, AskJetty,
           Report, Wait, Fork, Fail, Exit, Write, Listen, Notice, Poll, Polled,
           RemoveMRSystemDirectory, Archive, Archived, Removed, nodeVars, ringVars
  <2>2. cleaner = "remove" /\ toArchive = {}
    BY <2>1 DEF RemoveDir, IInv, Noted
  <2>3. i \in logDirs
    BY DEF IInv, Noted
  <2> QED
    BY <2>2, <2>3 DEF IInv, Noted
<1> QED
  BY <1>1, Invariance, PTL DEF Spec, LogsKept

-----------------------------------------------------------------------------
(* What is on the node is known: the directories of the commands.  Every   *)
(* command in the background that was run is in the list of the running    *)
(* ones, and so is the list of what is to be removed made of all of them.  *)
(* From when the removal begins with no daemon left, what is on the node   *)
(* is still on the list, or in the temporary directory that is on it.      *)
Made == \A d \in dirs : d = Temp \/ \E i \in Ids : d \in {Work(i), Conf(i), Log(i)}
Behind(i) == i < id \/ (i = id /\ pc \in {"jetty", "head"})
Enlisted == /\ \A i \in Ids : Behind(i) /\ ~cmds[i].fg => i \in running
            /\ pc \in {"up", "main"} \/ cleaner # "none" => id > Len(cmds)
Listed == cleaner \in {"poll", "rmr", "archive"} => list = CleanupList
OnList == /\ \A i \in Ids : proc[i] # "live"
          /\ \A d \in dirs : d \in list \/ (Temp \in list /\ d[1] # "work")
Emptying == /\ cleaner \in {"remove", "done"} /\ settled => OnList
            /\ cleaner = "done" => list = {}
Shared == \A i \in Ids : cmds[i].fg => \E j \in Ids : ~cmds[j].fg /\ cmds[j].work = cmds[i].work
EInv == Made /\ Enlisted /\ Listed /\ Emptying /\ Shared

(* When the removal begins after the daemons are gone, all that is on the  *)
(* node is on the list or in the temporary directory.                      *)
LEMMA AllOnList ==
  ASSUME IInv, EInv, cleaner = "archive", \A i \in Ids : proc[i] # "live"
  PROVE  OnList
<1> SUFFICES ASSUME NEW d \in dirs PROVE d \in list \/ (Temp \in list /\ d[1] # "work")
  BY DEF OnList
<1>1. list = CleanupList
  BY DEF EInv, Listed
<1>t. Temp \in list
  BY <1>1 DEF CleanupList
<1>2. CASE d = Temp
  BY <1>t, <1>2
<1>3. CASE \E i \in Ids : d \in {Conf(i), Log(i)}
  BY <1>t, <1>3 DEF Conf, Log
<1>4. ASSUME NEW i \in Ids, d = Work(i) PROVE d \in list
  <2>1. PICK j \in Ids : ~cmds[j].fg /\ cmds[j].work = cmds[i].work
    BY DEF EInv, Shared
  <2>2. j \in running
    BY <2>1 DEF EInv, Enlisted, Behind, Ids, IInv, Typed
  <2>3. d = Work(j)
    BY <1>4, <2>1 DEF Work
  <2>4. Work(j) \in UNION {{Work(k), Conf(k)} : k \in running}
    BY <2>2
  <2> QED
    BY <1>1, <2>3, <2>4 DEF CleanupList
<1> QED
  BY <1>2, <1>3, <1>4 DEF EInv, Made

LEMMA InitEInv == Init => EInv
<1> SUFFICES ASSUME Init PROVE EInv
  OBVIOUS
<1>1. Made /\ Listed /\ Emptying
  BY DEF Init, Made, Listed, Emptying
<1>2. Enlisted
  BY CommandListsAssumption DEF Init, Enlisted, Behind, Ids
<1>3. Shared
  BY CommandListsAssumption DEF Init, Shared, Ids
<1> QED
  BY <1>1, <1>2, <1>3 DEF EInv

(* The steps before the cleanup.                                           *)
LEMMA EarlyStep == ASSUME IInv, EInv, HodRing \/ Stop PROVE EInv'
<1> USE DEF EInv
<1>0. cmds' = cmds /\ Ids' = Ids
  BY DEF HodRing, Stop, MakeCommand, Launch, Run, CheckJobTracker, AskJetty, Report, Wait, Fork,
         Fail, Ids
<1>1. Shared'
  BY <1>0 DEF Shared
<1>2. Made'
  <2>1. CASE MakeCommand
    BY <1>0, <2>1 DEF MakeCommand, Made, Temp, Work, Conf, Log
  <2>2. CASE ~MakeCommand
    BY <1>0, <2>2 DEF HodRing, Stop, Launch, Run, CheckJobTracker, AskJetty, Report, Wait, Fork,
                      Fail, Made, Temp, Work, Conf, Log
  <2> QED
    BY <2>1, <2>2
<1>3. Enlisted'
  <2>a. id \in Nat \ {0} /\ \A i \in Ids : i \in Nat
    BY DEF IInv, Typed, Ids
  <2>1. CASE Run
    <3>1. /\ cleaner' = "none" /\ pc = "run" /\ pc' \in {"failed", "jetty", "make"}
          /\ \/ id' = id /\ pc' = "failed" /\ running' = running \cup {id}
             \/ /\ pc' # "failed" /\ id' = IF pc' = "jetty" THEN id ELSE id + 1
                /\ running' = IF cmds[id].fg THEN running ELSE running \cup {id}
      BY <2>1 DEF Run, cleanVars, IInv, Afterwards
    <3>2. \A i \in Ids : Behind(i)' => Behind(i) \/ (i = id /\ pc' # "failed")
      <4>1. \/ id' = id /\ pc' = "failed"
            \/ id' = id /\ pc' = "jetty"
            \/ id' = id + 1 /\ pc' = "make"
        BY <3>1
      <4> QED
        BY <2>a, <4>1 DEF Behind, Ids
    <3> QED
      BY <1>0, <3>1, <3>2 DEF Enlisted
  <2>2. CASE CheckJobTracker \/ AskJetty
    <3>1. /\ cleaner' = "none" /\ running' = running /\ pc \in {"jetty", "head"}
          /\ \/ pc' \in {"jetty", "head", "failed"} /\ id' = id
             \/ pc' = "make" /\ id' = id + 1
      BY <2>2 DEF CheckJobTracker, AskJetty, cleanVars, IInv, Afterwards
    <3>2. \A i \in Ids : Behind(i)' => Behind(i)
      BY <2>a, <3>1 DEF Behind, Ids
    <3> QED
      BY <1>0, <3>1, <3>2 DEF Enlisted
  <2>3. CASE Report
    BY <1>0, <2>a, <2>3, Z3 DEF Report, cleanVars, Enlisted, Behind, Ids, IInv, Afterwards, Typed
  <2>4. CASE MakeCommand \/ Launch \/ Wait \/ Fork \/ Fail \/ Stop
    BY <1>0, <2>a, <2>4 DEF MakeCommand, Launch, Wait, Fork, Fail, Stop, cleanVars, Enlisted, Behind,
                            Ids, IInv, Afterwards
  <2> QED
    BY <2>1, <2>2, <2>3, <2>4 DEF HodRing
<1>4. Listed' /\ Emptying'
  <2>1. CASE Fork
    <3>1. CleanupList' = CleanupList
      BY <2>1 DEF Fork, CleanupList, Work, Conf, Temp
    <3>2. cleaner = "none"
      BY <2>1 DEF Fork, IInv, Afterwards
    <3>3. cleaner' \notin {"remove", "done"}
      BY <2>1, <3>2 DEF Fork
    <3>4. cleaner' = "none" \/ list' = CleanupList
      BY <2>1, <3>2 DEF Fork
    <3> QED
      BY <3>1, <3>3, <3>4 DEF Listed, Emptying
  <2>2. CASE ~Fork
    <3>1. cleaner' = cleaner /\ list' = list /\ cleaner = "none"
      BY <2>2 DEF HodRing, Stop, MakeCommand, Launch, Run, CheckJobTracker, AskJetty, Report, Wait,
                  Fail, cleanVars, IInv, Afterwards
    <3> QED
      BY <3>1 DEF Listed, Emptying
  <2> QED
    BY <2>1, <2>2
<1> QED
  BY <1>1, <1>2, <1>3, <1>4

(* The steps of the daemons and of the cleanup.                            *)
LEMMA LateStep == ASSUME IInv, EInv, Daemon \/ Cleanup PROVE EInv'
<1> USE DEF EInv
<1>0. UNCHANGED <<cmds, id, pc, running, logDirs>> /\ Ids' = Ids
  BY DEF Daemon, Exit, Write, Listen, Notice, Cleanup, Poll, Polled, RemoveMRSystemDirectory,
         Archive, Archived, RemoveDir, Removed, nodeVars, ringVars, Ids
<1>1. Shared' /\ CleanupList' = CleanupList
  BY <1>0 DEF Shared, CleanupList, Work, Conf, Temp
<1>2. CASE Daemon
  <2>1. cleaner' = cleaner /\ list' = list /\ settled' = settled
    BY <1>2 DEF Daemon, Exit, Write, Listen, Notice, cleanVars
  <2>2. Enlisted' /\ Listed'
    BY <1>0, <1>1, <2>1 DEF Enlisted, Behind, Listed
  <2>3. PICK i \in Ids : Exit(i) \/ Write(i) \/ Listen(i) \/ Notice(i)
    BY <1>2 DEF Daemon
  <2>4. Made'
    BY <1>0, <2>3 DEF Exit, Write, Listen, Notice, Made, Temp, Work, Conf, Log
  <2>5. proc[i] = "live" \/ UNCHANGED <<proc, dirs>>
    BY <2>3 DEF Exit, Write, Listen, Notice
  <2>6. Emptying'
    BY <1>0, <2>1, <2>5 DEF Emptying, OnList, Temp
  <2> QED
    BY <1>1, <2>2, <2>4, <2>6
<1>3. CASE Cleanup
  <2>1. proc' = proc /\ dirs' \subseteq dirs
    BY <1>3 DEF Cleanup, Poll, Polled, RemoveMRSystemDirectory, Archive, Archived, RemoveDir,
                Removed, nodeVars, procVars
  <2>2. Made'
    BY <1>0, <2>1 DEF Made, Temp, Work, Conf, Log
  <2>3. Enlisted'
    BY <1>0, <1>3 DEF Enlisted, Behind, Cleanup, Poll, Polled, RemoveMRSystemDirectory, Archive,
                      Archived, RemoveDir, Removed
  <2>4. Listed'
    BY <1>1, <1>3 DEF Listed, Cleanup, Poll, Polled, RemoveMRSystemDirectory, Archive, Archived,
                      RemoveDir, Removed
  <2>5. CASE Archived
    <3>1. settled' => OnList'
      <4> SUFFICES ASSUME settled' PROVE OnList'
        OBVIOUS
      <4>1. OnList
        BY <2>5, AllOnList DEF Archived
      <4> QED
        BY <1>0, <2>5, <4>1 DEF Archived, nodeVars, procVars, OnList, Temp
    <3> QED
      BY <3>1, <2>5, <1>1, <2>2, <2>3, <2>4 DEF Emptying, Archived
  <2>6. ASSUME NEW d \in list, RemoveDir(d) PROVE Emptying'
    <3> SUFFICES ASSUME settled PROVE OnList'
      BY <2>6 DEF RemoveDir, Emptying
    <3>1. OnList
      BY <2>6 DEF RemoveDir, Emptying
    <3>2. \A e \in dirs' : e \in dirs /\ e \notin Tree(d)
      BY <2>6 DEF RemoveDir
    <3>3. ASSUME NEW e \in dirs' PROVE e \in list' \/ (Temp \in list' /\ e[1] # "work")
      <4>1. e \in dirs /\ e \notin Tree(d) /\ list' = list \ {d}
        BY <2>6, <3>2 DEF RemoveDir
      <4>2. CASE d = Temp
        <5>1. e[1] = "work"
          BY <4>1, <4>2 DEF Tree
        <5>2. e # Temp
          <6>1. Temp[1] = "temp"
            BY DEF Temp
          <6> QED
            BY <5>1, <6>1
        <5> QED
          BY <3>1, <4>1, <4>2, <5>1, <5>2 DEF OnList
      <4>3. CASE d # Temp
        <5>1. e # d
          BY <4>1, <4>3 DEF Tree
        <5> QED
          BY <3>1, <4>1, <4>3, <5>1 DEF OnList
      <4> QED
        BY <4>2, <4>3
    <3>4. \A i \in Ids : proc[i] # "live"
      BY <3>1 DEF OnList
    <3> QED
      BY <1>0, <2>1, <3>3, <3>4 DEF OnList, Temp
  <2>7. CASE Poll \/ Polled \/ RemoveMRSystemDirectory \/ \E i \in Ids : Archive(i)
    <3>1. cleaner' \notin {"remove", "done"}
      BY <2>7 DEF Poll, Polled, RemoveMRSystemDirectory, Archive
    <3> QED
      BY <3>1, <1>1, <2>2, <2>3, <2>4 DEF Emptying
  <2>8. CASE Removed
    BY <2>8, <1>0, <1>1, <2>2, <2>3, <2>4 DEF Removed, nodeVars, procVars, Emptying, OnList, Temp
  <2> QED
    BY <1>1, <1>3, <2>2, <2>3, <2>4, <2>5, <2>6, <2>7, <2>8 DEF Cleanup
<1> QED
  BY <1>2, <1>3

(* After a stop, and with the daemons gone when the removal begins, no     *)
(* directory that the commands were given is left on the node: what a      *)
(* command in the foreground made is removed with the one it was run for   *)
(* (addCleanup, hodcleanup).                                               *)
THEOREM NothingLeft == Spec => []NoLeftovers
<1>1. Init => EInv
  BY InitEInv
<1>2. IInv /\ EInv /\ [Next]_vars => EInv'
  <2> SUFFICES ASSUME IInv, EInv, [Next]_vars PROVE EInv'
    OBVIOUS
  <2>1. CASE UNCHANGED vars
    <3>1. UNCHANGED <<cmds, id, pc, running, proc, dirs, cleaner, list, settled>>
      BY <2>1 DEF vars, ringVars, procVars
    <3>2. Ids' = Ids /\ CleanupList' = CleanupList
      BY <3>1 DEF Ids, CleanupList, Work, Conf, Temp
    <3>3. Made'
      BY <3>1, <3>2 DEF EInv, Made, Temp, Work, Conf, Log
    <3>4. OnList => OnList'
      BY <3>1, <3>2 DEF OnList, Temp
    <3>5. Enlisted' /\ Listed' /\ Shared'
      BY <3>1, <3>2 DEF EInv, Enlisted, Behind, Listed, Shared
    <3> QED
      BY <3>1, <3>3, <3>4, <3>5 DEF EInv, Emptying
  <2> QED
    BY <2>1, EarlyStep, LateStep DEF Next
<1>3. EInv => NoLeftovers
  BY DEF EInv, Emptying, OnList, NoLeftovers
<1> QED
  BY <1>1, <1>2, <1>3, Invariance, PTL DEF Spec

(* Nothing is removed that is in use or that has not been saved.           *)
THEOREM NothingIsLost == Spec => NothingLost
BY RemovedAfterExit, Archives, PTL DEF NothingLost

-----------------------------------------------------------------------------
USE HodRingsFinite, MaxConnectIsPos, BoundsAreNat

Counted == \A s \in DOMAIN downloads : /\ Cardinality(Holding(s)) <= downloads[s]
                                   /\ downloads[s] <= MaxConnect
Unlisted == \A h \in HodRings : step[h] \in {"ask", "fetch", "register"} => h \notin DOMAIN downloads
Prompt == late = {} /\ lates = 0
TarInv == TypeOK /\ Counted /\ Unlisted /\ Prompt
Undisturbed == lates = 0 => Counted /\ Unlisted /\ Prompt

-----------------------------------------------------------------------------
(* The hodrings that hold a slot are finitely many.                        *)
LEMMA HoldingFinite ==
  ASSUME NEW s PROVE IsFiniteSet(Holding(s)) /\ Cardinality(Holding(s)) \in Nat
<1>1. Holding(s) \subseteq HodRings BY DEF Holding
<1>2. IsFiniteSet(Holding(s)) BY <1>1, FS_Subset
<1> QED BY <1>2, FS_CardinalityType

(* What a scan may end with: a listed server, and an integer.              *)
LEMMA ChoicesType ==
  ASSUME TypeOK, NEW c \in Choices PROVE c[1] \in DOMAIN downloads /\ c[2] \in Int
<1>1. CASE Misread = {} BY <1>1 DEF Choices, Open, TypeOK
<1>2. CASE Misread # {}
  <2>1. c \in {<<s, downloads[s]>> : s \in Open} \cup (Misread \X {downloads[s] : s \in DOMAIN downloads \ Open})
    BY <1>2 DEF Choices
  <2> QED BY <2>1 DEF Open, Misread, TypeOK
<1> QED BY <1>1, <1>2

(* A registration lists one server more, and keeps the counts integers.    *)
LEMMA RegisterType ==
  ASSUME TypeOK, NEW site \in HodRings, NEW addr, registerTarSource(site, addr)
  PROVE  /\ DOMAIN downloads' = DOMAIN downloads \cup {site}
         /\ \A s \in DOMAIN downloads' : downloads'[s] \in Int
BY DEF registerTarSource, TypeOK

LEMMA GetType ==
  ASSUME TypeOK, NEW s, getTarList(s)
  PROVE  /\ DOMAIN downloads' = DOMAIN downloads /\ s \in DOMAIN downloads
         /\ \A t \in DOMAIN downloads' : downloads'[t] \in Int
<1>1. PICK c \in Choices : s = c[1] /\ downloads' = [downloads EXCEPT ![s] = c[2] + 1]
  BY DEF getTarList
<1> QED BY <1>1, ChoicesType DEF TypeOK

-----------------------------------------------------------------------------
(* Every state is well typed: a hodring fetches from a server that is      *)
(* listed, so that no registration fails on its address with the lock held.*)
THEOREM TypeCorrect == TarSpec => []TypeOK
<1>1. TarInit => TypeOK BY DEF TarInit, TypeOK, Servers, Ended, Calls
<1>2. TypeOK /\ [TarNext]_tarVars => TypeOK'
  <2> SUFFICES ASSUME TypeOK, [TarNext]_tarVars PROVE TypeOK' OBVIOUS
  <2>a. DOMAIN downloads \subseteq Servers BY DEF TypeOK
  <2>1. ASSUME NEW h \in HodRings, Ask(h) PROVE TypeOK'
    <3>1. PICK s \in Servers : getTarList(s) /\ from' = [from EXCEPT ![h] = s] BY <2>1 DEF Ask
    <3>2. /\ DOMAIN downloads' = DOMAIN downloads /\ s \in DOMAIN downloads
          /\ \A t \in DOMAIN downloads' : downloads'[t] \in Int
      BY <3>1, GetType
    <3> QED BY <2>1, <3>1, <3>2 DEF Ask, Go, TypeOK
  <2>2. ASSUME NEW h \in HodRings, Register(h) PROVE TypeOK'
    <3>1. /\ DOMAIN downloads' = DOMAIN downloads \cup {h}
          /\ \A s \in DOMAIN downloads' : downloads'[s] \in Int
      BY <2>2, RegisterType DEF Register
    <3> QED BY <2>2, <3>1 DEF Register, Go, TypeOK, Servers, Ended
  <2>3. ASSUME NEW h \in HodRings, Fetch(h) \/ FetchFails(h) \/ Crash(h) PROVE TypeOK'
    BY <2>3 DEF Fetch, FetchFails, Crash, Lose, Go, TypeOK, Ended
  <2>4. ASSUME NEW h \in HodRings, TimeOut(h) PROVE TypeOK'
    <3>1. CallOf[step[h]] \in Calls BY <2>4 DEF TimeOut, CallOf, Calls
    <3> QED BY <2>4, <3>1 DEF TimeOut, TypeOK
  <2>5. ASSUME NEW h \in HodRings, Unreachable(h) PROVE TypeOK'
    BY <2>5 DEF Unreachable, Lose, Go, TypeOK, Ended
  <2>6. ASSUME NEW h \in HodRings, NEW call \in Calls, HandleLate(h, call) PROVE TypeOK'
    <3>1. /\ DOMAIN downloads \subseteq DOMAIN downloads' /\ DOMAIN downloads' \subseteq Servers
          /\ \A s \in DOMAIN downloads' : downloads'[s] \in Int
      <4>1. CASE call = "getTarList"
        <5>1. CASE UNCHANGED downloads BY <5>1 DEF TypeOK
        <5>2. CASE \E s \in Servers : getTarList(s)
          <6>1. PICK s \in Servers : getTarList(s) BY <5>2
          <6> QED BY <6>1, <2>a, GetType
        <5> QED BY <2>6, <4>1, <5>1, <5>2 DEF HandleLate
      <4>2. CASE call # "getTarList"
        <5>1. registerTarSource(h, from[h]) BY <2>6, <4>2 DEF HandleLate
        <5>2. /\ DOMAIN downloads' = DOMAIN downloads \cup {h}
              /\ \A s \in DOMAIN downloads' : downloads'[s] \in Int
          BY <5>1, RegisterType
        <5> QED BY <5>2, <2>a DEF Servers
      <4> QED BY <4>1, <4>2
    <3> QED BY <2>6, <3>1 DEF HandleLate, TypeOK
  <2>7. CASE UNCHANGED tarVars BY <2>7 DEF tarVars, TypeOK, Ended
  <2> QED BY <2>1, <2>2, <2>3, <2>4, <2>5, <2>6, <2>7
          DEF TarNext, Download, Fault, AskAgain, Done
<1> QED BY <1>1, <1>2, PTL DEF TarSpec

(* Without misread counts a scan ends with an open server and its count.       *)
LEMMA PromptChoice ==
  ASSUME TarInv, NEW s, getTarList(s)
  PROVE  /\ s \in DOMAIN downloads /\ downloads[s] < MaxConnect
         /\ downloads' = [downloads EXCEPT ![s] = @ + 1]
<1>1. Misread = {}
  <2> SUFFICES ASSUME NEW t \in DOMAIN downloads, downloads[t] = -1 PROVE FALSE BY DEF Misread
  <2>1. Cardinality(Holding(t)) \in Nat BY HoldingFinite
  <2> QED BY <2>1 DEF TarInv, Counted
<1>2. PICK c \in Choices : s = c[1] /\ downloads' = [downloads EXCEPT ![s] = c[2] + 1] BY DEF getTarList
<1>3. c \in {<<t, downloads[t]>> : t \in {u \in Open : \A v \in Open : downloads[u] <= downloads[v]}}
  BY <1>1 DEF Choices
<1>4. PICK t \in Open : c = <<t, downloads[t]>> BY <1>3
<1>5. c[1] = t /\ c[2] = downloads[t] BY <1>4
<1> QED BY <1>2, <1>5 DEF Open

(* A hodring that leaves a holder's place unchanged keeps the invariant.   *)
LEMMA FewerHold ==
  ASSUME TarInv, UNCHANGED downloads, \A s \in DOMAIN downloads : Holding(s)' \subseteq Holding(s)
  PROVE  Counted'
<1> SUFFICES ASSUME NEW s \in DOMAIN downloads
             PROVE  Cardinality(Holding(s)') <= downloads[s] /\ downloads[s] <= MaxConnect
  BY DEF Counted
<1>1. Holding(s)' \subseteq Holding(s) OBVIOUS
<1>2. /\ Cardinality(Holding(s)') <= Cardinality(Holding(s))
      /\ Cardinality(Holding(s)') \in Nat /\ Cardinality(Holding(s)) \in Nat
  BY <1>1, HoldingFinite, FS_Subset, FS_CardinalityType
<1>3. Cardinality(Holding(s)) <= downloads[s] /\ downloads[s] <= MaxConnect /\ downloads[s] \in Int
  BY DEF TarInv, Counted, TypeOK
<1> QED BY <1>2, <1>3

(* A hodring that is told a server takes one of its slots.                 *)
LEMMA AskKeeps ==
  ASSUME TarInv, NEW h \in HodRings, Ask(h) PROVE Counted' /\ Unlisted' /\ Prompt'
<1>1. PICK s \in Servers : getTarList(s) /\ from' = [from EXCEPT ![h] = s] BY DEF Ask
<1>2. /\ s \in DOMAIN downloads /\ downloads[s] < MaxConnect
      /\ downloads' = [downloads EXCEPT ![s] = @ + 1]
  BY <1>1, PromptChoice
<1>3. Holding(s)' \subseteq Holding(s) \cup {h}
  BY <1>1 DEF Holding, Ask, Go, TarInv, TypeOK
<1>4. \A t \in DOMAIN downloads \ {s} : Holding(t)' \subseteq Holding(t)
  BY <1>1 DEF Holding, Ask, Go, TarInv, TypeOK
<1>5. Counted'
  <2> SUFFICES ASSUME NEW t \in DOMAIN downloads
               PROVE  Cardinality(Holding(t)') <= downloads'[t] /\ downloads'[t] <= MaxConnect
    BY <1>2 DEF Counted
  <2>1. /\ Cardinality(Holding(t)) <= downloads[t] /\ downloads[t] <= MaxConnect
        /\ downloads[t] \in Int /\ downloads[s] \in Int
    BY <1>2 DEF TarInv, Counted, TypeOK
  <2>2. IsFiniteSet(Holding(t)) /\ Cardinality(Holding(t)) \in Nat BY HoldingFinite
  <2>3. CASE t = s
    <3>1. /\ IsFiniteSet(Holding(s) \cup {h})
          /\ Cardinality(Holding(s) \cup {h}) <= Cardinality(Holding(s)) + 1
      <4>1. IsFiniteSet(Holding(s)) /\ Cardinality(Holding(s)) \in Nat BY HoldingFinite
      <4>2. /\ IsFiniteSet(Holding(s) \cup {h})
            /\ \/ Cardinality(Holding(s) \cup {h}) = Cardinality(Holding(s))
               \/ Cardinality(Holding(s) \cup {h}) = Cardinality(Holding(s)) + 1
        BY <4>1, FS_AddElement
      <4> QED BY <4>1, <4>2
    <3>2. /\ Cardinality(Holding(s)') <= Cardinality(Holding(s) \cup {h})
          /\ Cardinality(Holding(s)') \in Nat /\ Cardinality(Holding(s) \cup {h}) \in Nat
      BY <1>3, <3>1, FS_Subset, FS_CardinalityType
    <3> QED BY <1>2, <2>1, <2>2, <2>3, <3>1, <3>2
  <2>4. CASE t # s
    <3>1. Cardinality(Holding(t)') <= Cardinality(Holding(t)) /\ Cardinality(Holding(t)') \in Nat
      BY <1>4, <2>2, <2>4, FS_Subset, FS_CardinalityType
    <3> QED BY <1>2, <2>1, <2>2, <2>4, <3>1
  <2> QED BY <2>3, <2>4
<1>6. Unlisted' BY <1>2 DEF TarInv, Unlisted, TypeOK, Ask, Go
<1> QED BY <1>5, <1>6 DEF Prompt, TarInv, Ask

(* A hodring that registers returns its slot, and starts with none taken.  *)
LEMMA RegisterKeeps ==
  ASSUME TarInv, NEW h \in HodRings, Register(h) PROVE Counted' /\ Unlisted' /\ Prompt'
<1>1. /\ registerTarSource(h, from[h]) /\ step[h] = "register" /\ step' = [step EXCEPT ![h] = "done"]
      /\ UNCHANGED <<from, late, lates>>
  BY DEF Register, Go
<1>2. h \notin DOMAIN downloads /\ from[h] \in DOMAIN downloads
  BY <1>1 DEF TarInv, Unlisted, TypeOK
<1>3. /\ DOMAIN downloads' = DOMAIN downloads \cup {h} /\ downloads'[h] = 0
      /\ \A s \in DOMAIN downloads : downloads'[s] = IF s = from[h] THEN downloads[s] - 1 ELSE downloads[s]
  <2>1. \A s \in DOMAIN downloads : downloads[s] \in Int BY DEF TarInv, TypeOK
  <2>2. downloads' = [s \in DOMAIN downloads \cup {h} |->
                    (IF s = h THEN 0 ELSE downloads[s]) - (IF s = from[h] THEN 1 ELSE 0)]
    BY <1>1 DEF registerTarSource
  <2>3. downloads'[h] = 0 - 0 BY <1>2, <2>2
  <2>4. \A s \in DOMAIN downloads : downloads'[s] = downloads[s] - (IF s = from[h] THEN 1 ELSE 0)
    BY <1>2, <2>2
  <2> QED BY <2>1, <2>2, <2>3, <2>4
<1>4. \A s \in Servers : Holding(s)' = IF s = from[h] THEN Holding(s) \ {h} ELSE Holding(s)
  BY <1>1 DEF Holding, TarInv, TypeOK
<1>5. Counted'
  <2> SUFFICES ASSUME NEW t \in DOMAIN downloads \cup {h}
               PROVE  Cardinality(Holding(t)') <= downloads'[t] /\ downloads'[t] <= MaxConnect
    BY <1>3 DEF Counted
  <2>0. t \in Servers BY DEF TarInv, TypeOK, Servers
  <2>1. IsFiniteSet(Holding(t)) /\ Cardinality(Holding(t)) \in Nat BY HoldingFinite
  <2>2. CASE t = h
    <3>1. Holding(t)' = {}
      BY <1>2, <1>4, <2>0, <2>2 DEF Holding, TarInv, TypeOK
    <3> QED BY <1>3, <2>2, <3>1, FS_EmptySet
  <2>3. CASE t \in DOMAIN downloads /\ t = from[h]
    <3>1. h \in Holding(t) BY <1>1, <2>3 DEF Holding
    <3>2. Cardinality(Holding(t)') = Cardinality(Holding(t)) - 1
      BY <1>4, <2>0, <2>1, <2>3, <3>1, FS_RemoveElement
    <3>3. /\ Cardinality(Holding(t)) <= downloads[t] /\ downloads[t] <= MaxConnect /\ downloads[t] \in Int
      BY <2>3 DEF TarInv, Counted, TypeOK
    <3> QED BY <1>3, <2>1, <2>3, <3>2, <3>3
  <2>4. CASE t \in DOMAIN downloads /\ t # from[h]
    BY <1>3, <1>4, <2>0, <2>4 DEF TarInv, Counted
  <2> QED BY <2>2, <2>3, <2>4
<1>6. Unlisted'
  BY <1>1, <1>3 DEF TarInv, Unlisted, TypeOK
<1> QED BY <1>1, <1>5, <1>6 DEF Prompt, TarInv

(* Until a call is given up, no server is told to more than max-connect    *)
(* hodrings at a time.  (getTarList, registerTarSource)                    *)
THEOREM Bounded == TarSpec => []ConnectionsBounded
<1>1. TarInit => Undisturbed
  <2> SUFFICES ASSUME TarInit PROVE Counted /\ Unlisted /\ Prompt BY DEF Undisturbed
  <2>1. Holding(Master) = {} BY DEF TarInit, Holding
  <2>2. Cardinality(Holding(Master)) = 0 BY <2>1, FS_EmptySet
  <2> QED BY <2>2 DEF TarInit, Counted, Unlisted, Prompt
<1>2. TypeOK /\ Undisturbed /\ [TarNext]_tarVars => Undisturbed'
  <2> SUFFICES ASSUME TypeOK, Undisturbed, [TarNext]_tarVars, lates' = 0
               PROVE  Counted' /\ Unlisted' /\ Prompt'
    BY DEF Undisturbed
  <2>0. lates = 0 /\ lates' = lates
    <3>1. lates \in Nat BY DEF TypeOK
    <3>2. lates' = lates \/ lates' = lates + 1
      BY DEF TarNext, Download, Fault, Done, Ask, AskAgain, Fetch, FetchFails, Register, Crash,
             TimeOut, Unreachable, HandleLate, tarVars
    <3> QED BY <3>1, <3>2
  <2>i. TarInv BY <2>0 DEF TarInv, Undisturbed
  <2>1. ASSUME NEW h \in HodRings, Fetch(h) \/ FetchFails(h) \/ Crash(h) \/ Unreachable(h)
        PROVE  Counted' /\ Unlisted' /\ Prompt'
    <3>1. UNCHANGED <<downloads, from, late, lates>>
      BY <2>1 DEF Fetch, FetchFails, Crash, Unreachable, Lose
    <3>2. \A s \in DOMAIN downloads : Holding(s)' \subseteq Holding(s)
      BY <2>1, <3>1 DEF Holding, Fetch, FetchFails, Crash, Unreachable, Go, TypeOK
    <3>3. Unlisted'
      BY <2>i, <2>1, <3>1 DEF Fetch, FetchFails, Crash, Unreachable, Go, TarInv, TypeOK, Unlisted
    <3> QED BY <2>i, <3>1, <3>2, <3>3, FewerHold DEF TarInv, Prompt
  <2>2. ASSUME NEW h \in HodRings, TimeOut(h) PROVE FALSE BY <2>0, <2>2 DEF TimeOut
  <2>3. ASSUME NEW h \in HodRings, NEW call \in Calls, HandleLate(h, call) PROVE FALSE
    BY <2>i, <2>3 DEF HandleLate, TarInv, Prompt
  <2>4. CASE UNCHANGED tarVars
    <3>1. \A s \in DOMAIN downloads : Holding(s)' = Holding(s) BY <2>4 DEF tarVars, Holding
    <3> QED BY <2>i, <2>4, <3>1 DEF tarVars, Counted, Unlisted, Prompt, TarInv
  <2> QED BY <2>i, <2>1, <2>2, <2>3, <2>4, AskKeeps, RegisterKeeps
          DEF TarNext, Download, Fault, AskAgain, Done
<1>3. TypeOK /\ Undisturbed => ConnectionsBounded
  <2> SUFFICES ASSUME TypeOK, Counted, NEW s \in Servers
               PROVE  Cardinality(Fetching(s)) <= MaxConnect
    BY DEF ConnectionsBounded, Undisturbed
  <2>1. IsFiniteSet(Holding(s)) /\ Cardinality(Holding(s)) \in Nat BY HoldingFinite
  <2>2. CASE s \in DOMAIN downloads
    <3>1. Fetching(s) \subseteq Holding(s) BY DEF Fetching, Holding
    <3>2. Cardinality(Fetching(s)) <= Cardinality(Holding(s)) /\ Cardinality(Fetching(s)) \in Nat
      BY <2>1, <3>1, FS_Subset, FS_CardinalityType
    <3>3. Cardinality(Holding(s)) <= downloads[s] /\ downloads[s] <= MaxConnect /\ downloads[s] \in Int
      BY <2>2 DEF Counted, TypeOK
    <3> QED BY <2>1, <3>2, <3>3
  <2>3. CASE s \notin DOMAIN downloads
    <3>1. Fetching(s) = {} BY <2>3 DEF Fetching, TypeOK
    <3> QED BY <3>1, FS_EmptySet
  <2> QED BY <2>2, <2>3
<1> QED BY <1>1, <1>2, <1>3, TypeCorrect, PTL DEF TarSpec

-----------------------------------------------------------------------------
(* The other parts, for as long as they run: a step of the node is a step  *)
(* of a part or leaves it alone.                                           *)

LEMMA PartSteps ==
  ASSUME [NodeNext]_allVars
  PROVE  /\ Stopper!Next \/ UNCHANGED stopPart
         /\ Server!Next \/ UNCHANGED serverPart
         /\ Port!Next \/ UNCHANGED portsPart
         /\ Command!Next \/ UNCHANGED commandPart
         /\ Loop!Next \/ UNCHANGED loopPart
<1>1. CASE UNCHANGED allVars
  BY <1>1 DEF allVars
<1>2. CASE NodeNext
  BY <1>2 DEF NodeNext, Only
<1> QED
  BY <1>1, <1>2

-----------------------------------------------------------------------------
(* What is told of an end is true.                                         *)

(* A stop that is not early begins when the constructor has made the       *)
(* instance and, if it could, the monitor.  It finds the exit code before  *)
(* it tells the monitor, and sets isStopped after both.                    *)
MadeFirst ==
  /\ constructed => instance /\ stopPc["main"] \notin Stopper!Constructing
  /\ stopPc["main"] \notin Stopper!Constructing \cup {"done"} => constructed
  /\ stopPc["main"] \in {"register", "watch", "startwatch"} => instance
Begun(t) ==
  /\ stopPc[t] \in {"find", "monitor", "join", "clean"} => early \/ constructed
  /\ stopPc[t] \in {"monitor", "join", "clean"} => found # "no"
  /\ stopPc[t] \in {"join", "clean"} => early \/ ~jtMonitor \/ stopFlag
Told ==
  /\ stopPc \in [Stopper!Threads -> Stopper!Constructing \cup
                   {"off", "start", "loop", "check", "set", "find", "monitor", "join", "clean",
                    "end", "done"}]
  /\ found \in {"no", "none", "code"}
  /\ found = "none" => early /\ exitCode = 6
  /\ MadeFirst /\ \A t \in Stopper!Threads : Begun(t)
  /\ isStopped => (early \/ constructed) /\ found # "no" /\ (early \/ ~jtMonitor \/ stopFlag)

LEMMA ToldInit == Stopper!Init => Told
BY DEF Stopper!Init, Told, MadeFirst, Begun, Stopper!Threads, Stopper!Constructing

LEMMA ToldStep == ASSUME Told, Stopper!Next \/ UNCHANGED stopPart PROVE Told'
<1> USE DEF Stopper!Threads, Stopper!Constructing, Stopper!At, Stopper!Go, MadeFirst, Begun
<1>1. CASE UNCHANGED stopPart
  BY <1>1 DEF Told, stopPart
<1>2. CASE Stopper!RunWorkers \/ Stopper!MainLoop \/ Stopper!stopRM \/ Stopper!sigStop
  BY <1>2 DEF Told, Stopper!RunWorkers, Stopper!MainLoop, Stopper!stopRM, Stopper!sigStop,
              Stopper!stopVars, Stopper!parts, Stopper!threadVars
<1>a. CASE Stopper!Build \/ Stopper!startService \/ Stopper!Register
  BY <1>a DEF Told, Stopper!Build, Stopper!startService, Stopper!Register, Stopper!stopVars,
              Stopper!parts, Stopper!threadVars
<1>b. CASE Stopper!MakeMonitor
  <2>1. /\ stopPc["main"] = "watch" /\ jtMonitor' \in BOOLEAN /\ constructed' = ~jtMonitor'
        /\ stopPc' = [stopPc EXCEPT !["main"] = IF jtMonitor' THEN "startwatch" ELSE "start"]
        /\ UNCHANGED <<isStopped, exitCode, found, early, instance, stopFlag>>
    BY <1>b DEF Stopper!MakeMonitor, Stopper!stopVars, Stopper!threadVars
  <2>2. instance /\ ~constructed /\ (isStopped => early)
    BY <2>1 DEF Told
  <2>3. \A t \in Stopper!Threads : stopPc[t] \in {"join", "clean"} => early
    BY <2>2 DEF Told
  <2> QED
    BY <2>1, <2>2, <2>3 DEF Told
<1>e. CASE Stopper!StartMonitor
  <2>1. /\ stopPc["main"] = "startwatch" /\ constructed'
        /\ stopPc' = [stopPc EXCEPT !["main"] = "start"]
        /\ UNCHANGED <<isStopped, exitCode, found, early, instance, jtMonitor, stopFlag>>
    BY <1>e DEF Stopper!StartMonitor, Stopper!stopVars, Stopper!threadVars
  <2> QED
    BY <2>1 DEF Told
<1>c. CASE Stopper!Raise \/ Stopper!CleanUpRaises
  BY <1>c DEF Told, Stopper!Raise, Stopper!CleanUpRaises, Stopper!parts, Stopper!threadVars
<1>3. ASSUME NEW t \in Stopper!Threads, Stopper!Check(t) \/ Stopper!Return(t)
      PROVE  Told'
  BY <1>3 DEF Told, Stopper!Check, Stopper!Return, Stopper!stopVars, Stopper!parts, Stopper!threadVars
<1>d. ASSUME NEW t \in Stopper!Threads, Stopper!SetInProgress(t) PROVE Told'
  BY <1>d DEF Told, Stopper!SetInProgress, Stopper!parts, Stopper!threadVars
<1>4. ASSUME NEW t \in Stopper!Threads, Stopper!FindExitCode(t) PROVE Told'
  <2>1. /\ stopPc[t] = "find" /\ stopPc' = [stopPc EXCEPT ![t] = "monitor"]
        /\ found' = IF instance THEN "code" ELSE "none"
        /\ ~instance => exitCode' = 6
        /\ UNCHANGED <<isStopped, early, instance, jtMonitor, constructed, stopFlag>>
    BY <1>4 DEF Stopper!FindExitCode, Stopper!parts, Stopper!threadVars
  <2> QED
    BY <2>1 DEF Told
<1>5. ASSUME NEW t \in Stopper!Threads, Stopper!StopMonitor(t) PROVE Told'
  <2>1. /\ stopPc[t] = "monitor" /\ stopFlag' = (stopFlag \/ jtMonitor)
        /\ UNCHANGED <<isStopped, exitCode, found, early, instance, jtMonitor, constructed>>
        /\ stopPc' = [stopPc EXCEPT ![t] = IF monitor = "run" THEN "join" ELSE "clean"]
    BY <1>5 DEF Stopper!StopMonitor, Stopper!stopVars, Stopper!parts
  <2> QED
    BY <2>1 DEF Told
<1>6. ASSUME NEW t \in Stopper!Threads, Stopper!JoinMonitor(t) \/ Stopper!CleanUp(t) PROVE Told'
  BY <1>6 DEF Told, Stopper!JoinMonitor, Stopper!CleanUp, Stopper!stopVars, Stopper!parts,
              Stopper!threadVars
<1>7. CASE Stopper!ServiceUp \/ Stopper!FinderStep \/ Stopper!MonitorStep \/ Stopper!Tick
  <2>1. UNCHANGED <<stopPc, found, isStopped, exitCode, early, instance, jtMonitor, constructed, stopFlag>>
    BY <1>7 DEF Stopper!ServiceUp, Stopper!FinderStep, Stopper!MonitorStep, Stopper!Tick,
                Stopper!FinderAsk, Stopper!FinderTest, Stopper!FinderWake, Stopper!FinderDecide,
                Stopper!MonitorEnds, Stopper!Monitor, Stopper!stopVars, Stopper!parts,
                Stopper!threadVars
  <2> QED
    BY <2>1 DEF Told
<1> QED
  BY <1>1, <1>2, <1>a, <1>b, <1>e, <1>c, <1>3, <1>d, <1>4, <1>5, <1>6, <1>7
     DEF Stopper!Next, Stopper!Construct, Stopper!Stopping

LEMMA ToldEnough == Told => Stopper!StoppedAfterFound
BY DEF Told, MadeFirst, Stopper!StoppedAfterFound

(* The thread of a command ends with the status that it polled after the   *)
(* command had ended, and that is a byte.                                  *)
CodePolled ==
  /\ child = "exited" => code \in 0..255
  /\ thread \in {"finish", "done"} => child = "exited" /\ cmdStatus = code
  /\ isFinished => thread = "done"

LEMMA CodePolledInit == Command!Init => CodePolled
BY DEF Command!Init, CodePolled

LEMMA CodePolledStep == ASSUME CodePolled, Command!Next \/ UNCHANGED commandPart PROVE CodePolled'
<1>1. CASE UNCHANGED commandPart
  BY <1>1 DEF CodePolled, commandPart
<1>2. CASE Command!start \/ Command!kill \/ Command!KillJoin \/ Command!CloseOutput \/ Command!Run
  BY <1>2 DEF CodePolled, Command!start, Command!kill, Command!KillJoin, Command!CloseOutput,
              Command!Run, Command!Popen, Command!SetPid, Command!Read, Command!Poll,
              Command!Finish, Command!childVars
<1>3. CASE Command!KillLoop
  <2>1. UNCHANGED <<thread, cmdStatus, isFinished>>
    BY <1>3 DEF Command!KillLoop
  <2>2. UNCHANGED <<child, code>> \/ (child = "runs" /\ child' = "exited" /\ code' = 0)
    BY <1>3 DEF Command!KillLoop, Command!childVars
  <2> QED
    BY <2>1, <2>2 DEF CodePolled
<1>4. CASE Command!Exit
  BY <1>4, NodeAssumption DEF CodePolled, Command!Exit
<1> QED
  BY <1>1, <1>2, <1>3, <1>4 DEF Command!Next

LEMMA CodePolledTells == CodePolled => Command!FinishedTellsCode
BY DEF CodePolled, Command!FinishedTellsCode, Command!exit_code, Command!NoStatus

(* Whoever stops the ring master, it is stopped only after an exit code    *)
(* was found and the monitor told, or with 6 when the stop interrupted the *)
(* constructor; who waited for a command is told the code that its shell   *)
(* ended with.  (RingMaster.stop, simpleCommand.exit_code)                 *)
THEOREM EndsAreTold == NodeSpec => []EndsAreTrue
<1> DEFINE I == Told /\ CodePolled
<1>1. NodeInit => I
  BY ToldInit, CodePolledInit DEF NodeInit
<1>2. I /\ [NodeNext]_allVars => I'
  BY PartSteps, ToldStep, CodePolledStep
<1>3. I => EndsAreTrue
  BY CodePolledTells, ToldEnough DEF EndsAreTrue
<1> QED
  BY <1>1, <1>2, <1>3, PTL DEF NodeSpec

-----------------------------------------------------------------------------
(* A flag lets at most one call through.                                   *)

(* A call of the loop that came too late leaves it behind the tests.       *)
LateCall ==
  /\ pausedCalls \in {0, 1} /\ stoppedCalls \in {0, 1}
  /\ pausedCalls = 1 => ~loopRunning /\ loopPc \in {"inside", "after"}
  /\ stoppedCalls = 1 => loopStop /\ loopPc \notin {"testrun", "call"}

LEMMA LateCallInit == Loop!Init => LateCall
BY DEF Loop!Init, LateCall

LEMMA LateCallStep == ASSUME LateCall, Loop!Next \/ UNCHANGED loopPart PROVE LateCall'
BY DEF LateCall, loopPart, Loop!Next, Loop!Step, Loop!pause, Loop!cont, Loop!join, Loop!Top,
       Loop!Wait, Loop!TestStop, Loop!TestRun, Loop!Call, Loop!Called, Loop!After, Loop!Sleep,
       Loop!flags, Loop!calls

(* The threaded server is past select and handle_request after a request   *)
(* that came too late; the twisted one never handles one while it pauses.  *)
LateRequest ==
  /\ kind \in {"threaded", "twisted"}
  /\ caller = "construct" => server = "none"
  /\ run => paused = 0
  /\ kind = "twisted" => paused = 0 /\ server \in {"none", "binding", "running", "blocked", "exited", "stopped"}
  /\ kind = "threaded" =>
       /\ paused \in {0, 1} /\ stopped \in {0, 1}
       /\ server \in {"none", "top", "select", "handle", "gate", "closed"}
       /\ paused = 1 => server = "gate" \/ (stopForever /\ server \in {"top", "closed"})
       /\ stopped = 1 => stopForever /\ server \in {"gate", "top", "closed"}

LEMMA LateRequestInit == Server!Init => LateRequest
BY DEF Server!Init, LateRequest

LEMMA LateRequestStep == ASSUME LateRequest, Server!Next \/ UNCHANGED serverPart PROVE LateRequest'
<1>1. CASE UNCHANGED serverPart
  BY <1>1 DEF LateRequest, serverPart
<1>2. CASE Server!Main \/ Server!Connect \/ Server!pause \/ Server!cont \/ Server!stop
  BY <1>2 DEF LateRequest, Server!Main, Server!Construct, Server!Waited, Server!Join, Server!Connect,
              Server!pause, Server!cont, Server!stop, Server!flags, Server!requests, Server!late
<1>3. CASE Server!Top \/ Server!Select \/ Server!Gate \/ Server!Listen \/ Server!StopThread
  BY <1>3 DEF LateRequest, Server!Top, Server!Select, Server!Gate, Server!Listen, Server!StopThread,
              Server!flags, Server!requests, Server!late
<1>4. CASE Server!Handle
  <2>1. /\ server = "handle" /\ server' = "gate" /\ UNCHANGED <<kind, run, stopForever, caller>>
        /\ paused' = IF run THEN paused ELSE paused + 1
        /\ stopped' = IF stopForever THEN stopped + 1 ELSE stopped
    BY <1>4 DEF Server!Handle, Server!Dispatch, Server!flags
  <2>2. kind = "threaded" /\ paused = 0 /\ stopped = 0
    BY <2>1 DEF LateRequest
  <2> QED
    BY <2>1, <2>2 DEF LateRequest
<1>5. CASE Server!Render \/ Server!Unblock
  <2>1. /\ server \in {"running", "blocked"} /\ server' \in {"running", "blocked"}
        /\ UNCHANGED <<kind, run, stopForever, caller>>
        /\ paused' = paused
    BY <1>5 DEF Server!Render, Server!Unblock, Server!Dispatch, Server!flags, Server!requests,
                Server!late
  <2>2. kind = "twisted" /\ paused' = 0
    BY <2>1 DEF LateRequest
  <2> QED
    BY <2>1, <2>2 DEF LateRequest
<1> QED
  BY <1>1, <1>2, <1>3, <1>4, <1>5 DEF Server!Next, Server!Loop

(* A thread or a server that is paused or stopped between its test and its *)
(* call makes this one call, and no second one.  (loop.run,                *)
(* baseSocketServer._serve_forever)                                        *)
THEOREM OneLate == NodeSpec => []LateBounded
<1> DEFINE I == LateCall /\ LateRequest
<1>1. NodeInit => I
  BY LateCallInit, LateRequestInit DEF NodeInit
<1>2. I /\ [NodeNext]_allVars => I'
  BY PartSteps, LateCallStep, LateRequestStep
<1>3. I => LateBounded
  BY DEF LateBounded, LateCall, LateRequest, Loop!OneLateCall, Server!OneLateRequest
<1> QED
  BY <1>1, <1>2, <1>3, PTL DEF NodeSpec

-----------------------------------------------------------------------------
(* The ports of a host.                                                    *)

PortSteps == {"bind", "no server", "choose", "probed", "no port", "daemon"}

(* The values have their types.                                            *)
PortTypes ==
  /\ holder \in [Port!Known -> PortRings \cup {Port!Free, Port!Foreign}]
  /\ portPc \in [PortRings -> PortSteps]
  /\ probed \in [PortRings -> SUBSET Port!PortRange]
  /\ localPortUsed \in [PortRings -> SUBSET Port!PortRange]
  /\ filled \in [PortRings -> Seq(Port!PortRange)]
  /\ serving \in [PortRings -> SUBSET (1..Wanted)] /\ lostPorts \in [PortRings -> SUBSET (1..Wanted)]

(* The addresses of ring r are ports it was given, each once, and none is  *)
(* held by a program that was there before; the port that it tries is its  *)
(* own while it does, and not one that it was given.                       *)
GivenOnce(r) ==
  /\ portPc[r] \in {"bind", "no server"} => localPortUsed[r] = {}
  /\ \A k \in DOMAIN filled[r] : filled[r][k] \in localPortUsed[r]
  /\ \A j, k \in DOMAIN filled[r] : filled[r][j] = filled[r][k] => j = k
  /\ lostPorts[r] \subseteq DOMAIN filled[r]
  /\ probed[r] \cap localPortUsed[r] = {}
  /\ \A n \in probed[r] : holder[n] = r
  /\ \A n \in localPortUsed[r] : holder[n] # Port!Foreign

(* Only its daemon holds a port that ring r was given.                     *)
NotYetBound(r) ==
  /\ portPc[r] # "daemon" => \A n \in localPortUsed[r] : holder[n] # r
  /\ \A k \in DOMAIN filled[r] : holder[filled[r][k]] = r => k \in serving[r]

(* What it lost, another ring of the host holds, or was given.             *)
Loser(r) ==
  \A k \in lostPorts[r] : \E q \in PortRings \ {r} :
    holder[filled[r][k]] = q \/ filled[r][k] \in localPortUsed[q]

PortInv == PortTypes /\ \A r \in PortRings : GivenOnce(r) /\ NotYetBound(r) /\ Loser(r)

LEMMA PortNames ==
  /\ Port!PortRange \subseteq Port!Known /\ Port!Sequence \subseteq Port!Known
  /\ Port!Free \notin PortRings /\ Port!Foreign \notin PortRings /\ Port!Free # Port!Foreign
<1>1. Port!PortRange \subseteq Port!Known
  BY DEF Port!Known
<1>2. Port!Sequence \subseteq Port!Known
  BY NodeAssumption DEF Port!Known, Port!Sequence
<1> QED
  BY <1>1, <1>2, NodeAssumption DEF Port!Free, Port!Foreign

LEMMA PortInit == Port!Init => PortInv
<1> SUFFICES ASSUME Port!Init PROVE PortInv
  OBVIOUS
<1>1. PortTypes
  <2>1. <<>> \in Seq(Port!PortRange)
    BY EmptySeq
  <2> QED
    BY <2>1 DEF Port!Init, PortTypes, PortSteps
<1>2. ASSUME NEW r \in PortRings PROVE GivenOnce(r) /\ NotYetBound(r) /\ Loser(r)
  BY DEF Port!Init, GivenOnce, NotYetBound, Loser
<1> QED
  BY <1>1, <1>2 DEF PortInv

(* A ring takes a port that is free: what the others know stays so.        *)
LEMMA PortTaken ==
  ASSUME PortInv, NEW r \in PortRings, NEW n \in Port!Known, Port!Take(n, r),
         NEW q \in PortRings \ {r},
         probed'[q] = probed[q], localPortUsed'[q] = localPortUsed[q], filled'[q] = filled[q],
         serving'[q] = serving[q], lostPorts'[q] = lostPorts[q], portPc'[q] = portPc[q],
         \A s \in PortRings : localPortUsed'[s] = localPortUsed[s]
  PROVE  GivenOnce(q)' /\ NotYetBound(q)' /\ Loser(q)'
<1>1. /\ holder \in [Port!Known -> PortRings \cup {Port!Free, Port!Foreign}]
      /\ \A m \in Port!Known : holder'[m] = IF m = n THEN r ELSE holder[m]
      /\ holder[n] = Port!Free
  BY DEF PortInv, PortTypes, Port!Take
<1>2. GivenOnce(q) /\ NotYetBound(q) /\ Loser(q)
  BY DEF PortInv
<1>3. probed[q] \subseteq Port!Known /\ localPortUsed[q] \subseteq Port!Known
  BY PortNames DEF PortInv, PortTypes
<1>4. \A m \in Port!Known : (holder'[m] = q <=> holder[m] = q)
  BY <1>1, PortNames
<1>5. GivenOnce(q)'
  BY <1>1, <1>2, <1>3, PortNames DEF GivenOnce
<1>6. NotYetBound(q)'
  BY <1>2, <1>3, <1>4 DEF NotYetBound, GivenOnce
<1>7. Loser(q)'
  <2> SUFFICES ASSUME NEW k \in lostPorts[q]
               PROVE  \E s \in PortRings \ {q} :
                        holder'[filled[q][k]] = s \/ filled[q][k] \in localPortUsed'[s]
    BY DEF Loser
  <2>1. PICK s \in PortRings \ {q} : holder[filled[q][k]] = s \/ filled[q][k] \in localPortUsed[s]
    BY <1>2 DEF Loser
  <2>2. filled[q][k] \in Port!Known
    BY <1>2, <1>3 DEF GivenOnce
  <2> QED
    BY <1>1, <2>1, <2>2, PortNames
<1> QED
  BY <1>5, <1>6, <1>7

LEMMA PortServer == ASSUME PortInv, NEW r \in PortRings, Port!server_bind(r) PROVE PortInv'
<1>1. /\ portPc[r] = "bind" /\ UNCHANGED <<probed, localPortUsed, filled, serving, lostPorts>>
      /\ \/ \E n \in Port!Sequence : Port!Take(n, r)
         \/ UNCHANGED holder
      /\ \E s \in PortSteps \ {"daemon"} : portPc' = [portPc EXCEPT ![r] = s]
      /\ portPc'[r] \in {"bind", "no server", "choose"}
  BY DEF Port!server_bind, Port!Goto, PortSteps, PortInv, PortTypes
<1>2. localPortUsed[r] = {}
  BY <1>1 DEF PortInv, GivenOnce
<1>3. DOMAIN filled[r] = {} /\ lostPorts[r] = {}
  BY <1>2 DEF PortInv, GivenOnce
<1>4. \A q \in PortRings \ {r} : portPc'[q] = portPc[q]
  BY <1>1 DEF PortInv, PortTypes
<1>5. CASE UNCHANGED holder
  <2>1. PortTypes'
    BY <1>1, <1>5 DEF PortInv, PortTypes
  <2>2. ASSUME NEW q \in PortRings PROVE GivenOnce(q)' /\ NotYetBound(q)' /\ Loser(q)'
    <3>1. GivenOnce(q) /\ NotYetBound(q) /\ Loser(q)
      BY DEF PortInv
    <3>2. GivenOnce(q)'
      BY <1>1, <1>2, <1>4, <1>5, <3>1 DEF GivenOnce
    <3>3. NotYetBound(q)'
      BY <1>1, <1>2, <1>3, <1>4, <1>5, <3>1 DEF NotYetBound
    <3>4. Loser(q)'
      BY <1>1, <1>5, <3>1 DEF Loser
    <3> QED
      BY <3>2, <3>3, <3>4
  <2> QED
    BY <2>1, <2>2 DEF PortInv
<1>6. ASSUME NEW n \in Port!Sequence, Port!Take(n, r) PROVE PortInv'
  <2>1. n \in Port!Known
    BY PortNames
  <2>2. PortTypes'
    BY <1>1, <1>6, <2>1 DEF PortInv, PortTypes, Port!Take
  <2>3. GivenOnce(r)'
    <3>1. probed[r] \subseteq Port!Known /\ \A m \in probed[r] : holder[m] = r
      BY PortNames DEF PortInv, PortTypes, GivenOnce
    <3>2. \A m \in probed[r] : holder'[m] = r
      BY <1>6, <2>1, <3>1 DEF Port!Take, PortInv, PortTypes
    <3> QED
      BY <1>1, <1>2, <1>3, <3>2 DEF GivenOnce
  <2>4. NotYetBound(r)' /\ Loser(r)'
    BY <1>1, <1>2, <1>3 DEF NotYetBound, Loser
  <2>5. ASSUME NEW q \in PortRings \ {r} PROVE GivenOnce(q)' /\ NotYetBound(q)' /\ Loser(q)'
    BY <1>1, <1>4, <1>6, <2>1, PortTaken
  <2> QED
    BY <2>2, <2>3, <2>4, <2>5 DEF PortInv
<1> QED
  BY <1>1, <1>5, <1>6

LEMMA PortProbe == ASSUME PortInv, NEW r \in PortRings, Port!Probe(r) PROVE PortInv'
<1>1. PICK n \in Port!PortRange \ localPortUsed[r] :
        Port!Take(n, r) /\ probed' = [probed EXCEPT ![r] = {n}]
  BY DEF Port!Probe
<1>2. /\ portPc[r] = "choose" /\ portPc' = [portPc EXCEPT ![r] = "probed"]
      /\ UNCHANGED <<localPortUsed, filled, serving, lostPorts>>
  BY DEF Port!Probe, Port!Choosing, Port!Goto
<1>3. n \in Port!Known /\ localPortUsed[r] \subseteq Port!Known
  BY PortNames DEF PortInv, PortTypes
<1>4. /\ probed'[r] = {n} /\ portPc'[r] = "probed" /\ holder'[n] = r
      /\ \A m \in Port!Known \ {n} : holder'[m] = holder[m]
      /\ \A q \in PortRings \ {r} : probed'[q] = probed[q] /\ portPc'[q] = portPc[q]
  BY <1>1, <1>2, <1>3 DEF PortInv, PortTypes, Port!Take
<1>5. PortTypes'
  BY <1>1, <1>2, <1>3 DEF PortInv, PortTypes, Port!Take, PortSteps
<1>6. \A m \in localPortUsed[r] : holder'[m] = holder[m]
  BY <1>1, <1>3, <1>4
<1>7. GivenOnce(r)'
  <2>1. GivenOnce(r)
    BY DEF PortInv
  <2>2. probed'[r] \cap localPortUsed'[r] = {} /\ \A m \in probed'[r] : holder'[m] = r
    BY <1>1, <1>2, <1>4
  <2>3. \A m \in localPortUsed'[r] : holder'[m] # Port!Foreign
    BY <1>2, <1>6, <2>1 DEF GivenOnce
  <2> QED
    BY <1>2, <1>4, <2>1, <2>2, <2>3 DEF GivenOnce
<1>8. NotYetBound(r)' /\ Loser(r)'
  <2>1. GivenOnce(r) /\ NotYetBound(r) /\ Loser(r)
    BY DEF PortInv
  <2> QED
    BY <1>2, <1>4, <1>6, <2>1 DEF GivenOnce, NotYetBound, Loser
<1>9. ASSUME NEW q \in PortRings \ {r} PROVE GivenOnce(q)' /\ NotYetBound(q)' /\ Loser(q)'
  BY <1>1, <1>2, <1>3, <1>4, PortTaken
<1> QED
  BY <1>5, <1>7, <1>8, <1>9 DEF PortInv

LEMMA PortMiss == ASSUME PortInv, NEW r \in PortRings, Port!Miss(r) PROVE PortInv'
<1>1. /\ portPc[r] = "choose" /\ UNCHANGED <<holder, probed, localPortUsed, filled, serving, lostPorts>>
      /\ \E s \in {"choose", "no port"} : portPc' = [portPc EXCEPT ![r] = s]
  BY DEF Port!Miss, Port!Choosing, Port!Goto
<1>2. PortTypes'
  BY <1>1 DEF PortInv, PortTypes, PortSteps
<1>3. \A q \in PortRings : portPc'[q] = portPc[q] \/ (portPc[q] = "choose" /\ portPc'[q] = "no port")
  BY <1>1 DEF PortInv, PortTypes
<1>4. ASSUME NEW q \in PortRings PROVE GivenOnce(q)' /\ NotYetBound(q)' /\ Loser(q)'
  <2>1. GivenOnce(q) /\ NotYetBound(q) /\ Loser(q)
    BY DEF PortInv
  <2> QED
    BY <1>1, <1>3, <2>1 DEF GivenOnce, NotYetBound, Loser
<1> QED
  BY <1>2, <1>4 DEF PortInv

(* The port is closed again, and one address more is chosen.               *)
LEMMA PortReturn == ASSUME PortInv, NEW r \in PortRings, Port!Return(r) PROVE PortInv'
<1>1. PICK n \in probed[r] :
        /\ holder' = [holder EXCEPT ![n] = Port!Free]
        /\ localPortUsed' = [localPortUsed EXCEPT ![r] = @ \cup {n}]
        /\ filled' = [filled EXCEPT ![r] = Append(@, n)]
  BY DEF Port!Return
<1>2. /\ portPc[r] = "probed" /\ probed' = [probed EXCEPT ![r] = {}]
      /\ portPc' = [portPc EXCEPT ![r] = "choose"] /\ UNCHANGED <<serving, lostPorts>>
  BY DEF Port!Return, Port!Goto
<1>3. PortTypes /\ GivenOnce(r) /\ NotYetBound(r) /\ Loser(r)
  BY DEF PortInv
<1>4. n \in Port!PortRange /\ n \in Port!Known /\ holder[n] = r /\ n \notin localPortUsed[r]
  BY <1>3, PortNames DEF PortTypes, GivenOnce
<1>5. /\ holder'[n] = Port!Free /\ \A m \in Port!Known \ {n} : holder'[m] = holder[m]
      /\ probed'[r] = {} /\ portPc'[r] = "choose" /\ localPortUsed'[r] = localPortUsed[r] \cup {n}
      /\ \A q \in PortRings \ {r} :
           /\ probed'[q] = probed[q] /\ portPc'[q] = portPc[q]
           /\ localPortUsed'[q] = localPortUsed[q] /\ filled'[q] = filled[q]
  BY <1>1, <1>2, <1>3, <1>4 DEF PortTypes
<1> DEFINE s == filled[r]
           t == filled'[r]
<1>6. s \in Seq(Port!PortRange) /\ t = Append(s, n)
  BY <1>1, <1>3 DEF PortTypes
<1>7. /\ t \in Seq(Port!PortRange) /\ DOMAIN s = 1..Len(s) /\ Len(s) \in Nat
      /\ DOMAIN t = 1..(Len(s) + 1) /\ t[Len(s) + 1] = n /\ \A k \in DOMAIN s : t[k] = s[k]
  <2>1. t \in Seq(Port!PortRange) /\ Len(t) = Len(s) + 1 /\ t[Len(s) + 1] = n
        /\ \A k \in 1..Len(s) : t[k] = s[k]
    BY <1>4, <1>6, AppendProperties
  <2>2. DOMAIN s = 1..Len(s) /\ Len(s) \in Nat /\ DOMAIN t = 1..Len(t)
    BY <1>6, <2>1, LenProperties
  <2> QED
    BY <2>1, <2>2
<1>8. \A k \in DOMAIN t : k \in DOMAIN s \/ k = Len(s) + 1
  BY <1>7
<1>9. \A m \in localPortUsed[r] : holder'[m] = holder[m] /\ m # n
  BY <1>3, <1>4, <1>5, PortNames DEF PortTypes
<1>10. PortTypes'
  <2>1. filled' \in [PortRings -> Seq(Port!PortRange)]
    BY <1>1, <1>3, <1>6, <1>7 DEF PortTypes
  <2> QED
    BY <1>1, <1>2, <1>3, <1>4, <2>1 DEF PortTypes, PortSteps
<1>11. GivenOnce(r)'
  <2>1. \A k \in DOMAIN t : t[k] \in localPortUsed[r] \cup {n}
    BY <1>3, <1>7, <1>8 DEF GivenOnce
  <2>2. ASSUME NEW j \in DOMAIN t, NEW k \in DOMAIN t, t[j] = t[k] PROVE j = k
    <3>1. \A i \in DOMAIN s : t[i] # n
      <4>1. \A i \in DOMAIN s : s[i] \in localPortUsed[r]
        BY <1>3 DEF GivenOnce
      <4> HIDE DEF s, t
      <4> QED
        BY <1>4, <1>7, <4>1
    <3> QED
      BY <1>3, <1>7, <1>8, <2>2, <3>1 DEF GivenOnce
  <2>3. lostPorts[r] \subseteq DOMAIN t
    <3>1. lostPorts[r] \subseteq DOMAIN s
      BY <1>3 DEF GivenOnce
    <3>2. DOMAIN s \subseteq DOMAIN t
      BY <1>7
    <3> QED
      BY <3>1, <3>2
  <2>4. \A m \in localPortUsed'[r] : holder'[m] # Port!Foreign
    BY <1>3, <1>5, <1>9, PortNames DEF GivenOnce
  <2> HIDE DEF s, t
  <2> QED
    BY <1>2, <1>5, <2>1, <2>2, <2>3, <2>4 DEF GivenOnce, t
<1>12. NotYetBound(r)'
  <2>1. \A m \in localPortUsed'[r] : holder'[m] # r
    BY <1>2, <1>3, <1>5, <1>9, PortNames DEF NotYetBound
  <2>2. \A k \in DOMAIN t : t[k] \in localPortUsed'[r]
    BY <1>11 DEF GivenOnce
  <2> QED
    BY <2>1, <2>2 DEF NotYetBound
<1>13. Loser(r)'
  <2> SUFFICES ASSUME NEW k \in lostPorts[r]
               PROVE  \E q \in PortRings \ {r} : holder'[t[k]] = q \/ t[k] \in localPortUsed'[q]
    BY <1>2 DEF Loser
  <2>1. k \in DOMAIN s /\ t[k] = s[k] /\ s[k] \in localPortUsed[r]
    BY <1>3, <1>7 DEF GivenOnce
  <2>2. PICK q \in PortRings \ {r} : holder[s[k]] = q \/ s[k] \in localPortUsed[q]
    BY <1>3 DEF Loser
  <2> QED
    BY <1>5, <1>9, <2>1, <2>2
<1>14. ASSUME NEW q \in PortRings \ {r} PROVE GivenOnce(q)' /\ NotYetBound(q)' /\ Loser(q)'
  <2>1. GivenOnce(q) /\ NotYetBound(q) /\ Loser(q)
    BY DEF PortInv
  <2>2. probed[q] \subseteq Port!Known /\ localPortUsed[q] \subseteq Port!Known
    BY <1>3, PortNames DEF PortTypes
  <2>3. \A m \in Port!Known : holder'[m] = q <=> holder[m] = q
    BY <1>4, <1>5, PortNames
  <2>4. \A m \in Port!Known : holder[m] # Port!Foreign => holder'[m] # Port!Foreign
    BY <1>5, PortNames
  <2>5. GivenOnce(q)'
    BY <1>2, <1>5, <2>1, <2>2, <2>3, <2>4 DEF GivenOnce
  <2>6. NotYetBound(q)'
    <3>1. \A m \in localPortUsed[q] : holder'[m] = q <=> holder[m] = q
      BY <2>2, <2>3
    <3>2. \A k \in DOMAIN filled[q] : filled[q][k] \in localPortUsed[q]
      BY <2>1 DEF GivenOnce
    <3>3. portPc'[q] # "daemon" => \A m \in localPortUsed'[q] : holder'[m] # q
      BY <1>5, <2>1, <3>1 DEF NotYetBound
    <3>4. \A k \in DOMAIN filled'[q] : holder'[filled'[q][k]] = q => k \in serving'[q]
      BY <1>2, <1>5, <2>1, <3>1, <3>2 DEF NotYetBound
    <3> QED
      BY <3>3, <3>4 DEF NotYetBound
  <2>7. Loser(q)'
    <3> SUFFICES ASSUME NEW k \in lostPorts[q]
                 PROVE  \E u \in PortRings \ {q} :
                          holder'[filled[q][k]] = u \/ filled[q][k] \in localPortUsed'[u]
      BY <1>2, <1>5 DEF Loser
    <3>1. PICK u \in PortRings \ {q} : holder[filled[q][k]] = u \/ filled[q][k] \in localPortUsed[u]
      BY <2>1 DEF Loser
    <3>2. filled[q][k] \in Port!Known
      BY <2>1, <2>2 DEF GivenOnce
    <3>3. CASE filled[q][k] = n
      BY <1>5, <3>3
    <3>4. CASE filled[q][k] # n
      <4>1. holder'[filled[q][k]] = holder[filled[q][k]]
        BY <1>5, <3>2, <3>4
      <4>2. localPortUsed[u] \subseteq localPortUsed'[u]
        BY <1>5
      <4> QED
        BY <3>1, <4>1, <4>2
    <3> QED
      BY <3>3, <3>4
  <2> QED
    BY <2>5, <2>6, <2>7
<1> QED
  BY <1>10, <1>11, <1>12, <1>13, <1>14 DEF PortInv

(* The daemon binds an address, or finds it taken.                         *)
LEMMA PortDaemon == ASSUME PortInv, NEW r \in PortRings, Port!Daemon(r) PROVE PortInv'
<1>1. PICK k \in (1..Wanted) \ (serving[r] \cup lostPorts[r]) :
        \/ /\ Port!Take(filled[r][k], r)
           /\ serving' = [serving EXCEPT ![r] = @ \cup {k}] /\ UNCHANGED lostPorts
        \/ /\ holder[filled[r][k]] # Port!Free
           /\ lostPorts' = [lostPorts EXCEPT ![r] = @ \cup {k}]
           /\ UNCHANGED <<holder, serving>>
  BY DEF Port!Daemon
<1>2. /\ Len(filled[r]) = Wanted /\ portPc[r] \in {"choose", "daemon"}
      /\ portPc' = [portPc EXCEPT ![r] = "daemon"] /\ UNCHANGED <<probed, localPortUsed, filled>>
  BY DEF Port!Daemon, Port!Goto
<1>3. PortTypes /\ GivenOnce(r) /\ NotYetBound(r) /\ Loser(r)
  BY DEF PortInv
<1> DEFINE n == filled[r][k]
<1>4. k \in DOMAIN filled[r]
  <2>1. filled[r] \in Seq(Port!PortRange)
    BY <1>3 DEF PortTypes
  <2>2. DOMAIN filled[r] = 1..Wanted
    BY <1>2, <2>1, LenProperties
  <2> QED
    BY <2>2
<1>5. n \in localPortUsed[r] /\ n \in Port!Known /\ holder[n] # Port!Foreign /\ holder[n] # r
      /\ localPortUsed[r] \subseteq Port!Known /\ probed[r] \subseteq Port!Known
  BY <1>1, <1>3, <1>4, PortNames DEF PortTypes, GivenOnce, NotYetBound
<1>6. portPc'[r] = "daemon" /\ \A q \in PortRings \ {r} : portPc'[q] = portPc[q]
  BY <1>2, <1>3 DEF PortTypes
<1> HIDE DEF n
<1>7. CASE Port!Take(n, r) /\ serving' = [serving EXCEPT ![r] = @ \cup {k}] /\ UNCHANGED lostPorts
  <2>1. /\ holder'[n] = r /\ \A m \in Port!Known \ {n} : holder'[m] = holder[m]
        /\ serving'[r] = serving[r] \cup {k} /\ holder[n] = Port!Free
        /\ \A q \in PortRings \ {r} : serving'[q] = serving[q]
    BY <1>3, <1>5, <1>7 DEF PortTypes, Port!Take
  <2>2. PortTypes'
    BY <1>1, <1>2, <1>3, <1>5, <1>7 DEF PortTypes, PortSteps, Port!Take
  <2>3. GivenOnce(r)'
    <3>1. \A m \in probed[r] : holder'[m] = r
      <4>1. \A m \in probed[r] : holder[m] = r /\ m \in Port!Known
        BY <1>3, <1>5 DEF GivenOnce
      <4> QED
        BY <2>1, <4>1
    <3>2. \A m \in localPortUsed[r] : holder'[m] # Port!Foreign
      <4>1. \A m \in localPortUsed[r] : holder[m] # Port!Foreign /\ m \in Port!Known
        BY <1>3, <1>5 DEF GivenOnce
      <4> QED
        BY <2>1, <4>1, PortNames
    <3> QED
      BY <1>2, <1>3, <1>6, <1>7, <3>1, <3>2 DEF GivenOnce
  <2>4. NotYetBound(r)'
    <3> SUFFICES ASSUME NEW j \in DOMAIN filled[r], holder'[filled[r][j]] = r PROVE j \in serving'[r]
      BY <1>2, <1>6 DEF NotYetBound
    <3>1. CASE filled[r][j] = n
      BY <1>3, <1>4, <2>1, <3>1 DEF GivenOnce, n
    <3>2. CASE filled[r][j] # n
      <4>1. filled[r][j] \in Port!Known
        BY <1>3, <1>5 DEF GivenOnce
      <4> QED
        BY <1>3, <2>1, <3>2, <4>1 DEF NotYetBound
    <3> QED
      BY <3>1, <3>2
  <2>5. Loser(r)'
    <3> SUFFICES ASSUME NEW j \in lostPorts[r]
                 PROVE  \E q \in PortRings \ {r} :
                          holder'[filled[r][j]] = q \/ filled[r][j] \in localPortUsed[q]
      BY <1>2, <1>7 DEF Loser
    <3>1. PICK q \in PortRings \ {r} : holder[filled[r][j]] = q \/ filled[r][j] \in localPortUsed[q]
      BY <1>3 DEF Loser
    <3>2. filled[r][j] \in Port!Known
      BY <1>3, <1>5 DEF GivenOnce
    <3> QED
      BY <2>1, <3>1, <3>2, PortNames
  <2>6. ASSUME NEW q \in PortRings \ {r} PROVE GivenOnce(q)' /\ NotYetBound(q)' /\ Loser(q)'
    BY <1>2, <1>5, <1>6, <1>7, <2>1, PortTaken
  <2> QED
    BY <2>2, <2>3, <2>4, <2>5, <2>6 DEF PortInv
<1>8. CASE /\ holder[n] # Port!Free /\ lostPorts' = [lostPorts EXCEPT ![r] = @ \cup {k}]
           /\ UNCHANGED <<holder, serving>>
  <2>1. lostPorts'[r] = lostPorts[r] \cup {k} /\ \A q \in PortRings \ {r} : lostPorts'[q] = lostPorts[q]
    BY <1>3, <1>8 DEF PortTypes
  <2>2. PortTypes'
    BY <1>1, <1>2, <1>3, <1>8 DEF PortTypes, PortSteps
  <2>3. GivenOnce(r)' /\ NotYetBound(r)'
    BY <1>2, <1>3, <1>4, <1>6, <1>8, <2>1 DEF GivenOnce, NotYetBound
  <2>4. Loser(r)'
    <3>1. holder[n] \in PortRings \ {r}
      BY <1>3, <1>5, <1>8 DEF PortTypes
    <3> QED
      BY <1>2, <1>3, <1>8, <2>1, <3>1 DEF Loser, n
  <2>5. ASSUME NEW q \in PortRings \ {r} PROVE GivenOnce(q)' /\ NotYetBound(q)' /\ Loser(q)'
    <3>1. GivenOnce(q) /\ NotYetBound(q) /\ Loser(q)
      BY DEF PortInv
    <3> QED
      BY <1>2, <1>6, <1>8, <2>1, <3>1 DEF GivenOnce, NotYetBound, Loser
  <2> QED
    BY <2>2, <2>3, <2>4, <2>5 DEF PortInv
<1> QED
  BY <1>1, <1>7, <1>8 DEF n

LEMMA PortStep == ASSUME PortInv, Port!Next \/ UNCHANGED portsPart PROVE PortInv'
<1>1. CASE Port!Next
  <2>1. PICK r \in PortRings : Port!RingStep(r)
    BY <1>1 DEF Port!Next
  <2> QED
    BY <2>1, PortServer, PortProbe, PortMiss, PortReturn, PortDaemon DEF Port!RingStep
<1>2. CASE UNCHANGED portsPart
  <2>1. UNCHANGED <<holder, portPc, probed, localPortUsed, filled, serving, lostPorts>>
    BY <1>2 DEF portsPart
  <2>2. PortTypes'
    BY <2>1 DEF PortInv, PortTypes
  <2>3. ASSUME NEW r \in PortRings PROVE GivenOnce(r)' /\ NotYetBound(r)' /\ Loser(r)'
    <3>1. GivenOnce(r) /\ NotYetBound(r) /\ Loser(r)
      BY DEF PortInv
    <3>2. GivenOnce(r)'
      BY <2>1, <3>1 DEF GivenOnce
    <3>3. NotYetBound(r)'
      BY <2>1, <3>1 DEF NotYetBound
    <3>4. Loser(r)'
      BY <2>1, <3>1 DEF Loser
    <3> QED
      BY <3>2, <3>3, <3>4
  <2> QED
    BY <2>2, <2>3 DEF PortInv
<1> QED
  BY <1>1, <1>2

(* The addresses of a daemon are apart from each other and from the port   *)
(* of its hodring's server, although nothing stays bound while they are    *)
(* chosen, and it loses one only to another ring of its host.              *)
(* (getUniqRandomPort, server_bind)                                        *)
THEOREM PortsStayApart == NodeSpec => []PortsApart
<1>1. NodeInit => PortInv
  BY PortInit DEF NodeInit
<1>2. PortInv /\ [NodeNext]_allVars => PortInv'
  BY PartSteps, PortStep
<1>3. PortInv => PortsApart
  <2> SUFFICES ASSUME PortInv PROVE PortsApart
    OBVIOUS
  <2>1. Port!AddressesDistinct
    BY DEF PortInv, PortTypes, GivenOnce, NotYetBound, Port!AddressesDistinct
  <2>2. Port!LostToOthers
    BY DEF PortInv, Loser, Port!LostToOthers
  <2> QED
    BY <2>1, <2>2 DEF PortsApart
<1> QED
  BY <1>1, <1>2, <1>3, PTL DEF NodeSpec
=============================================================================
