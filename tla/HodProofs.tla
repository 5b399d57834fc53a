------------------------------ MODULE HodProofs ------------------------------
(***************************************************************************)
(* What a client of HOD promises, for any number of clients with their own *)
(* directories, of jobs, operations, interrupts, kills and failures.       *)
(*                                                                         *)
(* What is known of a client depends on where it is (Local): while it      *)
(* allocates, its job was asked for as the user wanted; from the record    *)
(* on, its directory holds that job; from "clear" on, whatever lived there *)
(* was told to stop.  The other clients and the batch system cannot take   *)
(* that away, since a job only goes forward (Onward) and a directory has   *)
(* one client (Mine) and one state file (OneFile).                         *)
(***************************************************************************)
EXTENDS Hod, TLAPS

(* The instances differ in what the user asks for.  No two clients are     *)
(* given one directory.                                                    *)
HodAssumption ==
  /\ NoJob \notin Jobs
  /\ DirsOf \in [Clients -> SUBSET Dirs]
  /\ \A p, q \in Clients : p # q => DirsOf[p] \cap DirsOf[q] = {}
  /\ Dirs # {} /\ Requests # {}
  /\ Ops \subseteq {"allocate", "deallocate", "info", "list", "script"}
  /\ Retries \in Nat \ {0} /\ MaxMishaps \in Nat

-----------------------------------------------------------------------------
(* The invariant                                                           *)

Pcs == {"done", "crashed", "allocate", "listed", "clearDead", "account", "submit", "status",
        "ring", "hdfs", "mapred", "site", "write", "writeDump", "record", "remove", "open",
        "dump", "recorded", "removed", "invalid", "deallocate", "clear", "info", "list",
        "script", "scriptEnd", "exit"}

(* TypeOK, and the types of what it leaves open.                           *)
Typed ==
  /\ TypeOK
  /\ DOMAIN asked = Jobs
  /\ ring \in [Jobs -> {"none", "up", "stopping", "gone"}]
  /\ pc \in [Clients -> Pcs]
  /\ op \in [Clients -> Ops \cup {"none"}]
  /\ dir \in [Clients -> Dirs]
  /\ request \in [Clients -> Requests]
  /\ interrupted \in [Clients -> BOOLEAN]
  /\ after \in [Clients -> {"done", "script", "clearDead", "removed", "invalid", "recorded"}]
  /\ ran \in [Clients -> {"no", "ok", "failed"}]
  /\ blame \in SUBSET Jobs
  /\ mishaps \in Nat

(* A client that was started works in a directory of its own.              *)
Mine == \A p \in Clients : (op[p] = "none" /\ pc[p] = "done") \/ dir[p] \in DirsOf[p]

(* A directory has one state file, of a job that was submitted; a ring     *)
(* master that has gone has taken its job along.                           *)
OneFile == \A d \in Dirs : \A j, k \in Jobs :
             clusterFiles[d][j] # "none" /\ clusterFiles[d][k] # "none" => j = k
Filed == \A d \in Dirs : \A j \in Jobs : clusterFiles[d][j] # "none" => job[j] # "unused"
GoneEnded == \A j \in Jobs : ring[j] = "gone" => job[j] = "C"

(* The job does not live, or was told to end, or was given up.             *)
Released(j) == ~Live(j) \/ ring[j] = "stopping" \/ j \in blame

(* Each job that lives has a client at work on it, or is recorded.         *)
Creating == {"status", "ring", "hdfs", "mapred", "site", "write", "writeDump"}
Known == \A j \in Jobs : \/ \E p \in Clients : pc[p] \in Creating /\ jobId[p] = j
                         \/ Recorded(j) \/ Released(j)

(* Where a client may be in an operation.                                  *)
Updating(p) == pc[p] \in {"remove", "open", "dump"}
Recording(p) == \/ pc[p] \in {"record", "recorded"}
                \/ pc[p] \in {"open", "dump"} /\ after[p] = "recorded"
Places(p) ==
  /\ pc[p] \in {"allocate", "listed", "clearDead", "account", "submit", "record", "recorded"} \cup Creating
       => op[p] \in {"allocate", "script"}
  /\ pc[p] \in {"deallocate", "clear", "removed", "invalid"} => op[p] \in {"deallocate", "script"}
  /\ pc[p] \in {"script", "scriptEnd", "exit"} => op[p] = "script"
  /\ pc[p] = "info" => op[p] = "info"
  /\ pc[p] = "list" => op[p] = "list"
  /\ Updating(p) => \/ after[p] \in {"clearDead", "recorded"} /\ op[p] \in {"allocate", "script"}
                    \/ after[p] \in {"removed", "invalid"} /\ op[p] \in {"deallocate", "script"}
  /\ pc[p] = "remove" => after[p] # "recorded"
  /\ (pc[p] \in {"submit"} \cup Creating \/ Recording(p)) => opCode[p] = 15

(* What the client knows of the job that it allocates.                     *)
Allocating(p) ==
  /\ pc[p] \in Creating \/ Recording(p) =>
       /\ jobId[p] \in Jobs
       /\ asked[jobId[p]] = Submitted(request[p].nodes, request[p].walltime)
  /\ pc[p] \in {"hdfs", "mapred"} => ring[jobId[p]] # "none"
  /\ pc[p] \in {"write", "writeDump"} \/ Recording(p) => site[dir[p]] = jobId[p]
  /\ pc[p] = "writeDump" => clusterFiles[dir[p]][jobId[p]] = "empty"
  /\ Recording(p) => clusterFiles[dir[p]][jobId[p]] = "full"
  /\ op[p] = "allocate" /\ pc[p] = "done" /\ opCode[p] = 0 /\ ~request[p].range =>
       /\ jobId[p] \in Jobs
       /\ asked[jobId[p]] = Submitted(request[p].nodes, request[p].walltime)
       /\ site[dir[p]] = jobId[p]
       /\ clusterFiles[dir[p]][jobId[p]] = "full"
  /\ pc[p] = "script" /\ opCode[p] = 0 => 
       jobId[p] \in Jobs /\ clusterFiles[dir[p]][jobId[p]] = "full"

(* What it knows of the job that it gives back: what it clears does not    *)
(* live, or was told to end.                                               *)
Releasing(p) ==
  /\ pc[p] = "clear" =>
       /\ jobId[p] \in Jobs /\ Released(jobId[p])
       /\ \A j \in Jobs : clusterFiles[dir[p]][j] # "none" => j = jobId[p]
  /\ pc[p] = "clearDead" \/ (Updating(p) /\ after[p] = "clearDead") =>
       \A j \in Jobs : clusterFiles[dir[p]][j] # "none" => ~Live(j)
  /\ op[p] = "script" /\ ran[p] # "no" =>
       /\ pc[p] \in {"scriptEnd", "deallocate", "clear", "remove", "open", "dump", "removed",
                     "exit", "done", "crashed"}
       /\ pc[p] \notin {"scriptEnd", "done", "crashed"} => after[p] = "removed"
       /\ jobId[p] \in Jobs
       /\ pc[p] \in {"scriptEnd", "deallocate"} => clusterFiles[dir[p]][jobId[p]] = "full"
       /\ Updating(p) \/ pc[p] = "removed" => Released(jobId[p])
       /\ pc[p] \in {"exit", "done"} => Released(jobId[p]) \/ interrupted[p]

Local(p) == /\ jobId[p] \in Jobs => job[jobId[p]] # "unused"
            /\ Places(p) /\ Allocating(p) /\ Releasing(p)

IInv == /\ Typed /\ Mine /\ OneFile /\ Filed /\ GoneEnded /\ Known /\ UserFileRestored
        /\ \A p \in Clients : Local(p)

-----------------------------------------------------------------------------
(* The first state, and what the files say                                 *)

(* The invariant holds when no client has run.  (Init)                     *)
LEMMA InitIInv == ASSUME HodAssumption, Init PROVE IInv
<1>1. Typed
  <2>1. (CHOOSE d \in Dirs : TRUE) \in Dirs /\ (CHOOSE r \in Requests : TRUE) \in Requests
    BY DEF HodAssumption
  <2>2. TypeOK
    BY DEF TypeOK, Init, NoEntries, HodAssumption
  <2>3. QED BY <2>1, <2>2 DEF Typed, Init, Pcs, HodAssumption
<1>2. Mine /\ OneFile /\ Filed /\ GoneEnded /\ UserFileRestored
  BY DEF Mine, OneFile, Filed, GoneEnded, UserFileRestored, Init
<1>3. Known
  BY DEF Known, Released, Live, Init
<1>4. ASSUME NEW p \in Clients PROVE Local(p)
  <2>1. /\ pc[p] = "done" /\ op[p] = "none" /\ after[p] = "done" /\ jobId[p] \notin Jobs
    BY DEF Init, HodAssumption
  <2>2. QED BY <2>1 DEF Local, Places, Allocating, Releasing, Updating, Recording, Creating
<1>5. QED BY <1>1, <1>2, <1>3, <1>4 DEF IInv

(* The state file of a directory with one is the one that is read, unless  *)
(* it was opened and not yet written.  (clusterState.read)                 *)
LEMMA ReadsTheFile ==
  ASSUME HodAssumption, Typed, OneFile, NEW d \in Dirs
  PROVE  /\ readCluster(d) \in Jobs \cup {NoJob}
         /\ \A j \in Jobs : clusterFiles[d][j] = "full" <=> readCluster(d) = j
         /\ \A j, k \in Jobs : readCluster(d) = j /\ clusterFiles[d][k] # "none" => k = j
<1>1. ASSUME NEW j \in Jobs, clusterFiles[d][j] # "none"
      PROVE  StateFiles(d) = {j} /\ LastFile(d) = j
  <2>1. StateFiles(d) = {j}
    BY <1>1 DEF StateFiles, OneFile
  <2>2. QED BY <2>1 DEF LastFile
<1>2. StateFiles(d) # {} => \E j \in Jobs : clusterFiles[d][j] # "none"
  BY DEF StateFiles
<1>3. \A j \in Jobs : clusterFiles[d][j] \in {"none", "empty", "full"}
  BY DEF Typed, TypeOK
<1>4. CASE StateFiles(d) = {}
  <2>1. \A j \in Jobs : clusterFiles[d][j] = "none"
    BY <1>1, <1>4
  <2>2. QED BY <1>4, <2>1 DEF readCluster, HodAssumption
<1>5. CASE StateFiles(d) # {}
  <2>1. PICK j \in Jobs : clusterFiles[d][j] # "none"
    BY <1>2, <1>5
  <2>2. StateFiles(d) = {j} /\ LastFile(d) = j
    BY <1>1, <2>1
  <2>3. \A k \in Jobs : clusterFiles[d][k] # "none" => k = j
    BY <2>1 DEF OneFile
  <2>4. QED BY <1>3, <1>5, <2>1, <2>2, <2>3 DEF readCluster, HodAssumption
<1>6. QED BY <1>4, <1>5

(* clear leaves a directory without a state file and the others alone.     *)
LEMMA ClearsTheFile ==
  ASSUME Typed, OneFile, NEW d \in Dirs, clear(d)
  PROVE  /\ clusterFiles' \in [Dirs -> [Jobs -> {"none", "empty", "full"}]]
         /\ \A j \in Jobs : clusterFiles'[d][j] = "none"
         /\ \A e \in Dirs \ {d} : clusterFiles'[e] = clusterFiles[e]
<1>0. clusterFiles \in [Dirs -> [Jobs -> {"none", "empty", "full"}]]
  BY DEF Typed, TypeOK
<1>1. CASE StateFiles(d) = {}
  BY <1>0, <1>1 DEF clear, StateFiles
<1>2. CASE StateFiles(d) # {}
  <2>1. LastFile(d) \in StateFiles(d)
    BY <1>2 DEF LastFile
  <2>2. LastFile(d) \in Jobs /\ clusterFiles[d][LastFile(d)] # "none"
    BY <2>1 DEF StateFiles
  <2>3. \A j \in Jobs : j # LastFile(d) => clusterFiles[d][j] = "none"
    BY <2>2 DEF OneFile
  <2>4. clusterFiles' = [clusterFiles EXCEPT ![d][LastFile(d)] = "none"]
    BY <1>2 DEF clear
  <2>5. QED BY <1>0, <2>2, <2>3, <2>4
<1>3. QED BY <1>1, <1>2

(* What qsub is asked for.  (process_qsub_attributes)                      *)
LEMMA SubmittedAsAsked ==
  ASSUME NEW n, NEW w
  PROVE  /\ Submitted(n, w)["l"]["nodes"] = n
         /\ w # 0 => Submitted(n, w)["l"]["walltime"] = w
<1> DEFINE raw == [k \in {<<"W", "x">>, <<"l", "nodes">>} \cup DOMAIN Attributes |->
                CASE k = <<"l", "nodes">>             -> n
                  [] k = <<"W", "x">> /\ k \notin DOMAIN Attributes -> 0
                  [] OTHER                           -> Attributes[k]]
           all == IF w = 0 THEN raw
             ELSE [k \in DOMAIN raw \cup {<<"l", "walltime">>} |->
                     IF k = <<"l", "walltime">> THEN w ELSE raw[k]]
<1>1. Submitted(n, w) = [o \in {k[1] : k \in DOMAIN all} |->
         [s \in {k[2] : k \in {i \in DOMAIN all : i[1] = o}} |-> all[<<o, s>>]]]
  BY DEF Submitted
<1>2. <<"l", "nodes">> \in DOMAIN all /\ all[<<"l", "nodes">>] = n
  OBVIOUS
<1>3. w # 0 => <<"l", "walltime">> \in DOMAIN all /\ all[<<"l", "walltime">>] = w
  OBVIOUS
<1> HIDE DEF all
<1>4. <<"l", "nodes">>[1] = "l" /\ <<"l", "nodes">>[2] = "nodes"
  OBVIOUS
<1>5. <<"l", "walltime">>[1] = "l" /\ <<"l", "walltime">>[2] = "walltime"
  OBVIOUS
<1>6. "l" \in {k[1] : k \in DOMAIN all}
  BY <1>2, <1>4
<1>7. Submitted(n, w)["l"] = [s \in {k[2] : k \in {i \in DOMAIN all : i[1] = "l"}} |-> all[<<"l", s>>]]
  BY <1>1, <1>6
<1>8. "nodes" \in {k[2] : k \in {i \in DOMAIN all : i[1] = "l"}}
  BY <1>2, <1>4
<1>9. w # 0 => "walltime" \in {k[2] : k \in {i \in DOMAIN all : i[1] = "l"}}
  BY <1>3, <1>5
<1>10. QED BY <1>2, <1>3, <1>7, <1>8, <1>9

-----------------------------------------------------------------------------
(* What holds of every step                                                *)

(* Jobs only go forward.                                                   *)
Onward ==
  \A j \in Jobs :
    /\ job[j] # "unused" => /\ job'[j] # "unused"
                            /\ asked'[j] = asked[j]
                            /\ ~Live(j) => ~Live(j)'
    /\ ring[j] # "none" => ring'[j] # "none"
    /\ ring[j] = "stopping" => ring'[j] = "stopping" \/ ~Live(j)'
    /\ j \in blame => j \in blame'

(* What a client does to a job: nothing, or it submits, deletes or stops   *)
(* one.                                                                    *)
Deletes(j) == /\ job' = IF Live(j) THEN [job EXCEPT ![j] = "C"] ELSE job
              /\ UNCHANGED <<asked, ring>>
Submits(j) == /\ job[j] = "unused" /\ job' = [job EXCEPT ![j] = "Q"]
              /\ DOMAIN asked' = Jobs /\ \A k \in Jobs \ {j} : asked'[k] = asked[k]
              /\ UNCHANGED ring
Stops(j) == /\ ring' = IF ring[j] = "up" THEN [ring EXCEPT ![j] = "stopping"] ELSE ring
            /\ UNCHANGED batchVars
Acts == /\ \/ \E j \in Jobs : Deletes(j) \/ Submits(j) \/ Stops(j)
           \/ UNCHANGED <<batchVars, ring>>
        /\ blame' \in SUBSET Jobs /\ blame \subseteq blame'

LEMMA DeleteActs ==
  ASSUME Typed, NEW j \in Jobs \cup {NoJob}, NEW works \in BOOLEAN, deleteJob(j, works), UNCHANGED ring,
         HodAssumption
  PROVE  UNCHANGED <<batchVars, ring>> \/ \E k \in Jobs : Deletes(k)
<1>1. CASE j \in Jobs /\ works
  BY <1>1 DEF deleteJob, Deletes, batchVars, HodAssumption
<1>2. CASE ~(j \in Jobs /\ works)
  BY <1>2 DEF deleteJob, batchVars
<1>3. QED BY <1>1, <1>2

LEMMA BlameGrows ==
  ASSUME Typed, NEW j, Blame(j) PROVE blame' \in SUBSET Jobs /\ blame \subseteq blame'
BY DEF Blame, Typed

LEMMA StopActs ==
  ASSUME HodAssumption, Typed, NEW j \in Jobs \cup {NoJob}, stopRM(j), UNCHANGED batchVars
  PROVE  UNCHANGED <<batchVars, ring>> \/ \E k \in Jobs : Stops(k)
<1>1. CASE j \in Jobs
  BY <1>1 DEF stopRM, Stops
<1>2. CASE j \notin Jobs
  <2>1. ring \in [Jobs -> {"none", "up", "stopping", "gone"}]
    BY DEF Typed
  <2>2. [ring EXCEPT ![j] = "stopping"] = ring
    BY <1>2, <2>1
  <2>3. QED BY <2>2 DEF stopRM
<1>3. QED BY <1>1, <1>2

LEMMA TellActs ==
  ASSUME HodAssumption, Typed, NEW j \in Jobs \cup {NoJob}, TellRM(j), UNCHANGED batchVars
  PROVE  /\ UNCHANGED <<batchVars, ring>> \/ \E k \in Jobs : Stops(k)
         /\ blame' \in SUBSET Jobs /\ blame \subseteq blame'
<1>1. CASE stopRM(j) /\ UNCHANGED blame
  BY <1>1, StopActs DEF Typed
<1>2. CASE Blame(j) /\ UNCHANGED ring
  BY <1>2, BlameGrows
<1>3. QED BY <1>1, <1>2 DEF TellRM

LEMMA SubmitActs ==
  ASSUME Typed, NEW j \in Jobs, NEW args, qsub(j, args), UNCHANGED ring
  PROVE  Submits(j)
BY DEF qsub, Submits, Typed

(* The types of what the batch system keeps, and that jobs go forward.     *)
LEMMA ActsTyped ==
  ASSUME Typed, Acts
  PROVE  /\ job' \in [Jobs -> {"unused", "Q", "R", "C"}]
         /\ ring' \in [Jobs -> {"none", "up", "stopping", "gone"}]
         /\ DOMAIN asked' = Jobs /\ blame' \in SUBSET Jobs
         /\ Onward
<1> USE DEF batchVars
<1>1. CASE UNCHANGED <<batchVars, ring>>
  BY <1>1 DEF Typed, TypeOK, Acts, Onward, Live
<1>2. ASSUME NEW j \in Jobs, Deletes(j)
      PROVE  /\ job' \in [Jobs -> {"unused", "Q", "R", "C"}]
             /\ ring' \in [Jobs -> {"none", "up", "stopping", "gone"}]
             /\ DOMAIN asked' = Jobs /\ blame' \in SUBSET Jobs
             /\ Onward
  BY <1>2 DEF Deletes, Typed, TypeOK, Acts, Onward, Live
<1>3. ASSUME NEW j \in Jobs, Submits(j)
      PROVE  /\ job' \in [Jobs -> {"unused", "Q", "R", "C"}]
             /\ ring' \in [Jobs -> {"none", "up", "stopping", "gone"}]
             /\ DOMAIN asked' = Jobs /\ blame' \in SUBSET Jobs
             /\ Onward
  BY <1>3 DEF Submits, Typed, TypeOK, Acts, Onward, Live
<1>4. ASSUME NEW j \in Jobs, Stops(j)
      PROVE  /\ job' \in [Jobs -> {"unused", "Q", "R", "C"}]
             /\ ring' \in [Jobs -> {"none", "up", "stopping", "gone"}]
             /\ DOMAIN asked' = Jobs /\ blame' \in SUBSET Jobs
             /\ Onward
  BY <1>4 DEF Stops, Typed, TypeOK, Acts, Onward, Live
<1>5. QED BY <1>1, <1>2, <1>3, <1>4 DEF Acts

(* A step of a client leaves the others and their directories alone.       *)
Alone(p) ==
  /\ \A q \in Clients \ {p} :
       /\ pc'[q] = pc[q] /\ op'[q] = op[q] /\ dir'[q] = dir[q] /\ request'[q] = request[q]
       /\ opCode'[q] = opCode[q] /\ jobId'[q] = jobId[q] /\ after'[q] = after[q]
       /\ ran'[q] = ran[q] /\ interrupted'[q] = interrupted[q]
  /\ \A d \in Dirs \ {dir[p]} : clusterFiles'[d] = clusterFiles[d] /\ site'[d] = site[d]

(* It moves on, or its operation returns a code.                           *)
Codes == {0, 1, 3, 4, 5, 6, 7, 8, 10, 12, 13, 14, 15, 127, ScriptCode}
Moves(p) == /\ pc' \in [Clients -> Pcs] /\ opCode' \in [Clients -> Codes]
            /\ \A q \in Clients \ {p} : pc'[q] = pc[q] /\ opCode'[q] = opCode[q]

LEMMA GotoMoves == ASSUME Typed, NEW p \in Clients, NEW l \in Pcs, Goto(p, l) 
                   PROVE  Moves(p) /\ pc'[p] = l /\ opCode' = opCode
BY DEF Typed, TypeOK, Codes, Moves, Goto

LEMMA ReturnMoves == ASSUME Typed, NEW p \in Clients, NEW code \in Codes, Return(p, code)
                     PROVE  /\ Moves(p) /\ opCode'[p] = code 
                            /\ pc'[p] = IF op[p] # "script" THEN "done"
                                        ELSE IF after[p] = "script" THEN "script" ELSE "exit"
<1>1. opCode' \in [Clients -> Codes] /\ opCode'[p] = code
      /\ \A q \in Clients \ {p} : opCode'[q] = opCode[q]
  BY DEF Typed, TypeOK, Codes, Return
<1>2. /\ pc' \in [Clients -> Pcs] /\ \A q \in Clients \ {p} : pc'[q] = pc[q]
      /\ pc'[p] = IF op[p] # "script" THEN "done"
                  ELSE IF after[p] = "script" THEN "script" ELSE "exit"
  BY DEF Typed, Pcs, Return, InScript
<1>3. QED BY <1>1, <1>2 DEF Moves

LEMMA RaiseMoves == ASSUME Typed, NEW p \in Clients
                    PROVE  /\ Raise(p) => Moves(p) /\ pc'[p] = Handler(p) /\ opCode' = opCode
                           /\ RaiseInterrupt(p) => Moves(p) /\ pc'[p] = Handler(p) /\ opCode'[p] = 127
<1>1. Handler(p) \in Pcs
  BY DEF Handler, InScript, Pcs
<1>2. Raise(p) => Moves(p) /\ pc'[p] = Handler(p) /\ opCode' = opCode
  BY <1>1, GotoMoves DEF Raise
<1>3. RaiseInterrupt(p) => Moves(p) /\ pc'[p] = Handler(p) /\ opCode'[p] = 127
  BY <1>1 DEF RaiseInterrupt, Typed, TypeOK, Codes, Moves
<1>4. QED BY <1>2, <1>3

LEMMA CodesOfCluster == ASSUME NEW j PROVE check_cluster(j) \in Codes \ {0, 3, 127}
BY DEF check_cluster, Codes

LEMMA ReadTypes ==
  ASSUME Typed, NEW p \in Clients
  PROVE  /\ readUser \in [Dirs -> Jobs \cup {NoJob}]
         /\ opCode[p] \in Codes /\ dir[p] \in Dirs /\ pc[p] \in Pcs
         /\ after[p] \in {"done", "script", "clearDead", "removed", "invalid", "recorded"}
         /\ after[p] \in Pcs /\ jobId[p] \in Jobs \cup {NoJob}
<1>1. readUser \in [Dirs -> Jobs \cup {NoJob}]
  BY DEF readUser, NoEntries, Typed, TypeOK
<1>2. opCode[p] \in Codes /\ dir[p] \in Dirs /\ jobId[p] \in Jobs \cup {NoJob}
  BY DEF Typed, TypeOK, Codes
<1>3. QED BY <1>1, <1>2 DEF Typed, Pcs

LEMMA InterruptActs ==
  ASSUME HodAssumption, Typed, NEW p \in Clients, NEW known \in BOOLEAN, InterruptJob(p, known)
  PROVE  Acts
<1>1. jobId[p] \in Jobs \cup {NoJob}
  BY ReadTypes
<1>2. UNCHANGED blame \/ Blame(jobId[p]) => blame' \in SUBSET Jobs /\ blame \subseteq blame'
  BY BlameGrows DEF Typed
<1>3. \A works \in BOOLEAN : deleteJob(jobId[p], works) /\ UNCHANGED ring
        => UNCHANGED <<batchVars, ring>> \/ \E k \in Jobs : Deletes(k)
  BY <1>1, DeleteActs
<1>4. TellRM(jobId[p]) /\ UNCHANGED batchVars => Acts
  BY <1>1, TellActs DEF Acts
<1>5. QED BY <1>2, <1>3, <1>4 DEF InterruptJob, Acts

LEMMA GiveUpActs ==
  ASSUME HodAssumption, Typed, NEW p \in Clients, NEW status \in {6, 7, 8}, GiveUp(p, status)
  PROVE  Acts
<1>1. jobId[p] \in Jobs \cup {NoJob}
  BY ReadTypes
<1>2. UNCHANGED blame \/ Blame(jobId[p]) => blame' \in SUBSET Jobs /\ blame \subseteq blame'
  BY BlameGrows DEF Typed
<1>3. \A works \in BOOLEAN : deleteJob(jobId[p], works) /\ UNCHANGED ring
        => UNCHANGED <<batchVars, ring>> \/ \E k \in Jobs : Deletes(k)
  BY <1>1, DeleteActs
<1>4. TellRM(jobId[p]) /\ UNCHANGED batchVars => Acts
  BY <1>1, TellActs DEF Acts
<1>5. QED BY <1>2, <1>3, <1>4 DEF GiveUp, Acts

LEMMA InvalidTyped ==
  ASSUME HodAssumption, Typed, NEW p \in Clients, NEW cleanUp \in BOOLEAN, InvalidDirectory(p, cleanUp)
  PROVE  /\ Moves(p) /\ Acts
         /\ after' \in [Clients -> {"done", "script", "clearDead", "removed", "invalid", "recorded"}]
         /\ \A q \in Clients \ {p} : after'[q] = after[q]
<1> DEFINE j == readUser[dir[p]]
<1>1. j \in Jobs \cup {NoJob}
  BY ReadTypes
<1>2. Moves(p)
  BY GotoMoves, ReturnMoves DEF InvalidDirectory, Codes, Pcs
<1>3. UNCHANGED blame \/ Blame(j) => blame' \in SUBSET Jobs /\ blame \subseteq blame'
  BY BlameGrows DEF Typed
<1>4. \A works \in BOOLEAN : deleteJob(j, works) /\ UNCHANGED ring
        => UNCHANGED <<batchVars, ring>> \/ \E k \in Jobs : Deletes(k)
  BY <1>1, DeleteActs
<1>5. Acts
  BY <1>3, <1>4 DEF InvalidDirectory, Acts
<1>6. after' = after \/ after' = [after EXCEPT ![p] = "invalid"]
  BY DEF InvalidDirectory
<1>7. QED BY <1>2, <1>5, <1>6 DEF Typed

LEMMA StepTyped ==
  ASSUME HodAssumption, Typed, OneFile, NEW p \in Clients, Step(p), UNCHANGED mishaps
  PROVE  Typed' /\ Acts /\ Alone(p)
<1> USE DEF fileVars, batchVars, ringVars, callVars, pollVars, saveVars, showVars
<1>1. CASE Allocate(p)
  <2>1. Moves(p)
    BY <1>1, GotoMoves, ReturnMoves, RaiseMoves DEF Allocate, Codes, Pcs
  <2>2. QED BY <1>1, <2>1 DEF Allocate, Typed, TypeOK, Moves, Codes, Acts, Alone
<1>2. CASE AllocateListed(p)
  <2>1. Moves(p)
    BY <1>2, GotoMoves, ReturnMoves DEF AllocateListed, Codes, Pcs
  <2>2. QED BY <1>2, <2>1 DEF AllocateListed, Typed, TypeOK, Moves, Codes, Acts, Alone
<1>3. CASE ClearDead(p)
  <2>1. Moves(p)
    BY <1>3, GotoMoves DEF ClearDead, Pcs
  <2>2. dir[p] \in Dirs /\ clear(dir[p])
    BY <1>3, ReadTypes DEF ClearDead
  <2>3. /\ clusterFiles' \in [Dirs -> [Jobs -> {"none", "empty", "full"}]]
        /\ \A e \in Dirs \ {dir[p]} : clusterFiles'[e] = clusterFiles[e]
    BY <2>2, ClearsTheFile
  <2>4. after' \in [Clients -> {"done", "script", "clearDead", "removed", "invalid", "recorded"}]
        /\ \A q \in Clients \ {p} : after'[q] = after[q]
    BY <1>3 DEF ClearDead, Typed
  <2>5. QED BY <1>3, <2>1, <2>3, <2>4 DEF ClearDead, Typed, TypeOK, Moves, Codes, Acts, Alone
<1>4. CASE VerifyAccount(p)
  <2>1. ASSUME \E code \in Codes : Return(p, code) PROVE Moves(p)
    <3>1. PICK code \in Codes : Return(p, code)
      BY <2>1
    <3>2. QED BY <3>1, ReturnMoves
  <2>2. ASSUME opCode' = [opCode EXCEPT ![p] = 15], pc' = [pc EXCEPT ![p] = "submit"] PROVE Moves(p)
    <3>1. opCode' \in [Clients -> Codes] /\ \A q \in Clients \ {p} : opCode'[q] = opCode[q]
      BY <2>2 DEF Typed, TypeOK, Codes
    <3>2. pc' \in [Clients -> Pcs] /\ \A q \in Clients \ {p} : pc'[q] = pc[q]
      BY <2>2 DEF Typed, Pcs
    <3>3. QED BY <3>1, <3>2 DEF Moves
  <2>3. 4 \in Codes /\ check_cluster(readCluster(dir[p])) \in Codes
    BY CodesOfCluster DEF Codes
  <2>4. Moves(p)
    BY <1>4, <2>1, <2>2, <2>3 DEF VerifyAccount
  <2>5. QED BY <1>4, <2>4 DEF VerifyAccount, Typed, TypeOK, Moves, Codes, Acts, Alone
<1>5. CASE WriteOpen(p)
  <2>1. Moves(p)
    BY <1>5, GotoMoves DEF WriteOpen, Pcs
  <2>2. QED BY <1>5, <2>1 DEF WriteOpen, Typed, TypeOK, Moves, Codes, Acts, Alone
<1>6. CASE WriteDump(p)
  <2>1. Moves(p)
    BY <1>6, GotoMoves DEF WriteDump, Pcs
  <2>2. QED BY <1>6, <2>1 DEF WriteDump, Typed, TypeOK, Moves, Codes, Acts, Alone
<1>7. CASE RecordRead(p)
  <2>1. Moves(p)
    BY <1>7, GotoMoves DEF RecordRead, Pcs
  <2>2. snap' \in [Clients -> [Dirs -> Jobs \cup {NoJob}]]
    <3>1. \A j \in Jobs \cup {NoJob} : [readUser EXCEPT ![dir[p]] = j] \in [Dirs -> Jobs \cup {NoJob}]
      BY ReadTypes
    <3>2. snap \in [Clients -> [Dirs -> Jobs \cup {NoJob}]] /\ jobId[p] \in Jobs \cup {NoJob}
      BY ReadTypes DEF Typed, TypeOK
    <3>3. snap' = snap \/ \E j \in Jobs \cup {NoJob} : snap' = [snap EXCEPT ![p] = [readUser EXCEPT ![dir[p]] = j]]
      BY <1>7, <3>2 DEF RecordRead
    <3>4. QED BY <3>1, <3>2, <3>3
  <2>3. QED BY <1>7, <2>1, <2>2 DEF RecordRead, Typed, TypeOK, Moves, Codes, Acts, Alone
<1>8. CASE RemoveRead(p)
  <2>1. Moves(p)
    BY <1>8, GotoMoves, ReadTypes DEF RemoveRead, Pcs
  <2>2. snap' \in [Clients -> [Dirs -> Jobs \cup {NoJob}]]
    <3>1. \A j \in Jobs \cup {NoJob} : [readUser EXCEPT ![dir[p]] = j] \in [Dirs -> Jobs \cup {NoJob}]
      BY ReadTypes
    <3>2. snap \in [Clients -> [Dirs -> Jobs \cup {NoJob}]] /\ jobId[p] \in Jobs \cup {NoJob}
      BY ReadTypes DEF Typed, TypeOK
    <3>3. snap' = snap \/ \E j \in Jobs \cup {NoJob} : snap' = [snap EXCEPT ![p] = [readUser EXCEPT ![dir[p]] = j]]
      BY <1>8, <3>2 DEF RemoveRead
    <3>4. QED BY <3>1, <3>2, <3>3
  <2>3. QED BY <1>8, <2>1, <2>2 DEF RemoveRead, Typed, TypeOK, Moves, Codes, Acts, Alone
<1>9. CASE UserOpen(p)
  <2>1. Moves(p)
    BY <1>9, GotoMoves DEF UserOpen, Pcs
  <2>2. QED BY <1>9, <2>1 DEF UserOpen, Typed, TypeOK, Moves, Codes, Acts, Alone
<1>10. CASE UserDump(p)
  <2>1. Moves(p)
    BY <1>10, GotoMoves, ReadTypes DEF UserDump, Pcs
  <2>2. QED BY <1>10, <2>1 DEF UserDump, Typed, TypeOK, Moves, Codes, Acts, Alone
<1>11. CASE End(p)
  <2>1. Moves(p)
    BY <1>11 DEF End, Moves, Typed, TypeOK, Codes, Pcs, InScript
  <2>2. QED BY <1>11, <2>1 DEF End, Typed, TypeOK, Moves, Codes, Acts, Alone
<1>12. CASE ClearState(p)
  <2>1. Moves(p)
    BY <1>12, GotoMoves, ReturnMoves DEF ClearState, Codes, Pcs
  <2>2. dir[p] \in Dirs /\ clear(dir[p])
    BY <1>12, ReadTypes DEF ClearState
  <2>3. /\ clusterFiles' \in [Dirs -> [Jobs -> {"none", "empty", "full"}]]
        /\ \A e \in Dirs \ {dir[p]} : clusterFiles'[e] = clusterFiles[e]
    BY <2>2, ClearsTheFile
  <2>4. after' \in [Clients -> {"done", "script", "clearDead", "removed", "invalid", "recorded"}]
        /\ \A q \in Clients \ {p} : after'[q] = after[q]
    BY <1>12 DEF ClearState, Typed
  <2>5. QED BY <1>12, <2>1, <2>3, <2>4 DEF ClearState, Typed, TypeOK, Moves, Codes, Acts, Alone
<1>13. CASE List(p)
  <2>1. Moves(p)
    BY <1>13, ReturnMoves, ReadTypes DEF List
  <2>2. QED BY <1>13, <2>1 DEF List, Typed, TypeOK, Moves, Codes, Acts, Alone
<1>14. CASE RunScript(p)
  <2>1. opCode' \in [Clients -> Codes] /\ \A q \in Clients \ {p} : opCode'[q] = opCode[q]
    BY <1>14 DEF RunScript, Typed, TypeOK, Codes
  <2>2. ran' \in [Clients -> {"no", "ok", "failed"}] /\ \A q \in Clients \ {p} : ran'[q] = ran[q]
    BY <1>14 DEF RunScript, Typed
  <2>3. Moves(p)
    BY <1>14, <2>1 DEF RunScript, Typed, Pcs, Moves
  <2>4. QED BY <1>14, <2>2, <2>3 DEF RunScript, Typed, TypeOK, Moves, Codes, Acts, Alone
<1>15. CASE ScriptEnd(p)
  <2>1. Moves(p)
    BY <1>15, GotoMoves DEF ScriptEnd, Pcs
  <2>2. QED BY <1>15, <2>1 DEF ScriptEnd, Typed, TypeOK, Moves, Codes, Acts, Alone
<1>16. CASE ScriptExit(p)
  <2>1. Moves(p)
    BY <1>16 DEF ScriptExit, Moves, Typed, TypeOK, Codes, Pcs, InScript
  <2>2. QED BY <1>16, <2>1 DEF ScriptExit, Typed, TypeOK, Moves, Codes, Acts, Alone
<1>17. CASE Submit(p)
  <2>1. Moves(p)
    <3>1. ASSUME pc' = pc, opCode' = opCode PROVE Moves(p)
      BY <3>1 DEF Moves, Typed, TypeOK, Codes
    <3>2. QED BY <1>17, <3>1, GotoMoves, ReturnMoves, RaiseMoves DEF Submit, Codes, Pcs
  <2>2. Acts
    BY <1>17, SubmitActs DEF Submit, Acts, Typed
  <2>3. failures' \in [Clients -> 0 .. Retries - 1]
    <3>1. \/ failures' = failures \/ failures' = [failures EXCEPT ![p] = 0]
          \/ CanRetry(p) /\ CountFailure(p)
      BY <1>17 DEF Submit
    <3>2. failures \in [Clients -> 0 .. Retries - 1] /\ Retries \in Nat \ {0}
      BY DEF Typed, TypeOK, HodAssumption
    <3>3. 0 \in 0 .. Retries - 1 /\ (CanRetry(p) => failures[p] + 1 \in 0 .. Retries - 1)
      BY <3>2 DEF CanRetry
    <3>4. QED BY <3>1, <3>2, <3>3 DEF CountFailure
  <2>4. jobId' \in [Clients -> Jobs \cup {NoJob}] /\ \A q \in Clients \ {p} : jobId'[q] = jobId[q]
    BY <1>17 DEF Submit, Typed, TypeOK
  <2>5. QED BY <1>17, <2>1, <2>2, <2>3, <2>4, ActsTyped DEF Submit, Typed, TypeOK, Moves, Codes, Alone
<1>18. CASE CheckJobStatus(p)
  <2>1. Moves(p)
    <3>1. ASSUME pc' = pc, opCode' = opCode PROVE Moves(p)
      BY <3>1 DEF Moves, Typed, TypeOK, Codes
    <3>2. Goto(p, "ring") \/ Return(p, 5) \/ Return(p, 4) \/ RaiseInterrupt(p) => Moves(p)
      BY GotoMoves, ReturnMoves, RaiseMoves DEF Codes, Pcs
    <3>3. QED BY <1>18, <3>1, <3>2 DEF CheckJobStatus, InterruptJob
  <2>2. Acts
    <3>1. jobId[p] \in Jobs \cup {NoJob}
      BY ReadTypes
    <3>2. UNCHANGED blame \/ Blame(jobId[p]) => blame' \in SUBSET Jobs /\ blame \subseteq blame'
      BY BlameGrows DEF Typed
    <3>3. \A works \in BOOLEAN : deleteJob(jobId[p], works) /\ UNCHANGED ring
            => UNCHANGED <<batchVars, ring>> \/ \E k \in Jobs : Deletes(k)
      BY <3>1, DeleteActs
    <3>4. QED BY <1>18, <3>2, <3>3 DEF CheckJobStatus, InterruptJob, Acts
  <2>3. failures' \in [Clients -> 0 .. Retries - 1] 
    <3>1. failures' = failures \/ (CanRetry(p) /\ CountFailure(p))
      BY <1>18 DEF CheckJobStatus
    <3>2. failures \in [Clients -> 0 .. Retries - 1] /\ Retries \in Nat
      BY DEF Typed, TypeOK, HodAssumption
    <3>3. CanRetry(p) => failures[p] + 1 \in 0 .. Retries - 1
      BY <3>2 DEF CanRetry
    <3>4. QED BY <3>1, <3>2, <3>3 DEF CountFailure
  <2>4. QED BY <1>18, <2>1, <2>2, <2>3, ActsTyped DEF CheckJobStatus, Typed, TypeOK, Moves, Codes, Alone
<1>19. CASE FindRing(p)
  <2>1. Moves(p)
    <3>1. Goto(p, "hdfs") \/ Return(p, 6) \/ RaiseInterrupt(p) => Moves(p)
      BY GotoMoves, ReturnMoves, RaiseMoves DEF Codes, Pcs
    <3>2. QED BY <1>19, <3>1 DEF FindRing, InterruptJob, GiveUp
  <2>2. Acts
    BY <1>19, InterruptActs, GiveUpActs DEF FindRing, Acts, Typed
  <2>3. QED BY <1>19, <2>1, <2>2, ActsTyped DEF FindRing, Typed, TypeOK, Moves, Codes, Alone
<1>20. ASSUME NEW s, NEW next \in {"mapred", "site"}, NEW status \in {7, 8}, FindService(p, s, next, status)
       PROVE  Typed' /\ Acts /\ Alone(p)
  <2>1. Moves(p)
    <3>1. Goto(p, next) \/ Return(p, status) \/ RaiseInterrupt(p) => Moves(p)
      BY GotoMoves, ReturnMoves, RaiseMoves DEF Codes, Pcs
    <3>2. QED BY <1>20, <3>1 DEF FindService, InterruptJob, GiveUp
  <2>2. Acts
    BY <1>20, InterruptActs, GiveUpActs DEF FindService, Acts, Typed
  <2>3. QED BY <1>20, <2>1, <2>2, ActsTyped DEF FindService, Typed, TypeOK, Moves, Codes, Alone
<1>21. CASE GenSiteConf(p)
  <2>1. Moves(p)
    BY <1>21, GotoMoves, RaiseMoves DEF GenSiteConf, Pcs
  <2>2. Acts
    BY <1>21, BlameGrows DEF GenSiteConf, Acts, Typed
  <2>3. site' \in [Dirs -> Jobs \cup {NoJob}] /\ \A d \in Dirs \ {dir[p]} : site'[d] = site[d]
    BY <1>21, ReadTypes DEF GenSiteConf, Typed, TypeOK
  <2>4. QED BY <1>21, <2>1, <2>2, <2>3, ActsTyped DEF GenSiteConf, Typed, TypeOK, Moves, Codes, Alone
<1>22. CASE RecordFails(p)
  <2>1. Moves(p)
    <3>1. /\ \E code \in {1, 127} : opCode' = [opCode EXCEPT ![p] = code]
          /\ pc' = [pc EXCEPT ![p] = Handler(p)]
      BY <1>22 DEF RecordFails
    <3>2. opCode' \in [Clients -> Codes] /\ \A q \in Clients \ {p} : opCode'[q] = opCode[q]
      BY <3>1 DEF Typed, TypeOK, Codes
    <3>3. pc' \in [Clients -> Pcs] /\ \A q \in Clients \ {p} : pc'[q] = pc[q]
      BY <3>1 DEF Typed, Pcs, Handler, InScript
    <3>4. QED BY <3>2, <3>3 DEF Moves
  <2>2. Acts
    <3>1. jobId[p] \in Jobs \cup {NoJob}
      BY ReadTypes
    <3>2. UNCHANGED blame \/ Blame(jobId[p]) => blame' \in SUBSET Jobs /\ blame \subseteq blame'
      BY BlameGrows DEF Typed
    <3>3. \A works \in BOOLEAN : deleteJob(jobId[p], works) /\ UNCHANGED ring
            => UNCHANGED <<batchVars, ring>> \/ \E k \in Jobs : Deletes(k)
      BY <3>1, DeleteActs
    <3>4. TellRM(jobId[p]) /\ UNCHANGED batchVars => Acts
      BY <3>1, TellActs DEF Acts
    <3>5. \/ TellRM(jobId[p]) /\ UNCHANGED batchVars
          \/ Blame(jobId[p]) /\ UNCHANGED <<batchVars, ring>>
          \/ /\ UNCHANGED ring
             /\ \E works \in BOOLEAN : /\ deleteJob(jobId[p], works)
                                       /\ IF works THEN UNCHANGED blame ELSE Blame(jobId[p])
      BY <1>22 DEF RecordFails
    <3>6. QED BY <3>2, <3>3, <3>4, <3>5 DEF Acts
  <2>3. userFile' \in {"absent", "empty", "full", "torn"}
    BY <1>22 DEF RecordFails, Typed, TypeOK
  <2>4. QED BY <1>22, <2>1, <2>2, <2>3, ActsTyped DEF RecordFails, Typed, TypeOK, Moves, Codes, Alone
<1>23. CASE Deallocate(p)
  <2> DEFINE j == readCluster(dir[p])
  <2>0. j \in Jobs \cup {NoJob}
    BY ReadTypes, ReadsTheFile
  <2>1. CASE InvalidDirectory(p, TRUE)
    <3>1. Moves(p) /\ Acts /\ after' \in [Clients -> {"done", "script", "clearDead", "removed", "invalid", "recorded"}]
          /\ \A q \in Clients \ {p} : after'[q] = after[q]
      BY <2>1, InvalidTyped
    <3>2. jobId' = jobId
      BY <2>1 DEF InvalidDirectory
    <3>3. QED BY <1>23, <3>1, <3>2, ActsTyped DEF Deallocate, Typed, TypeOK, Moves, Codes, Alone
  <2>2. CASE j # NoJob /\ jobId' = [jobId EXCEPT ![p] = j] /\ UNCHANGED after
             /\ RaiseInterrupt(p) /\ UNCHANGED <<batchVars, ring, blame>>
    <3>1. Moves(p) /\ Acts
      BY <2>2, RaiseMoves DEF Acts, Typed
    <3>2. jobId' \in [Clients -> Jobs \cup {NoJob}] /\ \A q \in Clients \ {p} : jobId'[q] = jobId[q]
      BY <2>0, <2>2 DEF Typed, TypeOK
    <3>3. QED BY <1>23, <2>2, <3>1, <3>2, ActsTyped DEF Deallocate, Typed, TypeOK, Moves, Codes, Alone
  <2>3. ASSUME NEW works \in BOOLEAN, j # NoJob, jobId' = [jobId EXCEPT ![p] = j], UNCHANGED after,
               opCode' = [opCode EXCEPT ![p] = IF RingAlive(j) THEN 0 ELSE 10],
               pc' = [pc EXCEPT ![p] = "clear"],
               IF ~RingAlive(j) THEN deleteJob(j, works) /\ UNCHANGED ring
               ELSE UNCHANGED batchVars /\ IF works THEN stopRM(j) ELSE UNCHANGED ring,
               IF works THEN UNCHANGED blame ELSE Blame(j)
        PROVE  Typed' /\ Acts /\ Alone(p)
    <3>1. opCode' \in [Clients -> Codes] /\ \A q \in Clients \ {p} : opCode'[q] = opCode[q]
      BY <2>3 DEF Typed, TypeOK, Codes
    <3>2. pc' \in [Clients -> Pcs] /\ \A q \in Clients \ {p} : pc'[q] = pc[q]
      BY <2>3 DEF Typed, Pcs
    <3>3. blame' \in SUBSET Jobs /\ blame \subseteq blame'
      BY <2>3, BlameGrows DEF Typed
    <3>4. ASSUME ~RingAlive(j) PROVE Acts
      BY <2>0, <2>3, <3>3, <3>4, DeleteActs DEF Acts
    <3>5. ASSUME RingAlive(j) PROVE Acts
      BY <2>0, <2>3, <3>3, <3>5, StopActs DEF Acts
    <3>6. jobId' \in [Clients -> Jobs \cup {NoJob}] /\ \A q \in Clients \ {p} : jobId'[q] = jobId[q]
      BY <2>0, <2>3 DEF Typed, TypeOK
    <3>7. QED BY <1>23, <2>3, <3>1, <3>2, <3>4, <3>5, <3>6, ActsTyped DEF Deallocate, Typed, TypeOK, Codes, Alone
  <2>4. QED BY <1>23, <2>1, <2>2, <2>3 DEF Deallocate
<1>24. CASE Info(p)
  <2>1. CASE InvalidDirectory(p, FALSE)
    <3>1. Moves(p) /\ Acts /\ after' \in [Clients -> {"done", "script", "clearDead", "removed", "invalid", "recorded"}]
          /\ \A q \in Clients \ {p} : after'[q] = after[q]
      BY <2>1, InvalidTyped
    <3>2. jobId' = jobId
      BY <2>1 DEF InvalidDirectory
    <3>3. QED BY <1>24, <3>1, <3>2, ActsTyped DEF Info, Typed, TypeOK, Moves, Codes, Alone
  <2>2. CASE /\ \E code \in Codes : Return(p, code)
             /\ UNCHANGED <<batchVars, ring, jobId, after, blame>>
    <3>1. Moves(p) 
      BY <2>2, ReturnMoves
    <3>2. QED BY <1>24, <2>2, <3>1 DEF Info, Acts, Typed, TypeOK, Moves, Codes, Alone
  <2>3. opCode[p] \in Codes /\ check_cluster(readCluster(dir[p])) \in Codes
    BY ReadTypes, CodesOfCluster
  <2>4. QED BY <1>24, <2>1, <2>2, <2>3 DEF Info
<1>25. QED BY <1>1, <1>2, <1>3, <1>4, <1>5, <1>6, <1>7, <1>8, <1>9, <1>10, <1>11, <1>12, <1>13, <1>14,
              <1>15, <1>16, <1>17, <1>18, <1>19, <1>20, <1>21, <1>22, <1>23, <1>24 DEF Step

LEMMA StartTyped ==
  ASSUME HodAssumption, Typed, NEW p \in Clients, NEW o \in Ops, NEW d \in Dirs, NEW r \in Requests,
         Start(p, o, d, r)
  PROVE  Typed' /\ Acts /\ Alone(p)
<1> USE DEF fileVars, batchVars, ringVars, callVars, pollVars, saveVars, showVars
<1>1. op' \in [Clients -> Ops \cup {"none"}] /\ dir' \in [Clients -> Dirs] /\ request' \in [Clients -> Requests]
      /\ \A q \in Clients \ {p} : op'[q] = op[q] /\ dir'[q] = dir[q] /\ request'[q] = request[q]
  BY DEF Start, Typed
<1>2. /\ interrupted' \in [Clients -> BOOLEAN]
      /\ after' \in [Clients -> {"done", "script", "clearDead", "removed", "invalid", "recorded"}]
      /\ ran' \in [Clients -> {"no", "ok", "failed"}]
      /\ \A q \in Clients \ {p} : interrupted'[q] = interrupted[q] /\ after'[q] = after[q] /\ ran'[q] = ran[q]
  BY DEF Start, Typed
<1>3. /\ jobId' \in [Clients -> Jobs \cup {NoJob}] /\ failures' \in [Clients -> 0 .. Retries - 1]
      /\ snap' \in [Clients -> [Dirs -> Jobs \cup {NoJob}]]
      /\ \A q \in Clients \ {p} : jobId'[q] = jobId[q]
  BY DEF Start, Typed, TypeOK, HodAssumption, NoEntries
<1>4. PICK code \in {0, 1, 3} : opCode' = [opCode EXCEPT ![p] = code]
  BY DEF Start
<1>5. opCode' \in [Clients -> Codes] /\ \A q \in Clients \ {p} : opCode'[q] = opCode[q]
  BY <1>4 DEF Typed, TypeOK, Codes
<1>6. pc' = pc \/ pc' = [pc EXCEPT ![p] = "allocate"] \/ (o # "script" /\ pc' = [pc EXCEPT ![p] = o])
  BY DEF Start
<1>7. o # "script" => o \in Pcs
  BY DEF HodAssumption, Pcs
<1>8. pc' \in [Clients -> Pcs] /\ \A q \in Clients \ {p} : pc'[q] = pc[q]
  BY <1>6, <1>7 DEF Typed, Pcs
<1>9. Acts
  BY DEF Start, Acts, Typed
<1>10. UNCHANGED <<fileVars, batchVars, ringVars, blame, mishaps>>
  BY DEF Start
<1>11. QED BY <1>1, <1>2, <1>3, <1>5, <1>8, <1>9, <1>10 DEF Typed, TypeOK, Codes, Alone

LEMMA MishapTyped ==
  ASSUME HodAssumption, Typed, NEW p \in Clients, Interrupt(p) \/ Crash(p)
  PROVE  Typed' /\ Acts /\ Alone(p)
<1> USE DEF fileVars, batchVars, ringVars, callVars, pollVars, saveVars, showVars
<1>1. CASE Interrupt(p)
  BY <1>1 DEF Interrupt, Mishap, Typed, TypeOK, Acts, Alone
<1>2. CASE Crash(p)
  <2>1. blame' \in SUBSET Jobs /\ blame \subseteq blame'
    BY <1>2, BlameGrows DEF Crash
  <2>2. pc' \in [Clients -> Pcs] /\ \A q \in Clients \ {p} : pc'[q] = pc[q]
    BY <1>2 DEF Crash, Typed, Pcs
  <2>3. QED BY <1>2, <2>1, <2>2 DEF Crash, Mishap, Typed, TypeOK, Acts, Alone
<1>3. QED BY <1>1, <1>2

(* The batch system and the ring masters leave clients and files alone.    *)
LEMMA WorldTyped ==
  ASSUME HodAssumption, Typed, GoneEnded, NEW j \in Jobs, World(j) \/ Misfortune(j)
  PROVE  /\ Typed' /\ Onward /\ GoneEnded'
         /\ \A k \in Jobs : Live(k)' => Live(k)
         /\ UNCHANGED <<fileVars, callVars, pollVars, saveVars, showVars, pc, opCode, interrupted>>
<1> USE DEF fileVars, batchVars, ringVars, callVars, pollVars, saveVars, showVars
<1>1. UNCHANGED <<fileVars, callVars, pollVars, saveVars, showVars, pc, opCode, interrupted>>
  BY DEF World, Misfortune
<1>2. mishaps' \in Nat
  BY DEF World, Misfortune, JobEnds, ServiceDies, Mishap, Typed
<1>3. /\ job' \in [Jobs -> {"unused", "Q", "R", "C"}]
      /\ ring' \in [Jobs -> {"none", "up", "stopping", "gone"}]
      /\ asked' = asked
      /\ Onward /\ GoneEnded'
      /\ \A k \in Jobs : Live(k)' => Live(k)
  <2>1. CASE JobRuns(j) /\ UNCHANGED ringVars
    BY <1>1, <2>1 DEF JobRuns, Onward, GoneEnded, Live, Typed, TypeOK
  <2>2. CASE RingUp(j)
    BY <1>1, <2>2 DEF RingUp, Onward, GoneEnded, Live, Typed, TypeOK
  <2>3. CASE RingStops(j)
    BY <1>1, <2>3 DEF RingStops, RingAlive, Onward, GoneEnded, Live, Typed, TypeOK
  <2>4. CASE \E s \in Services : ServiceUp(j, s) \/ ServiceDies(j, s)
    BY <1>1, <2>4 DEF ServiceUp, ServiceDies, Onward, GoneEnded, Live, Typed, TypeOK
  <2>5. CASE JobEnds(j)
    BY <1>1, <2>5 DEF JobEnds, Onward, GoneEnded, Live, Typed, TypeOK
  <2>6. QED BY <2>1, <2>2, <2>3, <2>4, <2>5 DEF World, Misfortune
<1>4. QED BY <1>1, <1>2, <1>3 DEF Typed, TypeOK

-----------------------------------------------------------------------------
(* What others leave a client                                              *)

Kept(p) ==
  /\ pc'[p] = pc[p] /\ op'[p] = op[p] /\ dir'[p] = dir[p] /\ request'[p] = request[p]
  /\ opCode'[p] = opCode[p] /\ jobId'[p] = jobId[p] /\ after'[p] = after[p]
  /\ ran'[p] = ran[p] /\ (interrupted[p] => interrupted'[p])
  /\ \/ clusterFiles'[dir[p]] = clusterFiles[dir[p]] /\ site'[dir[p]] = site[dir[p]]
     \/ op[p] = "none" /\ pc[p] = "done"

LEMMA KeptLocal ==
  ASSUME Typed, NEW p \in Clients, Local(p), Filed, Kept(p), Onward
  PROVE  Local(p)'
<1>1. jobId[p] \in Jobs => job'[jobId[p]] # "unused"
  BY DEF Local, Onward
<1>2. Places(p)'
  BY DEF Local, Places, Kept, Updating, Recording
<1>3. \A j \in Jobs : job[j] # "unused" /\ Released(j) => Released(j)'
  BY DEF Released, Onward
<1>4. CASE op[p] = "none" /\ pc[p] = "done"
  BY <1>1, <1>2, <1>4 DEF Local, Allocating, Releasing, Updating, Recording, Creating, Kept
<1>5. CASE clusterFiles'[dir[p]] = clusterFiles[dir[p]] /\ site'[dir[p]] = site[dir[p]]
  <2>1. Allocating(p)'
    BY <1>5 DEF Local, Allocating, Kept, Recording, Creating, Onward
  <2>2. dir[p] \in Dirs
    BY ReadTypes
  <2>3. \A j \in Jobs : clusterFiles[dir[p]][j] # "none" /\ ~Live(j) => ~Live(j)'
    BY <2>2 DEF Filed, Onward
  <2>4. Releasing(p)'
    BY <1>3, <1>5, <2>3 DEF Local, Releasing, Kept, Updating
  <2>5. QED BY <1>1, <1>2, <2>1, <2>4 DEF Local, Kept
<1>6. QED BY <1>4, <1>5 DEF Kept

(* No two clients that were started have one directory.                    *)
LEMMA AloneKeeps ==
  ASSUME HodAssumption, Typed, Mine, NEW p \in Clients, Alone(p), dir[p] \in DirsOf[p],
         NEW q \in Clients \ {p}
  PROVE  Kept(q)
<1>1. dir[q] \in Dirs
  BY ReadTypes
<1>2. CASE op[q] = "none" /\ pc[q] = "done"
  BY <1>2 DEF Alone, Kept
<1>3. CASE dir[q] \in DirsOf[q]
  <2>1. dir[q] # dir[p]
    BY <1>3 DEF HodAssumption
  <2>2. QED BY <1>1, <2>1 DEF Alone, Kept
<1>4. QED BY <1>2, <1>3 DEF Mine

-----------------------------------------------------------------------------
(* The steps of a client                                                   *)

(* What is to be shown of a step of p, besides the types: it knows what    *)
(* Local says, the files stay what they are, and no job it was creating or *)
(* that was recorded is forgotten.                                         *)
Sound(p) ==
  /\ Local(p)' /\ OneFile' /\ Filed'
  /\ \A j \in Jobs : pc[p] \in Creating /\ jobId[p] = j =>
       \/ pc'[p] \in Creating /\ jobId'[p] = j
       \/ Recorded(j)' \/ Released(j)'
  /\ \A j \in Jobs : Recorded(j) => \/ pc'[p] \in Creating /\ jobId'[p] = j
                                    \/ Recorded(j)' \/ Released(j)'
  /\ \A j \in Jobs : job[j] = "unused" => \/ job'[j] = "unused"
                                          \/ pc'[p] \in Creating /\ jobId'[p] = j

(* A step that changes neither a job nor the state files.                  *)
LEMMA QuietSound ==
  ASSUME IInv, NEW p \in Clients, UNCHANGED <<batchVars, ring, clusterFiles, blame>>,
         pc[p] \in Creating => pc'[p] \in Creating /\ jobId'[p] = jobId[p],
         Local(p)'
  PROVE  Sound(p)
BY DEF Sound, IInv, OneFile, Filed, Recorded, Released, Live, batchVars

(* One that creates nothing and leaves the files alone.                    *)
LEMMA FilesSound ==
  ASSUME IInv, NEW p \in Clients, Onward, UNCHANGED clusterFiles,
         \A j \in Jobs : pc[p] \in Creating /\ jobId[p] = j =>
           (pc'[p] \in Creating /\ jobId'[p] = j) \/ Released(j)',
         \A j \in Jobs : job[j] = "unused" => job'[j] = "unused",
         Local(p)'
  PROVE  Sound(p)
BY DEF Sound, IInv, OneFile, Filed, Recorded, Onward

(* The operation is over, or the script is the next thing, and the code is *)
(* not that of success.                                                    *)
Leaves(p) ==
  /\ pc'[p] \in {"done", "exit", "script"}
  /\ pc'[p] \in {"exit", "script"} => op[p] = "script"
  /\ pc'[p] = "script" => opCode'[p] # 0
  /\ op[p] = "allocate" => opCode'[p] # 0 \/ request[p].range

LEMMA LeavesLocal ==
  ASSUME IInv, NEW p \in Clients, Typed', Onward, Leaves(p),
         op[p] = "script" => ran[p] = "no",
         op'[p] = op[p], ran'[p] = ran[p], request'[p] = request[p], jobId'[p] = jobId[p]
  PROVE  Local(p)'
BY DEF IInv, Local, Places, Allocating, Releasing, Updating, Recording, Creating, Leaves, Onward

LEMMA ReturnLeaves ==
  ASSUME Typed, NEW p \in Clients, NEW code \in Codes, Return(p, code), code # 0 \/ op[p] \notin {"allocate", "script"}
  PROVE  Leaves(p) /\ pc'[p] \notin Creating
BY ReturnMoves DEF Leaves, Creating

LEMMA RaiseLeaves ==
  ASSUME Typed, NEW p \in Clients, RaiseInterrupt(p) \/ (Raise(p) /\ (op[p] = "allocate" => opCode[p] # 0 \/ request[p].range))
  PROVE  Leaves(p) /\ pc'[p] \notin Creating
BY RaiseMoves DEF Leaves, Creating, Handler, InScript

(* While it allocates a client has not run its script.                     *)
LEMMA NotRunYet ==
  ASSUME NEW p \in Clients, Local(p),
         \/ pc[p] \in {"allocate", "listed", "clearDead", "account", "submit", "record", "recorded"} \cup Creating
         \/ Recording(p)
  PROVE  op[p] \in {"allocate", "script"} /\ (op[p] = "script" => ran[p] = "no")
BY DEF Local, Places, Releasing, Creating, Recording, Updating

LEMMA AllocateSound ==
  ASSUME HodAssumption, IInv, NEW p \in Clients, Typed',
         \/ Allocate(p) \/ AllocateListed(p) \/ VerifyAccount(p)
  PROVE  Sound(p)
<1> USE DEF fileVars, batchVars, ringVars, callVars, pollVars, saveVars, showVars
<1>0. Typed /\ OneFile /\ Local(p)
  BY DEF IInv
<1>1. Onward /\ UNCHANGED <<op, dir, request, jobId, ran, batchVars, ring, clusterFiles, blame, interrupted, site>>
  BY <1>0 DEF Allocate, AllocateListed, VerifyAccount, Onward, Live
<1>2. pc[p] \in {"allocate", "listed", "account"}
  BY DEF Allocate, AllocateListed, VerifyAccount
<1>3. op[p] \in {"allocate", "script"} /\ (op[p] = "script" => ran[p] = "no")
  BY <1>0, <1>2, NotRunYet
<1>4. ASSUME Leaves(p) PROVE Local(p)'
  BY <1>1, <1>3, <1>4, LeavesLocal
<1>5. CASE Allocate(p)
  <2>1. pc'[p] \in {"account", "listed"} \/ Leaves(p)
    BY <1>0, <1>5, GotoMoves, ReturnLeaves, RaiseLeaves DEF Allocate, Codes, Pcs
  <2>2. CASE pc'[p] \in {"account", "listed"}
    <3>1. Local(p)'
      BY <1>0, <1>1, <1>3, <2>2 DEF Local, Places, Allocating, Releasing, Updating, Recording, Creating
    <3>2. QED BY <1>1, <1>2, <3>1, QuietSound DEF Creating
  <2>3. QED BY <1>1, <1>2, <1>4, <2>1, <2>2, QuietSound DEF Creating
<1>6. CASE AllocateListed(p)
  <2> DEFINE j == readCluster(dir[p])
  <2>1. CASE j # NoJob /\ is_cluster_deallocated(j, "C") /\ pc'[p] = "remove" /\ after'[p] = "clearDead"
    <3>1. \A k \in Jobs : clusterFiles[dir[p]][k] # "none" => k = j /\ j \in Jobs
      BY <1>0, <2>1, ReadTypes, ReadsTheFile
    <3>2. j \in Jobs => ~Live(j)
      BY <2>1 DEF is_cluster_deallocated, getJobInfo, Live
    <3>3. \A k \in Jobs : clusterFiles'[dir'[p]][k] # "none" => ~Live(k)'
      BY <1>1, <3>1, <3>2 DEF Live
    <3>4. Local(p)'
      BY <1>0, <1>1, <1>3, <2>1, <3>3 DEF Local, Places, Allocating, Releasing, Updating, Recording, Creating
    <3>5. QED BY <1>1, <1>2, <3>4, QuietSound DEF Creating
  <2>2. \/ Leaves(p)
        \/ j # NoJob /\ is_cluster_deallocated(j, "C") /\ pc'[p] = "remove" /\ after'[p] = "clearDead"
    <3>1. Goto(p, "remove") => pc'[p] = "remove"
      BY <1>0, GotoMoves DEF Pcs
    <3>2. Return(p, 12) => Leaves(p)
      BY <1>0, ReturnLeaves DEF Codes
    <3>3. after' = [after EXCEPT ![p] = "clearDead"] => after'[p] = "clearDead"
      BY <1>0 DEF Typed
    <3>4. QED BY <1>6, <3>1, <3>2, <3>3 DEF AllocateListed
  <2>3. QED BY <1>1, <1>2, <1>4, <2>1, <2>2, QuietSound DEF Creating
<1>7. CASE VerifyAccount(p)
  <2>1. \/ Leaves(p)
        \/ pc'[p] = "submit" /\ opCode'[p] = 15
    <3>1. 4 \in Codes \ {0} /\ check_cluster(readCluster(dir[p])) \in Codes \ {0}
      BY CodesOfCluster DEF Codes
    <3>2. \A code \in Codes \ {0} : Return(p, code) => Leaves(p)
      BY <1>0, ReturnLeaves
    <3>3. opCode' = [opCode EXCEPT ![p] = 15] /\ pc' = [pc EXCEPT ![p] = "submit"] =>
            pc'[p] = "submit" /\ opCode'[p] = 15
      BY <1>0 DEF Typed, TypeOK
    <3>4. QED BY <1>7, <3>1, <3>2, <3>3 DEF VerifyAccount
  <2>2. CASE pc'[p] = "submit" /\ opCode'[p] = 15
    <3>1. Local(p)'
      BY <1>0, <1>1, <1>3, <2>2 DEF Local, Places, Allocating, Releasing, Updating, Recording, Creating
    <3>2. QED BY <1>1, <1>2, <3>1, QuietSound DEF Creating
  <2>3. QED BY <1>1, <1>2, <1>4, <2>1, <2>2, QuietSound DEF Creating
<1>8. QED BY <1>5, <1>6, <1>7

(* clear forgets no job that lives: what is in the directory has ended, or *)
(* was told to.                                                            *)
LEMMA ClearSound ==
  ASSUME HodAssumption, IInv, NEW p \in Clients, Typed', ClearDead(p) \/ ClearState(p)
  PROVE  Sound(p)
<1> USE DEF fileVars, batchVars, ringVars, callVars, pollVars, saveVars, showVars
<1>0. Typed /\ OneFile /\ Filed /\ Local(p) /\ dir[p] \in Dirs
  BY ReadTypes DEF IInv
<1>1. Onward /\ UNCHANGED <<op, dir, request, jobId, ran, batchVars, ring, blame, interrupted, site>>
  BY <1>0 DEF ClearDead, ClearState, Onward, Live
<1>2. pc[p] \in {"clearDead", "clear"} /\ clear(dir[p])
  BY DEF ClearDead, ClearState
<1>3. /\ \A j \in Jobs : clusterFiles'[dir[p]][j] = "none"
      /\ \A e \in Dirs \ {dir[p]} : clusterFiles'[e] = clusterFiles[e]
  BY <1>0, <1>2, ClearsTheFile
<1>4. \A j \in Jobs : clusterFiles[dir[p]][j] # "none" => Released(j)
  BY <1>0, <1>2 DEF Local, Releasing, Released
<1>5. Local(p)'
  <2>1. CASE ClearDead(p)
    <3>1. op[p] \in {"allocate", "script"} /\ (op[p] = "script" => ran[p] = "no")
      BY <1>0, <2>1, NotRunYet DEF ClearDead
    <3>2. pc'[p] = "account"
      BY <1>0, <2>1, GotoMoves DEF ClearDead, Pcs
    <3>3. QED BY <1>0, <1>1, <3>1, <3>2 DEF Local, Places, Allocating, Releasing, Updating, Recording, Creating
  <2>2. CASE ClearState(p)
    <3>1. op[p] \in {"deallocate", "script"} /\ jobId[p] \in Jobs /\ Released(jobId[p])
      BY <1>0, <2>2 DEF ClearState, Local, Places, Releasing
    <3>2. Released(jobId[p])'
      BY <1>1, <3>1 DEF Released, Live
    <3>3. \/ pc'[p] = "remove" /\ after'[p] = "removed"
          \/ /\ pc'[p] \in {"done", "exit", "script"} /\ opCode'[p] = 1
             /\ pc'[p] \in {"exit", "script"} => op[p] = "script"
             /\ pc'[p] = "script" => after[p] = "script"
             /\ UNCHANGED after
      <4>1. Goto(p, "remove") => pc'[p] = "remove"
        BY <1>0, GotoMoves DEF Pcs
      <4>2. Return(p, 1) => /\ pc'[p] \in {"done", "exit", "script"} /\ opCode'[p] = 1
                            /\ pc'[p] \in {"exit", "script"} => op[p] = "script"
                            /\ pc'[p] = "script" => after[p] = "script"
        BY <1>0, ReturnMoves DEF Codes
      <4>3. after' = [after EXCEPT ![p] = "removed"] => after'[p] = "removed"
        BY <1>0 DEF Typed
      <4>4. QED BY <2>2, <4>1, <4>2, <4>3 DEF ClearState
    <3>4. pc[p] = "clear"
      BY <2>2 DEF ClearState
    <3>5. QED BY <1>0, <1>1, <3>1, <3>2, <3>3, <3>4 DEF Local, Places, Allocating, Releasing, Updating, Recording, Creating
  <2>3. QED BY <2>1, <2>2
<1>6. OneFile' /\ Filed'
  BY <1>0, <1>1, <1>3 DEF OneFile, Filed
<1>7. \A j \in Jobs : Recorded(j) => Recorded(j)' \/ Released(j)'
  BY <1>1, <1>3, <1>4 DEF Recorded, Released, Live
<1>8. QED BY <1>1, <1>2, <1>5, <1>6, <1>7 DEF Sound, Creating

(* qsub gives the job to the client that asked for it.                     *)
LEMMA SubmitSound ==
  ASSUME HodAssumption, IInv, NEW p \in Clients, Typed', Acts, Submit(p)
  PROVE  Sound(p)
<1> USE DEF fileVars, batchVars, ringVars, callVars, pollVars, saveVars, showVars
<1>0. Typed /\ Local(p)
  BY DEF IInv
<1>1. Onward /\ UNCHANGED <<op, dir, request, ran, clusterFiles, blame, interrupted, site, after, ring>>
  BY <1>0, ActsTyped DEF Submit
<1>2. pc[p] = "submit"
  BY DEF Submit
<1>3. op[p] \in {"allocate", "script"} /\ (op[p] = "script" => ran[p] = "no") /\ opCode[p] = 15
  BY <1>0, <1>2, NotRunYet DEF Local, Places
<1>4. CASE \E j \in Jobs :
          /\ qsub(j, Submitted(request[p].nodes, request[p].walltime))
          /\ jobId' = [jobId EXCEPT ![p] = j]
          /\ Goto(p, "status")
  <2>1. PICK j \in Jobs :
          /\ qsub(j, Submitted(request[p].nodes, request[p].walltime))
          /\ jobId' = [jobId EXCEPT ![p] = j]
          /\ Goto(p, "status")
    BY <1>4
  <2>2. pc'[p] = "status" /\ opCode'[p] = 15 /\ jobId'[p] = j
    BY <1>0, <1>3, <2>1, GotoMoves DEF Pcs, Typed, TypeOK
  <2>3. /\ job'[j] = "Q" /\ asked'[j] = Submitted(request[p].nodes, request[p].walltime)
        /\ \A k \in Jobs \ {j} : job'[k] = job[k]
    BY <1>0, <2>1 DEF qsub, Typed, TypeOK
  <2>4. Local(p)'
    BY <1>0, <1>1, <1>3, <2>2, <2>3 DEF Local, Places, Allocating, Releasing, Updating, Recording, Creating
  <2>5. QED BY <1>1, <1>2, <2>2, <2>3, <2>4 DEF Sound, IInv, OneFile, Filed, Recorded, Creating
<1>5. CASE pc'[p] = "submit" /\ UNCHANGED <<batchVars, jobId, opCode>>
  <2>1. Local(p)'
    BY <1>0, <1>1, <1>2, <1>3, <1>5 DEF Local, Places, Allocating, Releasing, Updating, Recording, Creating
  <2>2. QED BY <1>1, <1>2, <1>5, <2>1, QuietSound DEF Creating
<1>6. CASE Leaves(p) /\ UNCHANGED <<batchVars, jobId>>
  <2>1. Local(p)'
    BY <1>1, <1>3, <1>6, LeavesLocal
  <2>2. QED BY <1>1, <1>2, <1>6, <2>1, QuietSound DEF Creating
<1>7. RaiseInterrupt(p) \/ Return(p, 4) => Leaves(p)
  BY <1>0, RaiseLeaves, ReturnLeaves DEF Codes
<1>8. QED BY <1>2, <1>4, <1>5, <1>6, <1>7 DEF Submit

(* A job that is deleted or blamed, or whose ring master is stopped, is    *)
(* released.                                                               *)
LEMMA DeleteReleases ==
  ASSUME HodAssumption, Typed, NEW j \in Jobs, NEW works \in BOOLEAN, deleteJob(j, works),
         IF works THEN UNCHANGED blame ELSE Blame(j)
  PROVE  Released(j)' /\ \A k \in Jobs : job[k] = "unused" => job'[k] = "unused"
<1>1. job \in [Jobs -> {"unused", "Q", "R", "C"}] /\ j # NoJob
  BY DEF Typed, TypeOK, HodAssumption
<1>2. CASE works
  BY <1>1, <1>2 DEF deleteJob, Released, Live
<1>3. CASE ~works
  BY <1>1, <1>3 DEF deleteJob, Released, Live, Blame
<1>4. QED BY <1>2, <1>3

LEMMA StopReleases ==
  ASSUME Typed, GoneEnded, NEW j \in Jobs, stopRM(j), UNCHANGED batchVars, ring[j] # "none"
  PROVE  Released(j)' /\ \A k \in Jobs : job[k] = "unused" => job'[k] = "unused"
BY DEF Typed, GoneEnded, stopRM, Released, Live, batchVars

LEMMA TellReleases ==
  ASSUME Typed, GoneEnded, NEW j \in Jobs, TellRM(j), UNCHANGED batchVars, ring[j] # "none"
  PROVE  Released(j)' /\ \A k \in Jobs : job[k] = "unused" => job'[k] = "unused"
<1>1. CASE stopRM(j)
  BY <1>1, StopReleases
<1>2. CASE Blame(j)
  BY <1>2 DEF Blame, Released, batchVars
<1>3. QED BY <1>1, <1>2 DEF TellRM

LEMMA GivenUp ==
  ASSUME HodAssumption, Typed, GoneEnded, NEW p \in Clients, NEW j \in Jobs, jobId[p] = j,
         \/ InterruptJob(p, FALSE)
         \/ GiveUp(p, 6)
         \/ /\ ring[j] # "none"
            /\ InterruptJob(p, TRUE) \/ GiveUp(p, 7) \/ GiveUp(p, 8)
  PROVE  /\ Leaves(p) /\ Released(j)'
         /\ \A k \in Jobs : job[k] = "unused" => job'[k] = "unused"
<1>1. RaiseInterrupt(p) \/ Return(p, 6) \/ Return(p, 7) \/ Return(p, 8) => Leaves(p)
  BY RaiseLeaves, ReturnLeaves DEF Codes
<1>2. Leaves(p)
  BY <1>1 DEF InterruptJob, GiveUp
<1>3. \A works \in BOOLEAN :
        deleteJob(j, works) /\ (IF works THEN UNCHANGED blame ELSE Blame(j))
          => Released(j)' /\ \A k \in Jobs : job[k] = "unused" => job'[k] = "unused"
  BY DeleteReleases
<1>4. TellRM(j) /\ UNCHANGED batchVars /\ ring[j] # "none"
          => Released(j)' /\ \A k \in Jobs : job[k] = "unused" => job'[k] = "unused"
  BY TellReleases
<1>5. CASE InterruptJob(p, FALSE) \/ GiveUp(p, 6)
  BY <1>2, <1>3, <1>5 DEF InterruptJob, GiveUp
<1>6. CASE ring[j] # "none" /\ (InterruptJob(p, TRUE) \/ GiveUp(p, 7) \/ GiveUp(p, 8))
  BY <1>2, <1>4, <1>6 DEF InterruptJob, GiveUp
<1>7. QED BY <1>5, <1>6

(* Until the services are up, the client goes on or gives its job up.      *)
LEMMA CreateSound ==
  ASSUME HodAssumption, IInv, NEW p \in Clients, Typed', Acts,
         \/ CheckJobStatus(p) \/ FindRing(p)
         \/ FindService(p, "hdfs", "mapred", 7) \/ FindService(p, "mapred", "site", 8)
  PROVE  Sound(p)
<1> USE DEF fileVars, ringVars, callVars, pollVars, saveVars, showVars
<1>0. Typed /\ GoneEnded /\ Local(p)
  BY DEF IInv
<1>1. Onward /\ UNCHANGED <<op, dir, request, ran, clusterFiles, interrupted, site, after, jobId>>
  BY <1>0, ActsTyped DEF CheckJobStatus, FindRing, FindService
<1>2. pc[p] \in {"status", "ring", "hdfs", "mapred"}
  BY DEF CheckJobStatus, FindRing, FindService
<1>3. op[p] \in {"allocate", "script"} /\ (op[p] = "script" => ran[p] = "no") /\ opCode[p] = 15
  BY <1>0, <1>2, NotRunYet DEF Local, Places, Creating
<1>4. /\ jobId[p] \in Jobs
      /\ asked[jobId[p]] = Submitted(request[p].nodes, request[p].walltime)
      /\ job[jobId[p]] # "unused"
      /\ pc[p] \in {"hdfs", "mapred"} => ring[jobId[p]] # "none"
  BY <1>0, <1>2 DEF Local, Allocating, Creating
<1>j. PICK j \in Jobs : jobId[p] = j
  BY <1>4
<1>5. ASSUME Leaves(p), Released(j)', \A k \in Jobs : job[k] = "unused" => job'[k] = "unused"
      PROVE  Sound(p)
  <2>1. Local(p)'
    BY <1>1, <1>3, <1>5, LeavesLocal
  <2>2. QED BY <1>1, <1>j, <1>5, <2>1, FilesSound
<1>6. ASSUME pc'[p] \in {"status", "ring", "hdfs", "mapred", "site"}, opCode'[p] = 15, UNCHANGED <<batchVars, ring>>,
             pc'[p] \in {"hdfs", "mapred"} => ring[jobId[p]] # "none"
      PROVE  Sound(p)
  <2>1. Local(p)'
    BY <1>0, <1>1, <1>2, <1>3, <1>4, <1>6 DEF Local, Places, Allocating, Releasing, Updating, Recording, Creating, batchVars
  <2>2. QED BY <1>1, <1>6, <2>1, FilesSound DEF batchVars, Creating
<1>7. CASE CheckJobStatus(p)
  <2>1. CASE InterruptJob(p, FALSE)
    BY <1>0, <1>j, <1>5, <2>1, GivenUp
  <2>2. CASE Goto(p, "ring") /\ UNCHANGED <<batchVars, ring>>
    <3>1. pc'[p] = "ring" /\ opCode'[p] = 15
      BY <1>0, <1>3, <2>2, GotoMoves DEF Pcs
    <3>2. QED BY <1>6, <2>2, <3>1
  <2>3. CASE Return(p, 5) /\ UNCHANGED <<batchVars, ring>> /\ (Blame(j) \/ (UNCHANGED blame /\ "C" \in getJobInfo(j)))
    <3>1. Leaves(p)
      BY <1>0, <2>3, ReturnLeaves DEF Codes
    <3>2. Released(j)'
      <4>1. CASE Blame(j)
        BY <4>1 DEF Blame, Released
      <4>2. CASE "C" \in getJobInfo(j) 
        BY <2>3, <4>2 DEF getJobInfo, Released, Live, batchVars
      <4>3. QED BY <2>3, <4>1, <4>2
    <3>3. QED BY <1>5, <2>3, <3>1, <3>2 DEF batchVars
  <2>4. CASE /\ Return(p, 4) /\ UNCHANGED ring
             /\ \E works \in BOOLEAN : deleteJob(j, works) /\ IF works THEN UNCHANGED blame ELSE Blame(j)
    <3>1. Leaves(p)
      BY <1>0, <2>4, ReturnLeaves DEF Codes
    <3>2. QED BY <1>0, <1>5, <2>4, <3>1, DeleteReleases
  <2>5. CASE UNCHANGED <<batchVars, pc, opCode, ring>>
    BY <1>3, <1>6, <1>7, <2>5 DEF CheckJobStatus
  <2>6. QED BY <1>j, <1>7, <2>1, <2>2, <2>3, <2>4, <2>5 DEF CheckJobStatus
<1>8. CASE FindRing(p)
  <2>1. Goto(p, "hdfs") => pc'[p] = "hdfs" /\ opCode'[p] = 15
    BY <1>0, <1>3, GotoMoves DEF Pcs
  <2>2. InterruptJob(p, FALSE) \/ GiveUp(p, 6) => Sound(p)
    BY <1>0, <1>4, <1>5, <1>j, GivenUp
  <2>3. QED BY <1>6, <1>8, <2>1, <2>2 DEF FindRing
<1>9. CASE FindService(p, "hdfs", "mapred", 7) \/ FindService(p, "mapred", "site", 8)
  <2>1. /\ Goto(p, "mapred") => pc'[p] = "mapred" /\ opCode'[p] = 15
        /\ Goto(p, "site") => pc'[p] = "site" /\ opCode'[p] = 15
    BY <1>0, <1>3, GotoMoves DEF Pcs
  <2>2. pc[p] \in {"hdfs", "mapred"}
    BY <1>9 DEF FindService
  <2>3. InterruptJob(p, TRUE) \/ GiveUp(p, 7) \/ GiveUp(p, 8) => Sound(p)
    BY <1>0, <1>4, <1>5, <2>2, <1>j, GivenUp
  <2>4. QED BY <1>4, <1>6, <1>9, <2>1, <2>2, <2>3 DEF FindService
<1>10. QED BY <1>7, <1>8, <1>9

(* The record of the new cluster is written, or the cluster released.      *)
LEMMA WriteSound ==
  ASSUME HodAssumption, IInv, NEW p \in Clients, Typed', Acts,
         GenSiteConf(p) \/ WriteOpen(p) \/ WriteDump(p) \/ RecordFails(p)
  PROVE  Sound(p)
<1> USE DEF fileVars, ringVars, callVars, pollVars, saveVars, showVars
<1>0. Typed /\ OneFile /\ Filed /\ GoneEnded /\ Local(p) /\ dir[p] \in Dirs
  BY ReadTypes DEF IInv
<1>1. Onward /\ UNCHANGED <<op, dir, request, ran, interrupted, after, jobId>>
  BY <1>0, ActsTyped DEF GenSiteConf, WriteOpen, WriteDump, RecordFails
<1>2. pc[p] \in {"site", "write", "writeDump", "record"} \/ (pc[p] \in {"open", "dump"} /\ after[p] = "recorded")
  BY DEF GenSiteConf, WriteOpen, WriteDump, RecordFails, WritesRecord
<1>3. op[p] \in {"allocate", "script"} /\ (op[p] = "script" => ran[p] = "no") /\ opCode[p] = 15
  BY <1>0, <1>2, NotRunYet DEF Local, Places, Creating, Recording, Updating
<1>4. PICK j \in Jobs : jobId[p] = j
  BY <1>0, <1>2 DEF Local, Allocating, Creating, Recording
<1>5. /\ asked[j] = Submitted(request[p].nodes, request[p].walltime)
      /\ job[j] # "unused"
  BY <1>0, <1>2, <1>4 DEF Local, Allocating, Creating, Recording
<1>6. ASSUME Leaves(p), Released(j)', UNCHANGED clusterFiles, \A k \in Jobs : job[k] = "unused" => job'[k] = "unused"
      PROVE  Sound(p)
  <2>1. Local(p)'
    BY <1>1, <1>3, <1>6, LeavesLocal
  <2>2. QED BY <1>1, <1>4, <1>6, <2>1, FilesSound
<1>7. CASE GenSiteConf(p)
  <2>1. CASE Raise(p) /\ Blame(j)
    <3>1. Leaves(p)
      BY <1>0, <1>3, <2>1, RaiseLeaves
    <3>2. Released(j)'
      BY <2>1 DEF Released, Blame
    <3>3. QED BY <1>6, <1>7, <3>1, <3>2 DEF GenSiteConf, batchVars
  <2>2. CASE site' = [site EXCEPT ![dir[p]] = jobId[p]] /\ Goto(p, "write") /\ UNCHANGED blame
    <3>1. pc'[p] = "write" /\ opCode'[p] = 15 /\ site'[dir[p]] = j
      BY <1>0, <1>3, <1>4, <2>2, GotoMoves DEF Pcs, Typed, TypeOK
    <3>2. Local(p)'
      BY <1>0, <1>1, <1>3, <1>4, <1>5, <3>1, <1>7 DEF GenSiteConf, Local, Places, Allocating, Releasing, Updating, Recording, Creating, batchVars
    <3>3. QED BY <1>1, <1>2, <1>7, <2>2, <3>1, <3>2, QuietSound DEF GenSiteConf, Creating
  <2>3. QED BY <1>4, <1>7, <2>1, <2>2 DEF GenSiteConf
<1>8. CASE WriteOpen(p) \/ WriteDump(p)
  <2>1. UNCHANGED <<batchVars, ring, blame, site>>
    BY <1>8 DEF WriteOpen, WriteDump
  <2>2. \/ /\ WriteOpen(p) /\ pc'[p] = "writeDump" /\ clusterFiles'[dir[p]][j] = "empty"
           /\ \A k \in Jobs : clusterFiles[dir[p]][k] # "none" => k = j
        \/ /\ WriteDump(p) /\ pc'[p] = "record" /\ clusterFiles'[dir[p]][j] = "full"
           /\ clusterFiles[dir[p]][j] = "empty"
    <3>1. CASE WriteOpen(p)
      BY <1>0, <1>4, <3>1, GotoMoves DEF WriteOpen, Pcs, StateFiles, Typed, TypeOK
    <3>2. CASE WriteDump(p)
      <4>1. pc'[p] = "record" /\ clusterFiles[dir[p]][j] = "empty"
        BY <1>0, <1>4, <3>2, GotoMoves DEF WriteDump, Pcs, Local, Allocating
      <4>2. QED BY <1>0, <1>4, <3>2, <4>1 DEF WriteDump, Typed, TypeOK
    <3>3. QED BY <1>8, <3>1, <3>2
  <2>3. /\ \A k \in Jobs \ {j} : clusterFiles'[dir[p]][k] = clusterFiles[dir[p]][k]
        /\ \A d \in Dirs \ {dir[p]} : clusterFiles'[d] = clusterFiles[d]
    BY <1>0, <1>4, <1>8 DEF WriteOpen, WriteDump, Typed, TypeOK
  <2>4. OneFile'
    BY <1>0, <2>2, <2>3 DEF OneFile
  <2>5. Filed'
    BY <1>0, <1>4, <1>5, <2>1, <2>3 DEF Filed, batchVars
  <2>6. \A k \in Jobs \ {j} : Recorded(k) => Recorded(k)'
    BY <2>3 DEF Recorded
  <2>7. opCode'[p] = 15 /\ site[dir[p]] = j
    <3>1. opCode' = opCode
      BY <1>8 DEF WriteOpen, WriteDump, Goto
    <3>2. pc[p] \in {"write", "writeDump"}
      BY <1>8 DEF WriteOpen, WriteDump
    <3>3. QED BY <1>0, <1>3, <1>4, <3>1, <3>2 DEF Local, Allocating
  <2>8. Local(p)'
    BY <1>0, <1>1, <1>3, <1>4, <1>5, <2>1, <2>2, <2>7 DEF Local, Places, Allocating, Releasing, Updating, Recording, Creating, batchVars
  <2>9. Recorded(j)' \/ pc'[p] \in Creating
    BY <1>0, <2>2 DEF Recorded, Creating
  <2>10. QED BY <1>1, <1>4, <2>1, <2>4, <2>5, <2>6, <2>8, <2>9 DEF Sound, batchVars
<1>9. CASE RecordFails(p)
  <2>1. pc'[p] = Handler(p) /\ opCode'[p] \in {1, 127}
    BY <1>0, <1>9 DEF RecordFails, Typed, TypeOK
  <2>2. Leaves(p)
    BY <2>1 DEF Leaves, Handler, InScript
  <2>3. Released(j)' /\ \A k \in Jobs : job[k] = "unused" => job'[k] = "unused"
    <3>1. CASE RingAlive(j) /\ UNCHANGED batchVars /\ TellRM(j)
      BY <1>0, <3>1, TellReleases DEF RingAlive
    <3>2. CASE UNCHANGED batchVars /\ Blame(j)
      BY <3>2 DEF Blame, Released, batchVars
    <3>3. CASE \E works \in BOOLEAN : deleteJob(j, works) /\ IF works THEN UNCHANGED blame ELSE Blame(j)
      BY <1>0, <3>3, DeleteReleases
    <3>4. QED BY <1>4, <1>9, <3>1, <3>2, <3>3 DEF RecordFails
  <2>4. QED BY <1>6, <1>9, <2>2, <2>3 DEF RecordFails
<1>10. QED BY <1>7, <1>8, <1>9

(* The user's list is read and written, and the operation ends.            *)
LEMMA RecordSound ==
  ASSUME HodAssumption, IInv, NEW p \in Clients, Typed',
         RecordRead(p) \/ RemoveRead(p) \/ UserOpen(p) \/ UserDump(p) \/ End(p)
  PROVE  Sound(p)
<1> USE DEF fileVars, batchVars, ringVars, callVars, pollVars, saveVars, showVars
<1>0. Typed /\ Local(p)
  BY DEF IInv
<1>1. Onward /\ UNCHANGED <<op, dir, request, jobId, ran, batchVars, ring, clusterFiles, blame, interrupted, site>>
  BY <1>0 DEF RecordRead, RemoveRead, UserOpen, UserDump, End, Onward, Live
<1>2. pc[p] \in {"record", "remove", "open", "dump", "recorded", "removed", "invalid"}
  BY DEF RecordRead, RemoveRead, UserOpen, UserDump, End
<1>3. Local(p)'
  <2>1. CASE RecordRead(p)
    <3>1. pc'[p] = "open" /\ opCode' = opCode /\ after'[p] = "recorded" /\ pc[p] = "record"
      BY <1>0, <2>1, GotoMoves DEF RecordRead, Pcs, Typed
    <3>2. op[p] \in {"allocate", "script"} /\ (op[p] = "script" => ran[p] = "no")
      BY <1>0, <3>1, NotRunYet
    <3>3. QED BY <1>0, <1>1, <3>1, <3>2 DEF Local, Places, Allocating, Releasing, Updating, Recording, Creating, Released, Live
  <2>2. CASE RemoveRead(p)
    <3>1. pc'[p] \in {after[p], "open"} /\ opCode' = opCode /\ after' = after /\ pc[p] = "remove"
      BY <1>0, <2>2, GotoMoves, ReadTypes DEF RemoveRead, Pcs
    <3>2. after[p] \in {"clearDead", "removed", "invalid"}
      BY <1>0, <3>1 DEF Local, Places, Updating
    <3>3. QED BY <1>0, <1>1, <3>1, <3>2 DEF Local, Places, Allocating, Releasing, Updating, Recording, Creating, Released, Live
  <2>3. CASE UserOpen(p)
    <3>1. pc'[p] = "dump" /\ opCode' = opCode /\ after' = after /\ pc[p] = "open"
      BY <1>0, <2>3, GotoMoves DEF UserOpen, Pcs
    <3>2. QED BY <1>0, <1>1, <3>1 DEF Local, Places, Allocating, Releasing, Updating, Recording, Creating, Released, Live
  <2>4. CASE UserDump(p)
    <3>1. pc'[p] = after[p] /\ opCode' = opCode /\ after' = after /\ pc[p] = "dump"
      BY <1>0, <2>4, GotoMoves, ReadTypes DEF UserDump, Pcs
    <3>2. after[p] \in {"clearDead", "recorded", "removed", "invalid"}
      BY <1>0, <3>1 DEF Local, Places, Updating
    <3>3. QED BY <1>0, <1>1, <3>1, <3>2 DEF Local, Places, Allocating, Releasing, Updating, Recording, Creating, Released, Live
  <2>5. CASE End(p)
    <3>1. \/ /\ pc[p] = "recorded" /\ opCode'[p] = 0
             /\ pc'[p] = IF op[p] # "script" THEN "done" ELSE "script"
          \/ /\ pc[p] \in {"removed", "invalid"}
             /\ pc'[p] = IF op[p] # "script" THEN "done" ELSE "exit"
      BY <1>0, <2>5 DEF End, InScript, Typed, TypeOK
    <3>2. after' = after
      BY <2>5 DEF End
    <3>3. CASE pc[p] = "recorded"
      <4>1. op[p] \in {"allocate", "script"} /\ (op[p] = "script" => ran[p] = "no")
        BY <1>0, <3>3, NotRunYet
      <4>2. QED BY <1>0, <1>1, <3>1, <3>2, <3>3, <4>1 DEF Local, Places, Allocating, Releasing, Updating, Recording, Creating, Released, Live
    <3>4. CASE pc[p] \in {"removed", "invalid"}
      BY <1>0, <1>1, <3>1, <3>2, <3>4 DEF Local, Places, Allocating, Releasing, Updating, Recording, Creating, Released, Live
    <3>5. QED BY <3>1, <3>3, <3>4
  <2>6. QED BY <2>1, <2>2, <2>3, <2>4, <2>5
<1>4. QED BY <1>1, <1>2, <1>3, QuietSound DEF Creating

(* The script, and the way to its deallocation.                            *)
LEMMA ScriptSound ==
  ASSUME HodAssumption, IInv, NEW p \in Clients, Typed',
         RunScript(p) \/ ScriptEnd(p) \/ ScriptExit(p)
  PROVE  Sound(p)
<1> USE DEF fileVars, batchVars, ringVars, callVars, pollVars, saveVars, showVars
<1>0. Typed /\ OneFile /\ Local(p) /\ dir[p] \in Dirs
  BY ReadTypes DEF IInv
<1>1. Onward /\ UNCHANGED <<op, dir, request, jobId, batchVars, ring, clusterFiles, blame, site>>
  BY <1>0 DEF RunScript, ScriptEnd, ScriptExit, Onward, Live
<1>2. pc[p] \in {"script", "scriptEnd", "exit"} /\ op[p] = "script"
  BY <1>0 DEF RunScript, ScriptEnd, ScriptExit, Local, Places
<1>3. Local(p)'
  <2>1. CASE RunScript(p)
    <3>1. pc'[p] = "scriptEnd" /\ pc[p] = "script" /\ UNCHANGED <<after, interrupted>>
      BY <1>0, <2>1 DEF RunScript, Typed
    <3>2. ran' = ran \/ opCode[p] = 0
      BY <2>1 DEF RunScript
    <3>3. QED BY <1>0, <1>1, <1>2, <3>1, <3>2 DEF Local, Places, Allocating, Releasing, Updating, Recording, Creating
  <2>2. CASE ScriptEnd(p)
    <3>1. pc[p] = "scriptEnd" /\ after'[p] = "removed" /\ ran' = ran
          /\ pc'[p] = IF readCluster(dir[p]) = NoJob THEN "exit" ELSE "deallocate"
      BY <1>0, <2>2, GotoMoves DEF ScriptEnd, Typed, Pcs
    <3>2. ran[p] # "no" => readCluster(dir[p]) # NoJob
      BY <1>0, <1>2, <3>1, ReadsTheFile DEF HodAssumption, Local, Releasing
    <3>3. QED BY <1>0, <1>1, <1>2, <3>1, <3>2 DEF Local, Places, Allocating, Releasing, Updating, Recording, Creating
  <2>3. CASE ScriptExit(p)
    <3>1. pc[p] = "exit" /\ pc'[p] = "done" /\ UNCHANGED <<after, ran, interrupted>>
      BY <1>0, <2>3 DEF ScriptExit, Typed
    <3>2. QED BY <1>0, <1>1, <1>2, <3>1 DEF Local, Places, Allocating, Releasing, Updating, Recording, Creating, Released, Live
  <2>4. QED BY <2>1, <2>2, <2>3
<1>4. QED BY <1>1, <1>2, <1>3, QuietSound DEF Creating

(* What is deallocated was told to end before its files are cleared.       *)
LEMMA DeallocateSound ==
  ASSUME HodAssumption, IInv, NEW p \in Clients, Typed', Acts, Deallocate(p)
  PROVE  Sound(p)
<1> USE DEF fileVars, ringVars, callVars, pollVars, saveVars, showVars
<1>0. Typed /\ OneFile /\ Filed /\ GoneEnded /\ Local(p) /\ dir[p] \in Dirs
  BY ReadTypes DEF IInv
<1>1. /\ Onward
      /\ UNCHANGED <<op, dir, request, ran, interrupted, clusterFiles, site>>
  BY <1>0, ActsTyped DEF Deallocate
<1>j. PICK j \in Jobs \cup {NoJob} : j = readCluster(dir[p])
  BY <1>0, ReadsTheFile
<1>2. /\ \A k \in Jobs : clusterFiles[dir[p]][k] = "full" <=> j = k
      /\ \A k \in Jobs : j \in Jobs /\ clusterFiles[dir[p]][k] # "none" => k = j
  BY <1>0, <1>j, ReadsTheFile
<1>3. /\ pc[p] = "deallocate" /\ op[p] \in {"deallocate", "script"} /\ pc[p] \notin Creating
      /\ op[p] = "script" /\ ran[p] # "no" =>
           jobId[p] = j /\ j \in Jobs /\ after[p] = "removed"
  BY <1>0, <1>2 DEF Deallocate, Local, Places, Releasing, Creating
<1>4. NoJob \notin Jobs
  BY DEF HodAssumption
<1>5. CASE j = NoJob /\ InvalidDirectory(p, TRUE)
  <2>1. jobId' = jobId /\ (op[p] = "script" => ran[p] = "no")
    BY <1>3, <1>4, <1>5 DEF InvalidDirectory
  <2>2. \A k \in Jobs : job[k] = "unused" => job'[k] = "unused"
    <3>1. readUser[dir[p]] \in Jobs \cup {NoJob}
      BY <1>0, ReadTypes
    <3>2. CASE UNCHANGED batchVars
      BY <3>2 DEF batchVars
    <3>3. CASE readUser[dir[p]] # NoJob /\ ~UNCHANGED batchVars
      <4>1. PICK works \in BOOLEAN : /\ deleteJob(readUser[dir[p]], works)
                                     /\ IF works THEN UNCHANGED blame ELSE Blame(readUser[dir[p]])
        BY <1>5, <3>3 DEF InvalidDirectory
      <4>2. QED BY <1>0, <3>1, <3>3, <4>1, DeleteReleases
    <3>4. QED BY <1>5, <3>2, <3>3 DEF InvalidDirectory
  <2>3. \/ \E code \in {1, 3, 15} : Return(p, code)
        \/ Goto(p, "remove") /\ after'[p] = "invalid"
    <3>1. CASE Goto(p, "remove") /\ after' = [after EXCEPT ![p] = "invalid"]
      BY <1>0, <3>1 DEF Typed
    <3>2. QED BY <1>5, <3>1 DEF InvalidDirectory
  <2>4. Local(p)'
    <3>1. ASSUME NEW code \in {1, 3, 15}, Return(p, code) PROVE Local(p)'
      <4>1. Leaves(p)
        BY <1>0, <3>1, ReturnLeaves DEF Codes
      <4>2. QED BY <1>1, <2>1, <4>1, LeavesLocal
    <3>2. CASE Goto(p, "remove") /\ after'[p] = "invalid"
      <4>1. pc'[p] = "remove"
        BY <1>0, <3>2, GotoMoves DEF Pcs
      <4>2. QED BY <1>0, <1>1, <1>3, <2>1, <3>2, <4>1 DEF Local, Places, Allocating, Releasing, Updating, Recording, Creating, Onward
    <3>3. QED BY <2>3, <3>1, <3>2
  <2>5. QED BY <1>1, <1>3, <2>2, <2>4, FilesSound
<1>6. CASE j # NoJob /\ jobId' = [jobId EXCEPT ![p] = j] /\ after' = after
  <2>1. j \in Jobs /\ jobId'[p] = j /\ job[j] # "unused" /\ clusterFiles[dir[p]][j] = "full"
    BY <1>0, <1>2, <1>6 DEF Typed, TypeOK, Filed
  <2>2. job'[j] # "unused"
    BY <1>1, <2>1 DEF Onward
  <2>3. CASE RaiseInterrupt(p) /\ interrupted[p] /\ UNCHANGED <<batchVars, ring, blame>>
    <3>1. pc'[p] = (IF op[p] = "script" THEN "exit" ELSE "done") /\ opCode'[p] = 127
      BY <1>0, <2>3, RaiseMoves DEF Handler, InScript
    <3>2. Local(p)'
      BY <1>0, <1>1, <1>3, <1>6, <2>1, <2>2, <2>3, <3>1 DEF Local, Places, Allocating, Releasing, Updating, Recording, Creating
    <3>3. QED BY <1>1, <1>3, <2>3, <3>2, FilesSound DEF batchVars
  <2>4. ASSUME NEW works \in BOOLEAN,
               opCode' = [opCode EXCEPT ![p] = IF RingAlive(j) THEN 0 ELSE 10],
               pc' = [pc EXCEPT ![p] = "clear"],
               IF ~RingAlive(j) THEN deleteJob(j, works) /\ UNCHANGED ring
               ELSE UNCHANGED batchVars /\ IF works THEN stopRM(j) ELSE UNCHANGED ring,
               IF works THEN UNCHANGED blame ELSE Blame(j)
        PROVE  Sound(p)
    <3>1. Released(j)' /\ \A k \in Jobs : job[k] = "unused" => job'[k] = "unused"
      <4>1. CASE ~RingAlive(j)
        BY <1>0, <2>1, <2>4, <4>1, DeleteReleases
      <4>2. CASE RingAlive(j) /\ works
        BY <1>0, <2>1, <2>4, <4>2, StopReleases DEF RingAlive
      <4>3. CASE RingAlive(j) /\ ~works
        BY <1>0, <2>1, <2>4, <4>3 DEF Released, Blame, batchVars
      <4>4. QED BY <4>1, <4>2, <4>3
    <3>2. pc'[p] = "clear"
      BY <1>0, <2>4 DEF Typed
    <3>3. Releasing(p)'
      <4>1. \A k \in Jobs : clusterFiles'[dir'[p]][k] # "none" => k = j
        BY <1>1, <1>2, <2>1
      <4>2. Released(jobId[p])'
        BY <2>1, <3>1 DEF Released, Live
      <4>3. QED BY <1>1, <1>3, <1>6, <2>1, <3>2, <4>1, <4>2 DEF Releasing, Updating
    <3>4. Places(p)' /\ Allocating(p)'
      BY <1>1, <1>3, <3>2 DEF Places, Allocating, Updating, Recording, Creating
    <3>5. Local(p)'
      BY <2>1, <2>2, <3>3, <3>4 DEF Local
    <3>6. QED BY <1>1, <1>3, <3>1, <3>5, FilesSound
  <2>5. QED BY <1>6, <1>j, <2>3, <2>4 DEF Deallocate
<1>7. QED BY <1>j, <1>5, <1>6 DEF Deallocate

LEMMA ShowSound ==
  ASSUME HodAssumption, IInv, NEW p \in Clients, Typed', Info(p) \/ List(p)
  PROVE  Sound(p)
<1> USE DEF fileVars, batchVars, ringVars, callVars, pollVars, saveVars, showVars
<1>0. Typed /\ Local(p) /\ opCode[p] \in Codes
  BY ReadTypes DEF IInv
<1>1. /\ pc[p] \in {"info", "list"} /\ op[p] \in {"info", "list"}
      /\ UNCHANGED <<op, dir, request, jobId, ran, interrupted, batchVars, ring, clusterFiles, blame, site>>
  BY <1>0 DEF Info, List, InvalidDirectory, Local, Places
<1>2. \E code \in Codes : Return(p, code)
  <2>1. CASE List(p)
    BY <1>0, <2>1 DEF List
  <2>2. CASE Info(p)
    BY <1>0, <2>2, CodesOfCluster DEF Info, InvalidDirectory, Codes
  <2>3. QED BY <2>1, <2>2
<1>3. Leaves(p)
  BY <1>0, <1>1, <1>2, ReturnLeaves
<1>4. Onward
  BY <1>0, <1>1 DEF Onward, Live
<1>5. Local(p)'
  BY <1>1, <1>3, <1>4, LeavesLocal
<1>6. QED BY <1>1, <1>5, QuietSound DEF Creating

(* The signal, the kill and the start.                                     *)
LEMMA MishapSound ==
  ASSUME HodAssumption, IInv, NEW p \in Clients, Typed', Acts, Interrupt(p) \/ Crash(p)
  PROVE  Sound(p)
<1> USE DEF fileVars, batchVars, ringVars, callVars, pollVars, saveVars, showVars
<1>0. Typed /\ Local(p) /\ pc[p] \in Pcs
  BY ReadTypes DEF IInv
<1>1. /\ UNCHANGED <<op, dir, request, jobId, ran, after, opCode, batchVars, ring, clusterFiles, site>>
      /\ pc[p] # "done"
  BY DEF Interrupt, Crash, Running
<1>2. Onward
  BY <1>0, ActsTyped
<1>3. CASE Interrupt(p)
  <2>1. interrupted'[p] /\ UNCHANGED <<pc, blame>>
    BY <1>0, <1>3 DEF Interrupt, Typed
  <2>2. Local(p)'
    BY <1>0, <1>1, <2>1 DEF Local, Places, Allocating, Releasing, Updating, Recording, Creating, Released, Live
  <2>3. QED BY <1>1, <2>1, <2>2, QuietSound
<1>4. CASE Crash(p)
  <2>1. pc'[p] = "crashed" /\ Blame(jobId[p])
    BY <1>0, <1>4 DEF Crash, Typed
  <2>2. Local(p)'
    BY <1>0, <1>1, <2>1 DEF Local, Places, Allocating, Releasing, Updating, Recording, Creating
  <2>3. \A j \in Jobs : jobId[p] = j => Released(j)'
    BY <2>1 DEF Blame, Released
  <2>4. QED BY <1>1, <1>2, <2>2, <2>3, FilesSound
<1>5. QED BY <1>3, <1>4

LEMMA StartSound ==
  ASSUME HodAssumption, IInv, NEW p \in Clients, Typed', NEW o \in Ops, NEW d \in Dirs,
         NEW r \in Requests, Start(p, o, d, r)
  PROVE  Sound(p) /\ pc[p] = "done" /\ dir'[p] \in DirsOf[p]
<1> USE DEF fileVars, batchVars, ringVars, callVars, pollVars, saveVars, showVars
<1>0. Typed /\ NoJob \notin Jobs /\ Ops \subseteq {"allocate", "deallocate", "info", "list", "script"}
  BY DEF IInv, HodAssumption
<1>1. /\ pc[p] = "done" /\ dir'[p] = d /\ d \in DirsOf[p]
      /\ op'[p] = o /\ request'[p] = r /\ jobId'[p] = NoJob /\ ran'[p] = "no"
      /\ after'[p] \in {"script", "done"}
      /\ UNCHANGED <<batchVars, ring, blame, clusterFiles>>
  BY <1>0 DEF Start, Typed, TypeOK
<1>2. \/ pc'[p] = "done" /\ opCode'[p] # 0
      \/ pc'[p] = "allocate" /\ o = "script"
      \/ pc'[p] = o /\ o # "script"
  BY <1>0 DEF Start, Typed, TypeOK
<1>3. Local(p)'
  BY <1>0, <1>1, <1>2 DEF Local, Places, Allocating, Releasing, Updating, Recording, Creating
<1>4. Sound(p)
  BY <1>1, <1>3, QuietSound DEF Creating
<1>5. QED BY <1>1, <1>4

-----------------------------------------------------------------------------
(* The invariant                                                           *)

LEMMA ActsGone == ASSUME Typed, GoneEnded, Acts PROVE GoneEnded'
BY DEF Typed, TypeOK, GoneEnded, Acts, Deletes, Submits, Stops, Live, batchVars

(* No job is forgotten by a step of one client.                            *)
LEMMA KnownKept ==
  ASSUME Typed, Known, Onward, NEW p \in Clients, Sound(p),
         \A q \in Clients \ {p} : pc'[q] = pc[q] /\ jobId'[q] = jobId[q]
  PROVE  Known'
<1>1. ASSUME NEW j \in Jobs, job'[j] # "unused"
      PROVE  \/ \E q \in Clients : pc'[q] \in Creating /\ jobId'[q] = j
             \/ Recorded(j)' \/ Released(j)'
  <2>1. CASE job[j] = "unused"
    BY <1>1, <2>1 DEF Sound
  <2>2. CASE job[j] # "unused" /\ Released(j)
    BY <2>2 DEF Onward, Released
  <2>3. ASSUME NEW q \in Clients, pc[q] \in Creating, jobId[q] = j
        PROVE  \/ \E r \in Clients : pc'[r] \in Creating /\ jobId'[r] = j
               \/ Recorded(j)' \/ Released(j)'
    BY <2>3 DEF Sound
  <2>4. CASE Recorded(j)
    BY <2>4 DEF Sound
  <2>5. QED BY <2>1, <2>2, <2>3, <2>4 DEF Known
<1>2. \A j \in Jobs : job'[j] = "unused" => Released(j)'
  BY DEF Released, Live
<1>3. QED BY <1>1, <1>2 DEF Known

LEMMA StepSound ==
  ASSUME HodAssumption, IInv, NEW p \in Clients, Step(p), UNCHANGED mishaps
  PROVE  Typed' /\ Acts /\ Alone(p) /\ Sound(p)
<1>1. Typed' /\ Acts /\ Alone(p)
  BY StepTyped DEF IInv
<1>2. CASE \/ Allocate(p) \/ AllocateListed(p) \/ ClearDead(p) \/ VerifyAccount(p)
           \/ Submit(p) \/ ClearState(p)
  BY <1>1, <1>2, AllocateSound, ClearSound, SubmitSound
<1>3. CASE \/ CheckJobStatus(p) \/ FindRing(p)
           \/ FindService(p, "hdfs", "mapred", 7) \/ FindService(p, "mapred", "site", 8)
  BY <1>1, <1>3, CreateSound
<1>4. CASE GenSiteConf(p) \/ WriteOpen(p) \/ WriteDump(p) \/ RecordFails(p)
  BY <1>1, <1>4, WriteSound
<1>5. CASE RecordRead(p) \/ RemoveRead(p) \/ UserOpen(p) \/ UserDump(p) \/ End(p)
  BY <1>1, <1>5, RecordSound
<1>6. CASE Deallocate(p) \/ Info(p) \/ List(p)
  BY <1>1, <1>6, DeallocateSound, ShowSound
<1>7. CASE RunScript(p) \/ ScriptEnd(p) \/ ScriptExit(p)
  BY <1>1, <1>7, ScriptSound
<1>8. QED BY <1>1, <1>2, <1>3, <1>4, <1>5, <1>6, <1>7 DEF Step

(* Only "dump" leaves the user's list empty, and its next step fills it.   *)
LEMMA StepFile ==
  ASSUME Typed, NEW p \in Clients, Step(p)
  PROVE  /\ pc[p] # "done" /\ UNCHANGED callVars
         /\ \/ userFile' = userFile /\ pc[p] \notin {"dump", "crashed"}
            \/ userFile' # "empty"
            \/ pc'[p] = "dump"
<1> USE DEF fileVars, callVars
<1>1. CASE UserOpen(p)
  BY <1>1, GotoMoves DEF UserOpen, Pcs
<1>2. CASE UserDump(p)
  BY <1>2 DEF UserDump
<1>3. CASE \/ Allocate(p) \/ AllocateListed(p) \/ ClearDead(p) \/ VerifyAccount(p)
           \/ Submit(p) \/ CheckJobStatus(p) \/ FindRing(p)
           \/ FindService(p, "hdfs", "mapred", 7) \/ FindService(p, "mapred", "site", 8)
  BY <1>3 DEF Allocate, AllocateListed, ClearDead, VerifyAccount, Submit, CheckJobStatus, FindRing, FindService
<1>a. CASE RecordFails(p)
  BY <1>a DEF RecordFails, WritesRecord
<1>4. CASE \/ GenSiteConf(p) \/ WriteOpen(p) \/ WriteDump(p)
           \/ RecordRead(p) \/ RemoveRead(p) \/ End(p)
  BY <1>4 DEF GenSiteConf, WriteOpen, WriteDump, RecordRead, RemoveRead, End
<1>5. CASE \/ Deallocate(p) \/ ClearState(p) \/ Info(p) \/ List(p)
           \/ RunScript(p) \/ ScriptEnd(p) \/ ScriptExit(p)
  BY <1>5 DEF Deallocate, ClearState, Info, List, RunScript, ScriptEnd, ScriptExit
<1>6. QED BY <1>1, <1>2, <1>3, <1>a, <1>4, <1>5 DEF Step

(* What a client does is sound for the others too.                         *)
LEMMA ClientKeeps ==
  ASSUME HodAssumption, IInv, NEW p \in Clients, Typed', Acts, Sound(p), Mine', UserFileRestored',
         \A q \in Clients \ {p} : Kept(q)
  PROVE  IInv'
<1>0. Typed /\ Filed /\ GoneEnded /\ Known /\ Onward /\ \A q \in Clients : Local(q)
  BY ActsTyped DEF IInv
<1>1. GoneEnded'
  BY <1>0, ActsGone
<1>2. Known'
  BY <1>0, KnownKept DEF Kept
<1>3. ASSUME NEW q \in Clients PROVE Local(q)'
  <2>1. CASE q = p
    BY <2>1 DEF Sound
  <2>2. CASE q # p
    BY <1>0, <2>2, KeptLocal
  <2>3. QED BY <2>1, <2>2
<1>4. QED BY <1>1, <1>2, <1>3 DEF IInv, Sound

LEMMA StepKeeps ==
  ASSUME HodAssumption, IInv, NEW p \in Clients, Step(p), UNCHANGED mishaps
  PROVE  IInv'
<1>0. Typed /\ Mine /\ UserFileRestored
  BY DEF IInv
<1>1. Typed' /\ Acts /\ Alone(p) /\ Sound(p)
  BY StepSound
<1>2. /\ pc[p] # "done" /\ UNCHANGED <<op, dir>>
      /\ \/ userFile' = userFile /\ pc[p] \notin {"dump", "crashed"}
         \/ userFile' # "empty"
         \/ pc'[p] = "dump"
  BY <1>0, StepFile DEF callVars
<1>3. dir[p] \in DirsOf[p]
  BY <1>0, <1>2 DEF Mine
<1>4. Mine'
  BY <1>0, <1>1, <1>2, <1>3 DEF Mine, Alone
<1>5. UserFileRestored'
  BY <1>0, <1>1, <1>2 DEF UserFileRestored, Alone
<1>6. \A q \in Clients \ {p} : Kept(q)
  BY <1>0, <1>1, <1>3, AloneKeeps
<1>7. QED BY <1>1, <1>4, <1>5, <1>6, ClientKeeps

LEMMA MishapKeeps ==
  ASSUME HodAssumption, IInv, NEW p \in Clients, Interrupt(p) \/ Crash(p)
  PROVE  IInv'
<1>0. Typed /\ Mine /\ UserFileRestored
  BY DEF IInv
<1>1. Typed' /\ Acts /\ Alone(p)
  BY <1>0, MishapTyped
<1>2. Sound(p)
  BY <1>1, MishapSound
<1>3. /\ UNCHANGED <<op, dir, userFile>> /\ pc[p] # "done"
      /\ pc'[p] \in {pc[p], "crashed"}
  BY <1>0 DEF Interrupt, Crash, Running, fileVars, callVars, Typed
<1>4. dir[p] \in DirsOf[p]
  BY <1>0, <1>3 DEF Mine
<1>5. Mine'
  BY <1>0, <1>1, <1>3, <1>4 DEF Mine, Alone
<1>6. UserFileRestored'
  BY <1>0, <1>1, <1>3 DEF UserFileRestored, Alone
<1>7. \A q \in Clients \ {p} : Kept(q)
  BY <1>0, <1>1, <1>4, AloneKeeps
<1>8. QED BY <1>1, <1>2, <1>5, <1>6, <1>7, ClientKeeps

LEMMA StartKeeps ==
  ASSUME HodAssumption, IInv, NEW p \in Clients, NEW o \in Ops, NEW d \in Dirs, NEW r \in Requests,
         Start(p, o, d, r)
  PROVE  IInv'
<1>0. Typed /\ Mine /\ UserFileRestored
  BY DEF IInv
<1>1. Typed' /\ Acts /\ Alone(p)
  BY <1>0, StartTyped
<1>2. Sound(p) /\ pc[p] = "done" /\ dir'[p] \in DirsOf[p]
  BY <1>1, StartSound
<1>3. UNCHANGED <<clusterFiles, site, userFile>>
  BY DEF Start, fileVars
<1>4. Mine'
  BY <1>0, <1>1, <1>2 DEF Mine, Alone
<1>5. UserFileRestored'
  BY <1>0, <1>1, <1>2, <1>3 DEF UserFileRestored, Alone
<1>6. \A q \in Clients \ {p} : Kept(q)
  BY <1>1, <1>3 DEF Kept, Alone
<1>7. QED BY <1>1, <1>2, <1>4, <1>5, <1>6, ClientKeeps

LEMMA WorldKeeps ==
  ASSUME HodAssumption, IInv, NEW j \in Jobs, World(j) \/ Misfortune(j)
  PROVE  IInv'
<1>0. /\ Typed /\ Mine /\ OneFile /\ Filed /\ GoneEnded /\ Known /\ UserFileRestored
      /\ \A p \in Clients : Local(p)
  BY DEF IInv
<1>1. /\ Typed' /\ Onward /\ GoneEnded'
      /\ \A k \in Jobs : Live(k)' => Live(k)
      /\ UNCHANGED <<clusterFiles, site, userFile, op, dir, request, jobId, after, ran, blame,
                     pc, opCode, interrupted>>
  BY <1>0, WorldTyped DEF fileVars, callVars, pollVars, saveVars, showVars
<1>2. \A p \in Clients : Local(p)'
  BY <1>0, <1>1, KeptLocal DEF Kept
<1>3. Mine' /\ OneFile' /\ Filed' /\ UserFileRestored'
  BY <1>0, <1>1 DEF Mine, OneFile, Filed, UserFileRestored, Onward
<1>4. ASSUME NEW k \in Jobs
      PROVE  \/ \E p \in Clients : pc'[p] \in Creating /\ jobId'[p] = k
             \/ Recorded(k)' \/ Released(k)'
  <2>1. CASE Released(k)
    BY <1>1, <2>1 DEF Released, Onward
  <2>2. CASE Recorded(k) \/ \E p \in Clients : pc[p] \in Creating /\ jobId[p] = k
    BY <1>1, <2>2 DEF Recorded
  <2>3. QED BY <1>0, <2>1, <2>2 DEF Known
<1>5. Known'
  BY <1>4 DEF Known
<1>6. QED BY <1>1, <1>2, <1>3, <1>5 DEF IInv

(* Every step keeps the invariant.  (Next)                                 *)
LEMMA NextIInv == ASSUME HodAssumption, IInv, [Next]_vars PROVE IInv'
<1>1. CASE \E p \in Clients : (Step(p) /\ UNCHANGED mishaps) \/ Interrupt(p) \/ Crash(p)
  BY <1>1, StepKeeps, MishapKeeps
<1>2. CASE \E p \in Clients, o \in Ops, d \in Dirs, r \in Requests : Start(p, o, d, r)
  BY <1>2, StartKeeps
<1>3. CASE \E j \in Jobs : World(j) \/ Misfortune(j)
  BY <1>3, WorldKeeps
<1>4. CASE UNCHANGED vars
  BY <1>4 DEF vars, fileVars, batchVars, ringVars, callVars, pollVars, saveVars, showVars, IInv,
     Typed, TypeOK, Mine, OneFile, Filed, GoneEnded, Known, Recorded, Released, Live, UserFileRestored,
     Local, Places, Allocating, Releasing, Updating, Recording, Creating
<1>5. QED BY <1>1, <1>2, <1>3, <1>4 DEF Next

-----------------------------------------------------------------------------
(* What a client stops                                                     *)

(* A step of p that ends a job ends one that it allocates or has recorded. *)
Owned(p, j) == j = jobId[p] \/ clusterFiles[dir[p]][j] # "none" \/ userState[dir[p]] = j
Spares(j) == \A k \in Jobs \ {j} : job'[k] = job[k] /\ ring'[k] = ring[k]

LEMMA DeleteSpares ==
  ASSUME HodAssumption, Typed, NEW j \in Jobs \cup {NoJob}, NEW works \in BOOLEAN, deleteJob(j, works),
         UNCHANGED ring
  PROVE  Spares(j)
BY DEF deleteJob, Spares, Typed, TypeOK, batchVars, HodAssumption

LEMMA StopSpares ==
  ASSUME Typed, NEW j \in Jobs \cup {NoJob}, stopRM(j), UNCHANGED batchVars
  PROVE  Spares(j)
BY DEF stopRM, Spares, Typed, TypeOK, batchVars

LEMMA TellSpares ==
  ASSUME Typed, NEW j \in Jobs \cup {NoJob}, TellRM(j), UNCHANGED batchVars
  PROVE  Spares(j)
<1>1. CASE stopRM(j)
  BY <1>1, StopSpares
<1>2. CASE UNCHANGED ring
  BY <1>2 DEF Spares, batchVars
<1>3. QED BY <1>1, <1>2 DEF TellRM

LEMMA InvalidSpares ==
  ASSUME HodAssumption, Typed, NEW p \in Clients, NEW cleanUp \in BOOLEAN, InvalidDirectory(p, cleanUp),
         pc[p] \in {"deallocate", "info"}
  PROVE  /\ pc'[p] # pc[p]
         /\ UNCHANGED <<job, ring>> \/ \E j \in Jobs : Owned(p, j) /\ Spares(j)
<1>1. pc'[p] # pc[p]
  <2>1. CASE Goto(p, "remove")
    BY <2>1, GotoMoves DEF Pcs
  <2>2. CASE Return(p, 1) \/ Return(p, 15) \/ Return(p, 3)
    BY <2>2, ReturnMoves DEF Codes
  <2>3. QED BY <2>1, <2>2 DEF InvalidDirectory
<1>2. CASE UNCHANGED batchVars
  BY <1>1, <1>2 DEF InvalidDirectory, batchVars
<1>3. CASE cleanUp /\ CanAccess({"R"}) /\ readUser[dir[p]] # NoJob
  <2>1. PICK works \in BOOLEAN : deleteJob(readUser[dir[p]], works)
    BY <1>3 DEF InvalidDirectory
  <2>2. readUser[dir[p]] \in Jobs /\ dir[p] \in Dirs
    BY <1>3, ReadTypes
  <2>3. userState[dir[p]] = readUser[dir[p]]
    BY <1>3, <2>2 DEF readUser, NoEntries
  <2>4. PICK j \in Jobs : j = readUser[dir[p]]
    BY <2>2
  <2>5. Spares(j)
    BY <2>1, <2>4, DeleteSpares DEF InvalidDirectory
  <2>6. QED BY <1>1, <2>3, <2>4, <2>5 DEF Owned
<1>4. QED BY <1>2, <1>3 DEF InvalidDirectory

LEMMA GivesUpOwn ==
  ASSUME HodAssumption, Typed, NEW p \in Clients,
         InterruptJob(p, TRUE) \/ InterruptJob(p, FALSE) \/ \E s \in {6, 7, 8} : GiveUp(p, s)
  PROVE  pc'[p] \in {"done", "exit", "script"} /\ Spares(jobId[p])
<1>1. jobId[p] \in Jobs \cup {NoJob}
  BY ReadTypes
<1>2. pc'[p] \in {"done", "exit", "script"}
  <2>1. CASE RaiseInterrupt(p)
    BY <2>1, RaiseMoves DEF Handler
  <2>2. CASE \E s \in {6, 7, 8} : Return(p, s)
    BY <2>2, ReturnMoves DEF Codes
  <2>3. QED BY <2>1, <2>2 DEF InterruptJob, GiveUp
<1>3. \/ \E works \in BOOLEAN : deleteJob(jobId[p], works) /\ UNCHANGED ring
      \/ TellRM(jobId[p]) /\ UNCHANGED batchVars
  BY DEF InterruptJob, GiveUp
<1>4. QED BY <1>1, <1>2, <1>3, DeleteSpares, TellSpares

LEMMA StepOwned ==
  ASSUME HodAssumption, IInv, NEW p \in Clients, Step(p), UNCHANGED mishaps
  PROVE  \/ \A j \in Jobs : ring'[j] = ring[j] /\ (Live(j) => job'[j] # "C")
         \/ pc'[p] # pc[p] /\ \E j \in Jobs \cup {NoJob} : Owned(p, j) /\ Spares(j)
<1>0. Typed /\ OneFile /\ jobId[p] \in Jobs \cup {NoJob} /\ dir[p] \in Dirs /\ pc[p] \in Pcs
  BY ReadTypes DEF IInv
<1>1. CASE \/ UNCHANGED <<job, ring>>
           \/ UNCHANGED ring /\ \E k \in Jobs : job' = [job EXCEPT ![k] = "Q"] /\ ~Live(k)
  BY <1>0, <1>1 DEF Live, Typed, TypeOK
<1>2. ASSUME pc'[p] \in {"done", "exit", "script"}, pc[p] \notin {"done", "exit", "script"}, Spares(jobId[p])
      PROVE  pc'[p] # pc[p] /\ \E j \in Jobs \cup {NoJob} : Owned(p, j) /\ Spares(j)
  <2>1. PICK j \in Jobs \cup {NoJob} : j = jobId[p]
    BY <1>0
  <2>2. QED BY <1>2, <2>1 DEF Owned
<1>3. CASE \/ Allocate(p) \/ AllocateListed(p) \/ ClearDead(p) \/ VerifyAccount(p)
           \/ GenSiteConf(p) \/ WriteOpen(p) \/ WriteDump(p) \/ List(p)
  BY <1>1, <1>3 DEF Allocate, AllocateListed, ClearDead, VerifyAccount, GenSiteConf, WriteOpen, WriteDump,
     List, batchVars, ringVars
<1>4. CASE \/ RecordRead(p) \/ RemoveRead(p) \/ UserOpen(p) \/ UserDump(p) \/ End(p)
           \/ ClearState(p) \/ RunScript(p) \/ ScriptEnd(p) \/ ScriptExit(p)
  BY <1>1, <1>4 DEF RecordRead, RemoveRead, UserOpen, UserDump, End, ClearState, RunScript, ScriptEnd,
     ScriptExit, batchVars, ringVars
<1>5. CASE Submit(p)
  BY <1>0, <1>1, <1>5 DEF Submit, qsub, batchVars, ringVars, Live
<1>6. CASE CheckJobStatus(p)
  <2>1. CASE InterruptJob(p, FALSE)
    BY <1>0, <1>2, <1>6, <2>1, GivesUpOwn DEF CheckJobStatus
  <2>2. CASE UNCHANGED <<job, ring>>
    BY <1>1, <2>2
  <2>3. CASE Return(p, 4) /\ UNCHANGED ring /\ \E works \in BOOLEAN : deleteJob(jobId[p], works)
    <3>1. pc'[p] \in {"done", "exit", "script"}
      BY <1>0, <2>3, ReturnMoves DEF Codes
    <3>2. QED BY <1>0, <1>2, <1>6, <2>3, <3>1, DeleteSpares DEF CheckJobStatus
  <2>4. QED BY <1>6, <2>1, <2>2, <2>3 DEF CheckJobStatus, batchVars
<1>7. CASE \/ FindRing(p) \/ FindService(p, "hdfs", "mapred", 7) \/ FindService(p, "mapred", "site", 8)
  <2>1. CASE InterruptJob(p, TRUE) \/ InterruptJob(p, FALSE) \/ \E s \in {6, 7, 8} : GiveUp(p, s)
    <3>1. pc[p] \in {"ring", "hdfs", "mapred"}
      BY <1>7 DEF FindRing, FindService
    <3>2. QED BY <1>0, <1>2, <2>1, <3>1, GivesUpOwn
  <2>2. CASE UNCHANGED <<batchVars, ring>>
    BY <1>1, <2>2 DEF batchVars
  <2>3. QED BY <1>7, <2>1, <2>2 DEF FindRing, FindService
<1>8. CASE RecordFails(p)
  <2>1. pc'[p] \in {"done", "exit"} /\ pc[p] \in {"write", "writeDump", "record", "open", "dump"}
    BY <1>0, <1>8 DEF RecordFails, WritesRecord, Handler, Typed
  <2>2. Spares(jobId[p])
    <3>1. UNCHANGED <<batchVars, ring>> => Spares(jobId[p])
      BY DEF Spares, batchVars
    <3>2. QED BY <1>0, <1>8, <3>1, DeleteSpares, TellSpares DEF RecordFails
  <2>3. QED BY <1>2, <2>1, <2>2
<1>9. CASE Info(p)
  BY <1>0, <1>1, <1>9, InvalidSpares DEF Info, batchVars
<1>10. CASE Deallocate(p)
  <2>j. PICK j \in Jobs \cup {NoJob} : j = readCluster(dir[p])
    BY <1>0, ReadsTheFile
  <2>1. CASE j = NoJob /\ InvalidDirectory(p, TRUE)
    BY <1>0, <1>1, <1>10, <2>1, InvalidSpares DEF Deallocate
  <2>2. CASE j # NoJob
    <3>1. j \in Jobs /\ Owned(p, j)
      BY <1>0, <2>j, <2>2, ReadsTheFile DEF Owned
    <3>2. CASE UNCHANGED <<batchVars, ring>>
      BY <1>1, <3>2 DEF batchVars
    <3>3. ASSUME NEW works \in BOOLEAN,
                 pc' = [pc EXCEPT ![p] = "clear"],
                 IF ~RingAlive(j) THEN deleteJob(j, works) /\ UNCHANGED ring
                 ELSE UNCHANGED batchVars /\ IF works THEN stopRM(j) ELSE UNCHANGED ring
          PROVE  pc'[p] # pc[p] /\ Spares(j)
      <4>1. pc'[p] = "clear" /\ pc[p] = "deallocate"
        BY <1>0, <1>10, <3>3 DEF Deallocate, Typed
      <4>2. CASE ~RingAlive(j)
        BY <1>0, <3>3, <4>1, <4>2, DeleteSpares
      <4>3. CASE RingAlive(j) /\ works
        BY <1>0, <3>3, <4>1, <4>3, StopSpares
      <4>4. CASE RingAlive(j) /\ ~works
        BY <3>3, <4>1, <4>4 DEF Spares, batchVars
      <4>5. QED BY <4>2, <4>3, <4>4
    <3>4. QED BY <1>10, <2>j, <2>2, <3>1, <3>2, <3>3 DEF Deallocate
  <2>3. QED BY <1>10, <2>j, <2>1, <2>2 DEF Deallocate
<1>11. QED BY <1>3, <1>4, <1>5, <1>6, <1>7, <1>8, <1>9, <1>10 DEF Step

LEMMA NextOwned == ASSUME HodAssumption, IInv, [Next]_vars PROVE [StopsOnlyItsOwn]_vars
<1>0. Typed /\ NoJob \notin Jobs
  BY DEF IInv, HodAssumption
<1> SUFFICES ASSUME Next, NEW j \in Jobs,
                    \/ ring[j] = "up" /\ ring'[j] = "stopping"
                    \/ Live(j) /\ job'[j] = "C" /\ ring[j] # "stopping" /\ mishaps' = mishaps
             PROVE  \E p \in Clients : pc'[p] # pc[p] /\ Owned(p, j)
  BY DEF StopsOnlyItsOwn, Owned
<1>1. ASSUME NEW p \in Clients, Step(p), UNCHANGED mishaps
      PROVE  pc'[p] # pc[p] /\ Owned(p, j)
  BY <1>0, <1>1, StepOwned DEF Spares, Live
<1>2. CASE \E p \in Clients : Interrupt(p) \/ Crash(p)
  BY <1>0, <1>2 DEF Interrupt, Crash, Live, batchVars, ringVars, Typed
<1>3. CASE \E p \in Clients, o \in Ops, d \in Dirs, r \in Requests : Start(p, o, d, r)
  BY <1>0, <1>3 DEF Start, Live, batchVars, ringVars, Typed
<1>4. ASSUME NEW k \in Jobs, World(k) \/ Misfortune(k)
      PROVE  FALSE
  <2>1. CASE JobRuns(k) /\ UNCHANGED ringVars
    BY <1>0, <2>1 DEF JobRuns, ringVars, Live, Typed, TypeOK
  <2>2. CASE RingUp(k) \/ \E s \in Services : ServiceUp(k, s)
    BY <1>0, <2>2 DEF RingUp, ServiceUp, Live, batchVars, Typed, TypeOK
  <2>3. CASE RingStops(k)
    BY <1>0, <2>3 DEF RingStops, RingAlive, Live, Typed, TypeOK
  <2>4. CASE JobEnds(k) \/ \E s \in Services : ServiceDies(k, s)
    <3>1. mishaps' = mishaps + 1 /\ mishaps \in Nat /\ UNCHANGED ring
      BY <1>0, <2>4 DEF JobEnds, ServiceDies, Mishap, ringVars, Typed
    <3>2. QED BY <3>1
  <2>5. QED BY <1>4, <2>1, <2>2, <2>3, <2>4 DEF World, Misfortune
<1>5. QED BY <1>1, <1>2, <1>3, <1>4 DEF Next

-----------------------------------------------------------------------------
(* The results                                                             *)

LEMMA IInvHolds == ASSUME HodAssumption, IInv
                   PROVE  TypeOK /\ NoOrphan /\ UserFileRestored /\ ZeroMeansCluster /\ ScriptReleases
<1>1. TypeOK /\ UserFileRestored
  BY DEF IInv, Typed
<1>2. NoOrphan
  BY DEF IInv, Known, NoOrphan, Creating, Running, Released
<1>3. ScriptReleases
  BY DEF IInv, Local, Releasing, ScriptReleases, Released
<1>4. ASSUME NEW p \in Clients,
             pc[p] = "done", op[p] = "allocate", opCode[p] = 0, ~request[p].range
      PROVE  /\ jobId[p] # NoJob
             /\ site[dir[p]] = jobId[p]
             /\ clusterFiles[dir[p]][jobId[p]] = "full"
             /\ asked[jobId[p]]["l"]["nodes"] = request[p].nodes
             /\ request[p].walltime # 0 => asked[jobId[p]]["l"]["walltime"] = request[p].walltime
  <2>1. /\ jobId[p] \in Jobs
        /\ asked[jobId[p]] = Submitted(request[p].nodes, request[p].walltime)
        /\ site[dir[p]] = jobId[p]
        /\ clusterFiles[dir[p]][jobId[p]] = "full"
    BY <1>4 DEF IInv, Local, Allocating
  <2>2. QED BY <2>1, SubmittedAsAsked DEF HodAssumption
<1>5. QED BY <1>1, <1>2, <1>3, <1>4 DEF ZeroMeansCluster

(* A client, whatever the others, the batch system and the daemons do,     *)
(* keeps the invariant: its directory holds the cluster it speaks of.      *)
(* (hodRunner, hadoopCluster)                                              *)
THEOREM Invariance == ASSUME HodAssumption PROVE Spec => []IInv
<1>1. Init => IInv
  BY InitIInv
<1>2. IInv /\ [Next]_vars => IInv'
  BY NextIInv
<1>3. QED BY <1>1, <1>2, PTL DEF Spec

(* Any number of clients: no cluster is forgotten, the user's list is      *)
(* written back, exit code 0 means the cluster that was asked for, and a   *)
(* script's cluster is released.  (allocate, script, hodState.write)       *)
THEOREM Promises ==
  ASSUME HodAssumption
  PROVE  Spec => [](TypeOK /\ NoOrphan /\ UserFileRestored /\ ZeroMeansCluster /\ ScriptReleases)
BY Invariance, IInvHolds, PTL

(* Any number of clients: none stops or deletes the cluster of another.    *)
(* (deallocate, delete_job)                                                *)
THEOREM StopsItsOwn == ASSUME HodAssumption PROVE Spec => [][StopsOnlyItsOwn]_vars
<1>1. IInv /\ [Next]_vars => [StopsOnlyItsOwn]_vars
  BY NextOwned
<1>2. QED BY <1>1, Invariance, PTL DEF Spec
=============================================================================
