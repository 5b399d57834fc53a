------------------------------- MODULE MCHod -------------------------------
(***************************************************************************)
(* The client, the ring master and the servers of HOD, one part at a time: *)
(* "registry" (ServiceRegistry), "client" and "clients" (Hod with one      *)
(* client and with two), "ring" (HodRing with faults), "config" and        *)
(* "types" (Config with HOD's options, and with one of every type),        *)
(* "options" (ShortOptions) and "command" (CommandLine).  The parts share  *)
(* no state: the reachable states are the sum of theirs, and the parts     *)
(* that do not run stay in their first state, or have none.                *)
(***************************************************************************)
EXTENDS ServiceRegistry, HodRing, TLC

CONSTANTS
  u1, jobA, h1, h2, hod, grid, dictA, master, ring1,   \* registry
  d1, d2, j1, j2, p1, p2, NoJob,                       \* clients
  ConfDirs, ConfFiles, ConfHosts, ConfUsers, ConfStamps,   \* config
  ConfOptions, ConfSection, ConfDef, ConfInputs,
  TypeOptions, TypeSections, TypeDef, TypesInputs,
  OptionLists, NoLetter, NoFile                        \* options, command

VARIABLES
  part,
  access, userFile, userState, clusterFiles, site, job, jobArgs, ring, announced, alive,
  hodPc, op, dir, allocation, runs, opCode, interrupted, failures, feasible, jobId,
  snap, after, ran, listing, mishaps, blame,                                   \* clients
  hodrc, cmdline, parsed, dict, default, status,                               \* config
  options, shortMap, nextOption,                                               \* options
  run, line, linePc, code, exitFile, removal                                   \* command

ASSUME ClientAssumption == NoJob \notin {j1, j2} /\ p1 # p2 /\ d1 # d2
ASSUME FileAssumption == NoFile \notin Nat
ASSUME OptionsAssumption ==
  /\ NoLetter \notin {"a", "b", "e", "h", "v"}
  /\ OptionLists \subseteq Seq([name : Seq(STRING), short : STRING \cup {NoLetter}])

-----------------------------------------------------------------------------
(* registry: the ring master registers itself and, by another host, a      *)
(* service; the others look for the ring master or for all a user has.     *)
(* Any thread may serve a request, and any job id may be the next one: no *)
(* directory has two state files, so that CHOOSE never has a choice.       *)
Symmetry == Permutations(Threads) \cup Permutations({j1, j2})
Entry(h, i) == [user |-> u1, job |-> jobA, host |-> h, id |-> i, dict |-> dictA]
Query(u, j, i) == [user |-> u, job |-> j, id |-> i]
TheirWants(c) == IF c = master THEN {Entry(h1, hod), Entry(h2, grid)}
                 ELSE {Query(u1, jobA, hod), Query(u1, None, None)}

(* clients: one with a directory that is allocated again, with requests    *)
(* that are wrong or cannot be met; two with a directory each.             *)
Request(n, r, w) == [nodes |-> n, range |-> r, walltime |-> w]
Attrs == <<"l", "nodes">> :> 9 @@ <<"q", "">> :> 1
OneClient == INSTANCE Hod WITH
  Jobs <- {j1, j2}, NodeLimit <- 4, Attributes <- Attrs, Clients <- {p1}, Dirs <- {d1},
  DirsOf <- [p \in {p1} |-> {d1}], Ops <- {"allocate", "deallocate", "script", "info", "list"},
  Requests <- {Request(3, FALSE, 5), Request(5, TRUE, 0)}, Usage <- {2}, Retries <- 2,
  FeasibilityAttr <- TRUE, ScriptCode <- 99, MaxOps <- 2, MaxMishaps <- 1,
  pc <- hodPc, request <- allocation, asked <- jobArgs
TwoClients == INSTANCE Hod WITH
  Jobs <- {j1, j2}, NodeLimit <- 4, Attributes <- Attrs, Clients <- {p1, p2}, Dirs <- {d1, d2},
  DirsOf <- [p \in {p1, p2} |-> IF p = p1 THEN {d1} ELSE {d2}],
  Ops <- {"allocate", "deallocate"},
  Requests <- {Request(3, FALSE, 0)}, Usage <- {0}, Retries <- 1,
  FeasibilityAttr <- FALSE, ScriptCode <- 99, MaxOps <- 2, MaxMishaps <- 0,
  pc <- hodPc, request <- allocation, asked <- jobArgs

(* config, types.  The values are made with the texts of Types, which look *)
(* nothing up.                                                             *)
Values == INSTANCE MCConfig WITH
  Dirs <- {}, Files <- {}, Hosts <- {}, Users <- {}, Groups <- {}, Stamps <- {}
MCDirs == Values!MCDirs
MCFiles == Values!MCFiles
MCHosts == Values!MCHosts
MCUsers == Values!MCUsers
MCStamps == Values!MCStamps
HodOptions == Values!HodOptions
HodSection == Values!HodSection
HodDefs == Values!HodDefs
HodInputs == Values!HodInputs
AllTypes == Values!AllTypes
AllSections == Values!TypeSection
AllDefs == Values!TypeDefs
AllInputs == Values!TypeInputs
HodConfig == INSTANCE Config WITH
  Dirs <- ConfDirs, Files <- ConfFiles, Hosts <- ConfHosts, Users <- ConfUsers,
  Groups <- ConfUsers, Stamps <- ConfStamps, Options <- ConfOptions, Section <- ConfSection,
  Def <- ConfDef, Params <- {"params", "finals"}, FinalParams <- {"finals"},
  Inputs <- ConfInputs, Home <- "home", Node <- "node"
ASSUME ConfigAssumption == HodConfig!WellDefined
TypeConfig == INSTANCE Config WITH
  Dirs <- ConfDirs, Files <- ConfFiles, Hosts <- ConfHosts, Users <- ConfUsers,
  Groups <- ConfUsers, Stamps <- ConfStamps, Options <- TypeOptions, Section <- TypeSections,
  Def <- TypeDef, Params <- {}, FinalParams <- {},
  Inputs <- TypesInputs, Home <- "home", Node <- "node"

(* options: lists of up to four over five letters, of which two are        *)
(* reserved, so that letters run out, and names have none that is free.    *)
Names == {<<"a">>, <<"a", "b">>, <<"h", "-", "a">>, <<"h">>}
Some == [name : Names, short : {NoLetter}] \cup [name : {<<"a", "b">>}, short : {"a", "e"}]
Apart(l) == \A i, j \in DOMAIN l : i # j /\ l[i].short # NoLetter => l[i].short # l[j].short
MCLists == {l \in UNION {[1..n -> Some] : n \in 1..4} : Apart(l)}
Short == INSTANCE ShortOptions WITH
  Alphabet <- <<"a", "b", "e", "h", "v">>, Reserved <- {"h", "v"}, Lists <- OptionLists,
  next <- nextOption

CmdLine == INSTANCE CommandLine WITH MaxRuns <- 2, pc <- linePc

-----------------------------------------------------------------------------
clientPart == <<access, userFile, userState, clusterFiles, site, job, jobArgs, ring, announced,
                alive, hodPc, op, dir, allocation, runs, opCode, interrupted, failures,
                feasible, jobId, snap, after, ran, listing, mishaps, blame>>
configPart == <<hodrc, cmdline, parsed, dict, default, status>>
optionsPart == <<options, shortMap, nextOption>>
commandPart == <<run, line, linePc, code, exitFile, removal>>
allVars == <<part, vars, clientPart, hodRingVars, configPart, optionsPart, commandPart>>

NoClient ==
  /\ access = None /\ userFile = None /\ userState = None /\ clusterFiles = None
  /\ site = None /\ job = None /\ jobArgs = None /\ ring = None /\ announced = None
  /\ alive = None /\ hodPc = None /\ op = None /\ dir = None /\ allocation = None
  /\ runs = None /\ opCode = None /\ interrupted = None /\ failures = None
  /\ feasible = None /\ jobId = None /\ snap = None /\ after = None /\ ran = None
  /\ listing = None /\ mishaps = None /\ blame = None
NoConfig ==
  /\ hodrc = None /\ cmdline = None /\ parsed = None /\ dict = None /\ default = None
  /\ status = None
NoOptions ==
  /\ options = None /\ shortMap = None /\ nextOption = None
NoCommand ==
  /\ run = None /\ line = None /\ linePc = None /\ code = None /\ exitFile = None
  /\ removal = None

AllInit ==
  /\ part \in {"registry", "client", "clients", "ring", "config", "types", "options", "command"}
  /\ Init /\ RingInit
  /\ CASE part = "client"  -> OneClient!Init
       [] part = "clients" -> TwoClients!Init /\ userFile = "absent"
       [] OTHER            -> NoClient
  /\ CASE part = "config" -> HodConfig!Init
       [] part = "types"  -> TypeConfig!Init
       [] OTHER           -> NoConfig
  /\ IF part = "options" THEN Short!Init ELSE NoOptions
  /\ IF part = "command" THEN CmdLine!Init ELSE NoCommand

Only(p) == /\ part = p /\ UNCHANGED part
           /\ (p # "registry" => UNCHANGED vars) /\ (p # "ring" => UNCHANGED hodRingVars)
           /\ (p \notin {"client", "clients"} => UNCHANGED clientPart)
           /\ (p \notin {"config", "types"} => UNCHANGED configPart)
           /\ (p # "options" => UNCHANGED optionsPart)
           /\ (p # "command" => UNCHANGED commandPart)

AllNext ==
  \/ Only("registry") /\ Next
  \/ Only("client") /\ OneClient!Next
  \/ Only("clients") /\ TwoClients!Next
  \/ Only("ring") /\ RingNext
  \/ Only("config") /\ HodConfig!Next
  \/ Only("types") /\ TypeConfig!Next
  \/ Only("options") /\ Short!Next
  \/ Only("command") /\ CmdLine!Next

AllSpec == AllInit /\ [][AllNext]_allVars

-----------------------------------------------------------------------------
(* What the client says of an operation is so: an allocation that ends     *)
(* with exit code 0 has left a cluster of the nodes that were asked for,   *)
(* recorded where deallocate finds it, and a script that has run has       *)
(* released its cluster.  (_op_allocate, script)                           *)
EndsAsReported ==
  /\ part = "client" => OneClient!TypeOK /\ OneClient!ZeroMeansCluster /\ OneClient!ScriptReleases
  /\ part = "clients" => TwoClients!TypeOK /\ TwoClients!ZeroMeansCluster

(* No cluster is left without anyone who knows of it, and the list of the  *)
(* user's clusters is never lost.  (hadoopCluster.allocate, hodState)      *)
NoOrphan ==
  /\ part = "client" => OneClient!NoOrphan /\ OneClient!UserFileRestored
  /\ part = "clients" => TwoClients!NoOrphan /\ TwoClients!UserFileRestored

(* Two clients of one user never stop each other's clusters.               *)
(* (deallocate, delete_job, readCluster)                                   *)
OwnClustersOnly ==
  [][/\ part = "client" => OneClient!StopsOnlyItsOwn
     /\ part = "clients" => TwoClients!StopsOnlyItsOwn]_clientPart

(* The configuration that the client has verified is the one that the ring *)
(* master and the hodrings work with, and they accept it.  (get_args,      *)
(* verify, replace_escapes)                                                *)
ConfigKept ==
  /\ part = "config" => HodConfig!TypeOK /\ HodConfig!ChildSeesParent /\ HodConfig!ChildAccepts
  /\ part = "types" => TypeConfig!TypeOK /\ TypeConfig!ChildSeesParent /\ TypeConfig!ChildAccepts

(* The parameters that accumulate keep the precedence of command line and  *)
(* hodrc, and verify keeps the meaning of the defaults it normalizes.      *)
(* (__initialize_config_dict, baseConfig.verify)                           *)
ConfigMeant ==
  part = "config" => HodConfig!ParamsByPrecedence /\ HodConfig!DefaultsKeepMeaning

(* No letter is given to two options, and an option goes without one only  *)
(* when none is left.  (__build_short_map)                                 *)
LettersServed == part = "options" => Short!TypeOK /\ Short!NoConflict /\ Short!AllServed

(* script.exitcode does not hold the code of an earlier run's script, of   *)
(* which the user was not warned, and holds the code hod ends with.        *)
(* (remove_exit_code_file, handle_script_exit_code)                        *)
ExitCodeIsOfLastRun == part = "command" => CmdLine!TypeOK /\ CmdLine!ExitCodeIsOfLastRun
=============================================================================
