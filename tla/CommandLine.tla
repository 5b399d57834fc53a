---------------------------- MODULE CommandLine ----------------------------
(***************************************************************************)
(* The subcommands of hod and the exit code of a script: the positional    *)
(* arguments as options.__init__ of hodlib/Common/setup.py takes them, and *)
(* the file script.exitcode in the cluster directory, which it removes and *)
(* hodRunner.handle_script_exit_code (hodlib/Hod/hod.py) writes.  A user   *)
(* runs hod several times, always with the same cluster directory.         *)
(***************************************************************************)
EXTENDS Naturals

CONSTANTS MaxRuns,     \* bound on the number of runs
          NoFile       \* there is no file script.exitcode

VARIABLES
  run,         \* how often hod has been started
  line,        \* the command line of the current run
  pc,          \* "idle", "start", "parsed", "operation" or "script"
  code,        \* the exit code of the last run, once it has ended
  exitFile,    \* the run whose code script.exitcode holds
  removal      \* remove_exit_code_file in this run: "none", "done" or "failed"

vars == <<run, line, pc, code, exitFile, removal>>

ops == {"allocate", "deallocate", "info", "list", "script", "help"}

(* What optparse makes of the line (-h and -v are "asked"), -o, -s, -d and *)
(* -n, and the positional arguments: their number, the first one and       *)
(* whether the second one is the word options.  Only help looks at more    *)
(* than the first.                                                         *)
Lines == {l \in [usage : {"right", "wrong", "asked"}, operation : BOOLEAN, script : BOOLEAN,
                 clusterdir : BOOLEAN, nodecount : BOOLEAN,
                 nArgs : 0..3, cmdstr : ops \cup {"other"}, aboutOptions : BOOLEAN] :
            /\ l.nArgs = 0 => l.cmdstr = "other"
            /\ l.nArgs >= 2 => l.cmdstr = "help"
            /\ l.aboutOptions => l.nArgs >= 2}

NoLine == CHOOSE l \in Lines : l.nArgs = 0 /\ ~l.operation /\ ~l.script /\ ~l.clusterdir /\ ~l.nodecount

Init == /\ run = 0 /\ line = NoLine /\ pc = "idle" /\ code = 0
        /\ exitFile = NoFile /\ removal = "none"

Start == /\ pc = "idle" /\ run < MaxRuns
         /\ run' = run + 1
         /\ line' \in Lines
         /\ pc' = "start" /\ removal' = "none"
         /\ UNCHANGED <<code, exitFile>>

(* What the subcommand needs.                                              *)
Complete == CASE line.cmdstr = "allocate" -> line.clusterdir /\ line.nodecount
              [] line.cmdstr \in {"deallocate", "info"} -> line.clusterdir
              [] line.cmdstr = "script" -> line.script /\ line.clusterdir /\ line.nodecount
              [] OTHER -> TRUE

(* parse_args ends the run itself, before it looks at the arguments.       *)
Rejected == line.usage # "right"

(* sys.exit and self.error: 2 from optparse and for an unknown subcommand, *)
(* 3 for one that is not complete, 0 where help was asked for.             *)
ExitCodes == IF line.usage = "wrong" THEN {2} ELSE IF line.usage = "asked" THEN {0}
             ELSE IF line.operation THEN IF line.nArgs # 0 THEN {2} ELSE {}
             ELSE IF line.nArgs = 0 THEN IF line.script THEN {} ELSE {0}
             ELSE IF line.cmdstr \notin ops THEN {2}
             ELSE IF ~Complete THEN {3}
             ELSE IF line.cmdstr # "help" THEN {}
             ELSE IF line.nArgs = 1 THEN {0}
             ELSE IF line.nArgs # 2 THEN {3}
             ELSE IF line.aboutOptions THEN {0} ELSE {}

Subcommand == ~line.operation /\ line.nArgs # 0
RunsScript == Subcommand /\ line.cmdstr = "script" /\ line.clusterdir

End(c) == pc' = "idle" /\ code' = c

(* Mutant: the file goes only when the command line is complete.           *)
MutRemoveExitCodeFile ==
  IF ~Rejected /\ RunsScript /\ Complete
  THEN \/ exitFile' = NoFile /\ removal' = "done"
       \/ exitFile # NoFile /\ removal' = "failed" /\ UNCHANGED exitFile
  ELSE UNCHANGED <<exitFile, removal>>

(* remove_exit_code_file, before the subcommand script is checked.  It may *)
(* fail, of which it warns the user.                                       *)
RemoveExitCodeFile ==
  IF ~Rejected /\ RunsScript
  THEN \/ exitFile' = NoFile /\ removal' = "done"
       \/ exitFile # NoFile /\ removal' = "failed" /\ UNCHANGED exitFile
  ELSE UNCHANGED <<exitFile, removal>>

ParseArgs == /\ pc = "start"
             /\ RemoveExitCodeFile
             /\ IF ExitCodes # {} THEN \E c \in ExitCodes : End(c)
                ELSE pc' = "parsed" /\ UNCHANGED code
             /\ UNCHANGED <<run, line>>

(* A subcommand other than script becomes the operation.                   *)
Operation == line.operation \/ (Subcommand /\ line.cmdstr # "script")

(* bin/hod: the configuration may be missing or wrong, and an operation    *)
(* excludes a script.                                                      *)
Configure ==
  /\ pc = "parsed"
  /\ \/ End(1) \/ End(2)
     \/ /\ ~(Operation /\ line.script)
        /\ pc' = IF line.script THEN "script" ELSE "operation"
        /\ UNCHANGED code
  /\ UNCHANGED <<run, line, exitFile, removal>>

RunOperation == /\ pc = "operation"
                /\ \E c \in {0, 1} : End(c)
                /\ UNCHANGED <<run, line, exitFile, removal>>

(* handle_script_exit_code: the file may be neither written nor removed.   *)
(* bin/hod prints an exception that script raises and ends with 0.         *)
ScriptExit(ret, hod) ==
  \/ exitFile' = (IF ret # 0 THEN run ELSE NoFile) /\ End(IF ret # 0 THEN ret ELSE hod)
  \/ (ret # 0 \/ exitFile # NoFile) /\ UNCHANGED exitFile /\ End(0)

(* script: without a cluster it does not run and the exit code is that of  *)
(* the allocation (6 stands for it); 0 and 5 are codes of the script.  -s  *)
(* without -n or -d raises.                                                *)
RunScript ==
  /\ pc = "script"
  /\ \/ \E ret \in {0, 5}, hod \in {0, 6} :
          (ret # 0 => hod = 0) /\ line.clusterdir /\ line.nodecount /\ ScriptExit(ret, hod)
     \/ ~(line.clusterdir /\ line.nodecount) /\ UNCHANGED exitFile /\ End(0)
  /\ UNCHANGED <<run, line, removal>>

(* The client is killed: before the file is removed, after, or when script *)
(* has just removed or written it.  Ctrl-C ends its start with 127.        *)
Kill == /\ pc # "idle"
        /\ End(137) \/ (pc \in {"start", "parsed"} /\ End(127))
        /\ exitFile' \in {exitFile} \cup (IF pc = "script" /\ line.clusterdir THEN {run, NoFile} ELSE {})
        /\ UNCHANGED <<run, line, removal>>

Next == Start \/ ParseArgs \/ Configure \/ RunOperation \/ RunScript \/ Kill
Spec == Init /\ [][Next]_vars

----------------------------------------------------------------------------
TypeOK == /\ run \in 0..MaxRuns /\ line \in Lines
          /\ pc \in {"idle", "start", "parsed", "operation", "script"}
          /\ code \in {0, 1, 2, 3, 5, 6, 127, 137}
          /\ exitFile \in {NoFile} \cup 1..MaxRuns
          /\ removal \in {"none", "done", "failed"}

(* After a `hod script -d dir` that optparse accepted, script.exitcode     *)
(* holds the code of this run's script or does not exist: no user reads    *)
(* the code of an earlier script, unless he was warned that it could not   *)
(* be removed, or hod was killed before it tried.  A run that ends with    *)
(* the code of its script has left that code in the file.                  *)
(* (remove_exit_code_file, handle_script_exit_code)                        *)
ExitCodeIsOfLastRun ==
  /\ pc = "idle" /\ ~Rejected /\ RunsScript =>
       \/ exitFile \in {NoFile, run} /\ (exitFile = run => code # 0)
       \/ removal = "failed"
       \/ removal = "none" /\ code \in {127, 137}
  /\ pc = "idle" /\ code = 5 => exitFile = run
=============================================================================
