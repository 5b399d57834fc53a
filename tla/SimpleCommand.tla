--------------------------- MODULE SimpleCommand ---------------------------
(***************************************************************************)
(* simpleCommand of Common/threads.py: a thread that runs a shell command, *)
(* reads its output to the end and then waits for its exit, while another  *)
(* thread waits for it, asks for its exit code or kills it.  The process   *)
(* that is polled and killed is the shell; what the shell has started may  *)
(* hold the pipe when the shell is gone.                                   *)
(***************************************************************************)
EXTENDS Integers

CONSTANTS ExitCodes,   \* the codes the command may end with
          Obedient,    \* does the command end on SIGTERM
          MaxTerms     \* 20 signals before SIGKILL

NoStatus == -2      \* __status before the first poll
Running == -1       \* what poll says of a command that runs

VARIABLES
  thread,    \* run: "new", "popen", "read", "poll", "finish" or "done"
  child,     \* the shell: "none", "runs" or "exited"
  code,      \* WEXITSTATUS of what it ended with: 0 when a signal killed it
  output,    \* does the shell or what it started hold the pipe open
  status,    \* __status
  pid,       \* is __pid set
  isFinished,
  killer,    \* kill: "off", "loop", "join" or "done"
  terms

childVars == <<child, code, output>>
vars == <<thread, childVars, status, pid, isFinished, killer, terms>>

Init == /\ thread = "new" /\ child = "none" /\ code = NoStatus /\ output = FALSE
        /\ status = NoStatus /\ pid = FALSE /\ isFinished = FALSE
        /\ killer = "off" /\ terms = 0

start == /\ thread = "new" /\ thread' = "popen"
         /\ UNCHANGED <<childVars, status, pid, isFinished, killer, terms>>

(* The steps of run.  The output may be closed long before the shell ends, *)
(* or long after.                                                          *)
Popen == /\ thread = "popen" /\ ~pid /\ child = "none"
         /\ child' = "runs" /\ output' = TRUE
         /\ UNCHANGED <<thread, code, status, pid, isFinished, killer, terms>>
SetPid == /\ thread = "popen" /\ child # "none" /\ pid' = TRUE /\ thread' = "read"
          /\ UNCHANGED <<childVars, status, isFinished, killer, terms>>
Read == /\ thread = "read" /\ ~output /\ thread' = "poll"
        /\ UNCHANGED <<childVars, status, pid, isFinished, killer, terms>>
Poll == /\ thread = "poll"
        /\ status' = IF child = "exited" THEN code ELSE Running
        /\ thread' = IF child = "exited" THEN "finish" ELSE "poll"
        /\ UNCHANGED <<childVars, pid, isFinished, killer, terms>>

Finish == /\ thread = "finish" /\ isFinished' = TRUE /\ thread' = "done"
          /\ UNCHANGED <<childVars, status, pid, killer, terms>>

(* exit_code: WEXITSTATUS of the status, which takes -1 for 255            *)
exit_code == IF status = NoStatus THEN NoStatus ELSE status % 256
is_running == ~isFinished

(* kill: SIGTERM again and again, then SIGKILL, while the command runs.    *)
(* Without a pid, or when the command is gone, the loop ends at once.      *)
kill == /\ killer = "off" /\ thread # "new" /\ killer' = "loop"
        /\ UNCHANGED <<thread, childVars, status, pid, isFinished, terms>>
Sends == IF terms > MaxTerms THEN "kill" ELSE "term"
KillLoop ==
  /\ killer = "loop"
  /\ IF ~is_running \/ ~pid \/ status >= 0
     THEN killer' = "join" /\ UNCHANGED <<childVars, terms>>
     ELSE LET dies == child = "runs" /\ (Sends = "kill" \/ Obedient)
          IN  /\ killer' = IF Sends = "kill" THEN "join" ELSE "loop"
              /\ terms' = IF terms > MaxTerms THEN terms ELSE terms + 1
              /\ child' = IF dies THEN "exited" ELSE child
              /\ code' = IF dies THEN 0 ELSE code
              /\ output' \in IF dies THEN {output, FALSE} ELSE {output}
  /\ UNCHANGED <<thread, status, pid, isFinished>>
KillJoin == /\ killer = "join" /\ thread = "done" /\ killer' = "done"
            /\ UNCHANGED <<thread, childVars, status, pid, isFinished, terms>>

(* The last that holds the pipe closes it; the shell ends.                 *)
CloseOutput == /\ output /\ output' = FALSE
               /\ UNCHANGED <<thread, child, code, status, pid, isFinished, killer, terms>>
Exit == /\ child = "runs" /\ child' = "exited" /\ code' \in ExitCodes
        /\ output' \in {output, FALSE}
        /\ UNCHANGED <<thread, status, pid, isFinished, killer, terms>>

Run == Popen \/ SetPid \/ Read \/ Poll \/ Finish
Next == start \/ Run \/ kill \/ KillLoop \/ KillJoin \/ CloseOutput \/ Exit

(* The threads run; a command need not end by itself.                      *)
Spec == Init /\ [][Next]_vars /\ WF_vars(Run) /\ WF_vars(KillLoop) /\ WF_vars(KillJoin)
-----------------------------------------------------------------------------
(* Who has waited for a command is told the code its shell ended with.     *)
FinishedTellsCode == isFinished => child = "exited" /\ exit_code = code

(* The shell of a command that is killed ends, unless kill came before     *)
(* there was a process to kill; the thread that killed it ends too, once   *)
(* nothing that the shell has started holds the output.                    *)
KillEnds == /\ (killer = "loop" /\ pid) ~> child = "exited"
            /\ (killer = "join" /\ child = "exited" /\ ~output) ~> killer = "done"

=============================================================================
