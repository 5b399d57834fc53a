----------------------------- MODULE LoopThread -----------------------------
(***************************************************************************)
(* The periodic thread of HOD (baseThread and loop in Common/threads.py):  *)
(* it calls a function again and again until it is joined, and can be      *)
(* paused.  Every test of a flag is a step of its own.                     *)
(***************************************************************************)
EXTENDS Integers

CONSTANT MaxEvents   \* bound on the calls of pause and cont

VARIABLES
  pc,               \* where loop.run is
  waiting,          \* __wait > 0: it waits before its first call
  stopFlag, running,
  pausedCalls,      \* calls begun since the thread was paused
  stoppedCalls,     \* calls begun since it was told to stop
  events

flags == <<stopFlag, running, events>>
calls == <<pausedCalls, stoppedCalls>>
vars == <<pc, waiting, flags, calls>>

Init == /\ pc = "top" /\ waiting \in BOOLEAN
        /\ stopFlag = FALSE /\ running = TRUE
        /\ pausedCalls = 0 /\ stoppedCalls = 0 /\ events = 0

(* baseThread.pause, cont and join                                         *)
pause == /\ running /\ events < MaxEvents
         /\ running' = FALSE /\ pausedCalls' = 0 /\ events' = events + 1
         /\ UNCHANGED <<pc, waiting, stopFlag, stoppedCalls>>
cont == /\ ~running /\ events < MaxEvents
        /\ running' = TRUE /\ pausedCalls' = 0 /\ events' = events + 1
        /\ UNCHANGED <<pc, waiting, stopFlag, stoppedCalls>>
join == /\ ~stopFlag /\ stopFlag' = TRUE
        /\ UNCHANGED <<pc, waiting, running, calls, events>>

(* The steps of loop.run.                                                  *)

Top == /\ pc = "top"
       /\ pc' = IF stopFlag THEN "done" ELSE IF waiting THEN "wait" ELSE "test"
       /\ UNCHANGED <<waiting, flags, calls>>
Wait == /\ pc = "wait" /\ (stopFlag \/ running)
        /\ pc' = "test" /\ waiting' = (waiting /\ stopFlag)
        /\ UNCHANGED <<flags, calls>>
TestStop == /\ pc = "test" /\ pc' = IF stopFlag THEN "after" ELSE "testrun"
            /\ UNCHANGED <<waiting, flags, calls>>

TestRun == /\ pc = "testrun" /\ pc' = IF running THEN "call" ELSE "after"
           /\ UNCHANGED <<waiting, flags, calls>>
Call == /\ pc = "call" /\ pc' = "inside"
        /\ pausedCalls' = IF running THEN pausedCalls ELSE pausedCalls + 1
        /\ stoppedCalls' = IF stopFlag THEN stoppedCalls + 1 ELSE stoppedCalls
        /\ UNCHANGED <<waiting, flags>>
Called == pc = "inside" /\ pc' = "after" /\ UNCHANGED <<waiting, flags, calls>>

(* Mutant: the next call follows without a look at the stop flag.          *)
MutAfter == /\ pc = "after" /\ running /\ pc' = "testrun"
            /\ UNCHANGED <<waiting, flags, calls>>

(* After a call a paused thread waits to be resumed, stopped or not.       *)
After == /\ pc = "after" /\ running /\ pc' = "sleep"
         /\ UNCHANGED <<waiting, flags, calls>>

Sleep == /\ pc = "sleep" /\ (stopFlag \/ running) /\ pc' = "top"
         /\ UNCHANGED <<waiting, flags, calls>>

Step == \/ Top \/ Wait \/ TestStop \/ TestRun \/ Call \/ Called \/ After \/ Sleep
Next == Step \/ pause \/ cont \/ join

Spec == Init /\ [][Next]_vars /\ WF_vars(Step)
-----------------------------------------------------------------------------
(* A flag that is raised between its test and the call lets one call       *)
(* through, and no second one.                                             *)
OneLateCall == pausedCalls <= 1 /\ stoppedCalls <= 1

(* A thread that is joined ends, unless it is paused for good.             *)
JoinEndsUnlessPaused == stopFlag ~> (pc = "done" \/ ~running)

=============================================================================
