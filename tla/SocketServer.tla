----------------------------- MODULE SocketServer -----------------------------
(***************************************************************************)
(* The servers of Common/socketServers.py and the ringmaster that starts   *)
(* one and waits for it.  The threaded server binds in its constructor and *)
(* runs a loop that looks at two events, __stopForever and __run; the      *)
(* twisted one binds in its own thread and runs a reactor.  Requests are   *)
(* counted, not told apart; their handlers run in threads of their own.    *)
(***************************************************************************)
EXTENDS Integers

CONSTANTS MaxRequests, MaxEvents   \* bounds on requests, and on pause and cont

VARIABLES
  kind,             \* which class the ringmaster could import
  thread,           \* the server's thread: where it is
  run, stopForever, \* the events
  caller,           \* the ringmaster's main thread
  pending, arrived, \* connections that wait, and that were made
  paused, stopped,  \* dispatched since pause() returned, since stop() was called
  events

flags == <<run, stopForever>>
requests == <<pending, arrived>>
late == <<paused, stopped>>
vars == <<kind, thread, flags, caller, requests, late, events>>

Init == /\ kind \in {"threaded", "twisted"}
        /\ thread = "none" /\ run = TRUE /\ stopForever = FALSE
        /\ caller = "construct" /\ pending = 0 /\ arrived = 0
        /\ paused = 0 /\ stopped = 0 /\ events = 0

(* The threaded server's constructor binds, and raises when it cannot.     *)
Construct ==
  /\ caller = "construct"
  /\ \/ /\ kind = "threaded" /\ caller' = "wait" /\ thread' = "top"
     \/ /\ kind = "threaded" /\ caller' = "failed" /\ UNCHANGED thread
     \/ /\ kind = "twisted" /\ caller' = "wait" /\ thread' = "binding"
  /\ UNCHANGED <<kind, flags, requests, late, events>>

is_alive == thread \in IF kind = "threaded"
                       THEN {"top", "select", "handle", "gate"}
                       ELSE {"running", "blocked"}
Waited == /\ caller = "wait" /\ is_alive /\ caller' = "up"
          /\ UNCHANGED <<kind, thread, flags, requests, late, events>>

Connect == /\ thread \notin {"none", "binding", "exited", "closed", "stopped"}
           /\ arrived < MaxRequests
           /\ arrived' = arrived + 1 /\ pending' = pending + 1
           /\ UNCHANGED <<kind, thread, flags, caller, late, events>>

Dispatch == /\ pending' = pending - 1
            /\ paused' = IF run THEN paused ELSE paused + 1
            /\ stopped' = IF stopForever THEN stopped + 1 ELSE stopped
            /\ UNCHANGED arrived
-----------------------------------------------------------------------------
(* baseSocketServer._serve_forever                                         *)

Top == /\ thread = "top"
       /\ thread' = IF stopForever THEN "closed" ELSE "select"
       /\ UNCHANGED <<kind, flags, caller, requests, late, events>>

(* select returns at once when a connection waits, else after a second.    *)
Select == /\ thread = "select"
          /\ \/ pending > 0 /\ thread' = "handle"
             \/ pending = 0 /\ thread' = "gate"
          /\ UNCHANGED <<kind, flags, caller, requests, late, events>>
Handle == /\ thread = "handle" /\ Dispatch /\ thread' = "gate"
          /\ UNCHANGED <<kind, flags, caller, events>>

Gate == /\ thread = "gate" /\ (run \/ stopForever) /\ thread' = "top"
        /\ UNCHANGED <<kind, flags, caller, requests, late, events>>
-----------------------------------------------------------------------------
(* twistedXMLRPCServer: a failed bind ends the thread by sys.exit, a pause *)
(* is waited out by _getFunction in the reactor's own thread.              *)
Listen == /\ thread = "binding" /\ thread' \in {"running", "exited"}
          /\ UNCHANGED <<kind, flags, caller, requests, late, events>>

Render == /\ thread = "running" /\ pending > 0
          /\ \/ run /\ Dispatch /\ UNCHANGED thread
             \/ ~run /\ thread' = "blocked" /\ UNCHANGED <<requests, late>>
          /\ UNCHANGED <<kind, flags, caller, events>>
Unblock == /\ thread = "blocked" /\ run
           /\ Dispatch /\ thread' = "running"
           /\ UNCHANGED <<kind, flags, caller, events>>
StopThread == /\ thread = "running" /\ stopForever /\ thread' = "stopped"
              /\ UNCHANGED <<kind, flags, caller, requests, late, events>>
-----------------------------------------------------------------------------
pause == /\ caller = "up" /\ run /\ events < MaxEvents
         /\ run' = FALSE /\ paused' = 0 /\ events' = events + 1
         /\ UNCHANGED <<kind, thread, stopForever, caller, requests, stopped>>
cont == /\ caller = "up" /\ ~run /\ events < MaxEvents
        /\ run' = TRUE /\ paused' = 0 /\ events' = events + 1
        /\ UNCHANGED <<kind, thread, stopForever, caller, requests, stopped>>

(* The threaded server's stop joins the loop's thread, the other returns.  *)
stop == /\ caller = "up" /\ stopForever' = TRUE
        /\ caller' = IF kind = "threaded" THEN "joining" ELSE "down"
        /\ UNCHANGED <<kind, thread, run, requests, late, events>>
Join == /\ caller = "joining" /\ thread = "closed" /\ caller' = "down"
        /\ UNCHANGED <<kind, thread, flags, requests, late, events>>

Loop == \/ Top \/ Select \/ Handle \/ Gate
        \/ Listen \/ Render \/ Unblock \/ StopThread
Main == Construct \/ Waited \/ Join
Next == Loop \/ Main \/ Connect \/ pause \/ cont \/ stop
Spec == /\ Init /\ [][Next]_vars
        /\ WF_vars(Top) /\ WF_vars(Select) /\ WF_vars(Handle) /\ WF_vars(Gate)
        /\ WF_vars(Listen) /\ WF_vars(Render) /\ WF_vars(Unblock)
        /\ WF_vars(StopThread) /\ WF_vars(Main)
-----------------------------------------------------------------------------
TypeOK ==
  /\ kind \in {"threaded", "twisted"}
  /\ thread \in {"none", "top", "select", "handle", "gate", "closed", "binding",
                 "running", "blocked", "exited", "stopped"}
  /\ run \in BOOLEAN /\ stopForever \in BOOLEAN
  /\ caller \in {"construct", "failed", "wait", "up", "joining", "down"}
  /\ pending \in 0..MaxRequests /\ arrived \in 0..MaxRequests
  /\ paused \in 0..MaxRequests /\ stopped \in 0..MaxRequests
  /\ events \in 0..MaxEvents

(* "Temporarily stop servicing requests": the threaded loop can be between *)
(* its select and handle_request when pause() returns and lets one request *)
(* through, never two; the same holds of stop().  The twisted server lets  *)
(* none through a pause.                                                   *)
OneLateRequest ==
  IF kind = "threaded" THEN paused <= 1 /\ stopped <= 1 ELSE paused = 0

(* stop() of the threaded server returns, paused or not, and then the      *)
(* listening socket is closed.                                             *)
StopReturns == caller = "joining" ~> caller = "down" /\ thread = "closed"

===============================================================================
