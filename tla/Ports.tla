-------------------------------- MODULE Ports --------------------------------
(***************************************************************************)
(* The TCP ports of one host.  Every hodring that runs there binds its     *)
(* HTTP server (baseSocketServer.server_bind), then chooses a port for     *)
(* every address of its Hadoop daemon that is left to be filled in         *)
(* (ServiceUtil.getUniqRandomPort) by binding and closing it again, and    *)
(* at last starts the daemon, which binds the ports it was given.          *)
(***************************************************************************)
EXTENDS Integers, Sequences, FiniteSets

CONSTANTS
  Rings,           \* the hodrings on the host
  ServerLow, ServerHigh,  \* http-port-range
  Low, High,       \* hadoop-port-range
  Wanted,          \* the addresses a daemon has to be given
  Retries          \* the parameter retry (900)

Foreign == "foreign"     \* a program that is no part of HOD
PortRange == Low..High
Known == PortRange \cup (ServerLow..ServerHigh)
Free == "free"

VARIABLES
  holder,          \* port -> who has it bound
  pc, tries,       \* per ring: its step; the failed attempts of the request
  probed,          \* the ports it holds just to see that they are available
  localPortUsed,   \* ServiceUtil.localPortUsed
  filled,          \* the ports put into the daemon's configuration
  serving, lost    \* the addresses its daemon has bound, and could not bind

vars == <<holder, pc, tries, probed, localPortUsed, filled, serving, lost>>

Init == /\ holder \in [Known -> {Free, Foreign}]
        /\ pc = [r \in Rings |-> "bind"] /\ tries = [r \in Rings |-> 0]
        /\ probed = [r \in Rings |-> {}]
        /\ localPortUsed = [r \in Rings |-> {}]
        /\ filled = [r \in Rings |-> <<>>]
        /\ serving = [r \in Rings |-> {}] /\ lost = [r \in Rings |-> {}]

Take(n, r) == holder[n] = Free /\ holder' = [holder EXCEPT ![n] = r]
Goto(r, where) == pc' = [pc EXCEPT ![r] = where]

(* The draw is from range(low, high), which ends before high; a port may   *)
(* be drawn again and again.                                               *)
Sequence == ServerLow..(ServerHigh - 1)
server_bind(r) ==
  /\ pc[r] = "bind"
  /\ \E somePort \in Sequence :
       \/ /\ Take(somePort, r) /\ Goto(r, "choose")
          /\ tries' = [tries EXCEPT ![r] = 0]
       \/ /\ holder[somePort] # Free
          /\ tries' = [tries EXCEPT ![r] = @ + 1]
          /\ Goto(r, IF tries[r] + 1 > ServerHigh - ServerLow THEN "no server" ELSE "bind")
          /\ UNCHANGED holder
  /\ UNCHANGED <<probed, localPortUsed, filled, serving, lost>>

(* One round of getUniqRandomPort.  A port this process was given before   *)
(* is passed over, and costs no retry.                                     *)
Choosing(r) == pc[r] = "choose" /\ Len(filled[r]) < Wanted

(* Mutant: a port the process was given before is tried again.             *)
MutProbe(r) ==
  /\ Choosing(r)
  /\ \E n \in PortRange :
       /\ Take(n, r) /\ probed' = [probed EXCEPT ![r] = {n}]
       /\ Goto(r, "probed")
  /\ UNCHANGED <<tries, localPortUsed, filled, serving, lost>>

Probe(r) ==
  /\ Choosing(r)
  /\ \E n \in PortRange \ localPortUsed[r] :
       /\ Take(n, r) /\ probed' = [probed EXCEPT ![r] = {n}]
       /\ Goto(r, "probed")
  /\ UNCHANGED <<tries, localPortUsed, filled, serving, lost>>

Miss(r) ==
  /\ Choosing(r)
  /\ \E n \in PortRange \ localPortUsed[r] : holder[n] # Free
  /\ tries' = [tries EXCEPT ![r] = @ + 1]
  /\ Goto(r, IF tries[r] + 1 = Retries THEN "no port" ELSE "choose")
  /\ UNCHANGED <<holder, probed, localPortUsed, filled, serving, lost>>

(* s.close(): from here to the start of the daemon nobody holds the port.  *)
Return(r) ==
  /\ pc[r] = "probed"
  /\ \E n \in probed[r] :
       /\ holder' = [holder EXCEPT ![n] = Free]
       /\ localPortUsed' = [localPortUsed EXCEPT ![r] = @ \cup {n}]
       /\ filled' = [filled EXCEPT ![r] = Append(@, n)]
  /\ probed' = [probed EXCEPT ![r] = {}] /\ tries' = [tries EXCEPT ![r] = 0]
  /\ Goto(r, "choose") /\ UNCHANGED <<serving, lost>>

(* HadoopCommand.run: the daemon binds what its site file says.            *)
Daemon(r) ==
  /\ pc[r] \in {"choose", "daemon"} /\ Len(filled[r]) = Wanted
  /\ \E k \in (1..Wanted) \ (serving[r] \cup lost[r]) :
       \/ /\ Take(filled[r][k], r)
          /\ serving' = [serving EXCEPT ![r] = @ \cup {k}] /\ UNCHANGED lost
       \/ /\ holder[filled[r][k]] # Free
          /\ lost' = [lost EXCEPT ![r] = @ \cup {k}]
          /\ UNCHANGED <<holder, serving>>
  /\ Goto(r, "daemon")
  /\ UNCHANGED <<tries, probed, localPortUsed, filled>>

RingStep(r) == \/ server_bind(r) \/ Probe(r) \/ Miss(r) \/ Return(r) \/ Daemon(r)
Next == \E r \in Rings : RingStep(r)
Spec == Init /\ [][Next]_vars /\ \A r \in Rings : WF_vars(RingStep(r))
-----------------------------------------------------------------------------
TypeOK ==
  /\ holder \in [Known -> Rings \cup {Free, Foreign}]
  /\ pc \in [Rings -> {"bind", "no server", "choose", "probed", "no port", "daemon"}]
  /\ tries \in [Rings -> 0..(ServerHigh - ServerLow + 1 + Retries)]
  /\ probed \in [Rings -> SUBSET PortRange]
  /\ localPortUsed \in [Rings -> SUBSET PortRange]
  /\ \A r \in Rings : filled[r] \in Seq(PortRange) /\ Len(filled[r]) <= Wanted
  /\ serving \in [Rings -> SUBSET (1..Wanted)]
  /\ lost \in [Rings -> SUBSET (1..Wanted)]

(* The addresses one daemon is given never coincide, and none is the port  *)
(* of its own hodring's server, although the ports are chosen one by one   *)
(* and nothing stays bound: localPortUsed and the server's socket keep     *)
(* them apart.                                                             *)
AddressesDistinct ==
  \A r \in Rings :
    /\ \A j, k \in DOMAIN filled[r] : filled[r][j] = filled[r][k] => j = k
    /\ pc[r] \notin {"bind", "no server", "daemon"} =>
         \A k \in DOMAIN filled[r] : holder[filled[r][k]] # r

(* A daemon that finds its port taken lost it to a program outside its own *)
(* ring: a ring with the host to itself starts its daemon.                 *)
LostToOthers ==
  \A r \in Rings : \A k \in lost[r] : \E q \in Rings \ {r} :
      LET n == filled[r][k]
      IN holder[n] = q \/ n \in localPortUsed[q]

===============================================================================
