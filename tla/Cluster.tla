------------------------------ MODULE Cluster ------------------------------
(***************************************************************************)
(* What the ring master and its hodrings promise: masters come up one      *)
(* after the other, Map/Reduce over an HDFS that works, a master that came *)
(* up stays known, and workers join only a cluster whose masters are up.   *)
(***************************************************************************)
EXTENDS FiniteSets

CONSTANTS Nodes, External

VARIABLES phase,   \* "down", "launching" or "up"
          workers  \* the hodrings that run workers

Init == /\ phase = [s \in {"hdfs", "mapred"} |-> IF s \in External THEN "up" ELSE "down"]
        /\ workers = {}

Launch(s) == /\ phase[s] = "down" /\ (s = "mapred" => phase["hdfs"] = "up")
             /\ phase' = [phase EXCEPT ![s] = "launching"] /\ UNCHANGED workers

Abandon(s) == /\ phase[s] = "launching"
              /\ phase' = [phase EXCEPT ![s] = "down"] /\ UNCHANGED workers

ComeUp(s) == /\ phase[s] = "launching"
             /\ phase' = [phase EXCEPT ![s] = "up"] /\ UNCHANGED workers

Join(n) == /\ \A s \in {"hdfs", "mapred"} : phase[s] = "up"
           /\ workers' = workers \cup {n} /\ UNCHANGED phase

Next == \/ \E s \in {"hdfs", "mapred"} : Launch(s) \/ Abandon(s) \/ ComeUp(s)
        \/ \E n \in Nodes : Join(n)

Spec == Init /\ [][Next]_<<phase, workers>>
=============================================================================
