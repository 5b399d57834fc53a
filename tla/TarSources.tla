----------------------------- MODULE TarSources -----------------------------
(***************************************************************************)
(* How the hodrings of a ring get the Hadoop tarball: the ring master      *)
(* serves it, lists in getTarList the server with the fewest downloads,    *)
(* and every hodring that has fetched it becomes a server of its own       *)
(* (ringMaster.py, hodRing.py).  A call that the hodring gives up and      *)
(* repeats may still be handled, later.                                    *)
(***************************************************************************)
EXTENDS Integers, FiniteSets

CONSTANTS HodRings, Master,   \* the servers; a server is named for its url
          None,               \* no server
          MaxConnect,         \* ringmaster.max-connect
          MaxLosses,          \* bound on crashes and downloads that fail
          MaxLate             \* bound on calls given up and handled later

ASSUME HodRingsFinite  == IsFiniteSet(HodRings) /\ Master \notin HodRings
ASSUME MaxConnectIsPos == MaxConnect \in Nat \ {0}
ASSUME BoundsAreNat    == MaxLosses \in Nat /\ MaxLate \in Nat

VARIABLES
  downloads,   \* the downloads each listed server is thought to have
  step,      \* where each hodring is in __download_package
  from,    \* the server it was told to fetch from
  late,    \* the calls given up that the ring master may still handle
  losses, lates

tarVars == <<downloads, step, from, late, losses, lates>>

Servers == HodRings \cup {Master}
Calls == {"getTarList", "registerTarSource"}

TarInit == /\ downloads = [s \in {Master} |-> 0]
        /\ step = [h \in HodRings |-> "ask"] /\ from = [h \in HodRings |-> None]
        /\ late = {} /\ losses = 0 /\ lates = 0

Lose == losses < MaxLosses /\ losses' = losses + 1
Go(h, at) == step' = [step EXCEPT ![h] = at]

-----------------------------------------------------------------------------

(* The servers that may be chosen, and those whose downloads were taken    *)
(* off twice.                                                              *)
Open == {s \in DOMAIN downloads : downloads[s] < MaxConnect}
Misread == {s \in DOMAIN downloads : downloads[s] = -1}

(* The scan of getTarList, in an order of Python's: the server it ends     *)
(* with and the count it believes this one to have.  It takes a count of   *)
(* -1 for the mark of its own beginning: the next server then sets the     *)
(* least value, even one that is full and cannot be chosen.                *)
Choices ==
  IF Misread = {}
  THEN {<<s, downloads[s]>> : s \in {t \in Open : \A u \in Open : downloads[t] <= downloads[u]}}
  ELSE {<<s, downloads[s]>> : s \in Open} \cup (Misread \X {downloads[s] : s \in DOMAIN downloads \ Open})

(* Mutant: a server that is full is listed too.                            *)
MutGetTarList(s) == /\ s \in DOMAIN downloads /\ \A u \in DOMAIN downloads : downloads[s] <= downloads[u]
                    /\ downloads' = [downloads EXCEPT ![s] = @ + 1]

(* getTarList that lists s; with no server open the answer is 'none' and   *)
(* nothing changes.                                                        *)
getTarList(s) == \E c \in Choices : s = c[1] /\ downloads' = [downloads EXCEPT ![s] = c[2] + 1]

(* registerTarSource: a new server, and one download less for the one it   *)
(* has fetched from.                                                       *)
registerTarSource(url, addr) ==
  downloads' = [s \in DOMAIN downloads \cup {url} |->
              (IF s = url THEN 0 ELSE downloads[s]) - (IF s = addr THEN 1 ELSE 0)]

-----------------------------------------------------------------------------
(* __download_package: the hodring asks until it is told a server, ...     *)
Ask(h) == /\ step[h] = "ask"
          /\ \E s \in Servers : getTarList(s) /\ from' = [from EXCEPT ![h] = s]
          /\ Go(h, "fetch")
          /\ UNCHANGED <<late, losses, lates>>

AskAgain(h) == step[h] = "ask" /\ Choices = {} /\ UNCHANGED tarVars

(* ... fetches the tarball from it, if that one is still there, ...        *)
Serving(s) == s = Master \/ (s \in HodRings /\ step[s] \in {"register", "done"})

Fetch(h) == /\ step[h] = "fetch" /\ Serving(from[h])
            /\ Go(h, "register")
            /\ UNCHANGED <<downloads, from, late, losses, lates>>

(* ... or fails with it after three tries, and never returns the slot, ... *)
FetchFails(h) == /\ step[h] = "fetch"
                 /\ IF Serving(from[h]) THEN Lose ELSE UNCHANGED losses
                 /\ Go(h, "failed")
                 /\ UNCHANGED <<downloads, from, late, lates>>

(* ... and serves the tarball itself.                                      *)
Register(h) == /\ step[h] = "register"
               /\ registerTarSource(h, from[h])
               /\ Go(h, "done")
               /\ UNCHANGED <<from, late, losses, lates>>

(* Untarring fails, or the hodring dies: it serves no more.                *)
Crash(h) == /\ step[h] \notin {"failed", "gone"} /\ Lose
            /\ Go(h, "gone")
            /\ UNCHANGED <<downloads, from, late, lates>>

(* A call whose answer does not come in time is made again; the ring       *)
(* master handles the first one all the same, sooner or later.             *)
CallOf == [ask |-> "getTarList", register |-> "registerTarSource"]
TimeOut(h) == /\ step[h] \in DOMAIN CallOf
              /\ lates < MaxLate /\ lates' = lates + 1
              /\ late' = late \cup {<<h, CallOf[step[h]]>>}
              /\ UNCHANGED <<downloads, step, from, losses>>

HandleLate(h, call) ==
  /\ <<h, call>> \in late /\ late' = late \ {<<h, call>>}
  /\ IF call = "getTarList" THEN (\E s \in Servers : getTarList(s)) \/ (Choices = {} /\ UNCHANGED downloads)
                            ELSE registerTarSource(h, from[h])
  /\ UNCHANGED <<step, from, losses, lates>>

(* The 30th call in vain returns None: no address to fetch from, or a      *)
(* tarball that nobody is told of.                                         *)
Unreachable(h) == /\ step[h] \in DOMAIN CallOf /\ Lose
                  /\ Go(h, IF step[h] = "ask" THEN "failed" ELSE "done")
                  /\ UNCHANGED <<downloads, from, late, lates>>

Download(h) == Ask(h) \/ AskAgain(h) \/ Fetch(h) \/ FetchFails(h) \/ Register(h)
Fault(h) == Crash(h) \/ TimeOut(h) \/ Unreachable(h)
Ended == {"done", "failed", "gone"}
Done == (\A h \in HodRings : step[h] \in Ended) /\ UNCHANGED tarVars
TarNext == \/ \E h \in HodRings : Download(h) \/ Fault(h) \/ \E call \in Calls : HandleLate(h, call)
        \/ Done

(* A hodring is a process that runs on; the calls of the others reach the  *)
(* ring master one after another.                                          *)
TarSpec == TarInit /\ [][TarNext]_tarVars /\ \A h \in HodRings : WF_tarVars(Download(h))

-----------------------------------------------------------------------------
TypeOK == /\ DOMAIN downloads \in SUBSET Servers /\ Master \in DOMAIN downloads
          /\ \A s \in DOMAIN downloads : downloads[s] \in Int
          /\ step \in [HodRings -> {"ask", "fetch", "register"} \cup Ended]
          /\ from \in [HodRings -> Servers \cup {None}]
          /\ \A h \in HodRings : step[h] \in {"fetch", "register"} => from[h] \in DOMAIN downloads
          /\ late \subseteq HodRings \X Calls
          /\ losses \in 0..MaxLosses /\ lates \in 0..MaxLate

Fetching(s) == {h \in HodRings : step[h] = "fetch" /\ from[h] = s}
Holding(s)  == {h \in HodRings : step[h] \in {"fetch", "register"} /\ from[h] = s}

(* As long as no call was given up and repeated, no server is told to more *)
(* than max-connect hodrings at a time, whatever crashes and fails.  (the  *)
(* option of the ring master; getTarList, registerTarSource)               *)
ConnectionsBounded == lates = 0 => \A s \in Servers : Cardinality(Fetching(s)) <= MaxConnect

(* A hodring gets the tarball or fails, unless every slot of every server  *)
(* was lost to calls and hodrings that do not return it: then the rest ask *)
(* for ever.  (__download_package)                                         *)
Starved == \A s \in DOMAIN downloads : downloads[s] >= MaxConnect /\ Holding(s) = {}
EndsOrStarves(h) == <>(step[h] \in Ended \/ Starved)

=============================================================================
