--------------------------- MODULE ServiceRegistry ---------------------------
(***************************************************************************)
(* The service registry of HOD (serviceRegistry.py) and its clients, which *)
(* call it through hodXRClient: a call that gets no answer in time is made *)
(* again, while the thread that serves the first one goes on.              *)
(***************************************************************************)
EXTENDS Integers, Sequences

CONSTANTS Clients, Threads,      \* the threads of the registry's server
          Users, Jobs, Hosts, Ids, Dicts,
          MaxTries,              \* the attempts of hodXRClient (30)
          Wanted(_),             \* which requests a client makes
          MaxCalls,              \* bound on the calls of a client
          Ok, None               \* the answer True; no call or answer
ASSUME RegistryAssumption ==
  /\ MaxTries \in Nat \ {0} /\ MaxCalls \in Nat
  /\ Ok # None
  /\ None \notin Users \cup Jobs \cup Ids \cup Threads
  /\ None \notin [user : Users, job : Jobs, host : Hosts, id : Ids, dict : Dicts]
  /\ None \notin [user : Users \cup {None}, job : Jobs \cup {None},
                  id : Ids \cup {None}]

(* A service is registered under a user, a job and a host, as name.type    *)
(* with its dictionary.                                                    *)
Entries == [user : Users, job : Jobs, host : Hosts, id : Ids, dict : Dicts]
Queries == [user : Users \cup {None}, job : Jobs \cup {None}, id : Ids \cup {None}]
Requests == Entries \cup Queries
Keys == Users \X Jobs \X Hosts
KeyOf(e) == <<e.user, e.job, e.host>>

(* Which entries getServiceInfo(userid, job, name, type) returns: an       *)
(* argument counts only when those before it are given.                    *)
Matches(e, q) == \/ q.user = None
                 \/ /\ e.user = q.user
                    /\ \/ q.job = None
                       \/ e.job = q.job /\ q.id \in {None, e.id}
Find(S, q) == {e \in S : Matches(e, q)}

VARIABLES
  serviceDict,     \* the nested dictionaries, as a function of their keys
  lock,            \* who holds __serviceDictLock
  pc, request,     \* per thread: where it is; the call it serves
  view,            \* how many of its keys registerService has found
  todo, seen,      \* what getServiceInfo has still to copy, and has copied
  call, tries, serving,      \* per client: the call, its attempts, the thread
  calls,                     \* how many calls it has made
  asked, answers, result     \* history: see Directory

registry == <<serviceDict, lock>>
threads == <<pc, request, view, todo, seen>>
clients == <<call, tries, serving, calls>>
history == <<asked, answers, result>>
vars == <<registry, threads, clients, history>>

Init ==
  /\ serviceDict = << >> /\ lock = None
  /\ pc = [t \in Threads |-> "idle"] /\ request = [t \in Threads |-> None]
  /\ view = [t \in Threads |-> 0]
  /\ todo = [t \in Threads |-> {}] /\ seen = [t \in Threads |-> {}]
  /\ call = [c \in Clients |-> None] /\ tries = [c \in Clients |-> 0]
  /\ serving = [c \in Clients |-> None] /\ calls = [c \in Clients |-> 0]
  /\ asked = {} /\ answers = [c \in Clients |-> {}]
  /\ result = [c \in Clients |-> None]

Items(key) == {serviceDict[key][i] : i \in DOMAIN serviceDict[key]}
Stored == UNION {Items(key) : key \in DOMAIN serviceDict}
-----------------------------------------------------------------------------
(* hodXRClient.__request                                                   *)
Attempt(c, t, r) ==
  /\ pc[t] = "idle"
  /\ pc' = [pc EXCEPT ![t] = "acquire"] /\ request' = [request EXCEPT ![t] = r]
  /\ serving' = [serving EXCEPT ![c] = t]
  /\ UNCHANGED <<view, todo, seen>>

Call(c, r) ==
  /\ call[c] = None /\ call' = [call EXCEPT ![c] = r]
  /\ calls[c] < MaxCalls /\ calls' = [calls EXCEPT ![c] = @ + 1]
  /\ tries' = [tries EXCEPT ![c] = 1]
  /\ \E t \in Threads : Attempt(c, t, r)
  /\ result' = [result EXCEPT ![c] = None]
  /\ asked' = IF r \in Entries THEN asked \cup {r} ELSE asked
  /\ UNCHANGED <<registry, answers>>

Retry(c) ==
  /\ call[c] # None /\ tries[c] < MaxTries
  /\ tries' = [tries EXCEPT ![c] = @ + 1]
  /\ \E t \in Threads : Attempt(c, t, call[c])
  /\ UNCHANGED <<registry, call, calls, history>>

GiveUp(c) ==
  /\ call[c] # None /\ tries[c] = MaxTries
  /\ call' = [call EXCEPT ![c] = None] /\ serving' = [serving EXCEPT ![c] = None]
  /\ result' = [result EXCEPT ![c] = None]
  /\ answers' = [answers EXCEPT ![c] = {}]
  /\ UNCHANGED <<registry, threads, tries, calls, asked>>

Finish(t) ==
  /\ pc' = [pc EXCEPT ![t] = "idle"] /\ request' = [request EXCEPT ![t] = None]
  /\ view' = [view EXCEPT ![t] = 0] /\ todo' = [todo EXCEPT ![t] = {}]
  /\ seen' = [seen EXCEPT ![t] = {}]
  /\ serving' = [c \in Clients |-> IF serving[c] = t THEN None ELSE serving[c]]

(* A request that does not reach the registry.                             *)
Lose(t) ==
  /\ pc[t] = "acquire" /\ Finish(t)
  /\ UNCHANGED <<registry, call, tries, calls, history>>
-----------------------------------------------------------------------------
Agree(k, l, depth) == \A i \in 1..depth : k[i] = l[i]
Found(key, depth) == \E k \in DOMAIN serviceDict : Agree(k, key, depth)
Depth(key) == CHOOSE d \in 0..3 : /\ d = 0 \/ Found(key, d)
                                  /\ d = 3 \/ ~Found(key, d + 1)

(* Mutant: the lock is taken only to write.                                *)
MutAcquire(t) ==
  /\ pc[t] = "acquire"
  /\ \/ /\ request[t] \in Entries
        /\ pc' = [pc EXCEPT ![t] = "write"]
        /\ view' = [view EXCEPT ![t] = Depth(KeyOf(request[t]))]
        /\ UNCHANGED <<todo, seen>>
     \/ /\ request[t] \in Queries
        /\ pc' = [pc EXCEPT ![t] = "copy"]
        /\ todo' = [todo EXCEPT ![t] = DOMAIN serviceDict]
        /\ seen' = [seen EXCEPT ![t] = {}]
        /\ UNCHANGED view
  /\ UNCHANGED <<serviceDict, lock, request, clients, history>>

(* Mutant: the copy is made outside the lock.                              *)
MutAcquireCopy(t) ==
  /\ pc[t] = "acquire"
  /\ \/ /\ request[t] \in Entries /\ lock = None /\ lock' = t
        /\ pc' = [pc EXCEPT ![t] = "write"]
        /\ view' = [view EXCEPT ![t] = Depth(KeyOf(request[t]))]
        /\ UNCHANGED <<todo, seen>>
     \/ /\ request[t] \in Queries /\ UNCHANGED lock
        /\ pc' = [pc EXCEPT ![t] = "copy"]
        /\ todo' = [todo EXCEPT ![t] = DOMAIN serviceDict]
        /\ seen' = [seen EXCEPT ![t] = {}]
        /\ UNCHANGED view
  /\ UNCHANGED <<serviceDict, request, clients, history>>

(* lock.acquire(), and the tests of registerService or the keys that       *)
(* getServiceInfo will go through.                                         *)
Acquire(t) ==
  /\ pc[t] = "acquire" /\ lock = None /\ lock' = t
  /\ \/ /\ request[t] \in Entries
        /\ pc' = [pc EXCEPT ![t] = "write"]
        /\ view' = [view EXCEPT ![t] = Depth(KeyOf(request[t]))]
        /\ UNCHANGED <<todo, seen>>
     \/ /\ request[t] \in Queries
        /\ pc' = [pc EXCEPT ![t] = "copy"]
        /\ todo' = [todo EXCEPT ![t] = DOMAIN serviceDict]
        /\ seen' = [seen EXCEPT ![t] = {}]
        /\ UNCHANGED view
  /\ UNCHANGED <<serviceDict, request, clients, history>>

(* The dictionary at the first key that was not found is replaced whole.   *)
Kept(key, depth) ==
  {k \in DOMAIN serviceDict : ~Agree(k, key, IF depth = 3 THEN 3 ELSE depth + 1)}
Written(e, depth) ==
  [k \in Kept(KeyOf(e), depth) \cup {KeyOf(e)} |->
     IF k # KeyOf(e) THEN serviceDict[k]
     ELSE IF depth = 3 THEN Append(serviceDict[k], e) ELSE <<e>>]

Answered(t, a) ==
  answers' = [c \in Clients |-> IF serving[c] = t THEN answers[c] \cup {a}
                                ELSE answers[c]]
Release(t) == lock' = None /\ pc' = [pc EXCEPT ![t] = "reply"]

registerService(t) ==
  /\ pc[t] = "write"
  /\ serviceDict' = Written(request[t], view[t])
  /\ Release(t) /\ Answered(t, Ok)
  /\ UNCHANGED <<request, view, todo, seen, clients, asked, result>>

Copy(t) ==
  /\ pc[t] = "copy"
  /\ \E key \in todo[t] :
       /\ seen' = [seen EXCEPT ![t] = @ \cup Find(Items(key), request[t])]
       /\ todo' = [todo EXCEPT ![t] = @ \ {key}]
  /\ UNCHANGED <<registry, pc, request, view, clients, history>>

getServiceInfo(t) ==
  /\ pc[t] = "copy" /\ todo[t] = {}
  /\ Release(t) /\ Answered(t, seen[t])
  /\ UNCHANGED <<serviceDict, request, view, todo, seen, clients, asked, result>>

(* The answer, to the client if it still waits for this thread.            *)
Value(t) == IF request[t] \in Entries THEN Ok ELSE seen[t]
Reply(t) ==
  /\ pc[t] = "reply" /\ Finish(t)
  /\ call' = [c \in Clients |-> IF serving[c] = t THEN None ELSE call[c]]
  /\ result' = [c \in Clients |-> IF serving[c] = t THEN Value(t) ELSE result[c]]
  /\ answers' = [c \in Clients |-> IF serving[c] = t THEN {} ELSE answers[c]]
  /\ UNCHANGED <<registry, tries, calls, asked>>

Next == \/ \E c \in Clients : \/ \E r \in Requests : r \in Wanted(c) /\ Call(c, r)
                              \/ Retry(c) \/ GiveUp(c)
        \/ \E t \in Threads : \/ Lose(t) \/ Acquire(t) \/ registerService(t)
                              \/ Copy(t) \/ getServiceInfo(t) \/ Reply(t)
Spec == Init /\ [][Next]_vars
-----------------------------------------------------------------------------
TypeOK ==
  /\ \E D \in SUBSET Keys : serviceDict \in [D -> Seq(Entries)]
  /\ lock \in Threads \cup {None}
  /\ pc \in [Threads -> {"idle", "acquire", "write", "copy", "reply"}]
  /\ request \in [Threads -> Requests \cup {None}]
  /\ view \in [Threads -> 0..3]
  /\ todo \in [Threads -> SUBSET Keys] /\ seen \in [Threads -> SUBSET Entries]
  /\ call \in [Clients -> Requests \cup {None}]
  /\ tries \in [Clients -> 0..MaxTries] /\ calls \in [Clients -> 0..MaxCalls]
  /\ serving \in [Clients -> Threads \cup {None}]
  /\ asked \in SUBSET Entries
  /\ answers \in [Clients -> SUBSET ({Ok} \cup SUBSET Entries)]
  /\ result \in [Clients -> {Ok, None} \cup SUBSET Entries]

(* The lock: one thread at a time is between acquire and release, and what *)
(* it has read of the dictionary is still so.                              *)
LockInv ==
  \A t \in Threads :
    /\ pc[t] \in {"write", "copy"} <=> lock = t
    /\ pc[t] = "write" => /\ request[t] \in Entries /\ request[t] \in asked
                          /\ view[t] = Depth(KeyOf(request[t]))
    /\ pc[t] = "copy" =>
         /\ request[t] \in Queries /\ todo[t] \subseteq DOMAIN serviceDict
         /\ seen[t] = UNION {Find(Items(k), request[t]) :
                               k \in DOMAIN serviceDict \ todo[t]}

(* Who serves whom: a client waits for at most one thread, no two for the  *)
(* same, the thread works on the client's call, and the answer it has      *)
(* ready was right when it was made.                                       *)
ServingInv ==
  /\ \A c \in Clients : serving[c] # None =>
        /\ call[c] # None /\ pc[serving[c]] # "idle"
        /\ request[serving[c]] = call[c]
        /\ pc[serving[c]] = "reply" => Value(serving[c]) \in answers[c]
  /\ \A c, d \in Clients : serving[c] = serving[d] => c = d \/ serving[c] = None
  /\ \A c \in Clients : call[c] \in Entries => call[c] \in asked
  /\ \A t \in Threads : pc[t] # "idle" =>
        /\ request[t] \in Requests
        /\ request[t] \in Entries => request[t] \in asked
  /\ \A c \in Clients : /\ call[c] = None => answers[c] = {}
                        /\ Ok \in answers[c] /\ call[c] \in Entries
                             => call[c] \in Stored

(* What registerService returns to the ring master is so: when the True    *)
(* arrives, after however many attempts, the service can be found.         *)
AcknowledgedStays ==
  [][\A c \in Clients :
       call[c] \in Entries /\ call'[c] = None /\ result'[c] = Ok
         => call[c] \in Stored']_vars

(* And what has been registered remains, whatever else is registered for   *)
(* the same user, job or host.                                             *)
NothingForgotten == [][Stored \subseteq Stored']_vars

(* The registry implements the directory: whatever the threads of the      *)
(* server do between acquire and release, and however often a client asks  *)
(* again, each answer of getServiceInfo is the directory at one moment of  *)
(* the call, and a repeated registration counts once.                      *)
Promise == INSTANCE Directory WITH entries <- Stored
ImplementsDirectory == Promise!Spec
===============================================================================
