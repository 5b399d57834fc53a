------------------------------ MODULE Directory ------------------------------
(***************************************************************************)
(* What the service registry promises its clients: a directory that only   *)
(* grows, whose every answer was right at some moment of the call.  A call *)
(* may be given up without an answer; a registration that was given up may *)
(* still be entered later, and one that is repeated is entered once.       *)
(***************************************************************************)
CONSTANTS Clients, Entries, Queries,
          Find(_, _),            \* Find(S, q): what q finds in the entries S
          Ok,                    \* the answer to a registration
          None                   \* no call, no answer

VARIABLES
  entries,         \* the registrations entered
  asked,           \* the registrations some client has asked for
  call, answers,   \* per client: the open call; the answers that were right
  result           \* what the last call of a client returned

vars == <<entries, asked, call, answers, result>>

Init == /\ entries = {} /\ asked = {}
        /\ call = [c \in Clients |-> None]
        /\ answers = [c \in Clients |-> {}]
        /\ result = [c \in Clients |-> None]

Call(c, request) ==
  /\ call[c] = None
  /\ call' = [call EXCEPT ![c] = request]
  /\ asked' = IF request \in Entries THEN asked \cup {request} ELSE asked
  /\ result' = [result EXCEPT ![c] = None] /\ UNCHANGED <<entries, answers>>

Enter(c) ==
  /\ call[c] \in Entries
  /\ entries' = entries \cup {call[c]}
  /\ answers' = [answers EXCEPT ![c] = @ \cup {Ok}]
  /\ UNCHANGED <<asked, call, result>>

EnterLate(e) ==
  /\ e \in asked /\ entries' = entries \cup {e}
  /\ UNCHANGED <<asked, call, answers, result>>

Look(c) ==
  /\ call[c] \in Queries
  /\ answers' = [answers EXCEPT ![c] = @ \cup {Find(entries, call[c])}]
  /\ UNCHANGED <<entries, asked, call, result>>

Return(c) ==
  /\ call[c] # None
  /\ \E a \in answers[c] \cup {None} : result' = [result EXCEPT ![c] = a]
  /\ call' = [call EXCEPT ![c] = None] /\ answers' = [answers EXCEPT ![c] = {}]
  /\ UNCHANGED <<entries, asked>>

Next == \/ \E c \in Clients : \/ \E r \in Entries \cup Queries : Call(c, r)
                              \/ Enter(c) \/ Look(c) \/ Return(c)
        \/ \E e \in Entries : EnterLate(e)
Spec == Init /\ [][Next]_vars
===============================================================================
