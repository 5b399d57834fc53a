---------------------------- MODULE ShortOptions ----------------------------
(***************************************************************************)
(* The one-letter forms of the options: options.__gen_alpha and            *)
(* __build_short_map of hodlib/Common/setup.py.  An option whose           *)
(* definition names a letter keeps it; the others get one, in the order of *)
(* their sections and names, before __add_option hands all of them to      *)
(* optparse, which refuses a letter that is taken.                         *)
(***************************************************************************)
EXTENDS Naturals, Sequences, SequencesExt

CONSTANTS
  Alphabet,    \* __alphaString, a sequence of letters
  Reserved,    \* __reserved: h, v, and c when there is a configuration file
  Lists,       \* the sequences of options [name, short] to consider
  NoLetter     \* no letter named, or none found

VARIABLES
  options,     \* the options in the order of __build_short_map
  shortMap,    \* the letters that it has given out, NoLetter for none
  next         \* the option that is its turn

vars == <<options, shortMap, next>>

Init == /\ options \in Lists
        /\ shortMap = [i \in DOMAIN options |-> NoLetter]
        /\ next = 1

(* __gen_alpha: the letters no definition names.                           *)
Assigned == {options[i].short : i \in DOMAIN options} \ {NoLetter}
alpha == ToSet(Alphabet) \ Assigned

shortOptions == {shortMap[i] : i \in DOMAIN options} \ {NoLetter}

Free(c) == c \in alpha /\ c \notin shortOptions /\ c \notin Reserved

(* The first letter of the name that is free; if there is none, the loop   *)
(* over the alphabet has no break and ends with the last free one.         *)
Letter(option) ==
  LET inName == SelectInSeq(option.name, Free)
      inAlpha == SelectLastInSeq(Alphabet, Free)
  IN IF inName # 0 THEN option.name[inName]
     ELSE IF inAlpha # 0 THEN Alphabet[inAlpha] ELSE NoLetter

(* Mutant: an option keeps only a letter of its own name.                  *)
MutAssign ==
  /\ next <= Len(options)
  /\ shortMap' = IF options[next].short = NoLetter /\ SelectInSeq(options[next].name, Free) # 0
                 THEN [shortMap EXCEPT ![next] = Letter(options[next])] ELSE shortMap
  /\ next' = next + 1
  /\ UNCHANGED options
Assign ==
  /\ next <= Len(options)
  /\ shortMap' = IF options[next].short = NoLetter
                 THEN [shortMap EXCEPT ![next] = Letter(options[next])] ELSE shortMap
  /\ next' = next + 1
  /\ UNCHANGED options

Next == Assign
Spec == Init /\ [][Next]_vars

----------------------------------------------------------------------------
TypeOK == /\ options \in Lists /\ next \in 1..Len(options) + 1
          /\ shortMap \in [DOMAIN options -> ToSet(Alphabet) \cup {NoLetter}]

(* The letter under which an option is added (__add_option).               *)
Short(i) == IF shortMap[i] # NoLetter THEN shortMap[i] ELSE options[i].short

(* No letter is given out that another option, or the parser itself, has:  *)
(* add_option would raise and no HOD program would start.  (definitions    *)
(* that themselves clash are not considered)                               *)
NoConflict ==
  \A i, j \in DOMAIN options :
    /\ i # j /\ shortMap[i] # NoLetter => Short(j) # shortMap[i]
    /\ shortMap[i] \notin Reserved

(* An option goes without a letter only when there is none left.           *)
AllServed ==
  \A i \in 1..(next - 1) : Short(i) = NoLetter =>
    \A c \in ToSet(Alphabet) : c \in Reserved \/ \E j \in DOMAIN options : Short(j) = c

=============================================================================
