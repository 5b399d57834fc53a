------------------------------- MODULE Config -------------------------------
(***************************************************************************)
(* The configuration of HOD, hodlib/Common/setup.py: the client merges its *)
(* command line with the file hodrc and verifies the result, hands it over *)
(* to the ring master as a command line (through the shell of the batch    *)
(* job), and the ring master hands the section hodring over to the         *)
(* hodrings.  Each of them parses and verifies what it is given.           *)
(***************************************************************************)
EXTENDS Types, SequencesExt

CONSTANTS
  Options,     \* the options, whatever their section
  Section,     \* "hod" (client only), "ringmaster" or "hodring"
  Def,         \* [process -> [option -> type, default, req and validate]]
  Params,      \* the options that accumulate, as server-params
  FinalParams, \* the ones of them whose value in hodrc stays
  Inputs,      \* the contents of hodrc and the command lines to consider
  Home, Node   \* the directory of the user, and the one of a batch job

VARIABLES
  hodrc,       \* [Options -> a text or Absent]
  cmdline,     \* [Options -> the sequence of values given]
  parsed,      \* the options object of the client, _options
  dict,        \* [process -> its _dict]
  default,     \* [process -> the default values of its definitions]
  status       \* [process -> how far it is]

vars == <<hodrc, cmdline, parsed, dict, default, status>>

Procs == {"client", "ringmaster", "hodring"}
Comma == ","
Absent == [absent |-> TRUE]
NoOptions == [o \in Options |-> Absent]
Given(d) == {o \in Options : d[o] # Absent}

(* The options that a process knows.                                       *)
Known(p) == {o \in Options : \/ p = "client"
                             \/ p = "ringmaster" /\ Section[o] # "hod"
                             \/ p = "hodring" /\ Section[o] = "hodring"}
Type(p, o) == Def[p][o].type
cwd(p) == IF p = "client" THEN Home ELSE Node

Init ==
  /\ \E i \in Inputs : hodrc = i.hodrc /\ cmdline = i.cmdline
  /\ parsed = NoOptions
  /\ dict = [p \in Procs |-> NoOptions]
  /\ default = [p \in Procs |-> [o \in Options |-> Def[p][o].default]]
  /\ status = [p \in Procs |-> "new"]

----------------------------------------------------------------------------
(* optparse, with the actions that __add_option gives to the options.      *)
Parsed(p, o, given) ==
  IF given = <<>> THEN default[p][o]
  ELSE IF o \in Params THEN Join(Comma, FlattenSeq([i \in DOMAIN given |-> Parts(Comma, given[i])]))
  ELSE IF Type(p, o) = "bool" THEN [bool |-> TRUE]
  ELSE given[Len(given)]

(* __build_dict: a value that Python takes for false is not entered, and a *)
(* bool that is not entered is False.                                      *)
IsFalse(v) == v \in {NoValue, Empty, [bool |-> FALSE], [int |-> 0], [float |-> 0]}
build_dict(p, given) ==
  [o \in Options |->
    IF o \notin Known(p) THEN Absent
    ELSE IF ~IsFalse(Parsed(p, o, given[o])) THEN Parsed(p, o, given[o])
    ELSE IF Type(p, o) = "bool" THEN [bool |-> FALSE] ELSE Absent]

(* options.__init__ of the client.                                         *)
ParseOptions ==
  /\ status["client"] = "new"
  /\ parsed' = build_dict("client", cmdline)
  /\ status' = [status EXCEPT !["client"] = "parsed"]
  /\ UNCHANGED <<hodrc, cmdline, dict, default>>

----------------------------------------------------------------------------
(* config.__initialize_config_dict                                         *)

(* The part before the first '=', and what follows it.                     *)
Key(item) == Parts("=", item)[1]
Value(item) == IF Len(Parts("=", item)) = 1 THEN NoValue ELSE Join("=", Tail(Parts("=", item)))

(* The items of a list, and a dictionary d into which some of them are     *)
(* entered one after the other: a key that it has takes the new value, or  *)
(* keeps its own.                                                          *)
Items(t) == IF t = Absent THEN <<>> ELSE Parts(Comma, t)
Entered(d, items, skipped, overwrite) ==
  LET upto[i \in 0..Len(items)] ==
        IF i = 0 THEN d
        ELSE LET k == Key(items[i])
                 e == upto[i - 1]
             IN IF items[i] \in skipped \/ (k \in DOMAIN e /\ ~overwrite) THEN e
                ELSE [x \in DOMAIN e \cup {k} |-> IF x = k THEN Value(items[i]) ELSE e[x]]
  IN upto[Len(items)]

(* A key without a value, an empty value included, becomes a bare key.     *)
Item(k, v) == IF v \in {NoValue, Empty} THEN k ELSE Join("=", <<k>> \o Parts("=", v))

(* The text of a dictionary: no comma is put behind an empty beginning.    *)
AsText(d) ==
  LET keys == SetToSeq(DOMAIN d)
      items == [i \in DOMAIN keys |-> Item(keys[i], d[keys[i]])]
  IN Join(Comma, IF Len(items) > 1 /\ items[1] = Empty THEN Tail(items) ELSE items)

(* Mutant: the command line also replaces final parameters.                *)
MutMergeParams(o, file, line) ==
  AsText(Entered(Entered(<<>>, Items(file), {Empty}, TRUE), Items(line), {}, TRUE))
(* The parameters of hodrc, then those of the command line: they replace   *)
(* what is there, or for final parameters only add to it.                  *)
MergeParams(o, file, line) ==
  AsText(Entered(Entered(<<>>, Items(file), {Empty}, TRUE), Items(line), {}, o \notin FinalParams))
(* The other options: hodrc, unless the parsed value is not the default.   *)
MergeOption(o, file, line) ==
  IF file = Absent \/ default["client"][o] # line THEN line ELSE file

MergeConfig ==
  /\ status["client"] = "parsed"
  /\ dict' = [dict EXCEPT !["client"] =
                [o \in Options |-> IF parsed[o] = Absent THEN hodrc[o]
                                   ELSE IF o \in Params THEN MergeParams(o, hodrc[o], parsed[o])
                                   ELSE MergeOption(o, hodrc[o], parsed[o])]]
  /\ status' = [status EXCEPT !["client"] = "merged"]
  /\ UNCHANGED <<hodrc, cmdline, parsed, default>>

----------------------------------------------------------------------------
(* baseConfig.verify                                                       *)

(* The value info of an option, empty when its check raises.               *)
Info(p, o) == IF Def[p][o].validate THEN Verify(Type(p, o), dict[p][o], cwd(p))
              ELSE Accept(normalize(Type(p, o), dict[p][o], cwd(p)))

Set(p) == Given(dict[p]) \cap Known(p)
Undefined(p) == {o \in Known(p) \ Given(dict[p]) : Def[p][o].req}

NormDefault(p, o) ==
  IF default[p][o] = NoValue THEN NoValue
  ELSE toString(Type(p, o), CHOOSE v \in normalize(Type(p, o), default[p][o], cwd(p)) : TRUE)

Raises(p, o) == \/ Info(p, o) = {}
                \/ default[p][o] # NoValue /\ normalize(Type(p, o), default[p][o], cwd(p)) = {}

Verdict(p) == IF \E o \in Set(p) : Raises(p, o) THEN "raised"
              ELSE IF Undefined(p) # {} \/ \E o \in Set(p) : Info(p, o) = {Invalid} THEN "invalid"
              ELSE "valid"

(* The ring master replaces the escapes as soon as it has verified.  An    *)
(* exception ends the process.                                             *)
VerifyConfig(p) ==
  /\ status[p] = IF p = "client" THEN "merged" ELSE "parsed"
  /\ status' = [status EXCEPT ![p] = Verdict(p)]
  /\ IF Verdict(p) = "raised" THEN UNCHANGED <<dict, default>>
     ELSE /\ dict' = [dict EXCEPT ![p] = [o \in Options |->
                 LET v == (CHOOSE i \in Info(p, o) : TRUE).normalized
                 IN IF o \notin Set(p) \/ Info(p, o) = {Invalid} THEN dict[p][o]
                    ELSE IF p = "ringmaster" /\ Verdict(p) = "valid" THEN replace_escapes(v)
                    ELSE v]]
          /\ default' = [default EXCEPT ![p] =
                 [o \in Options |-> IF o \in Set(p) THEN NormDefault(p, o) ELSE @[o]]]
  /\ UNCHANGED <<hodrc, cmdline, parsed>>

----------------------------------------------------------------------------
(* get_args, the shell, and the option parser of the next process          *)

Flag(o) == [flag |-> o]

(* __get_args: a bool is a bare flag, or nothing when it is False.         *)
get_args(p, o) ==
  IF Type(p, o) = "bool" THEN IF dict[p][o] = [bool |-> TRUE] THEN <<Flag(o)>> ELSE <<>>
  ELSE <<Flag(o), toString(Type(p, o), dict[p][o])>>
(* Within double quotes the shell halves pairs of backslashes and leaves a *)
(* single one; elsewhere it drops that one too, splits at blanks and loses *)
(* an empty argument.                                                      *)
InQuotes(t) == IF Has(t, "slashes") THEN [t EXCEPT !.slashes = (@ \div 2) + (@ % 2)] ELSE t
MapItems(F(_), t) ==
  LET items == Parts(Comma, t)
  IN Join(Comma, [i \in DOMAIN items |->
                  Join("=", [j \in DOMAIN Parts("=", items[i]) |-> F(Parts("=", items[i])[j])])])
Shell(a) == IF Has(a, "flag") THEN <<a>>
            ELSE IF Has(a, "quoted") THEN <<MapItems(InQuotes, a.quoted)>>
            ELSE SelectSeq([i \in DOMAIN Parts(" ", a) |-> MapItems(Unescape, Parts(" ", a)[i])],
                           LAMBDA t : t # Empty)

Args(p, child) == LET os == InSomeOrder(Given(dict[p]) \cap Known(child))
                      as == FlattenSeq([i \in DOMAIN os |-> get_args(p, os[i])])
                  IN FlattenSeq([i \in DOMAIN as |-> Shell(as[i])])

(* optparse from left to right: an option that takes a value takes the     *)
(* next argument, whatever it is; what is left over is positional.         *)
Optparse(p, args) ==
  LET step(s, a) ==
        IF s.wants # {} THEN [wants |-> {}, given |-> [o \in Options |->
                                IF o \in s.wants THEN Append(s.given[o], a) ELSE s.given[o]]]
        ELSE IF ~Has(a, "flag") THEN s
        ELSE IF Type(p, a.flag) = "bool" THEN [s EXCEPT !.given[a.flag] = Append(@, a)]
        ELSE [s EXCEPT !.wants = {a.flag}]
  IN FoldLeft(step, [wants |-> {}, given |-> [o \in Options |-> <<>>]], args)

Parent(p) == IF p = "ringmaster" THEN "client" ELSE "ringmaster"

(* The parent starts a process with its options as the command line.       *)
Launch(p) ==
  /\ p # "client" /\ status[p] = "new" /\ status[Parent(p)] = "valid"
  /\ LET s == Optparse(p, Args(Parent(p), p))
     IN IF s.wants # {} THEN /\ status' = [status EXCEPT ![p] = "usage"]
                             /\ UNCHANGED dict
        ELSE /\ dict' = [dict EXCEPT ![p] = build_dict(p, s.given)]
             /\ status' = [status EXCEPT ![p] = "parsed"]
  /\ UNCHANGED <<hodrc, cmdline, parsed, default>>

Next == ParseOptions \/ MergeConfig \/ \E p \in Procs : VerifyConfig(p) \/ Launch(p)
Spec == Init /\ [][Next]_vars

----------------------------------------------------------------------------
(* What the definitions and the inputs look like.                          *)

(* A text without the separators of parameters, a parameter, and a list.   *)
Whole(t) == Parts(Comma, t) = <<t>> /\ Parts("=", t) = <<t>>
ItemText(t) == /\ Parts(Comma, t) = <<t>>
               /\ Parts("=", t) \in Seq({u \in Range(Parts("=", t)) : Whole(u)}) \ {<<>>}
ParamText(t) == Parts(Comma, t) \in Seq({u \in Range(Parts(Comma, t)) : ItemText(u)}) \ {<<>>}

(* A text has one form, and a list of one item is that item.               *)
Canonical(t) == \/ DOMAIN t \in {{"digits"}, {"digits", "unit"}, {"tenths"}, {"at"}, {"rel"},
                                 {"word", "head", "slashes"}, {"scheme", "file"}}
                \/ /\ DOMAIN t = {"sep", "parts"}
                   /\ t.parts \in Seq(Range(t.parts)) /\ Len(t.parts) > 1

(* A default is None, a text of its type, or a number or bool of Python.   *)
IsDefault(type, v) ==
  \/ v = NoValue
  \/ /\ Canonical(v) /\ type # "keyval"
     /\ type = "address" => Len(Parts(":", v)) = 2
     /\ type = "range" => Len(Parts("-", v)) > 1
  \/ /\ DOMAIN v \in {{"int"}, {"float"}, {"bool"}}
     /\ type \in {"bool", "int", "pos_int", "neg_int", "freq", "tcp_port", "float", "pos_float",
                  "pos_num", "neg_float"}

(* The client verifies the parameters that accumulate.                     *)
WellDefined ==
  /\ \A p \in Procs, o \in Options : IsDefault(Type(p, o), Def[p][o].default)
  /\ \A o \in Params \cap Options :
       /\ Type("client", o) = "keyval" /\ Def["client"][o].validate
       /\ \A i \in Inputs :
            /\ i.hodrc[o] = Absent \/ ParamText(i.hodrc[o])
            /\ i.cmdline[o] \in Seq({t \in Range(i.cmdline[o]) : ParamText(t)})

----------------------------------------------------------------------------
(* Types: the definitions are known values, the states go forward.         *)
TypeOK ==
  /\ status \in [Procs -> {"new", "parsed", "merged", "valid", "invalid", "raised", "usage"}]
  /\ \A p \in Procs : DOMAIN dict[p] = Options /\ Given(dict[p]) \subseteq Known(p)
  /\ DOMAIN parsed = Options /\ DOMAIN default = Procs

(* A value that survives the shell as one argument.                        *)
Plain(p, o) ==
  LET v == dict[p][o]
      t == toString(Type(p, o), v)
  IN \/ Has(v, "bool") \/ Has(v, "dict")
     \/ Shell(t) = <<t>>

(* A bool that is False where the next process has True as its default     *)
(* cannot be handed over: there is no flag for it.                         *)
Unsayable(p, child) == {o \in Known(child) : /\ dict[p][o] = [bool |-> FALSE]
                                              /\ Def[child][o].default = [bool |-> TRUE]}

HandsOver(p, child) == /\ status[p] = "valid"
                       /\ \A o \in Given(dict[p]) \cap Known(child) : Plain(p, o)
                       /\ Unsayable(p, child) = {}

(* What the parent verified is what its child works with, after both have  *)
(* converted every value to a text and back and the shell has read it; the *)
(* ring master has the key values without their escapes.  (get_args,       *)
(* typeToString, __build_dict, verify, replace_escapes)                    *)
ChildSeesParent ==
  \A p \in {"ringmaster", "hodring"} :
    status[p] = "valid" /\ HandsOver(Parent(p), p) =>
      \A o \in Known(p) \cap Given(dict[Parent(p)]) :
        Type(p, o) = Type(Parent(p), o) => dict[p][o] = replace_escapes(dict[Parent(p)][o])

(* A configuration that the parent has accepted is not turned down by the  *)
(* child: no job waits in the queue for a ring master that refuses to      *)
(* start.  The options that only the child validates are left out, unless  *)
(* they have their default.  (verify of both processes, get_args)          *)
ChildAccepts ==
  \A p \in {"ringmaster", "hodring"} :
    LET q == Parent(p)
    IN /\ HandsOver(q, p)
       /\ \A o \in Known(p) \cap Given(dict[q]) :
            Def[p][o].validate => Def[q][o].validate \/ dict[q][o] = Def[p][o].default
       => status[p] \in {"new", "parsed", "valid"}

(* The parameters that accumulate: for every key the value of the command  *)
(* line, the last one where it is given twice; for final parameters that   *)
(* of hodrc, or else the first one of the command line.  None is lost on   *)
(* the way through the texts.  (__initialize_config_dict, __norm_keyval)   *)
Chosen(o, k) ==
  LET at(t) == {i \in DOMAIN Items(t) : Key(Items(t)[i]) = k}
      file == at(hodrc[o])
      line == at(parsed[o])
  IN IF file # {} /\ (line = {} \/ o \in FinalParams) THEN Value(Items(hodrc[o])[Max(file)])
     ELSE Value(Items(parsed[o])[IF o \in FinalParams THEN Min(line) ELSE Max(line)])
ParamsByPrecedence ==
  status["client"] = "valid" =>
    \A o \in Params \cap Given(dict["client"]) :
      LET keys(t) == {Key(Items(t)[i]) : i \in DOMAIN Items(t)} \ {Empty}
          d == dict["client"][o].dict
      IN /\ DOMAIN d \ {Empty} = keys(hodrc[o]) \cup keys(parsed[o])
         /\ \A k \in DOMAIN d \ {Empty} : d[k] = Chosen(o, k)

(* verify puts back the defaults it normalizes: they still mean the same   *)
(* value.  (baseConfig.verify)                                             *)
DefaultsKeepMeaning ==
  \A p \in Procs, o \in Options :
    default[p][o] # Def[p][o].default =>
      normalize(Type(p, o), default[p][o], cwd(p))
        = normalize(Type(p, o), Def[p][o].default, cwd(p))

=============================================================================
