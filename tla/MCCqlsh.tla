------------------------------ MODULE MCCqlsh ------------------------------
(***************************************************************************)
(* The parts of cqlsh, one at a time: "statement" (CqlHandling, with       *)
(* statements typed token by token), "rules" (Pylexotron, with small rules *)
(* instead of those of CQL) and "shell" (CqlShell).  The parts share no    *)
(* state: the reachable states are the sum of theirs, and the parts that   *)
(* do not run have none.                                                   *)
(***************************************************************************)
EXTENDS CqlHandling

CONSTANT MaxTokens     \* how many tokens are typed after the opening

VARIABLES
  tokens, left,
  names         \* the names and values the user types where the rules ask for one
vars == <<tokens, left, names>>

-----------------------------------------------------------------------------
(* The words of the runs.                                                  *)
Literals == {"'SimpleStrategy'", "'OldNetworkTopologyStrategy'", "'NetworkTopologyStrategy'",
             "'LeveledCompactionStrategy'", "'SizeTieredCompactionStrategy'",
             "'DeflateCompressor'", "'SnappyCompressor'", "'<obsolete_option>'", "'two'", "'KEY'"}
Numbers == {"1"}
Signs == {"(", ")", ",", "=", ".", "+", "-", "<", ">", "<=", ">=", "..", "*", ":", ";"}

Unquoted ==
  [w \in Literals |->
     CASE w = "'SimpleStrategy'" -> "SimpleStrategy"
       [] w = "'OldNetworkTopologyStrategy'" -> "OldNetworkTopologyStrategy"
       [] w = "'NetworkTopologyStrategy'" -> "NetworkTopologyStrategy"
       [] w = "'LeveledCompactionStrategy'" -> "LeveledCompactionStrategy"
       [] w = "'SizeTieredCompactionStrategy'" -> "SizeTieredCompactionStrategy"
       [] w = "'DeflateCompressor'" -> "DeflateCompressor"
       [] w = "'SnappyCompressor'" -> "SnappyCompressor"
       [] w = "'two'" -> "two"
       [] w = "'KEY'" -> "KEY"
       [] OTHER -> "<obsolete_option>"]
MCDequoted(w) == IF w \in Literals THEN Unquoted[w] ELSE w
MCQuoted(n) == CHOOSE w \in Literals : Unquoted[w] = n
Upper(w) == CASE w = "key" -> "KEY" [] w = "two" -> "TWO" [] w = "ttl" -> "TTL" [] w = "timestamp" -> "TIMESTAMP" [] OTHER -> w
Unquotable == {"ks1", "ks2", "users", "hits", "two", "id", "name", "age", "total", "age_idx", "key"}

TypeOf(w) ==
  CASE Upper(w) \in keywords -> Upper(w)
    [] w \in Literals  -> "stringLiteral"
    [] w \in Numbers -> "integer"
    [] w \in Signs     -> "op"
    [] OTHER           -> "identifier"
Lexed(ws) == [i \in DOMAIN ws |-> [type |-> TypeOf(ws[i]), text |-> ws[i]]]

(* The tokens of what is offered.                                          *)
Split(w) ==
  CASE w = "(*)" -> <<"(", "*", ")">>
    [] w = "strategy_class =" -> <<"strategy_class", "=">>
    [] w = "strategy_options:replication_factor =" -> <<"strategy_options", ":", "replication_factor", "=">>
    [] w = "compaction_strategy_options:" -> <<"compaction_strategy_options", ":">>
    [] w = "compression_parameters:" -> <<"compression_parameters", ":">>
    [] w = "ks1." -> <<"ks1", ".">>
    [] w = "ks2." -> <<"ks2", ".">>
    [] OTHER -> <<w>>

Column(n, index, counter) == [name |-> n, index |-> index, counter |-> counter]
Table(alias, cols, strategy) == [key_alias |-> alias, columns |-> cols, strategy |-> strategy]
Schema ==
  [ks1 |-> [users |-> Table("id", {Column("name", None, FALSE), Column("age", "age_idx", FALSE)}, "LeveledCompactionStrategy"),
            two   |-> Table("id", {Column("age", None, FALSE)}, "")],
   ks2 |-> [hits  |-> Table(None, {Column("total", None, TRUE)}, "SizeTieredCompactionStrategy")]]

-----------------------------------------------------------------------------
NoCompleter(rule, s, c) == NoOffers
Bare == INSTANCE Pylexotron WITH Completer <- NoCompleter, Fold <- Upper

Offers(ts)   == complete(Cql2, "CQL_Statement", ts) \ {Hint}
Asked(ts)    == Bare!complete(Cql2, "CQL_Statement", ts)
Accepted(ts) == Whole(Cql2, "CQL_Statement", ts) # <<>>
Viable(ts)   == Accepted(ts) \/ Asked(ts) # {}

(* The openings of a statement, as texts, and the names typed after them.  *)
Session(openings, typed) == [openings |-> openings, names |-> typed]
Queries == Session(
  {<<>>, <<"SELECT">>, <<"SELECT", "*", "FROM">>, <<"SELECT", "COUNT">>,
   <<"SELECT", "*", "FROM", "users">>, <<"SELECT", "*", "FROM", "'two'">>,
   <<"SELECT", "*", "FROM", "ks2", ".", "hits">>, <<"USE">>, <<"TRUNCATE">>, <<"DROP">>},
  {"users", "1"})
Changes == Session(
  {<<"INSERT", "INTO">>, <<"INSERT", "INTO", "users", "(">>,
   <<"INSERT", "INTO", "users", "(", "id", ",", "age", ")", "VALUES", "(", "1", ",", "1", ")">>,
   <<"UPDATE">>, <<"UPDATE", "ks2", ".", "hits">>, <<"UPDATE", "users">>,
   <<"UPDATE", "ks2", ".", "hits", "SET", "total", "=", "total">>,
   <<"UPDATE", "users", "SET", "age", "=", "1", "WHERE">>,
   <<"UPDATE", "users", "SET", "age">>, <<"UPDATE", "users", "USING", "TTL", "1", "AND", "TIMESTAMP">>,
   <<"DELETE">>, <<"DELETE", "FROM", "users">>, <<"BEGIN", "BATCH">>,
   <<"BEGIN", "BATCH", "USING", "TTL", "1", "DELETE", "FROM", "users">>},
  {"users", "'two'", "ttl", "1"})
Definitions == Session(
  {<<"CREATE">>, <<"CREATE", "KEYSPACE", "ks2", "WITH">>, <<"CREATE", "INDEX">>,
   <<"CREATE", "TABLE", "users", "(", "id", "text", "PRIMARY", "KEY", ")">>,
   <<"CREATE", "TABLE", "hits", "(", "id", "text", "PRIMARY", "KEY", ")", "WITH">>,
   <<"ALTER", "TABLE">>, <<"ALTER", "TABLE", "users">>, <<"ALTER", "TABLE", "users", "WITH">>,
   <<"ALTER", "TABLE", "users", "WITH", "compaction_strategy_class", "=">>,
   <<"CREATE", "KEYSPACE", "ks2", "WITH", "strategy_class", "=", "'SimpleStrategy'", "AND", "hits", "=">>,
   <<"DROP", "INDEX">>},
  {"hits", "strategy_class", "compaction_strategy_class", "compaction_strategy_options",
   "'SimpleStrategy'", "'NetworkTopologyStrategy'", "'LeveledCompactionStrategy'"})

Init == \E s \in {Queries, Changes, Definitions} : \E opening \in s.openings :
          tokens = Lexed(opening) /\ left = MaxTokens /\ names = s.names

(* The user types a token that the rules allow; a statement ends with ";". *)
Type == /\ left > 0
        /\ tokens # <<>> => Last(tokens).text # ";"
        /\ \E w \in (Asked(tokens) \ {Hint}) \cup names :
             LET next == tokens \o Lexed(<<w>>)
             IN  Viable(next) /\ tokens' = next
        /\ left' = left - 1 /\ UNCHANGED names

Spec == Init /\ [][Type]_vars

-----------------------------------------------------------------------------
Texts == [i \in DOMAIN tokens |-> tokens[i].text]
LastOf(ws) == LET at == {i \in DOMAIN tokens : Upper(Texts[i]) \in ws}
              IN  IF at = {} THEN 0 ELSE CHOOSE i \in at : \A j \in at : j <= i
EndsIn(ws) == tokens # <<>> /\ LastOf(ws) = Len(tokens)

(* Whatever cqlsh offers continues the statement, save for a consistency   *)
(* level or a type that is a reserved word. (completers against rules)     *)
OffersContinue ==
  \A w \in Offers(tokens) :
    \/ w \in consistency_levels \cup cql_types /\ Upper(w) \in keywords
    \/ Viable(tokens \o Lexed(Split(w)))

(* USING offers the options of the statement it belongs to that were not   *)
(* given in upper case since, those of a batch apart from those of its     *)
(* members. (insertopt, updateopt, delopt and batchopt)                    *)
OptionsOffered ==
  LET using == LastOf({"USING"})
      own == IF EndsIn({"USING"}) \/ EndsIn({"AND"}) THEN LastOf({"SET", "WHERE"}) < using ELSE FALSE
      statement == SelectInSeq(Reverse(SubSeq(Texts, 1, using)), LAMBDA w : w \in {"BEGIN", "INSERT", "UPDATE", "DELETE"})
      word == IF statement = 0 THEN "SELECT" ELSE Texts[using + 1 - statement]
      allowed == {"CONSISTENCY", "TIMESTAMP"} \cup IF word \in {"INSERT", "UPDATE"} THEN {"TTL"} ELSE {}
      given == {Texts[i + 1] : i \in {j \in using .. Len(tokens) - 1 : Texts[j] \in {"USING", "AND"}}}
  IN  own /\ using > 0 /\ word # "SELECT" => Offers(tokens) = allowed \ given

(* The table that the statement names, as the text says it.                *)
TableNamed ==
  LET f == LastOf({"FROM", "UPDATE", "INTO"})
  IN  IF f + 2 <= Len(tokens) /\ Texts[f + 2] = "."
      THEN <<Texts[f + 1], Texts[f + 3]>> ELSE <<current_keyspace, Texts[f + 1]>>
Known(t) == t[1] \in DOMAIN keyspaces /\ t[2] \in DOMAIN keyspaces[t[1]]

(* After WHERE the key and the indexed columns of the very table that the  *)
(* statement names are offered, and no column of another table; a table    *)
(* whose name needs quotes is not found. (get_cfdef)                       *)
OwnColumnsOffered ==
  LET def == keyspaces[TableNamed[1]][TableNamed[2]]
      filterable == Escaped({m.name : m \in {k \in def.columns : k.index # None}})
  IN  EndsIn({"WHERE"}) =>
        Offers(tokens) =
          IF Known(TableNamed)
          THEN filterable \cup {KeyName(def), maybe_escape_name(KeyName(def))}
          ELSE {}

(* A counter is offered on the right of "=", and nothing else is.          *)
(* (update_countername_completer)                                          *)
CountersOffered ==
  EndsIn({"="}) /\ LastOf({"SET"}) > LastOf({"WHERE"}) /\ Known(TableNamed) =>
    LET col == Texts[Len(tokens) - 1]
    IN  Offers(tokens) = {col : m \in {k \in keyspaces[TableNamed[1]][TableNamed[2]].columns :
                                          k.name = col /\ k.counter}}

(* The value of the first option of that name in the statement, as typed.  *)
ValueOf(opt) ==
  LET at == SelectInSeq(Texts, LAMBDA w : w = opt)
  IN  IF at = 0 \/ at + 2 > Len(tokens) THEN None ELSE Texts[at + 2]

(* The sub-options of a compaction strategy are offered when that strategy *)
(* is the one the statement sets, else the one of the table.               *)
(* (create_cf_suboption_completer)                                         *)
StrategyOptionsFit ==
  LET set == ValueOf("compaction_strategy_class")
      own == <<current_keyspace, Texts[3]>>
      class == IF set # None THEN Dequoted(set)
               ELSE IF Known(own) THEN keyspaces[own[1]][own[2]].strategy ELSE None
  IN  Len(tokens) > 1 /\ SubSeq(Texts, Len(tokens) - 1, Len(tokens)) = <<"compaction_strategy_options", ":">> =>
        Offers(tokens) = CASE class = "LeveledCompactionStrategy" -> {"sstable_size_in_mb"}
                           [] class = "SizeTieredCompactionStrategy" -> {"min_sstable_size"}
                           [] OTHER -> {}

(* A replication factor is offered once a strategy that takes one is set,  *)
(* and until a strategy is set nothing but the strategy is.                *)
(* (create_ks_opt_completer)                                               *)
FactorOffered ==
  (EndsIn({"WITH"}) \/ EndsIn({"AND"})) /\ SubSeq(Texts, 1, 2) = <<"CREATE", "KEYSPACE">> =>
    Offers(tokens) =
      CASE ValueOf("strategy_class") = None -> {"strategy_class ="}
        [] Dequoted(ValueOf("strategy_class")) \in replication_factor_strategies ->
             {"strategy_options:replication_factor ="}
        [] OTHER -> {}

-----------------------------------------------------------------------------
(* All the parts.                                                          *)
VARIABLES
  part,
  rule, ruleTokens,                                             \* rules
  line, statement, todo, stop, eof, handled, typed, since, keys, interrupts   \* shell

Small == INSTANCE MCPylexotron WITH MaxTokens <- 3, tokens <- ruleTokens
Shell == INSTANCE CqlShell WITH
  Glyphs <- {"select", "help", "exit", ";", "'", "@"}, keywords <- {"select"},
  commands_end_with_newline <- {"help", "exit"}, MaxGlyphs <- 5, MaxInterrupts <- 1

-----------------------------------------------------------------------------
rulesPart == <<rule, ruleTokens>>
shellPart == <<line, statement, todo, stop, eof, handled, typed, since, keys, interrupts>>
allVars == <<part, vars, rulesPart, shellPart>>

CqlshInit ==
  /\ part \in {"statement", "rules", "shell"}
  /\ IF part = "statement" THEN Init ELSE tokens = <<>> /\ left = 0 /\ names = {}
  /\ IF part = "rules" THEN Small!Init ELSE rule = Text("A") /\ ruleTokens = <<>>
  /\ Shell!Init

Only(p) == /\ part = p /\ UNCHANGED part
           /\ (p # "statement" => UNCHANGED vars) /\ (p # "rules" => UNCHANGED rulesPart)
           /\ (p # "shell" => UNCHANGED shellPart)

CqlshNext ==
  \/ Only("statement") /\ Type
  \/ Only("rules") /\ Small!Type
  \/ Only("shell") /\ Shell!Next

CqlshSpec == CqlshInit /\ [][CqlshNext]_allVars

-----------------------------------------------------------------------------
(* The parser finds exactly the derivations of a rule, with the values     *)
(* that they bind, and the reader of rules reads back what is written.     *)
(* (pylexotron.py: match, read_rule_tokens_until)                          *)
ParsesAreDerivations == part = "rules" => Small!ParsesAreDerivations /\ Small!ReadsBack

(* What is offered after some tokens is what may follow them, no more and  *)
(* no less.  (pylexotron.py: complete)                                     *)
OffersAreFollowers == part = "rules" => Small!OffersAreFollowers

(* Whatever cqlsh offers continues the statement that is being typed, save *)
(* for a consistency level or a type that is a reserved word.              *)
(* (the completers of cqlhandling.py against its rules)                    *)
CompletionsContinue == part = "statement" => OffersContinue

(* The names that are offered are those of the table that the statement    *)
(* names.  (get_cfdef, update_countername_completer)                       *)
SchemaOffered == part = "statement" => OwnColumnsOffered /\ CountersOffered

(* The options that are offered are those that the statement may still be  *)
(* given, with the strategies that it sets.  (insert_option_completer,     *)
(* create_ks_opt_completer, create_cf_suboption_completer)                 *)
SettingsOffered == part = "statement" => OptionsOffered /\ StrategyOptionsFit /\ FactorOffered

(* Statements are handled in the order they were typed in, each once,      *)
(* however they are divided into lines, and what is kept back is what was  *)
(* not handled.  (cql_split_statements, onecmd, cmdloop)                   *)
HandledAsTyped == part = "shell" => Shell!HandledAsTyped /\ Shell!NothingTwice
=============================================================================
