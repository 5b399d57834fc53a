---------------------------- MODULE CqlHandling ----------------------------
(***************************************************************************)
(* The rules of CQL 2 and their completers (cqlhandling.py): what cqlsh    *)
(* accepts as a statement, and what it offers after some tokens of one.    *)
(* A token is [type, text]; a keyword is a type of its own.                *)
(***************************************************************************)
EXTENDS Pylexotron, FiniteSets

CONSTANTS
  keyspaces,          \* keyspace |-> table |-> [key_alias, columns], see get_columnfamily
  current_keyspace,   \* the keyspace in use
  cql_types,          \* the types the driver knows
  Quoted(_),          \* a name or a value as a string literal
  Dequoted(_),        \* what a word stands for
  valid_cql_word      \* the names that need no quotes

None == "None"
Hint == "<hint>"

keywords == {"SELECT", "FROM", "WHERE", "AND", "KEY", "INSERT", "UPDATE", "WITH", "LIMIT",
  "USING", "CONSISTENCY", "ONE", "QUORUM", "ALL", "ANY", "LOCAL_QUORUM", "EACH_QUORUM", "TWO",
  "THREE", "USE", "COUNT", "SET", "BEGIN", "APPLY", "BATCH", "TRUNCATE", "DELETE", "IN",
  "CREATE", "KEYSPACE", "SCHEMA", "COLUMNFAMILY", "TABLE", "INDEX", "ON", "DROP", "PRIMARY",
  "INTO", "VALUES", "TIMESTAMP", "TTL", "ALTER", "ADD", "TYPE", "FIRST", "REVERSED"}
consistency_levels == {"ANY", "ONE", "TWO", "THREE", "QUORUM", "ALL", "LOCAL_QUORUM", "EACH_QUORUM"}
replication_strategies == {"SimpleStrategy", "OldNetworkTopologyStrategy", "NetworkTopologyStrategy"}
replication_factor_strategies == {"SimpleStrategy", "OldNetworkTopologyStrategy"}
columnfamily_options == {"comment", "comparator", "read_repair_chance", "gc_grace_seconds",
  "default_validation", "min_compaction_threshold", "max_compaction_threshold",
  "replicate_on_write", "compaction_strategy_class", "populate_io_cache_on_flush"}
obsolete_cf_options == {"key_cache_size", "row_cache_size", "row_cache_provider"}
columnfamily_map_options ==
  [compaction_strategy_options |-> {},
   compression_parameters |-> {"sstable_compression", "chunk_length_kb", "crc_check_chance"}]
available_compression_classes == {"DeflateCompressor", "SnappyCompressor"}
available_compaction_classes == {"LeveledCompactionStrategy", "SizeTieredCompactionStrategy"}

is_valid_cql_word(name) == name \in valid_cql_word /\ Fold(name) \notin keywords
(* Mutant: names are offered as they are.                                  *)
MutEscape(name) == name

maybe_escape_name(name) == IF is_valid_cql_word(name) THEN name ELSE Quoted(name)
Escaped(names) == {maybe_escape_name(n) : n \in names}

-----------------------------------------------------------------------------
(* What the shell knows of the schema.                                     *)
(* Mutant: the keyspace that the statement names is not looked at.         *)
MutKeyspaceNamed(ks) == current_keyspace

KeyspaceNamed(ks) == IF ks = None THEN current_keyspace ELSE ks
HasTable(ks, cf) == /\ KeyspaceNamed(ks) \in DOMAIN keyspaces
                    /\ cf \in DOMAIN keyspaces[KeyspaceNamed(ks)]
get_columnfamily(ks, cf) == keyspaces[KeyspaceNamed(ks)][cf]
get_columnfamily_names(ks) == DOMAIN keyspaces[KeyspaceNamed(ks)]
get_index_names == {m.index : m \in UNION {get_columnfamily(None, cf).columns : cf \in get_columnfamily_names(None)}} \ {None}

KeyName(cfdef) == IF cfdef.key_alias = None THEN "KEY" ELSE cfdef.key_alias
ColumnNames(cfdef) == {m.name : m \in cfdef.columns}
filterable_column_names(cfdef) == {KeyName(cfdef)} \cup {m.name : m \in {k \in cfdef.columns : k.index # None}}
is_counter_col(cfdef, name) == \E m \in cfdef.columns : m.name = name /\ m.counter

(* A binding is the tokens of a symbol, or one sequence of tokens for each *)
(* time a collector was matched; Word and LastOf are their texts.          *)
Words(v) == [i \in DOMAIN v |-> v[i].text]
Word(c, s) == IF Bound(c, s, <<>>) = <<>> THEN None ELSE c.binds[s][1].text
Collected(c, s) == [i \in DOMAIN Bound(c, s, <<>>) |-> Words(c.binds[s][i])]

(* get_cfdef looks the table up by its text, quotes included; what it      *)
(* raises makes the completer fail.                                        *)
WithTable(c, Offers(_)) ==
  IF HasTable(Word(c, "ksname"), Word(c, "cfname"))
  THEN Offers(get_columnfamily(Word(c, "ksname"), Word(c, "cfname"))) ELSE NoOffers

(* CREATE INDEX and ALTER take a table of the keyspace in use.             *)
WithOwnTable(c, Offers(_)) ==
  LET cf == Dequoted(Word(c, "cf"))
  IN  IF HasTable(None, cf) THEN Offers(get_columnfamily(None, cf)) ELSE NoOffers

-----------------------------------------------------------------------------
Comma(r) == Series(<<r, Repeat(Series(<<Text(","), r>>))>>)
Conj(r)  == Series(<<r, Repeat(Series(<<Text("AND"), r>>))>>)
OneOf(ws) == Choice([i \in DOMAIN ws |-> Text(ws[i])])
AnyType(ts) == Choice([i \in DOMAIN ts |-> Typed(ts[i])])
AnyRule(ns) == Choice([i \in DOMAIN ns |-> Ref(ns[i])])
Brackets(r) == Series(<<Text("("), r, Text(")")>>)

CQL_Statement == Series(<<Collector("statements", Ref("statementBody")), Text(";")>>)
name    == AnyType(<<"identifier", "stringLiteral", "integer">>)
term    == AnyType(<<"stringLiteral", "integer", "float">>)
colname == Choice(<<Ref("term"), Typed("identifier"), Symbol("nocomplete", Typed("KEY"))>>)
statementBody == AnyRule(<<"useStatement", "selectStatement", "dataChangeStatement", "schemaChangeStatement">>)
dataChangeStatement == AnyRule(<<"insertStatement", "updateStatement", "deleteStatement",
                                 "truncateStatement", "batchStatement">>)
schemaChangeStatement == AnyRule(<<"createKeyspaceStatement", "createColumnFamilyStatement",
  "createIndexStatement", "dropKeyspaceStatement", "dropColumnFamilyStatement",
  "dropIndexStatement", "alterTableStatement">>)
consistencylevel == Symbol("cl", Typed("identifier"))
storageType  == Symbol("typename", AnyType(<<"identifier", "stringLiteral">>))
keyspaceName == Symbol("ksname", Ref("name"))
columnFamilyName == Series(<<Opt(Series(<<Symbol("ksname", Ref("name")), Text(".")>>)),
                             Symbol("cfname", Ref("name"))>>)

nocomplete == {}
cl_completer == consistency_levels
storagetype_completer == cql_types
ks_name_completer == Escaped(DOMAIN keyspaces)
cf_ks_name_completer == {maybe_escape_name(ks) \o "." : ks \in DOMAIN keyspaces}
cf_name_completer(c) ==
  LET ks == IF Word(c, "ksname") = None THEN None ELSE Dequoted(Word(c, "ksname"))
  IN  IF KeyspaceNamed(ks) \in DOMAIN keyspaces THEN Escaped(get_columnfamily_names(ks))
      ELSE IF ks = None THEN {} ELSE NoOffers

key_completer(c) == WithTable(c, LAMBDA cfdef : {KeyName(cfdef)})
filterable_completer(c) == WithTable(c, LAMBDA cfdef : Escaped(filterable_column_names(cfdef)))

-----------------------------------------------------------------------------
useStatement == Series(<<Text("USE"), Symbol("ksname", Ref("keyspaceName"))>>)
selectStatement ==
  Series(<<Text("SELECT"), Ref("whatToSelect"), Text("FROM"), Symbol("cf", Ref("columnFamilyName")),
           Opt(Series(<<Text("USING"), Text("CONSISTENCY"), Symbol("selcl", Ref("consistencylevel"))>>)),
           Opt(Series(<<Text("WHERE"), Ref("selectWhereClause")>>)),
           Opt(Series(<<Text("LIMIT"), Symbol("limit", Typed("integer"))>>))>>)
selectWhereClause ==
  Choice(<<Conj(Ref("relation")),
           Series(<<Symbol("keyname", Ref("colname")), Text("IN"), Brackets(Comma(Ref("term")))>>)>>)
relation == Series(<<Collector("rel_lhs", Ref("colname")), OneOf(<<"=", "<", ">", "<=", ">=">>), Ref("colname")>>)
whatToSelect ==
  Choice(<<Comma(Symbol("colname", Ref("colname"))),
           Series(<<Opt(Series(<<Text("FIRST"), Typed("integer")>>)), Opt(Text("REVERSED")),
                    Choice(<<Series(<<Symbol("rangestart", Ref("colname")), Text(".."),
                                      Symbol("rangeend", Ref("colname"))>>),
                             Text("*")>>)>>),
           Series(<<Text("COUNT"), Symbol("countparens", Text("(")), Text("*"), Text(")")>>)>>)

select_statement_consistencylevel == consistency_levels \ {"ANY"}
select_count_parens_completer == {"(*)"}

insertStatement ==
  Series(<<Text("INSERT"), Text("INTO"), Symbol("cf", Ref("columnFamilyName")), Text("("),
           Symbol("keyname", Ref("colname")), Text(","), Comma(Collector("colname", Ref("colname"))), Text(")"),
           Text("VALUES"), Brackets(Series(<<Ref("term"), Text(","), Comma(Ref("term"))>>)),
           Opt(Series(<<Text("USING"), Conj(Collector("insertopt", Ref("usingOption")))>>))>>)
usingOption == Choice(<<Series(<<Text("CONSISTENCY"), Ref("consistencylevel")>>),
                        Series(<<Text("TIMESTAMP"), Typed("integer")>>),
                        Series(<<Text("TTL"), Typed("integer")>>)>>)

(* Mutant: only the option given last is taken off.                        *)
MutOptionsLeft(c, s, opts) ==
  IF Collected(c, s) = <<>> THEN opts ELSE opts \ {Head(Last(Collected(c, s)))}

(* Options are offered until they were given, in upper case.               *)
OptionsLeft(c, s, opts) == opts \ {Head(v) : v \in Range(Collected(c, s))}
insert_option_completer(c) == OptionsLeft(c, "insertopt", {"CONSISTENCY", "TIMESTAMP", "TTL"})

updateStatement ==
  Series(<<Text("UPDATE"), Symbol("cf", Ref("columnFamilyName")),
           Opt(Series(<<Text("USING"), Conj(Collector("updateopt", Ref("usingOption")))>>)),
           Text("SET"), Comma(Ref("assignment")), Text("WHERE"), Ref("updateWhereClause")>>)
assignment ==
  Series(<<Symbol("updatecol", Ref("colname")), Text("="), Symbol("update_rhs", Ref("colname")),
           Opt(Series(<<Symbol("counterop", Choice(<<Text("+"), Opt(Text("-"))>>)), Typed("integer")>>))>>)
updateWhereClause ==
  Choice(<<Series(<<Symbol("updatefiltercol", Ref("colname")), Text("="), Ref("term")>>),
           Series(<<Symbol("updatefilterkey", Ref("colname")), Symbol("filter_in", Text("IN")),
                    Brackets(Comma(Ref("term")))>>)>>)

update_option_completer(c) == OptionsLeft(c, "updateopt", {"CONSISTENCY", "TIMESTAMP", "TTL"})
update_col_completer(c) == WithTable(c, LAMBDA cfdef : Escaped(ColumnNames(cfdef)) \cup {Hint})

CounterCol(c, cfdef) == is_counter_col(cfdef, Dequoted(Word(c, "updatecol")))
update_countername_completer(c) ==
  WithTable(c, LAMBDA cfdef : {IF CounterCol(c, cfdef) THEN maybe_escape_name(Dequoted(Word(c, "updatecol"))) ELSE Hint})
update_counterop_completer(c) ==
  WithTable(c, LAMBDA cfdef : IF CounterCol(c, cfdef) THEN {"+", "-"} ELSE {})
update_filter_in_completer(c) ==
  WithTable(c, LAMBDA cfdef : {"IN" : x \in {Word(c, "updatefilterkey")} \cap {"KEY", cfdef.key_alias}})

deleteStatement ==
  Series(<<Text("DELETE"), Opt(Comma(Collector("delcol", Ref("colname")))),
           Text("FROM"), Symbol("cf", Ref("columnFamilyName")),
           Opt(Series(<<Text("USING"), Conj(Collector("delopt", Ref("deleteOption")))>>)),
           Text("WHERE"), Ref("updateWhereClause")>>)
deleteOption == Choice(<<Series(<<Text("CONSISTENCY"), Ref("consistencylevel")>>),
                         Series(<<Text("TIMESTAMP"), Typed("integer")>>)>>)

delete_opt_completer(c) == OptionsLeft(c, "delopt", {"CONSISTENCY", "TIMESTAMP"})

batchStatement ==
  LET member == Series(<<Collector("batchstmt", Ref("batchStatementMember")), Text(";")>>)
  IN  Series(<<Text("BEGIN"), Text("BATCH"),
               Opt(Series(<<Text("USING"), Conj(Collector("batchopt", Ref("usingOption")))>>)),
               member, Repeat(member), Text("APPLY"), Text("BATCH")>>)
batchStatementMember == AnyRule(<<"insertStatement", "updateStatement", "deleteStatement">>)
batch_opt_completer(c) == OptionsLeft(c, "batchopt", {"CONSISTENCY", "TIMESTAMP"})

truncateStatement == Series(<<Text("TRUNCATE"), Symbol("cf", Ref("columnFamilyName"))>>)

-----------------------------------------------------------------------------
Pairs(option, value) == Series(<<Collector(option[1], Ref(option[2])), Text("="), Collector("optval", Ref(value))>>)
createKeyspaceStatement ==
  Series(<<Text("CREATE"), Text("KEYSPACE"), Symbol("ksname", Ref("name")), Text("WITH"),
           Conj(Pairs(<<"optname", "optionName">>, "optionVal"))>>)
optionName == Series(<<Typed("identifier"),
                       Opt(Series(<<Text(":"), AnyType(<<"identifier", "integer">>)>>))>>)
optionVal == AnyType(<<"stringLiteral", "identifier", "integer">>)

(* index: the position of the first option of that name, or 0.             *)
IndexOf(opts, opt) == SelectInSeq(opts, LAMBDA o : o = <<opt>>)

create_ks_opt_completer(c) ==
  LET stratopt == IndexOf(Collected(c, "optname"), "strategy_class")
  IN  IF stratopt = 0 THEN {"strategy_class ="}
      ELSE IF Dequoted(Collected(c, "optval")[stratopt][1]) \in replication_factor_strategies
           THEN {"strategy_options:replication_factor ="} ELSE {Hint}
create_ks_optval_completer(c) ==
  IF Last(Collected(c, "optname")) = <<"strategy_class">>
  THEN {Quoted(s) : s \in replication_strategies} ELSE {Hint}

createColumnFamilyStatement ==
  Series(<<Text("CREATE"), OneOf(<<"COLUMNFAMILY", "TABLE">>), Symbol("cf", Ref("name")), Text("("),
           Symbol("keyalias", Ref("colname")), Ref("storageType"), Text("PRIMARY"), Text("KEY"),
           Repeat(Series(<<Text(","), Symbol("colname", Ref("colname")), Ref("storageType")>>)), Text(")"),
           Opt(Series(<<Text("WITH"), Conj(Pairs(<<"cfopt", "cfOptionName">>, "cfOptionVal"))>>))>>)
cfOptionName ==
  Series(<<Symbol("cfoptname", Typed("identifier")),
           Opt(Series(<<Symbol("cfoptsep", Text(":")),
                        Symbol("cfsubopt", AnyType(<<"identifier", "integer">>))>>))>>)
cfOptionVal == AnyType(<<"identifier", "stringLiteral", "integer", "float">>)

create_cf_option_completer ==
  columnfamily_options \cup {opt \o ":" : opt \in DOMAIN columnfamily_map_options}
create_cf_suboption_separator(c) ==
  {":" : opt \in {Word(c, "cfoptname")} \cap DOMAIN columnfamily_map_options}

(* The strategy the statement has set, else the one the table has.         *)
StrategyInUse(c) ==
  LET i == IndexOf(Collected(c, "cfopt"), "compaction_strategy_class")
  IN  IF i \in DOMAIN Collected(c, "optval") THEN Dequoted(Collected(c, "optval")[i][1])
      ELSE IF HasTable(None, Word(c, "cf")) THEN get_columnfamily(None, Word(c, "cf")).strategy
      ELSE ""
create_cf_suboption_completer(c) ==
  LET opt == Word(c, "cfoptname")
      csc == IF opt = "compaction_strategy_options" THEN StrategyInUse(c) ELSE ""
  IN  CASE csc = "SizeTieredCompactionStrategy" -> {"min_sstable_size"}
        [] csc = "LeveledCompactionStrategy" -> {"sstable_size_in_mb"}
        [] opt \in DOMAIN columnfamily_map_options -> columnfamily_map_options[opt]
        [] OTHER -> {}

(* The hints for the other options are not told apart.                     *)
create_cf_option_val_completer(c) ==
  LET this_opt == Last(Collected(c, "cfopt"))
  IN  CASE this_opt = <<"compression_parameters", ":", "sstable_compression">> ->
             {Quoted(k) : k \in available_compression_classes}
        [] this_opt = <<"compaction_strategy_class">> -> {Quoted(k) : k \in available_compaction_classes}
        [] this_opt \in {<<o>> : o \in obsolete_cf_options} -> {"'<obsolete_option>'"}
        [] this_opt \in {<<"comparator">>, <<"default_validation">>} -> cql_types
        [] OTHER -> {Hint}

createIndexStatement ==
  Series(<<Text("CREATE"), Text("INDEX"), Opt(Symbol("indexname", Typed("identifier"))), Text("ON"),
           Symbol("cf", Ref("name")), Brackets(Symbol("col", Ref("colname")))>>)
InKeyspace == current_keyspace \in DOMAIN keyspaces
own_cf_completer == IF InKeyspace THEN Escaped(get_columnfamily_names(None)) ELSE NoOffers
create_index_col_completer(c) ==
  WithOwnTable(c, LAMBDA cfdef : Escaped({m.name : m \in {k \in cfdef.columns : k.index = None}}))

dropKeyspaceStatement == Series(<<Text("DROP"), Text("KEYSPACE"), Symbol("ksname", Ref("keyspaceName"))>>)
dropColumnFamilyStatement ==
  Series(<<Text("DROP"), OneOf(<<"COLUMNFAMILY", "TABLE">>), Symbol("cf", Ref("name"))>>)
dropIndexStatement == Series(<<Text("DROP"), Text("INDEX"), Symbol("indexname", Ref("name"))>>)
drop_index_completer == IF InKeyspace THEN Escaped(get_index_names) ELSE NoOffers

alterTableStatement ==
  Series(<<Text("ALTER"), OneOf(<<"COLUMNFAMILY", "TABLE">>), Symbol("cf", Ref("name")), Ref("alterInstructions")>>)
alterInstructions ==
  Choice(<<Series(<<Text("ALTER"), Symbol("existcol", Ref("name")), Text("TYPE"), Ref("storageType")>>),
           Series(<<Text("ADD"), Symbol("newcol", Ref("name")), Ref("storageType")>>),
           Series(<<Text("DROP"), Symbol("existcol", Ref("name"))>>),
           Series(<<Text("WITH"), Conj(Pairs(<<"cfopt", "cfOptionName">>, "cfOptionVal"))>>)>>)
alter_table_col_completer(c) ==
  WithOwnTable(c, LAMBDA cfdef : Escaped(ColumnNames(cfdef) \cup ({cfdef.key_alias} \ {None})))

-----------------------------------------------------------------------------
(* The completers by rule and symbol; Explained symbols only have a hint.  *)
Explained ==
  {<<"whatToSelect", "colname">>, <<"whatToSelect", "rangestart">>, <<"whatToSelect", "rangeend">>,
   <<"insertStatement", "colname">>, <<"deleteStatement", "delcol">>,
   <<"createKeyspaceStatement", "ksname">>, <<"createColumnFamilyStatement", "keyalias">>,
   <<"createColumnFamilyStatement", "cf">>, <<"createColumnFamilyStatement", "colname">>,
   <<"createIndexStatement", "indexname">>, <<"alterInstructions", "newcol">>}

CompleterOf(rule, s, c) ==
  CASE <<rule, s>> = <<"colname", "nocomplete">> -> nocomplete
    [] <<rule, s>> = <<"consistencylevel", "cl">> -> cl_completer
    [] <<rule, s>> = <<"storageType", "typename">> -> storagetype_completer
    [] <<rule, s>> \in {<<"keyspaceName", "ksname">>, <<"dropKeyspaceStatement", "ksname">>} -> ks_name_completer
    [] <<rule, s>> = <<"columnFamilyName", "ksname">> -> cf_ks_name_completer
    [] <<rule, s>> = <<"columnFamilyName", "cfname">> -> cf_name_completer(c)
    [] <<rule, s>> = <<"selectStatement", "selcl">> -> select_statement_consistencylevel
    [] <<rule, s>> \in {<<"selectWhereClause", "keyname">>, <<"insertStatement", "keyname">>,
                        <<"updateWhereClause", "updatefilterkey">>} -> key_completer(c)
    [] <<rule, s>> \in {<<"relation", "rel_lhs">>, <<"updateWhereClause", "updatefiltercol">>} -> filterable_completer(c)
    [] <<rule, s>> = <<"whatToSelect", "countparens">> -> select_count_parens_completer
    [] <<rule, s>> = <<"insertStatement", "insertopt">> -> insert_option_completer(c)
    [] <<rule, s>> = <<"updateStatement", "updateopt">> -> update_option_completer(c)
    [] <<rule, s>> = <<"assignment", "updatecol">> -> update_col_completer(c)
    [] <<rule, s>> = <<"assignment", "update_rhs">> -> update_countername_completer(c)
    [] <<rule, s>> = <<"assignment", "counterop">> -> update_counterop_completer(c)
    [] <<rule, s>> = <<"updateWhereClause", "filter_in">> -> update_filter_in_completer(c)
    [] <<rule, s>> = <<"deleteStatement", "delopt">> -> delete_opt_completer(c)
    [] <<rule, s>> = <<"batchStatement", "batchopt">> -> batch_opt_completer(c)
    [] <<rule, s>> = <<"createKeyspaceStatement", "optname">> -> create_ks_opt_completer(c)
    [] <<rule, s>> = <<"createKeyspaceStatement", "optval">> -> create_ks_optval_completer(c)
    [] <<rule, s>> = <<"cfOptionName", "cfoptname">> -> create_cf_option_completer
    [] <<rule, s>> = <<"cfOptionName", "cfoptsep">> -> create_cf_suboption_separator(c)
    [] <<rule, s>> = <<"cfOptionName", "cfsubopt">> -> create_cf_suboption_completer(c)
    [] <<rule, s>> \in {<<"createColumnFamilyStatement", "optval">>, <<"alterInstructions", "optval">>} ->
         create_cf_option_val_completer(c)
    [] <<rule, s>> \in {<<"createIndexStatement", "cf">>, <<"dropColumnFamilyStatement", "cf">>,
                        <<"alterTableStatement", "cf">>} -> own_cf_completer
    [] <<rule, s>> = <<"createIndexStatement", "col">> -> create_index_col_completer(c)
    [] <<rule, s>> = <<"dropIndexStatement", "indexname">> -> drop_index_completer
    [] <<rule, s>> = <<"alterInstructions", "existcol">> -> alter_table_col_completer(c)
    [] <<rule, s>> \in Explained -> {Hint}
    [] OTHER -> NoOffers

(* The rule set that cqlsh completes and parses with.                      *)
Cql2 ==
  [hints |-> [t \in {"identifier", "stringLiteral", "integer", "float"} |-> {Hint}] @@ [KEY |-> {"key"}],
   rules |-> [CQL_Statement |-> CQL_Statement, name |-> name, term |-> term, colname |-> colname,
     statementBody |-> statementBody, dataChangeStatement |-> dataChangeStatement,
     schemaChangeStatement |-> schemaChangeStatement, consistencylevel |-> consistencylevel,
     storageType |-> storageType, keyspaceName |-> keyspaceName, columnFamilyName |-> columnFamilyName,
     useStatement |-> useStatement, selectStatement |-> selectStatement,
     selectWhereClause |-> selectWhereClause, relation |-> relation, whatToSelect |-> whatToSelect,
     insertStatement |-> insertStatement, usingOption |-> usingOption, updateStatement |-> updateStatement,
     assignment |-> assignment, updateWhereClause |-> updateWhereClause, deleteStatement |-> deleteStatement,
     deleteOption |-> deleteOption, batchStatement |-> batchStatement,
     batchStatementMember |-> batchStatementMember, truncateStatement |-> truncateStatement,
     createKeyspaceStatement |-> createKeyspaceStatement, optionName |-> optionName, optionVal |-> optionVal,
     createColumnFamilyStatement |-> createColumnFamilyStatement, cfOptionName |-> cfOptionName,
     cfOptionVal |-> cfOptionVal, createIndexStatement |-> createIndexStatement,
     dropKeyspaceStatement |-> dropKeyspaceStatement, dropColumnFamilyStatement |-> dropColumnFamilyStatement,
     dropIndexStatement |-> dropIndexStatement, alterTableStatement |-> alterTableStatement,
     alterInstructions |-> alterInstructions]]
=============================================================================
