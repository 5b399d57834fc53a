SPECIFICATION CqlshSpec
CONSTANTS
  Completer <- CompleterOf
  Fold <- Upper
  keyspaces <- Schema
  current_keyspace = "ks1"
  cql_types = {"text", "timestamp"}
  Quoted <- MCQuoted
  Dequoted <- MCDequoted
  valid_cql_word <- Unquotable
  MaxTokens = 4
INVARIANTS ParsesAreDerivations OffersAreFollowers CompletionsContinue SchemaOffered SettingsOffered HandledAsTyped
CHECK_DEADLOCK FALSE
