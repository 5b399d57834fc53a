------------------------------ MODULE CqlShell ------------------------------
(***************************************************************************)
(* The loop of cqlsh (cmdloop and onecmd of bin/cqlsh): lines are added to *)
(* a buffer until it splits into whole statements (cqlhandling.py), which  *)
(* are then handled one after the other.                                   *)
(*                                                                         *)
(* The user's text is a sequence of glyphs with blanks between them: words *)
(* and signs, and NL at the end of a line.                                 *)
(***************************************************************************)
EXTENDS Integers, Sequences, SequencesExt

CONSTANTS
  Glyphs,                    \* what the user types, apart from NL
  keywords,                  \* the glyphs that are keywords of CQL
  commands_end_with_newline, \* the first words of commands that end with a line
  MaxGlyphs,                 \* how many glyphs and ends of line are typed
  MaxInterrupts              \* how often the user hits Ctrl-C

Quote == "'"
Semi == ";"
NL == "newline"
Bad == "@"                   \* no token starts with it

VARIABLES
  line,        \* the line being typed
  statement,   \* the text that was read and not yet handled
  todo,        \* the statements onecmd is about to handle
  stop,        \* EXIT was handled, or the input has ended
  eof,         \* the input has ended
  handled,     \* the statements handled so far
  typed,       \* what was read since the text was last given up
  since,       \* the number of statements that had been handled then
  keys,        \* how many glyphs and ends of line were typed
  interrupts   \* how often Ctrl-C was hit

vars == <<line, statement, todo, stop, eof, handled, typed, since, keys, interrupts>>

-----------------------------------------------------------------------------
(* The tokens of a text: a literal goes from one quote to the next, over   *)
(* the ends of lines, and is unclosed where there is no next one.          *)
Token(type, text) == [type |-> type, text |-> text]
OpenAt(toks) == toks # <<>> /\ Last(toks).type = "unclosedString"
TypeOf(x) == CASE x = Quote -> "unclosedString"
               [] x = Semi  -> "endtoken"
               [] x = NL    -> "endline"
               [] x \in keywords -> "K_" \o x
               [] OTHER -> "identifier"
LexGlyph(toks, x) ==
  IF OpenAt(toks)
  THEN Append(Front(toks), Token(IF x = Quote THEN "stringLiteral" ELSE "unclosedString",
                                 Append(Last(toks).text, x)))
  ELSE Append(toks, Token(TypeOf(x), <<x>>))
lex(text) == FoldLeft(LexGlyph, <<>>, text)
LexingError(text) == \E t \in Range(lex(text)) : t.text = <<Bad>>

(* cql_massage_tokens: the end of a line is dropped, or ends the statement *)
(* if its first word is one of commands_end_with_newline.                  *)
cql_massage_tokens(toks) ==
  FoldLeft(LAMBDA s, t :
             LET ends == t.type = "endtoken" \/ (t.type = "endline" /\ s.term_on_nl)
             IN  IF t.type = "endline" /\ ~s.term_on_nl THEN s
                 ELSE [term_on_nl |-> IF ends THEN FALSE
                                      ELSE IF s.started THEN s.term_on_nl
                                      ELSE t.text[1] \in commands_end_with_newline,
                       started |-> ~ends,
                       output |-> Append(s.output, IF ends THEN Token("endtoken", t.text) ELSE t)],
           [term_on_nl |-> FALSE, started |-> FALSE, output |-> <<>>], toks).output

(* split_list: cut behind every token that ends a statement.               *)
split_list(toks) ==
  FoldLeft(LAMBDA ls, t :
             LET now == Append(Front(ls), Append(Last(ls), t))
             IN  IF t.type = "endtoken" THEN Append(now, <<>>) ELSE now,
           <<<<>>>>, toks)

(* Whether a statement opens or closes a batch: both its words must be     *)
(* identifiers.                                                            *)
BatchWord(stmt) ==
  IF Len(stmt) > 1 /\ stmt[1].type = "identifier" /\ stmt[2].type = "identifier" /\ stmt[2].text = <<"batch">>
  THEN stmt[1].text[1] ELSE "none"

cql_split_statements(text) ==
  FoldLeft(LAMBDA s, stmt :
             [output   |-> IF s.in_batch THEN Append(Front(s.output), Last(s.output) \o stmt)
                           ELSE Append(s.output, stmt),
              in_batch |-> CASE BatchWord(stmt) = "begin" -> TRUE
                             [] BatchWord(stmt) = "apply" -> FALSE
                             [] OTHER -> s.in_batch],
           [output |-> <<>>, in_batch |-> FALSE], split_list(cql_massage_tokens(lex(text))))

(* What onecmd has got: the statements without the empty ones at the end.  *)
Trimmed(stmts) ==
  LET full == {i \in DOMAIN stmts : stmts[i] # <<>>}
  IN  SubSeq(stmts, 1, IF full = {} THEN 0 ELSE CHOOSE i \in full : \A j \in full : j <= i)

-----------------------------------------------------------------------------
Init == /\ line = <<>> /\ statement = <<>> /\ todo = <<>>
        /\ stop = FALSE /\ eof = FALSE
        /\ handled = <<>> /\ typed = <<>> /\ since = 0
        /\ keys = 0 /\ interrupts = 0

Reading == todo = <<>> /\ ~stop

(* What is typed before a text is given up is never handled after it.      *)
GiveUp == statement' = <<>> /\ todo' = <<>> /\ typed' = <<>> /\ since' = Len(handled)

Type == /\ Reading /\ ~eof /\ keys < MaxGlyphs
        /\ \E x \in Glyphs : line' = Append(line, x)
        /\ keys' = keys + 1
        /\ UNCHANGED <<statement, todo, stop, eof, handled, typed, since, interrupts>>

(* onecmd: the statements of a text are handled once the last is whole; an *)
(* empty text is reset.                                                    *)
onecmd(text) ==
  LET split == cql_split_statements(text)
      stmts == Trimmed(split.output)
  IN  IF stmts # <<>> /\ (split.in_batch \/ Last(Last(stmts)).type # "endtoken")
      THEN todo' = <<>> /\ statement' = text
      ELSE todo' = stmts /\ statement' = IF stmts = <<>> THEN <<>> ELSE text

(* A line is read; the last line of a file may have no end.  A text that   *)
(* cannot be lexed is given up, the whole statements in it too.            *)
Enter == /\ Reading /\ ~eof
         /\ \E end \in {<<NL>>, <<>>} :
              /\ IF end = <<>> THEN line # <<>> ELSE keys < MaxGlyphs
              /\ keys' = keys + Len(end)
              /\ eof' = (end = <<>>)
              /\ LET text == statement \o line \o end
                 IN  IF LexingError(text) THEN GiveUp
                     ELSE onecmd(text) /\ typed' = typed \o line \o end /\ UNCHANGED since
         /\ line' = <<>>
         /\ UNCHANGED <<stop, handled, interrupts>>

(* handle_eof: what is left is tried once more, and the shell ends.        *)
Eof == /\ Reading /\ line = <<>>
       /\ eof' = TRUE
       /\ stop' = TRUE
       /\ IF \E x \in Range(statement) : x # NL THEN onecmd(statement)
          ELSE UNCHANGED <<todo, statement>>
       /\ UNCHANGED <<line, handled, typed, since, keys, interrupts>>

(* handle_statement: EXIT ends the loop, not the statements after it; the  *)
(* buffer is reset behind the last one.                                    *)
Exits(stmt) == Len(stmt) = 2 /\ stmt[1].text = <<"exit">>
Handle == /\ todo # <<>>
          /\ handled' = Append(handled, Head(todo))
          /\ todo' = Tail(todo)
          /\ stop' = (stop \/ Exits(Head(todo)))
          /\ statement' = IF Tail(todo) = <<>> THEN <<>> ELSE statement
          /\ UNCHANGED <<line, eof, typed, since, keys, interrupts>>

(* Mutant: Ctrl-C gives up the line, and not what was read before it.      *)
MutInterrupt == /\ interrupts < MaxInterrupts
                /\ todo # <<>> \/ Reading
                /\ interrupts' = interrupts + 1
                /\ todo' = <<>> /\ typed' = <<>> /\ since' = Len(handled)
                /\ line' = <<>>
                /\ UNCHANGED <<statement, stop, eof, handled, keys>>

(* Ctrl-C: the text that was read, the statements that were to be handled  *)
(* and the line being typed are given up.                                  *)
Interrupt == /\ interrupts < MaxInterrupts
             /\ todo # <<>> \/ Reading
             /\ interrupts' = interrupts + 1
             /\ GiveUp
             /\ line' = <<>>
             /\ UNCHANGED <<stop, eof, handled, keys>>

Next == Type \/ Enter \/ Eof \/ Handle \/ Interrupt
Spec == Init /\ [][Next]_vars

-----------------------------------------------------------------------------
(* The statements of a text, cut in one pass over its glyphs, and what is  *)
(* left behind the last one.                                               *)
Cut(text) ==
  FoldLeft(LAMBDA s, x :
             CASE s.str -> [s EXCEPT !.rest = Append(@, x), !.str = (x # Quote)]
               [] ~s.str /\ (x = Semi \/ (x = NL /\ s.rest # <<>> /\ s.rest[1] \in commands_end_with_newline)) ->
                    [s EXCEPT !.whole = Append(@, Append(s.rest, x)), !.rest = <<>>]
               [] ~s.str /\ x = NL /\ (s.rest = <<>> \/ s.rest[1] \notin commands_end_with_newline) -> s
               [] OTHER -> [s EXCEPT !.rest = Append(@, x), !.str = (x = Quote)],
           [whole |-> <<>>, rest |-> <<>>, str |-> FALSE], text)

TextOf(stmt) == FlattenSeq([i \in DOMAIN stmt |-> stmt[i].text])
TextsOf(stmts) == [i \in DOMAIN stmts |-> TextOf(stmts[i])]

(* The statements typed since a text was last given up are handled in the  *)
(* order they were typed in, each once and whole, however they were divided*)
(* into lines; whole ones wait only for one that is not.                   *)
(* (cql_massage_tokens, cql_split_statements, onecmd, cmdloop)             *)
HandledAsTyped ==
  LET cut  == Cut(typed)
      past == TextsOf(SubSeq(handled, since + 1, Len(handled)) \o todo)
  IN  /\ IsPrefix(past, cut.whole)
      /\ statement = <<>> \/ todo # <<>> => past = cut.whole /\ cut.rest = <<>>

(* What is kept back is exactly what was not handled: a statement is never *)
(* handled while its text stays in the buffer.                             *)
(* (reset_statement after onecmd)                                          *)
NothingTwice ==
  todo = <<>> => LET past == TextsOf(SubSeq(handled, since + 1, Len(handled)))
                 IN  past \o Cut(statement).whole = Cut(typed).whole
=============================================================================
