----------------------------- MODULE Pylexotron -----------------------------
(***************************************************************************)
(* The parser of cqlsh (pylexotron.py): rules are read from a text of rule *)
(* tokens, matched against the tokens of a statement, and, where these     *)
(* end, asked for what may follow.  A token is a record [type, text].      *)
(*                                                                         *)
(* A rule is one of the records below.  A rule set g has g.rules, the      *)
(* rules by name, and g.hints, what a terminal offers when it is asked.    *)
(***************************************************************************)
EXTENDS Integers, SequencesExt

CONSTANTS
  Completer(_, _, _),   \* what the completer of a rule's symbol offers in a context
  Fold(_)               \* the text of a token in upper case

Text(w)    == [op |-> "text", word |-> w]
Typed(t)   == [op |-> "type", type |-> t]
Ref(n)     == [op |-> "ref", name |-> n]
Choice(rs) == [op |-> "choice", rules |-> rs]
Series(rs) == [op |-> "series", rules |-> rs]
Opt(r)     == [op |-> "opt", rule |-> r]
Repeat(r)  == [op |-> "repeat", rule |-> r]
Symbol(s, r)    == [op |-> "symbol", symbol |-> s, rule |-> r]
Collector(s, r) == [op |-> "collector", symbol |-> s, rule |-> r]

-----------------------------------------------------------------------------
(* A context: the tokens matched and those that remain, the bindings, and  *)
(* the rule that is being matched.                                         *)
Context(tokens, name, binds) ==
  [matched |-> <<>>, rest |-> tokens, binds |-> binds, rule |-> name]

WithMatch(c) == [c EXCEPT !.matched = Append(@, Head(c.rest)), !.rest = Tail(@)]

NoBinds == [s \in {} |-> <<>>]
Bound(c, s, default) == IF s \in DOMAIN c.binds THEN c.binds[s] ELSE default
WithBinding(c, s, v) == [c EXCEPT !.binds = [t \in DOMAIN @ \cup {s} |-> IF t = s THEN v ELSE @[t]]]

(* The outcome of a match: the contexts it found, in order of preference,  *)
(* and what was offered where the tokens had ended.                        *)
Outcome(found, offers) == [found |-> found, offers |-> offers]
Both(a, b) == Outcome(a.found \o b.found, a.offers \cup b.offers)
Nothing == Outcome(<<>>, {})

(* Mutant: a terminal offers itself before the tokens have ended.          *)
MutTerminal(c, matches, offers) ==
  IF c.rest = <<>> THEN Outcome(<<>>, offers)
  ELSE IF matches THEN Outcome(<<WithMatch(c)>>, {}) ELSE Outcome(<<>>, offers)

Terminal(c, matches, offers) ==
  CASE c.rest = <<>> -> Outcome(<<>>, offers)
    [] c.rest # <<>> /\ matches -> Outcome(<<WithMatch(c)>>, {})
    [] OTHER -> Nothing

RECURSIVE Match(_, _, _), Rounds(_, _, _)

(* The matches of a rule from every context of a sequence.                 *)
MatchEach(g, r, cs) ==
  FoldLeft(LAMBDA out, c : Both(out, Match(g, r, c)), Nothing, cs)

(* repeat: the contexts of every number of rounds, the fewest first; a     *)
(* rule that matches nothing would be repeated for ever.                   *)
Rounds(g, r, cs) ==
  IF cs = <<>> THEN Nothing
  ELSE LET next == MatchEach(g, r, cs)
       IN  Both(Outcome(cs, next.offers), Rounds(g, r, next.found))

(* rule_series: each piece goes on from what the ones before it found.     *)
Pieces(g, rs, c) ==
  FoldLeft(LAMBDA out, r : LET next == MatchEach(g, r, out.found)
                           IN  Outcome(next.found, out.offers \cup next.offers),
           Outcome(<<c>>, {}), rs)

(* try_registered_completion: the offers of a completer replace those of   *)
(* the rule that its symbol names, unless the completer has raised.        *)
NoOffers == {"no completer, or an exception"}
Completed(c, s) == c.rest = <<>> /\ Completer(c.rule, s, c) # NoOffers

(* Mutant: a collector binds the last value only.                          *)
MutBind(r, c, d) == WithBinding(d, r.symbol, LET v == SubSeq(d.matched, Len(c.matched) + 1, Len(d.matched))
                                             IN  IF r.op = "symbol" THEN v ELSE <<v>>)

(* named_symbol binds the tokens its rule has matched, named_collector     *)
(* adds them to those it has bound before.                                 *)
Bind(r, c, d) ==
  LET value == SubSeq(d.matched, Len(c.matched) + 1, Len(d.matched))
  IN  WithBinding(d, r.symbol,
        IF r.op = "symbol" THEN value ELSE Append(Bound(d, r.symbol, <<>>), value))

Named(g, r, c) ==
  LET out == Match(g, r.rule, c)
  IN  Outcome([i \in DOMAIN out.found |-> Bind(r, c, out.found[i])],
              IF Completed(c, r.symbol) THEN Completer(c.rule, r.symbol, c) ELSE out.offers)

(* rule_reference: the rule is matched under its own name.                 *)
Referred(g, n, c) ==
  LET out == Match(g, g.rules[n], [c EXCEPT !.rule = n])
  IN  [out EXCEPT !.found = [i \in DOMAIN @ |-> [@[i] EXCEPT !.rule = c.rule]]]

Match(g, r, c) ==
  CASE r.op = "text"   -> Terminal(c, Fold(Head(c.rest).text) = r.word, {r.word})
    [] r.op = "type"   -> Terminal(c, Head(c.rest).type = r.type, g.hints[r.type])
    [] r.op = "ref"    -> Referred(g, r.name, c)
    [] r.op = "choice" -> FoldLeft(LAMBDA out, alt : Both(out, Match(g, alt, c)), Nothing, r.rules)
    [] r.op = "series" -> Pieces(g, r.rules, c)
    [] r.op = "opt"    -> Both(Outcome(<<c>>, {}), Match(g, r.rule, c))
    [] r.op = "repeat" -> Rounds(g, r.rule, <<c>>)
    [] OTHER           -> Named(g, r, c)

Start(g, name, tokens) == Match(g, g.rules[name], Context(tokens, name, NoBinds))

(* parse, complete and whole_match.                                        *)
parse(g, name, tokens)    == Start(g, name, tokens).found
complete(g, name, tokens) == Start(g, name, tokens).offers
Whole(g, name, tokens)    == SelectSeq(parse(g, name, tokens), LAMBDA c : c.rest = <<>>)

-----------------------------------------------------------------------------
(* The tokens of a rule's text: [k |-> "reference"], "litstring",          *)
(* "named_symbol" and "named_collector" with t, and the signs with none.   *)
Sign(k) == [k |-> k, t |-> ""]

(* mkrule and choice: branches of one piece are that piece.                *)
mkrule(pieces) == IF Len(pieces) = 1 THEN pieces[1] ELSE Series(pieces)
Branches(bs) == IF Len(bs) = 1 THEN mkrule(bs[1])
                ELSE Choice([i \in DOMAIN bs |-> mkrule(bs[i])])

PutLast(bs, pieces) == [bs EXCEPT ![Len(bs)] = pieces]
Piece(bs, r) == PutLast(bs, Append(Last(bs), r))

(* ? and * take the last piece of the branch.                              *)
OnLast(bs, sign) ==
  LET r == Last(Last(bs))
  IN  PutLast(bs, Append(Front(Last(bs)), IF sign = "?" THEN Opt(r) ELSE Repeat(r)))

RECURSIVE ReadUntil(_, _, _, _)

(* read_rule_tokens_until, from token i of ts: to the sign end, or, where  *)
(* this is "one", after one piece.  The rule it read and the next token.   *)
ReadUntil(ts, i, end, bs) ==
  LET t == ts[i]
      On(new, j) == IF end = "one" THEN [rule |-> Branches(new), next |-> j]
                                   ELSE ReadUntil(ts, j, end, new)
      Under(Op(_, _)) == LET named == ReadUntil(ts, i + 1, "one", <<<<>>>>)
                         IN  On(Piece(bs, Op(t.t, named.rule)), named.next)
  IN  CASE t.k = end           -> [rule |-> Branches(bs), next |-> i + 1]
        [] t.k = "reference"   -> On(Piece(bs, Ref(t.t)), i + 1)
        [] t.k = "litstring"   -> On(Piece(bs, Text(t.t)), i + 1)
        [] t.k = "named_symbol"    -> Under(Symbol)
        [] t.k = "named_collector" -> Under(Collector)
        [] t.k = "(" -> LET group == ReadUntil(ts, i + 1, ")", <<<<>>>>)
                        IN  On(Piece(bs, group.rule), group.next)
        [] t.k \in {"?", "*"} -> On(OnLast(bs, t.k), i + 1)
        [] t.k = "|" -> ReadUntil(ts, i + 1, end, Append(bs, <<>>))

(* parse_rules, for the text of one rule.                                  *)
ReadRule(ts) == ReadUntil(ts, 1, ";", <<<<>>>>).rule
=============================================================================
