---------------------------- MODULE MCPylexotron ----------------------------
(***************************************************************************)
(* Small rules, each typed in token by token: what the parser finds and    *)
(* offers against what the rule derives.                                   *)
(***************************************************************************)
EXTENDS Integers, Sequences, FiniteSets

CONSTANT MaxTokens

NoCompleter(name, symbol, c) == {"no completer, or an exception"}
Upper(text) == IF text = "a" THEN "A" ELSE text
INSTANCE Pylexotron WITH Completer <- NoCompleter, Fold <- Upper

VARIABLES rule, tokens
vars == <<rule, tokens>>

Leaves == {Text("A"), Text("B"), Typed("number"), Ref("item")}
Item == Series(<<Text("A"), Opt(Ref("item")), Text("B")>>)
Marked == Leaves \cup {Collector("x", r) : r \in Leaves}
Simple == Marked \cup {Opt(r) : r \in Marked} \cup {Repeat(r) : r \in Marked}
Pairs == {Series(<<p, q>>) : p, q \in Simple} \cup {Choice(<<p, q>>) : p, q \in Simple}
Groups == {Series(<<p, q>>) : p \in Leaves, q \in Simple} \cup {Choice(<<p, q>>) : p, q \in Marked}
Rules == Pairs \cup {Repeat(r) : r \in Groups} \cup {Collector("x", r) : r \in Groups}
               \cup {Series(<<Opt(r), q>>) : r \in Groups, q \in Leaves}

Grammar == [rules |-> [statement |-> rule, item |-> Item],
            hints |-> [number |-> {"1"}]]

Tokens == {[type |-> "word", text |-> w] : w \in {"A", "a", "B"}} \cup {[type |-> "number", text |-> "1"]}
Words(ts) == [i \in DOMAIN ts |-> Upper(ts[i].text)]

Init == rule \in Rules /\ tokens = <<>>

(* The user types a token that may follow.                                 *)
Type == /\ Len(tokens) < MaxTokens
        /\ \E t \in Tokens : /\ Upper(t.text) \in complete(Grammar, "statement", tokens)
                             /\ tokens' = Append(tokens, t)
        /\ UNCHANGED rule

Spec == Init /\ [][Type]_vars

-----------------------------------------------------------------------------
(* What a rule derives in at most n words: the words, the values that the  *)
(* collector x binds, and whether it was cut there.                        *)
Derived(word, vals) == [word |-> word, vals |-> vals, cut |-> FALSE]
Cut == [word |-> <<>>, vals |-> <<>>, cut |-> TRUE]
Then(u, v) == [word |-> u.word \o v.word, vals |-> u.vals \o v.vals, cut |-> v.cut]

RECURSIVE Derive(_, _), DeriveSeries(_, _)
Follow(us, n, Rest(_)) == {u \in us : u.cut}
  \cup UNION {{Then(u, v) : v \in Rest(n - Len(u.word))} : u \in {w \in us : ~w.cut}}
DeriveSeries(rs, n) ==
  IF rs = <<>> THEN {Derived(<<>>, <<>>)}
  ELSE Follow(Derive(Head(rs), n), n, LAMBDA k : DeriveSeries(Tail(rs), k))
Derive(r, n) ==
  CASE r.op \in {"text", "type", "ref"} /\ n = 0 -> {Cut}
    [] r.op = "text"   /\ n > 0 -> {Derived(<<r.word>>, <<>>)}
    [] r.op = "type"   /\ n > 0 -> {Derived(<<"1">>, <<>>)}
    [] r.op = "ref"    /\ n > 0 -> Derive(Item, n)
    [] r.op = "choice" -> UNION {Derive(r.rules[i], n) : i \in DOMAIN r.rules}
    [] r.op = "series" -> DeriveSeries(r.rules, n)
    [] r.op = "opt"    -> {Derived(<<>>, <<>>)} \cup Derive(r.rule, n)
    [] r.op = "repeat" -> {Derived(<<>>, <<>>)} \cup Follow(Derive(r.rule, n), n, LAMBDA k : Derive(r, k))
    [] OTHER -> {IF d.cut THEN d ELSE Derived(d.word, Append(d.vals, d.word)) : d \in Derive(r.rule, n)}

StartsWith(w, u) == Len(u) <= Len(w) /\ SubSeq(w, 1, Len(u)) = u

(* A parse is a derivation of some of the first tokens, whatever their     *)
(* case, with the values it binds, and every derivation is found.  (the    *)
(* match methods of pylexotron.py)                                         *)
ParsesAreDerivations ==
  LET found == parse(Grammar, "statement", tokens)
  IN  {Derived(Words(found[i].matched),
               LET vals == Bound(found[i], "x", <<>>) IN [j \in DOMAIN vals |-> Words(vals[j])])
       : i \in DOMAIN found}
      = {d \in Derive(rule, Len(tokens)) : ~d.cut /\ StartsWith(Words(tokens), d.word)}

(* What is offered after some tokens is what may follow them in a          *)
(* statement, no more and no less.  (complete)                             *)
OffersAreFollowers ==
  LET next == Len(tokens) + 1
  IN  complete(Grammar, "statement", tokens)
      = {d.word[next] : d \in {e \in Derive(rule, next) :
                                  Len(e.word) = next /\ StartsWith(e.word, Words(tokens))}}

(* A rule as its author writes it: a group in brackets wherever it is a    *)
(* piece of another.                                                       *)
RECURSIVE Written(_), Pasted(_, _)
Grouped(r) == IF r.op \in {"series", "choice"} THEN <<Sign("(")>> \o Written(r) \o <<Sign(")")>>
              ELSE Written(r)
Pasted(rs, between) == IF Len(rs) = 1 THEN Grouped(rs[1])
                       ELSE Grouped(rs[1]) \o between \o Pasted(Tail(rs), between)
Written(r) ==
  CASE r.op = "text"   -> <<[k |-> "litstring", t |-> r.word]>>
    [] r.op \in {"type", "ref"} -> <<[k |-> "reference", t |-> IF r.op = "type" THEN r.type ELSE r.name]>>
    [] r.op = "choice" -> Pasted(r.rules, <<Sign("|")>>)
    [] r.op = "series" -> Pasted(r.rules, <<>>)
    [] r.op = "opt"    -> Grouped(r.rule) \o <<Sign("?")>>
    [] r.op = "repeat" -> Grouped(r.rule) \o <<Sign("*")>>
    [] OTHER -> <<[k |-> "named_collector", t |-> r.symbol]>> \o Grouped(r.rule)

(* The reader reads back what was written: a named symbol takes one piece, *)
(* and ? and * written after it take the named symbol.                     *)
(* (read_rule_tokens_until)                                                *)
RECURSIVE Named1(_)
Named1(r) ==
  CASE r.op = "type" -> Ref(r.type)
    [] r.op \in {"choice", "series"} -> [r EXCEPT !.rules = [i \in DOMAIN @ |-> Named1(@[i])]]
    [] r.op \in {"opt", "repeat", "collector"} -> [r EXCEPT !.rule = Named1(@)]
    [] OTHER -> r
ReadsBack == ReadRule(Append(Written(rule), Sign(";"))) = Named1(rule)
=============================================================================
