------------------------------- MODULE Types -------------------------------
(***************************************************************************)
(* The value types of hodlib/Common/types.py and the checks of tcp.py.     *)
(*                                                                         *)
(* What a user writes is a text.  A text is a record that shows what the   *)
(* validators tell apart:                                                  *)
(*   [digits |-> n]                an integer, its sign included           *)
(*   [digits |-> n, unit |-> u]    an integer with a unit, as in 4k        *)
(*   [tenths |-> n]                a decimal number of n tenths            *)
(*   [word |-> w, head |-> c, slashes |-> b]   any other word: its first   *)
(*                                 letter, and the backslashes that        *)
(*                                 protect a separator inside it           *)
(*   [sep |-> c, parts |-> s]      texts joined by c (not escaped)         *)
(*   [at |-> <<d, p>>], [rel |-> p]   the path of p in directory d, or a   *)
(*                                 path p relative to where one is         *)
(*   [scheme |-> s, file |-> t]    a URI                                   *)
(* Python values have fields of their own: int, float, bool, tuple, list,  *)
(* dict, none.  A computation that may raise returns a set, empty when it  *)
(* raises.                                                                 *)
(***************************************************************************)
EXTENDS Integers, Sequences, Functions, FiniteSets

LOCAL FS == INSTANCE FiniteSetsExt

CONSTANTS
  Dirs, Files,     \* the locations <<directory, name>> that exist
  Hosts,           \* the texts that DNS resolves
  Users, Groups,   \* the accounts and groups of the system
  Stamps           \* the texts strptime accepts

NoValue == [none |-> TRUE]
Word(c, w) == [word |-> w, head |-> c, slashes |-> 0]
Escaped(c, w, b) == [word |-> w, head |-> c, slashes |-> b]
Empty == Word("", "")
Digits(n) == [digits |-> n]
Sized(n, u) == [digits |-> n, unit |-> u]

Has(v, field) == field \in DOMAIN v

IsText(v) == \E f \in {"digits", "tenths", "word", "sep", "at", "rel", "scheme"} : Has(v, f)

Parts(c, t) == IF Has(t, "sep") /\ t.sep = c THEN t.parts ELSE <<t>>
Join(c, s) == IF Len(s) = 1 THEN s[1] ELSE [sep |-> c, parts |-> s]

(* The order of a Python dictionary is not known.                          *)
InSomeOrder(S) == FS!FoldSet(LAMBDA x, s : Append(s, x), <<>>, S)

(* str of a value that has been normalized, or of a default.               *)
str(v) == IF Has(v, "int") THEN Digits(v.int)
          ELSE IF Has(v, "float") THEN [tenths |-> v.float]
          ELSE IF Has(v, "bool") THEN IF v.bool THEN Word("t", "true") ELSE Word("f", "false")
          ELSE IF Has(v, "none") THEN Word("n", "None")
          ELSE v

(* Python's int and float.                                                 *)
toInt(v) == IF Has(v, "int") THEN {v.int}
            ELSE IF Has(v, "digits") /\ ~Has(v, "unit") THEN {v.digits} ELSE {}
toFloat(v) == {10 * n : n \in toInt(v)}
                \cup (IF Has(v, "tenths") THEN {v.tenths} ELSE {})
                \cup (IF Has(v, "float") THEN {v.float} ELSE {})

Ints(S) == {[int |-> n] : n \in S}
Floats(S) == {[float |-> n] : n \in S}

----------------------------------------------------------------------------
(* tcp.py                                                                  *)

(* The numbers between the dots; int raises when one of them is no number. *)
Pieces(t) == LET p == Parts(".", t)
             IN IF \E i \in DOMAIN p : toInt(p[i]) = {} THEN {}
                ELSE {[i \in DOMAIN p |-> CHOOSE n \in toInt(p[i]) : TRUE]}

(* check_net_address and check_ip_address: a set with the answer.  The     *)
(* number of pieces is looked at before any of them is converted.          *)
check_net_address(t) ==
  IF Len(Parts(".", t)) # 4 THEN {FALSE}
  ELSE {(\A i \in 1..4 : p[i] \in 0..255) : p \in Pieces(t)}

check_ip_address(t) ==
  IF Len(Parts(".", t)) # 4 THEN {FALSE}
  ELSE {(p[1] \in 1..254 /\ \A i \in 2..4 : p[i] \in 0..255) : p \in Pieces(t)}

(* get_address_tuple and the constructor of tcpSocket: host and port.      *)
SplitAddress(v) == IF Has(v, "list") THEN v.list ELSE Parts(":", v)
tcpSocket(v) ==
  LET a == SplitAddress(v)
  IN IF Len(a) < 2 THEN {}
     ELSE {[host |-> IF a[1] = Empty THEN Word("l", "localhost") ELSE a[1], port |-> n] :
             n \in toInt(a[2])}

(* reMayBeIp *)
MayBeIp(t) == \E p \in Pieces(t) : Len(p) = 4 /\ \A i \in 1..4 : p[i] >= 0

(* tcpSocket.verify *)
socketVerify(s) == s.port >= 0 /\ (MayBeIp(s.host) => check_ip_address(s.host) = {TRUE})

----------------------------------------------------------------------------
(* The normalizers, __norm_<type>                                          *)

(* __normalizedPath: realpath from the directory d.                        *)
realpath(t, d) == IF Has(t, "rel") THEN [at |-> <<d, t.rel>>]
                  ELSE IF Has(t, "at") THEN t ELSE [at |-> <<d, t>>]

(* The first digit of what str prints; -1 before a sign.                   *)
FirstDigit(n) == IF n < 0 THEN -1 ELSE IF n < 10 THEN n ELSE n \div 10
Leading(t) == IF Has(t, "digits") THEN t.digits
              ELSE IF Has(t, "tenths") /\ t.tenths >= 0 THEN t.tenths \div 10 ELSE -1

(* The regular expressions of __verify_bool and __norm_bool: only the      *)
(* first alternative is tied to the start and only the last to the end, so *)
(* a 0, an f, a 1 or a t at the start is enough.                           *)
Falsy(t) == \/ Has(t, "word") /\ (t.head \in {"f"} \/ t.word = "no")
            \/ FirstDigit(Leading(t)) = 0
Truthy(t) == \/ Has(t, "word") /\ (t.head \in {"t"} \/ t.word = "yes")
             \/ FirstDigit(Leading(t)) = 1

norm_bool(v) == IF Falsy(str(v)) THEN {[bool |-> FALSE]}
                ELSE IF Truthy(str(v)) THEN {[bool |-> TRUE]} ELSE {}

norm_int(v) == Ints(toInt(v))
norm_float(v) == Floats(toFloat(v))
norm_pos_int(v) == Ints({n \in toInt(v) : n >= 0})
norm_neg_int(v) == {}      \* takes one argument more than it is given
norm_freq(v) == norm_pos_int(v)
norm_pos_float(v) == Floats({n \in toFloat(v) : n >= 0})
norm_pos_num(v) == norm_pos_float(v)
norm_neg_float(v) == Floats({n \in toFloat(v) : n < 0})
norm_string(v) == {str(v)}
norm_list(v) == IF IsText(v) THEN {[list |-> Parts(",", v)]} ELSE {}

(* A key that comes twice keeps its last value; an item without '=', or    *)
(* with two of them, raises.                                               *)
norm_keyval(v) ==
  IF ~IsText(v) \/ \E i \in DOMAIN Parts(",", v) : Len(Parts("=", Parts(",", v)[i])) # 2 THEN {}
  ELSE LET items == [i \in DOMAIN Parts(",", v) |-> Parts("=", Parts(",", v)[i])]
           keys == {items[i][1] : i \in DOMAIN items}
           last(k) == CHOOSE i \in DOMAIN items :
                        items[i][1] = k /\ \A j \in DOMAIN items : items[j][1] = k => j <= i
       IN {[dict |-> [k \in keys |-> items[last(k)][2]]]}

norm_directory(v, d) == {realpath(v, d)}
norm_file(v, d) == {realpath(v, d)}
(* A list has no split: the AttributeError means that there is nothing to  *)
(* normalize.                                                              *)
norm_address(v) == {IF Has(v, "list") THEN v ELSE [list |-> Parts(":", v)]}
norm_size(v) == {}         \* reads a name that it does not define
norm_tcp_port(v) == Ints(toInt(v))
norm_range(v) ==
  LET r == Parts("-", v)
  IN IF Len(r) > 1 THEN {[tuple |-> <<[int |-> a], [int |-> b]>>] : a \in toInt(r[1]), b \in toInt(r[2])}
     ELSE {[tuple |-> <<[int |-> a], NoValue>>] : a \in toInt(r[1])}
norm_uri(v, d) == {IF ~Has(v, "scheme") THEN realpath(v, d)
                   ELSE IF v.scheme = "file" THEN [v EXCEPT !.file = realpath(@, d)] ELSE v}

(* normalize: types without a normalizer keep the value.                   *)
normalize(type, v, d) ==
  CASE type = "bool" -> norm_bool(v)
    [] type = "int" -> norm_int(v)
    [] type = "float" -> norm_float(v)
    [] type = "pos_int" -> norm_pos_int(v)
    [] type = "neg_int" -> norm_neg_int(v)
    [] type = "freq" -> norm_freq(v)
    [] type = "pos_float" -> norm_pos_float(v)
    [] type = "pos_num" -> norm_pos_num(v)
    [] type = "neg_float" -> norm_neg_float(v)
    [] type = "string" -> norm_string(v)
    [] type = "list" -> norm_list(v)
    [] type = "keyval" -> norm_keyval(v)
    [] type = "directory" -> norm_directory(v, d)
    [] type = "file" -> norm_file(v, d)
    [] type = "address" -> norm_address(v)
    [] type = "size" -> norm_size(v)
    [] type = "tcp_port" -> norm_tcp_port(v)
    [] type = "range" -> norm_range(v)
    [] type = "uri" -> norm_uri(v, d)
    [] OTHER -> {v}

----------------------------------------------------------------------------
(* The validators, __verify_<type>: a set with the value info.             *)

Invalid == [isValid |-> FALSE]
Valid(v) == [isValid |-> TRUE, normalized |-> v]
Try(norms) == IF norms = {} THEN {Invalid} ELSE {Valid(v) : v \in norms}
Accept(norms) == {Valid(v) : v \in norms}
Check(ok, norms) == IF ok THEN Accept(norms) ELSE {Invalid}

isdir(t, d) == realpath(t, d).at \in Dirs
isfile(t, d) == realpath(t, d).at \in Files

verify_directory(v, d) == Check(isdir(v, d), norm_directory(v, d))
verify_file(v, d) == Check(isfile(v, d), norm_file(v, d))
verify_address(v) == Check(\E s \in tcpSocket(v) : socketVerify(s), norm_address(v))
verify_ip_address(v) == UNION {Check(ok, {v}) : ok \in check_ip_address(v)}
verify_net_address(v) == UNION {Check(ok, {v}) : ok \in check_net_address(v)}
verify_bool(v) == Try(norm_bool(v))
verify_int(v) == Try(norm_int(v))
verify_float(v) == Try(norm_float(v))
verify_pos_int(v) == Try(norm_pos_int(v))
verify_neg_int(v) == Try(norm_neg_int(v))
verify_freq(v) == Try(norm_freq(v))
verify_pos_float(v) == Try(norm_pos_float(v))
verify_pos_num(v) == {}    \* passes one argument too few
verify_neg_float(v) == Try(norm_neg_float(v))
verify_string(v) == Accept(norm_string(v))
verify_keyval(v) == IF \E i \in DOMAIN Parts(",", v) : Len(Parts("=", Parts(",", v)[i])) > 1
                    THEN Try(norm_keyval(v)) ELSE {Invalid}
verify_list(v) == Accept(norm_list(v))

(* sizeFactors, normalize_size; a number of bytes is no unit here.         *)
sizeFactor == [k |-> 1024, kb |-> 1024, m |-> 1048576, mb |-> 1048576,
               g |-> 1073741824, gb |-> 1073741824]
verify_size(v) ==
  IF Has(str(v), "unit") THEN {Valid([int |-> v.digits * sizeFactor[v.unit]])}
  ELSE Try(Ints({n \in toInt(str(v)) : n >= 0}))

verify_eaddress(v) == {}   \* splits at an expression types.py does not have
verify_tcp_port(v) == Try({n \in norm_tcp_port(v) : n.int \in 2..65535})
verify_http_version(v) == Check(v \in {[tenths |-> 10], [tenths |-> 11]}, Floats(toFloat(v)))

(* An end of 0 is taken for none, a range of one number is refused and a   *)
(* range that runs backwards is not.                                       *)
verify_range(v) ==
  LET r == norm_range(v)
      ends(t) == t[2] # NoValue /\ t[2].int # 0
  IN IF r = {} THEN {Invalid}
     ELSE LET t == (CHOOSE x \in r : TRUE).tuple
          IN IF ends(t) THEN Check(t[1] # t[2], {[tuple |-> t]})
             ELSE {Valid([tuple |-> <<t[1]>>])}

verify_uri(v, d) ==
  LET local == IF ~Has(v, "scheme") THEN {v} ELSE IF v.scheme = "file" THEN {v.file} ELSE {}
  IN Check(\A p \in local : isfile(p, d) \/ isdir(p, d), norm_uri(v, d))
verify_timestamp(v) == Check(v \in Stamps, {v})
verify_hostname(v) == Check(v \in Hosts, {v})
verify_user_account(v) == Check(v \in Users, {v})
verify_user_group(v) == Check(v \in Groups, {v})
verify_nothing(v) == {Valid(v)}

Verify(type, v, d) ==
  CASE type = "directory" -> verify_directory(v, d)
    [] type = "file" -> verify_file(v, d)
    [] type = "address" -> verify_address(v)
    [] type = "ip_address" -> verify_ip_address(v)
    [] type = "net_address" -> verify_net_address(v)
    [] type = "bool" -> verify_bool(v)
    [] type = "int" -> verify_int(v)
    [] type = "float" -> verify_float(v)
    [] type = "pos_int" -> verify_pos_int(v)
    [] type = "neg_int" -> verify_neg_int(v)
    [] type = "freq" -> verify_freq(v)
    [] type = "pos_float" -> verify_pos_float(v)
    [] type = "pos_num" -> verify_pos_num(v)
    [] type = "neg_float" -> verify_neg_float(v)
    [] type = "string" -> verify_string(v)
    [] type = "keyval" -> verify_keyval(v)
    [] type = "list" -> verify_list(v)
    [] type = "size" -> verify_size(v)
    [] type = "eaddress" -> verify_eaddress(v)
    [] type = "tcp_port" -> verify_tcp_port(v)
    [] type = "http_version" -> verify_http_version(v)
    [] type = "range" -> verify_range(v)
    [] type = "uri" -> verify_uri(v, d)
    [] type = "timestamp" -> verify_timestamp(v)
    [] type = "hostname" -> verify_hostname(v)
    [] type = "user_account" -> verify_user_account(v)
    [] type = "user_group" -> verify_user_group(v)
    [] OTHER -> verify_nothing(v)

----------------------------------------------------------------------------
(* typeToString: the text that is handed to the next process.              *)

(* Mutant: the backslashes are left as they are.                           *)
MutDoubleSlashes(t) == t
(* Two backslashes become four.                                            *)
DoubleSlashes(t) == IF Has(t, "slashes")
                    THEN [t EXCEPT !.slashes = 4 * (@ \div 2) + (@ % 2)] ELSE t
(* Inside double quotes.                                                   *)
tostring_keyval(v) ==
  LET keys == InSomeOrder(DOMAIN v.dict)
  IN [quoted |-> Join(",", [i \in DOMAIN keys |->
                              Join("=", <<keys[i], DoubleSlashes(v.dict[keys[i]])>>)])]
tostring_list(v) == Join(",", v.list)
tostring_address(v) == Join(":", <<v.list[1], v.list[2]>>)
tostring_range(v) == Join("-", [i \in DOMAIN v.tuple |-> str(v.tuple[i])])
tostring_bool(v) == str(v)

toString(type, v) ==
  CASE type = "keyval" -> tostring_keyval(v)
    [] type = "list" -> tostring_list(v)
    [] type = "address" -> tostring_address(v)
    [] type = "range" -> tostring_range(v)
    [] type = "bool" -> tostring_bool(v)
    [] OTHER -> str(v)

----------------------------------------------------------------------------
(* util.py, replace_escapes: a backslash goes and what follows it stays.   *)
Unescape(t) == IF Has(t, "slashes") THEN [t EXCEPT !.slashes = @ \div 2] ELSE t
replace_escapes(v) == IF Has(v, "dict") THEN [dict |-> [k \in DOMAIN v.dict |-> Unescape(v.dict[k])]]
                      ELSE v
=============================================================================
