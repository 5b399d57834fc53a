------------------------------ MODULE MCConfig ------------------------------
(***************************************************************************)
(* Values for two instances of Config: a choice of HOD's own options, as   *)
(* bin/hod, bin/ringmaster and bin/hodring define them (HodOptions), and   *)
(* one option for each type of types.py (AllTypes).                        *)
(***************************************************************************)
EXTENDS Types

Procs == {"client", "ringmaster", "hodring"}
Absent == [absent |-> TRUE]

MCDirs == {<<"home", "d">>, <<"node", "d">>, <<"usr", "java">>}
MCFiles == {<<"usr", "tar">>, <<"home", "f">>}
Localhost == Word("l", "localhost")
MCHosts == {Localhost, Word("g", "grid7")}
MCUsers == {Word("a", "ann")}
MCStamps == {Join(" ", <<Word("2", "2013-11-02"), Word("1", "10:00:00")>>)}

W(w) == Word(w, w)
Pair(k, v) == Join("=", <<W(k), v>>)
Comma(s) == Join(",", s)

(* The texts to try for each type.                                         *)
Texts(type) ==
  CASE type = "bool" -> {Word("t", "true"), Word("f", "false"), W("no"), Word("f", "frog"),
                         Digits(0), Digits(1), Digits(10), Word("m", "maybe")}
    [] type \in {"int", "pos_int", "neg_int", "freq"} -> {Digits(0), Digits(3), Digits(-2), W("x")}
    [] type \in {"float", "pos_float", "neg_float", "pos_num"} ->
         {Digits(0), Digits(2), [tenths |-> 19], [tenths |-> -5], W("x")}
    [] type = "tcp_port" -> {Digits(1), Digits(2), Digits(65535), Digits(65536)}
    [] type = "http_version" -> {[tenths |-> 10], [tenths |-> 11], [tenths |-> 12], Digits(1)}
    [] type = "size" -> {Digits(0), Digits(-1), Sized(4, "k"), Sized(0, "mb"), W("x")}
    [] type = "range" -> {Digits(5), Join("-", <<Digits(5), Digits(9)>>), Join("-", <<Digits(9), Digits(5)>>),
                          Join("-", <<Digits(5), Digits(5)>>), Join("-", <<Digits(5), Digits(0)>>),
                          Join("-", <<Empty, Digits(5)>>), W("x")}
    [] type = "address" -> {Join(":", <<Localhost, Digits(80)>>), Join(":", <<Empty, Digits(80)>>),
                            Join(":", <<Join(".", <<Digits(300), Digits(1), Digits(1), Digits(1)>>), Digits(80)>>),
                            Localhost, Join(":", <<Localhost, W("x")>>)}
    [] type \in {"ip_address", "net_address"} ->
         {Join(".", <<Digits(10), Digits(0), Digits(0), Digits(255)>>),
          Join(".", <<Digits(0), Digits(0), Digits(0), Digits(0)>>),
          Join(".", <<Digits(10), Digits(0), Digits(0)>>),
          Join(".", <<W("a"), Digits(0), Digits(0), Digits(0)>>)}
    [] type = "keyval" -> {Pair("a", W("x")), Pair("a", Escaped("y", "y", 1)), Pair("a", Escaped("y", "y", 2)),
                           Pair("a", Escaped("y", "y", 3)), Comma(<<Pair("a", W("x")), Pair("b", W("y"))>>),
                           Comma(<<Pair("a", W("x")), Pair("a", W("z"))>>), Join("=", <<W("b"), W("x"), W("y")>>),
                           W("a"), Pair("b", Empty)}
    [] type = "list" -> {W("a"), Comma(<<W("a"), W("b")>>), Escaped("a", "a", 1), Empty}
    [] type \in {"directory", "file", "uri"} ->
         {[rel |-> "d"], [rel |-> "f"], [at |-> <<"usr", "java">>], [at |-> <<"usr", "tar">>],
          [at |-> <<"usr", "none">>]}
           \cup (IF type = "uri" THEN {[scheme |-> "file", file |-> [at |-> <<"usr", "tar">>]],
                                       [scheme |-> "file", file |-> [at |-> <<"usr", "none">>]],
                                       [scheme |-> "hdfs", file |-> [rel |-> "x"]]} ELSE {})
    [] type = "hostname" -> MCHosts \cup {W("nohost")}
    [] type \in {"user_account", "user_group"} -> MCUsers \cup {W("nobody")}
    [] type = "timestamp" -> MCStamps \cup {W("x")}
    [] OTHER -> {W("batch"), W("long"), Join(" ", <<W("a"), W("b")>>), Empty, Escaped("y", "y", 1)}

D(t, dft, req, val) == [type |-> t, default |-> dft, req |-> req, validate |-> val]
Py(b) == [bool |-> b]

HodDef(p) ==
  [debug    |-> D("pos_int", [int |-> IF p = "client" THEN 4 ELSE 3], TRUE, TRUE),
   register |-> D("bool", Py(TRUE), TRUE, TRUE),
   external |-> D("bool", Py(FALSE), TRUE, TRUE),
   host     |-> D("hostname", Localhost, FALSE, p # "client"),
   queue    |-> D("string", IF p = "client" THEN W("batch") ELSE NoValue, FALSE, p = "client"),
   tarball  |-> D("uri", NoValue, FALSE, FALSE),
   params   |-> D("keyval", NoValue, FALSE, p = "client"),
   finals   |-> D("keyval", NoValue, FALSE, p = "client"),
   workdirs |-> D("list", NoValue, TRUE, FALSE),
   ports    |-> D("range", NoValue, TRUE, TRUE),
   svcaddr  |-> D("address", NoValue, FALSE, TRUE),
   javahome |-> D("directory", NoValue, TRUE, FALSE),
   retry    |-> D("pos_float", [int |-> 1], FALSE, TRUE),
   nodes    |-> D("pos_int", NoValue, FALSE, TRUE)]
HodOptions == DOMAIN HodDef("client")
HodDefs == [p \in Procs |-> HodDef(p)]
HodSection == [o \in HodOptions |->
                 CASE o = "nodes" -> "hod"
                   [] o \in {"debug", "register", "ports", "svcaddr", "javahome", "retry"} -> "hodring"
                   [] OTHER -> "ringmaster"]

(* A hodrc with what is required; one or two options take any text.        *)
Base == [o \in HodOptions |->
           CASE o = "workdirs" -> Comma(<<W("a"), W("b")>>)
             [] o = "ports" -> Join("-", <<Digits(5), Digits(9)>>)
             [] o = "javahome" -> [at |-> <<"usr", "java">>]
             [] OTHER -> Absent]
NoArgs == [o \in HodOptions |-> <<>>]
Type1(o) == HodDef("client")[o].type
Rc(o) == Texts(Type1(o)) \cup {Absent}
Lines(o) == IF Type1(o) = "bool" THEN {<<>>, <<Word("t", "true")>>}
            ELSE {<<>>} \cup {<<t>> : t \in Texts(Type1(o)) \ {Empty}}
Second == {[o |-> "queue", t |-> Empty], [o |-> "queue", t |-> W("long")], [o |-> "debug", t |-> W("x")],
           [o |-> "debug", t |-> Digits(0)], [o |-> "javahome", t |-> Absent],
           [o |-> "finals", t |-> Pair("a", W("x"))]}
One == UNION {{[hodrc |-> [Base EXCEPT ![o] = t], cmdline |-> [NoArgs EXCEPT ![o] = l]] :
                 t \in Rc(o), l \in Lines(o)} : o \in HodOptions}
Two == {[i EXCEPT !.hodrc[s.o] = s.t] : i \in One, s \in Second}
Twice == {[hodrc |-> [Base EXCEPT ![o] = t],
           cmdline |-> [NoArgs EXCEPT ![o] = <<Pair("a", W("1")), Comma(<<Pair("b", W("2")), l>>)>>]] :
            o \in {"params", "finals"}, t \in Rc("params"), l \in {Pair("a", W("3")), Pair("c", W("4"))}}
HodInputs == One \cup Two \cup Twice

(* One option of every type; all but the key values, which the section     *)
(* hodring does not have, go all the way to the hodrings.                  *)
AllTypes == {"directory", "file", "address", "ip_address", "net_address", "bool", "int", "float",
             "pos_int", "neg_int", "freq", "pos_float", "pos_num", "neg_float", "string", "keyval",
             "list", "size", "eaddress", "tcp_port", "http_version", "range", "uri", "timestamp",
             "hostname", "user_account", "user_group", "nothing"}
TypeDefs == [p \in Procs |-> [o \in AllTypes |-> D(o, NoValue, FALSE, TRUE)]]
TypeSection == [o \in AllTypes |-> IF o = "keyval" THEN "ringmaster" ELSE "hodring"]
Nothing == [o \in AllTypes |-> Absent]
TypeInputs == UNION {{[hodrc |-> [Nothing EXCEPT ![o] = t], cmdline |-> [p \in AllTypes |-> <<>>]] :
                        t \in Texts(o)} : o \in AllTypes}
=============================================================================
