------------------------------ MODULE MCConfig ------------------------------
(***************************************************************************)
(* Config with every file of up to six tokens, and with configurations     *)
(* like the repository's webserv.conf: two servers of one port, whose      *)
(* locations come in any order and may be prefixes of each other.          *)
(***************************************************************************)
EXTENDS Config, TLC

CONSTANT MaxTokens   \* bound: tokens of an arbitrary file

ShortFiles == UNION {[1..n -> {"a", "b", "{", "}", ";"}] : n \in 0..MaxTokens}

Op(words) == words \o <<";">>
In(words, body) == words \o <<"{">> \o body \o <<"}">>

Paths == ("/" :> <<0>>) @@ ("/a" :> <<0, 1>>) @@ ("/ab" :> <<0, 1, 2>>) @@ ("/b" :> <<0, 2>>)

Location(path, methods) ==
    In(<<"location", path>>, Op(<<"accepted_method">> \o methods) \o Op(<<"root", "page">>))
Locations == {Location(path, methods) : path \in DOMAIN Paths,
                                        methods \in {<<"GET">>, <<"POST", "GET">>}}

Server(name, locations) ==
    In(<<"server">>, Op(<<"listen", "8080">>) \o Op(<<"server_name", name>>) \o locations)

\* Two servers of one port; the second serves whatever has no better place.
TwoServers ==
    {In(<<"http">>, Server("one", FlattenSeq(locs)) \o <<Comment>>
                    \o Server("two", Location("/", <<"GET">>))) :
        locs \in UNION {[1..n -> Locations] : n \in 1..2}}

\* Files that Config::from() refuses, or reads with its defaults.
Odd ==
    {In(<<"http">>, Op(<<"server">>)),
     In(<<"http">>, In(<<"server">>, Op(<<"listen", "8080">>))),
     In(<<"http">>, Server("one", In(<<"location">>, Op(<<"root", "page">>)))),
     In(<<"http">>, Server("one", In(<<"location", "/">>, Op(<<"root", "p", "q">>)))),
     In(<<"http">>, In(<<"server">>, Location("/", <<"GET">>))),
     Op(<<"http">>) \o In(<<"http">>, Server("one", Location("/a", <<"GET">>)
                                                      \o Location("/a", <<"POST">>)))}

MCFiles == ShortFiles \cup TwoServers \cup Odd

MCRequests ==
    [listen : {"8080", "80"}, host : {"one", "two", NoHost},
     method : {"GET", "POST"}, path : {<<0>>, <<0, 1>>, <<0, 1, 2, 3>>, <<0, 2>>, <<1>>}]

-----------------------------------------------------------------------------

\* The operators of a tree: where each is, and the words of the blocks around
\* it and of itself.
RECURSIVE Operators(_)
Operators(nodes) ==
    UNION {UNION {
        LET node == nodes[key][i]
            words == <<key>> \o node.args
        IN  IF node.block
            THEN {[at |-> <<key, i>> \o o.at, words |-> <<words>> \o o.words] :
                     o \in Operators(node.nodes)}
            ELSE {[at |-> <<key, i>>, words |-> <<words>>]}
        : i \in 1..Len(nodes[key])} : key \in DOMAIN nodes}

\* The words between the mark before the one at i and that one.
WordsBefore(s, i) ==
    LET start == CHOOSE j \in 0..(i - 1) :
                    /\ j = 0 \/ ~ IsWord(s[j])
                    /\ \A k \in (j + 1)..(i - 1) : IsWord(s[k])
    IN  SubSeq(s, start + 1, i - 1)

\* The same of the operator that the ";" at i ends, from the text.
OperatorAt(s, i) ==
    LET Around(j) == j = i \/ (s[j] = "{" /\ \A k \in j..(i - 1) : Open(s, k) >= Open(s, j))
    IN  FlattenSeq([j \in 1..i |-> IF Around(j) THEN <<WordsBefore(s, j)>> ELSE <<>>])

\* No operator that a ";" ends is lost, invented, cut or moved to another
\* block, however blocks repeat a key: parse() gathers repeated keys in one
\* vector.
KeepsEveryOperator ==
    result = "ok" =>
        LET found == Operators(Top.nodes)
            written == {i \in 1..Len(Text) : Text[i] = ";"}
        IN  \A words \in {o.words : o \in found} \cup {OperatorAt(Text, i) : i \in written} :
              Cardinality({o \in found : o.words = words})
                = Cardinality({i \in written : OperatorAt(Text, i) = words})
=============================================================================
