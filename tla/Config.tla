------------------------------- MODULE Config -------------------------------
(***************************************************************************)
(* From a configuration file to the location that serves a request:        *)
(* ServConf::from, Config::from at start-up, and then get_location of      *)
(* webserv.cpp for each request.                                           *)
(*                                                                         *)
(* A path is a sequence of numbers, its characters.  std::map<std::string, *)
(* Location> is iterated in lexicographic order.                           *)
(***************************************************************************)
EXTENDS ServConf, SequencesExt

CONSTANTS
    PathOf,     \* the words that are paths, as sequences of characters
    Requests    \* [listen, host, method, path], the path as above

NoHost == "no Host"
Nothing == ""
NoRequest == [listen |-> Nothing, host |-> NoHost, method |-> Nothing, path |-> <<>>]

ASSUME ConfigAssumption ==
    /\ \A w \in DOMAIN PathOf : PathOf[w] \in Seq(Nat)
    /\ \A v, w \in DOMAIN PathOf : PathOf[v] = PathOf[w] => v = w
    /\ \A r \in Requests : r.path \in Seq(Nat)

VARIABLES
    status,    \* the process: "starting", "serving" or "exited"
    servers,   \* config.servers: per listen word, the servers in order
    request,   \* the request served last
    location   \* what get_location() returned for it: its path, {} for nullptr

vars == <<parser, status, servers, request, location>>

\* std::string's order: the first difference decides, a prefix comes first.
Before(p, q) ==
    \/ IsStrictPrefix(p, q)
    \/ \E i \in 1..Len(p) : /\ i <= Len(q) /\ p[i] < q[i]
                            /\ \A j \in 1..(i - 1) : p[j] = q[j]

-----------------------------------------------------------------------------
(* Config::from()                                                           *)

\* get_operator_single_val(): absent, or one operator with one argument.
SingleValOk(key, node) ==
    LET vals == At(node.nodes, key)
    IN  vals = <<>> \/ (Len(vals) = 1 /\ ~ vals[1].block /\ Len(vals[1].args) = 1)
SingleVal(key, node, default) ==
    LET vals == At(node.nodes, key) IN IF vals = <<>> THEN default ELSE vals[1].args[1]

\* get_operator_args(): absent, or one operator.
ArgsOk(key, node) ==
    LET vals == At(node.nodes, key) IN vals = <<>> \/ (Len(vals) = 1 /\ ~ vals[1].block)
Args(key, node) ==
    LET vals == At(node.nodes, key) IN IF vals = <<>> THEN <<>> ELSE vals[1].args

LocationOk(node) ==
    /\ node.block
    /\ Len(node.args) = 1
    /\ \A key \in {"root", "proxy_pass", "cgi"} : SingleValOk(key, node)
    /\ ArgsOk("accepted_method", node)

LocationFrom(node) ==
    [accepted_methods |-> ToSet(Args("accepted_method", node)),
     root |-> SingleVal("root", node, Nothing),
     proxy_pass |-> SingleVal("proxy_pass", node, Nothing),
     cgi_path |-> SingleVal("cgi", node, Nothing)]

\* The location blocks of a server; of two with one path the last is kept.
LocationsFrom(nodes) ==
    [path \in {nodes[i].args[1] : i \in 1..Len(nodes)} |->
        LocationFrom(nodes[CHOOSE i \in 1..Len(nodes) :
            /\ nodes[i].args[1] = path
            /\ \A j \in (i + 1)..Len(nodes) : nodes[j].args[1] # path])]

ServerOk(node) ==
    /\ SingleValOk("listen", node)
    /\ ArgsOk("server_name", node)
    /\ At(node.nodes, "location") # <<>>
    /\ \A loc \in ToSet(At(node.nodes, "location")) : LocationOk(loc)

ServerFrom(node) ==
    [_listen |-> SingleVal("listen", node, "80"),
     server_name |-> Args("server_name", node),
     locations |-> LocationsFrom(At(node.nodes, "location"))]

ServerNodes(nodes) ==
    LET http == At(nodes, "http")
    IN  FlattenSeq([i \in 1..Len(http) |-> At(http[i].nodes, "server")])

ConfigOk(nodes) ==
    /\ ServerNodes(nodes) # <<>>
    /\ \A node \in ToSet(ServerNodes(nodes)) : ServerOk(node)

ServersFrom(nodes) ==
    LET all == [i \in 1..Len(ServerNodes(nodes)) |-> ServerFrom(ServerNodes(nodes)[i])]
        On(_listen) == SelectSeq(all, LAMBDA server : server._listen = _listen)
    IN  [_listen \in {all[i]._listen : i \in 1..Len(all)} |-> On(_listen)]

-----------------------------------------------------------------------------
(* get_location()                                                           *)

Names(server, host) == \E i \in 1..Len(server.server_name) : server.server_name[i] = host

\* The first server of that name, or the first of all without a Host header.
ServerFor(r) ==
    LET on == servers[r.listen]
        named == {i \in 1..Len(on) : r.host = NoHost \/ Names(on[i], r.host)}
    IN  {on[i] : i \in {i \in named : \A j \in named : i <= j}}

Matches(server, r) ==
    {path \in DOMAIN PathOf :
        /\ path \in DOMAIN server.locations
        /\ r.method \in server.locations[path].accepted_methods
        /\ IsPrefix(PathOf[path], r.path)}

\* Broken form: the loop stops at the first match.
FirstOf(paths) ==
    {p \in paths : \A q \in paths : q = p \/ Before(PathOf[p], PathOf[q])}

\* The loop over the map keeps the last match, if there is one.
LastOf(paths) ==
    {p \in paths : \A q \in paths : q = p \/ Before(PathOf[q], PathOf[p])}

-----------------------------------------------------------------------------

ConfigInit ==
    /\ Init
    /\ status = "starting"
    /\ servers = Empty
    /\ request = NoRequest
    /\ location = {}

ReadFile == Parse /\ UNCHANGED <<status, servers, request, location>>

\* async_main(): the process exits when the file or the configuration is bad.
Configure ==
    /\ status = "starting"
    /\ result # "parsing"
    /\ \/ /\ result = "ok" /\ ConfigOk(Top.nodes)
          /\ servers' = ServersFrom(Top.nodes)
          /\ status' = "serving"
       \/ /\ result # "ok" \/ ~ ConfigOk(Top.nodes)
          /\ status' = "exited"
          /\ UNCHANGED servers
    /\ UNCHANGED <<parser, request, location>>

\* get_location() of a request that arrived on a port that is listened on.
GetLocation(r) ==
    /\ status = "serving"
    /\ r.listen \in DOMAIN servers
    /\ request' = r
    /\ location' = UNION {LastOf(Matches(server, r)) : server \in ServerFor(r)}
    /\ UNCHANGED <<parser, status, servers>>

Next == ReadFile \/ Configure \/ \E r \in Requests : GetLocation(r)

Spec == ConfigInit /\ [][Next]_vars

-----------------------------------------------------------------------------
(* What a file means, without a parser.                                     *)

\* A sequence without what is at some places of it.
Without(s, places) ==
    FlattenSeq([i \in 1..Len(s) |-> IF i \in places THEN <<>> ELSE <<s[i]>>])

Text == Without(file, {i \in 1..Len(file) : file[i] = Comment})
IsWord(token) == token \notin Marks

\* Blocks open after the first i tokens of s.
Count(s, token, i) == Cardinality({j \in 1..i : s[j] = token})
Open(s, i) == Count(s, OpenBrace, i) - Count(s, CloseBrace, i)

WellFormed(s) ==
    /\ \A i \in 1..Len(s) : Open(s, i) >= 0
    /\ Open(s, Len(s)) = 0
    /\ \A i \in 1..Len(s) :
          /\ s[i] \in {OpenBrace, Semicolon} => i > 1 /\ IsWord(s[i - 1])
          /\ s[i] = CloseBrace => i > 1 /\ s[i - 1] \in {Semicolon, CloseBrace}
    /\ s # <<>> => s[Len(s)] \in {Semicolon, CloseBrace}

\* Words that only a "}" follows are left out, missing "}" are added.
Ignored(s) ==
    {i \in 1..Len(s) :
        \E j \in (i + 1)..Len(s) :
            s[j] = CloseBrace /\ \A k \in i..(j - 1) : IsWord(s[k])}

Repaired(s) == Without(s, Ignored(s)) \o [i \in 1..Open(s, Len(s)) |-> CloseBrace]

\* A file is accepted if and only if it is well-formed once a missing "}" at
\* its end is supplied and words before a "}" that no ";" ends are ignored:
\* every other malformed file ends the process at start-up (ParseErr).
AcceptsRepairable ==
    result # "parsing" => (result = "ok" <=> WellFormed(Repaired(Text)))

\* get_location() returns the longest location that accepts the request, and
\* nullptr only if the first server of that name, or of all without a Host
\* header, has none: std::map's order puts a path behind its prefixes.
RoutesToLongestPrefix ==
    request # NoRequest =>
        /\ \A server \in ServerFor(request) : \A p \in location :
              \A q \in Matches(server, request) : Len(PathOf[q]) <= Len(PathOf[p])
        /\ location = {} =>
              \A server \in ServerFor(request) : Matches(server, request) = {}
=============================================================================
