------------------------------ MODULE ServConf ------------------------------
(***************************************************************************)
(* ft::ServConf: the parser of configuration files, from the tokens of a   *)
(* file to a tree of operators "words ;" and blocks "words { ... }".       *)
(*                                                                         *)
(* parse() is recursive: a frame is one activation of it.  An exception    *)
(* leaves all of them, so it is a result of the whole.  A comment is one   *)
(* token, whatever its text; a word is a string of its own.                *)
(***************************************************************************)
EXTENDS Integers, Sequences, FiniteSets

CONSTANT Files   \* sequences of tokens

IsSequence(s) == s \in Seq({s[i] : i \in 1..Len(s)})

ASSUME FilesAssumption == \A f \in Files : IsSequence(f)

Comment == "#"
OpenBrace == "{"
CloseBrace == "}"
Semicolon == ";"
Marks == {OpenBrace, CloseBrace, Semicolon, Comment}

VARIABLES
    file,      \* what is parsed
    tokens,    \* what is left of it
    frames,    \* activations of parse(), the current one last
    result     \* "parsing", "ok", or the ParseErr that was thrown

parser == <<file, tokens, frames, result>>

\* Trees: a key has a vector of nodes, since a block may repeat it.
Empty == <<>>
Operator(args) == [block |-> FALSE, args |-> args, nodes |-> Empty]
Block(args, nodes) == [block |-> TRUE, args |-> args, nodes |-> nodes]

\* get_by_key(): no node when the key is missing, or in an operator.
At(nodes, key) == IF key \in DOMAIN nodes THEN nodes[key] ELSE <<>>

\* Broken form: a repeated key replaces the nodes before it.
InsertReplaces(nodes, key, node) ==
    [k \in DOMAIN nodes \cup {key} |-> IF k = key THEN <<node>> ELSE nodes[k]]

\* nodes[key].push_back(node)
Insert(nodes, key, node) ==
    [k \in DOMAIN nodes \cup {key} |->
        IF k = key THEN Append(At(nodes, key), node) ELSE nodes[k]]

Depth == Len(frames) - 1
Top == frames[Len(frames)]
Below == SubSeq(frames, 1, Depth)
NewFrame == [curr_tokens |-> <<>>, nodes |-> Empty]

-----------------------------------------------------------------------------

\* The node whose key and arguments were collected goes to the tree.
Added(frame, node) ==
    [curr_tokens |-> <<>>, nodes |-> Insert(frame.nodes, Head(frame.curr_tokens), node)]

Throw(error) == result' = error /\ UNCHANGED frames

\* parse() of a block returns to the frame that met its "{".
Return ==
    IF DOMAIN Top.nodes = {}
    THEN Throw("BLOCK_IS_EMPTY")
    ELSE LET caller == frames[Depth]
         IN  /\ frames' = [Below EXCEPT ![Depth] =
                              Added(caller, Block(Tail(caller.curr_tokens), Top.nodes))]
             /\ UNCHANGED result

Init ==
    /\ file \in Files
    /\ tokens = file
    /\ frames = <<NewFrame>>
    /\ result = "parsing"

Takes(token) ==
    /\ result = "parsing"
    /\ tokens # <<>>
    /\ Head(tokens) = token
    /\ tokens' = Tail(tokens)
    /\ UNCHANGED file

SkipComment == Takes(Comment) /\ UNCHANGED <<frames, result>>

Word ==
    \E word \in {tokens[i] : i \in 1..Len(tokens)} \ Marks :
        /\ Takes(word)
        /\ frames' = [frames EXCEPT ![Len(frames)].curr_tokens = Append(@, word)]
        /\ UNCHANGED result

OpenBlock ==
    /\ Takes(OpenBrace)
    /\ IF Top.curr_tokens = <<>>
       THEN Throw("BLOCK_HAS_NO_KEY")
       ELSE frames' = Append(frames, NewFrame) /\ UNCHANGED result

\* The words that no ";" has ended are dropped with the frame.
CloseBlock ==
    /\ Takes(CloseBrace)
    /\ IF Depth = 0 THEN Throw("EXTRA_BRACKET") ELSE Return

\* Broken form: the end of the file is the end of the outermost block only.
EndOfTokensUnchecked ==
    /\ result = "parsing"
    /\ tokens = <<>>
    /\ IF Depth = 0 THEN result' = "ok" /\ UNCHANGED frames ELSE Return
    /\ UNCHANGED <<file, tokens>>

EndOperator ==
    /\ Takes(Semicolon)
    /\ IF Top.curr_tokens = <<>>
       THEN Throw("OPERATOR_IS_EMPTY")
       ELSE /\ frames' = [frames EXCEPT ![Len(frames)] =
                              Added(Top, Operator(Tail(Top.curr_tokens)))]
            /\ UNCHANGED result

\* No token is left: each activation returns, as if its block were closed.
EndOfTokens ==
    /\ result = "parsing"
    /\ tokens = <<>>
    /\ IF Top.curr_tokens # <<>> THEN Throw("OPERATOR_NOT_CLOSED")
       ELSE IF Depth = 0 THEN result' = "ok" /\ UNCHANGED frames
       ELSE Return
    /\ UNCHANGED <<file, tokens>>

Parse ==
    SkipComment \/ Word \/ OpenBlock \/ CloseBlock \/ EndOperator \/ EndOfTokens
=============================================================================
