---------------------------- MODULE MCHttpParser ----------------------------
(***************************************************************************)
(* HttpParser over eighteen messages: with and without a body, with bytes  *)
(* of a next message behind them, headers with and without a space, and    *)
(* malformed in every way the parser knows.                                *)
(***************************************************************************)
EXTENDS HttpParser

Request(line, hdrs, content, next) ==
    [kind |-> "request", first |-> line, headers |-> hdrs, body |-> content, extra |-> next]
Response(line, hdrs, content, next) ==
    [Request(line, hdrs, content, next) EXCEPT !.kind = "response"]

Get == <<"GET", "path", "1.1">>
Post == <<"POST", "path", "1.1">>
Ok == <<"1.1", "200", "OK">>
Host == <<"Host:", " ", "a", "b">>
Sized(n) == <<"Content-Length:", " ", n>>
Unspaced == <<"Content-Length:", "2">>

MCMessages == {
    Request(Get, <<>>, <<>>, <<>>),
    Request(Get, <<Host>>, <<>>, <<"GET">>),
    Request(Post, <<Host, Sized("2")>>, <<"x", "\n">>, <<>>),
    Request(Post, <<Sized("2"), Host>>, <<"\n", "y">>, <<"z">>),
    Request(Post, <<Sized("0")>>, <<>>, <<"\n">>),
    Request(Post, <<Sized("3")>>, <<"x", "y", "z">>, <<>>),
    Request(Post, <<Sized("3"), Host, Sized("2")>>, <<"x", "\r">>, <<"\n">>),
    Request(Post, <<Sized("2"), Sized("many")>>, <<"x", "y">>, <<>>),
    Request(Post, <<Host>>, <<"x">>, <<>>),
    Request(Post, <<Sized("many")>>, <<"x">>, <<>>),
    Request(<<"GET", "path">>, <<Host>>, <<>>, <<>>),
    Request(Get, <<<<"odd">>, Host>>, <<>>, <<>>),
    Request(Get, <<<<"Host:">>>>, <<>>, <<>>),
    Request(Get, <<<<"Host:", " ">>, <<"Host:", "a", "b">>>>, <<>>, <<>>),
    Request(Post, <<Unspaced>>, <<"x", "y">>, <<>>),
    Request(Post, <<<<"Content-Length:", "3", "2">>>>, <<"x", "y">>, <<>>),
    Response(Ok, <<Sized("2"), Host>>, <<"x", "y">>, <<"z">>),
    Response(<<"1.1", "odd", "OK">>, <<Sized("0")>>, <<>>, <<>>) }

MCTokens == STRING
MCNames == {"Content-Length:", "Host:"}
MCNumbers == {"0", "2", "3", "200"}
MCNumberOf == [n \in MCNumbers |-> CASE n = "0" -> 0 [] n = "2" -> 2 [] n = "3" -> 3 [] OTHER -> 200]
=============================================================================
