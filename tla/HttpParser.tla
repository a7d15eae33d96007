----------------------------- MODULE HttpParser -----------------------------
(***************************************************************************)
(* ft::http::RequestParser and ResponseParser: the machines that           *)
(* read_entity() feeds with the parts of a message as they arrive.         *)
(*                                                                         *)
(* A message is a sequence of tokens: the pieces a line is made of, "\r"   *)
(* and "\n", and the bytes of the body.  The piece behind a header's name  *)
(* stands for one byte, as a rule a space.  What matters is where the      *)
(* parts are cut, how lines are put together again, and when the body is   *)
(* full.                                                                   *)
(*                                                                         *)
(* Two reads of the code are undefined: the byte before the part when a    *)
(* part begins with "\n", and what follows the kept bytes, which are read  *)
(* as a C string though nothing ends them.                                 *)
(***************************************************************************)
EXTENDS Integers, Sequences, FiniteSets, SequencesExt

CONSTANTS
    Tokens,      \* what messages are made of
    Messages,    \* what may be sent: records of kind, first, headers, body, extra
    CutInLine,   \* whether a part may end inside a header line
    HeaderNames, \* header names, with their colon
    Numbers,     \* tokens that are numbers
    NumberOf,    \* and which
    None

ASSUME ParserAssumption ==
    /\ CutInLine \in BOOLEAN
    /\ NumberOf \in [Numbers -> Nat]
    /\ "Content-Length:" \in HeaderNames
    /\ {"\r", "\n"} \subseteq Tokens
    /\ None \notin Nat \cup Seq(Tokens)

LinePieces == Tokens \ {"\r", "\n"}

\* Of headers with one name the last counts.
IsLast(m, i) == \A j \in (i + 1)..Len(m.headers) : m.headers[j][1] # m.headers[i][1]

\* The last Content-Length is the one at i.
LengthAt(m, i) ==
    /\ IsLast(m, i)
    /\ m.headers[i][1] = "Content-Length:" /\ Len(m.headers[i]) > 2
    /\ m.headers[i][3] \in Numbers

\* What may be sent, well-formed or not.  No line of the head is empty, for an
\* empty one ends it.  A GET has no body, another message has one of the length
\* it says; whatever comes behind is the next message's.
ASSUME MessagesAssumption ==
    \A m \in Messages :
        /\ m.kind \in {"request", "response"}
        /\ m.first \in Seq(LinePieces) \ {<<>>}
        /\ m.headers \in Seq(Seq(LinePieces) \ {<<>>})
        /\ m.body \in Seq(Tokens) /\ m.extra \in Seq(Tokens)
        /\ IF m.kind = "request" /\ m.first[1] = "GET" THEN m.body = <<>>
           ELSE \A i \in DOMAIN m.headers :
                    LengthAt(m, i) => NumberOf[m.headers[i][3]] = Len(m.body)

CRLF == <<"\r", "\n">>

\* A message on the wire, and what follows it on the same connection.
HeadOf(m) == m.first \o CRLF \o FlattenSeq([i \in DOMAIN m.headers |-> m.headers[i] \o CRLF]) \o CRLF
Message(m) == HeadOf(m) \o m.body
Wire(m) == Message(m) \o m.extra

VARIABLES
    message,  \* the message being received
    fed,      \* how much of it was handed to the parser
    part,     \* next_part of the call under way
    start,    \* start_it, an index of part
    mode,     \* state: "headers" or "body"
    kept,     \* not_handled_data
    first,    \* the first line once it is parsed, or None
    headers,  \* headers: name -> value
    length,   \* content_length, or None
    body,     \* body
    state,    \* "pending", "ready", "running", or "aborted" by an exception
    err       \* _err.is_err()

parserVars == <<message, fed, part, start, mode, kept, first, headers, length, body, state, err>>

IsGet == message.kind = "request" /\ first[1] = "GET"

-----------------------------------------------------------------------------

\* parse_first_header(): a request line is a method, a path and a version; a
\* status line is a version, a code and a status, and the code a number.
RequestLineParses(line) == Len(line) >= 3
StatusLineParses(line) == Len(line) >= 3 /\ line[2] \in Numbers

FirstLineParses(line) ==
    IF message.kind = "request" THEN RequestLineParses(line) ELSE StatusLineParses(line)

\* parse_header(): a name that ends with a colon, one more byte whatever it is,
\* and the value behind it, which may be empty.  Without that byte substr()
\* throws.
HasColon(line) == line[1] \in HeaderNames
HasValue(line) == Len(line) > 1
Value(line) == SubSeq(line, 3, Len(line))

\* set_content_length(): stoul() reads the number the value begins with.
ContentLength ==
    LET named == "Content-Length:" \in DOMAIN headers
        value == headers["Content-Length:"]
    IN  IF length # None THEN length
        ELSE IF named /\ value # <<>> /\ value[1] \in Numbers THEN NumberOf[value[1]]
        ELSE None

-----------------------------------------------------------------------------
(* Broken forms of the operations below.                                    *)

\* The body takes all that is there.
BodyTakesAll(from, len) == body \o SubSeq(part, from, Len(part))

\* A body is full when the next byte would be too many.
FullWhenOver(from, len) == Len(part) - from + 1 + Len(body) > len

\* What parse_first_header() returns is ignored.
FirstLineUnchecked(line) ==
    /\ line # <<>> /\ first = None
    /\ first' = line
    /\ UNCHANGED <<mode, headers, length, body, state, err>>

-----------------------------------------------------------------------------

ParserInit ==
    /\ message \in Messages
    /\ fed = 0
    /\ part = <<>>
    /\ start = 1
    /\ mode = "headers"
    /\ kept = <<>>
    /\ first = None
    /\ headers = [n \in {} |-> <<>>]
    /\ length = None
    /\ body = <<>>
    /\ state = "pending"
    /\ err = FALSE

\* read_entity() has read another part and calls the parser with it.
Feed ==
    /\ state = "pending"
    /\ \E n \in 1..(Len(Wire(message)) - fed) :
          /\ \/ CutInLine
             \/ fed + n >= Len(HeadOf(message))
             \/ Wire(message)[fed + n] = "\n"
          /\ part' = SubSeq(Wire(message), fed + 1, fed + n)
          /\ fed' = fed + n
    /\ start' = 1
    /\ state' = "running"
    /\ UNCHANGED <<message, mode, kept, first, headers, length, body, err>>

LineEnds == {i \in start..Len(part) : part[i] = "\n"}
LineEnd == CHOOSE i \in LineEnds : \A j \in LineEnds : i <= j

\* No line ends in the rest of the part: it is kept.
Keep ==
    /\ state = "running" /\ mode = "headers"
    /\ LineEnds = {}
    /\ kept' = kept \o SubSeq(part, start, Len(part))
    /\ state' = "pending"
    /\ UNCHANGED <<message, fed, part, start, mode, first, headers, length, body, err>>

\* What is kept and the rest of the line.  The kept bytes are read up to the
\* next zero in memory, so that garbage may follow them.
Line(end, garbage) ==
    (IF kept = <<>> THEN <<>> ELSE kept \o garbage) \o SubSeq(part, start, end - 1)

\* start_it skips a line end of one or two bytes.
Skip(end) ==
    IF end + 1 <= Len(part) /\ part[end + 1] = "\n" THEN end + 2 ELSE end + 1

\* read_body(): READY at once for a GET; without a Content-Length value() throws.
Full(from, len) == Len(part) - from + 1 + Len(body) >= len
Filled(from, len) == body \o SubSeq(part, from, from + len - Len(body) - 1)

ReadBody(from) ==
    LET len == ContentLength
    IN  IF IsGet
        THEN state' = "ready" /\ UNCHANGED <<length, body>>
        ELSE IF len = None
        THEN state' = "aborted" /\ UNCHANGED <<length, body>>
        ELSE /\ length' = len
             /\ IF Full(from, len)
                THEN body' = Filled(from, len) /\ state' = "ready"
                ELSE body' = body \o SubSeq(part, from, Len(part)) /\ state' = "pending"

\* The empty line: the rest of the part belongs to the body.
EndOfHeaders(end, line) ==
    /\ line = <<>>
    /\ mode' = "body"
    /\ ReadBody(Skip(end))
    /\ UNCHANGED <<first, headers, err>>

FirstLine(line) ==
    /\ line # <<>> /\ first = None
    /\ first' = line
    /\ err' = ~ FirstLineParses(line)
    /\ state' = IF FirstLineParses(line) THEN "running" ELSE "ready"
    /\ UNCHANGED <<mode, headers, length, body>>

HeaderLine(line) ==
    /\ line # <<>> /\ first # None
    /\ IF ~ HasColon(line)
       THEN err' = TRUE /\ state' = "ready" /\ UNCHANGED headers
       ELSE IF ~ HasValue(line)
       THEN state' = "aborted" /\ UNCHANGED <<headers, err>>
       ELSE /\ headers' = [n \in DOMAIN headers \cup {line[1]} |->
                             IF n = line[1] THEN Value(line) ELSE headers[n]]
            /\ UNCHANGED <<state, err>>
    /\ UNCHANGED <<mode, first, length, body>>

\* One turn of the loop over the lines of a part.  When the part begins with
\* "\n" the byte before it is unknown: taken for "\r", the copy runs away.
TakeLine ==
    /\ state = "running" /\ mode = "headers"
    /\ LineEnds # {}
    /\ \/ LET end == IF LineEnd > 1 /\ part[LineEnd - 1] = "\r" THEN LineEnd - 1 ELSE LineEnd
          IN  \E garbage \in {<<>>, <<"?">>} :
                 LET line == Line(end, garbage)
                 IN  /\ EndOfHeaders(end, line) \/ FirstLine(line) \/ HeaderLine(line)
                     /\ start' = Skip(end)
          /\ kept' = <<>>
       \/ /\ LineEnd = 1
          /\ state' = "aborted"
          /\ UNCHANGED <<start, mode, kept, first, headers, length, body, err>>
    /\ UNCHANGED <<message, fed, part>>

\* A part of the body.
TakeBody ==
    /\ state = "running" /\ mode = "body"
    /\ ReadBody(1)
    /\ UNCHANGED <<message, fed, part, start, mode, kept, first, headers, err>>

ParserNext == Feed \/ Keep \/ TakeLine \/ TakeBody

\* The parser runs, and the sender sends what it has.
ParserSpec == ParserInit /\ [][ParserNext]_parserVars /\ WF_parserVars(ParserNext)

-----------------------------------------------------------------------------

Ended == state \in {"ready", "aborted"}

WellFormedMessage ==
    /\ FirstLineParses(message.first)
    /\ \A i \in DOMAIN message.headers :
          HasColon(message.headers[i]) /\ HasValue(message.headers[i])
    /\ \/ message.kind = "request" /\ message.first[1] = "GET"
       \/ \E i \in DOMAIN message.headers : LengthAt(message, i)

TypeOK ==
    /\ message \in Messages
    /\ fed \in 0..Len(Wire(message))
    /\ start \in 1..(Len(part) + 1)
    /\ mode \in {"headers", "body"}
    /\ state \in {"pending", "running", "ready", "aborted"}
    /\ err \in BOOLEAN
    /\ length \in Nat \cup {None}
    /\ length # None => Len(body) <= length

\* A message whose head was cut at the ends of its lines only is accepted if it
\* is well-formed, and then as it was sent, however the lines were dealt out to
\* parts, wherever its body was cut and whatever follows it: the lines, the
\* headers, and the body to its last byte and no further.  (A part that ends
\* within a line may get it refused or end the process: see SkipsCR.)
CutsDoNotMatter ==
    Ended =>
        IF WellFormedMessage
        THEN /\ state = "ready" /\ ~ err
             /\ first = message.first
             /\ \A i \in DOMAIN message.headers :
                   /\ message.headers[i][1] \in DOMAIN headers
                   /\ IsLast(message, i) =>
                         headers[message.headers[i][1]] = Value(message.headers[i])
             /\ body = IF IsGet THEN <<>> ELSE message.body
        ELSE state = "aborted" \/ err

\* The parser is READY with the last byte of the message: not before, when
\* the rest would be lost, and not later, when nothing more will come, be the
\* message well-formed or not.
ReadyInTime ==
    /\ state = "ready" /\ ~ err => fed >= Len(Message(message))
    /\ state = "pending" => fed < Len(Message(message))

\* The byte skipped behind a line is a "\r", and so no line holds one.
SkipsCR ==
    /\ first # None => "\r" \notin ToSet(first)
    /\ \A n \in DOMAIN headers : "\r" \notin ToSet(headers[n])
=============================================================================
