----------------------------- MODULE WebServer -----------------------------
(***************************************************************************)
(* webserv: one thread that runs the event loop with the same_thread       *)
(* executor, and the pipelines of futures that serve the connections:      *)
(*                                                                         *)
(*     accept -> read the request -> | static file, or an error code       *)
(*                                   | write to a CGI, read its answer     *)
(*                                   | write to an upstream, read it       *)
(*            -> write the response -> close                               *)
(*                                                                         *)
(* A pipeline keeps its state nowhere but in the continuation that waits   *)
(* in the table of handlers: the descriptors it captured and the progress  *)
(* of the parser or serializer.  The loop takes an event, and with it the  *)
(* continuation; the handler reads or writes once and stores the next      *)
(* continuation, or ends.  A captured descriptor is closed when the last   *)
(* continuation that has it is gone.                                       *)
(*                                                                         *)
(* Clients, CGI children and upstreams, and the kernel's descriptors and   *)
(* buffers, are the environment.  A message is Units parts long: what one  *)
(* read() or write() takes, at least one for the header and one for the    *)
(* body, each of which has a write of its own even when it is empty.       *)
(*                                                                         *)
(* HttpParser shows what the parser makes of a message.  A well-formed one *)
(* is taken whole, with its last byte, unless a part of it ends within a   *)
(* line of the head.  Then, and when it is malformed, the parser may find  *)
(* no fault, lose or garble a header, refuse the message or end the        *)
(* process, before the rest has come.  Misread is for both, and for both   *)
(* directions: nobody chooses where the network cuts.                      *)
(*                                                                         *)
(* A CGI child has open what the server had when it was forked, the pipe   *)
(* of its own apart: the connections of all clients, and the write ends of *)
(* the pipes to earlier children.                                          *)
(***************************************************************************)
EXTENDS Integers, Sequences, FiniteSets

CONSTANTS
    Clients,   \* each connects once
    Rude,      \* the clients that may hang up or be slow
    Flaky,     \* the clients whose CGI or upstream may fail or be slow
    Misread,   \* the clients with a request or an answer that may be misread
    Units,     \* parts of a message
    NoClient,
    Limits     \* bound: the limits on descriptors a process may start under

ASSUME ServerAssumption ==
    /\ IsFiniteSet(Clients)
    /\ Rude \subseteq Clients /\ Flaky \subseteq Clients /\ Misread \subseteq Clients
    /\ NoClient \notin Clients
    /\ Units \in Nat /\ Units >= 2
    /\ Limits \subseteq Nat \ {0}

Fds == UNION {1..n : n \in Limits}
Acceptor == 1
NoFd == 0

Status == {200, 404, 500, 502, 503}

\* The continuations, by what they wait for.
Stages == {"accept", "request", "to_cgi", "from_cgi", "to_proxy", "from_proxy", "response"}
Continuations ==
    [at : Stages, sock : Fds \cup {NoFd}, to : Fds \cup {NoFd},
     from : Fds \cup {NoFd}, left : 0..Units, status : Status \cup {0},
     request : Clients \cup {NoClient}]

VARIABLES
    limit,      \* the descriptors the process may have
    lpc,        \* the loop: "block", "serve", or how the process ended
    batch,      \* event_buf: pairs of descriptor and event type
    interest,   \* the epoll set
    handlers,   \* the handlers: descriptor -> continuation
    endpoint,   \* the open descriptors: what they are connected to, whose
    leaked,     \* history: descriptors of failed connects
    client,     \* per client: "new", "backlog", "open", "fin" or "reset"
    unsent,     \* per client: parts of its request it has not sent
    unread,     \* per client: parts in the receive buffer of its connection
    reply,      \* per client: the parts of a response written to it
    peer,       \* per client: its CGI or upstream: "none", "live", "gone"
    peerUnsent, \* per client: parts of the answer the peer has not sent
    peerUnread, \* per client: parts of the answer not yet read
    inherited   \* per client: endpoints its CGI child has open besides its own

vars == <<limit, lpc, batch, interest, handlers, endpoint, leaked,
          client, unsent, unread, reply, peer, peerUnsent, peerUnread, inherited>>
clients == <<client, unsent, unread, reply>>
peers == <<peer, peerUnsent, peerUnread, inherited>>

Running == lpc \in {"block", "serve"}
Free == (1..limit) \ DOMAIN endpoint
Lowest(S) == CHOOSE x \in S : \A y \in S : x <= y
Without(f, S) == [x \in DOMAIN f \ S |-> f[x]]

\* A table of one entry, and one table laid over another.  (These are the
\* operators of module TLC, which the provers cannot expand.)
d :> e == [x \in {d} |-> e]
f @@ g == [x \in DOMAIN f \cup DOMAIN g |-> IF x \in DOMAIN f THEN f[x] ELSE g[x]]

Accepting == [at |-> "accept", sock |-> NoFd, to |-> NoFd, from |-> NoFd, left |-> 0, status |-> 0,
              request |-> NoClient]

\* Broken form: the parser is READY when the headers are read, not the body.
ReadingHeaders(conn) == [Accepting EXCEPT !.at = "request", !.sock = conn, !.left = Units - 1]

Reading(conn) == [Accepting EXCEPT !.at = "request", !.sock = conn, !.left = Units]
Responding(h, code) ==
    [Accepting EXCEPT !.at = "response", !.sock = h.sock, !.left = Units,
                      !.status = code, !.request = h.request]

Captured(h) == {h.sock, h.to, h.from} \ {NoFd}

\* What a child has open that is forked now, and what some child has open.
Inheritable ==
    {endpoint[fd] : fd \in {x \in DOMAIN endpoint : endpoint[x].kind = "client"}}
    \cup {endpoint[fd] : fd \in {x \in DOMAIN handlers : handlers[x].at = "to_cgi"}}
SomeChildHas(kind, c) == \E d \in Clients : [kind |-> kind, c |-> c] \in inherited[d]

Continuation(c) == {h \in {handlers[fd] : fd \in DOMAIN handlers} :
                      h.sock # NoFd /\ endpoint[h.sock] = [kind |-> "client", c |-> c]}

-----------------------------------------------------------------------------
(* The event loop.                                                          *)

\* What epoll_wait() reports of a descriptor, and what block() makes of it: a
\* socket at end of file is readable, a pipe without writers is not and hangs
\* up, and what nobody will read any more is writable.
EventOf(fd) ==
    LET h == handlers[fd]
        c == endpoint[fd].c
    IN  CASE h.at = "accept" ->
               IF \E d \in Clients : client[d] = "backlog" THEN "TO_READ" ELSE "none"
          [] h.at = "request" ->
               IF unread[c] > 0 \/ client[c] # "open" THEN "TO_READ" ELSE "none"
          [] h.at = "from_proxy" ->
               IF peerUnread[c] > 0 \/ peer[c] = "gone" THEN "TO_READ" ELSE "none"
          [] h.at = "from_cgi" ->
               IF peerUnread[c] > 0 THEN "TO_READ"
               ELSE IF peer[c] = "gone" THEN "CLOSED" ELSE "none"
          [] OTHER -> "TO_WRITE"

\* A slow reader may leave a descriptor unwritable for any time.
MayStall(fd) ==
    LET h == handlers[fd]
        c == endpoint[fd].c
    IN  \/ h.at = "response" /\ c \in Rude /\ client[c] = "open"
        \/ h.at \in {"to_cgi", "to_proxy"} /\ c \in Flaky /\ peer[c] = "live"

Block ==
    /\ lpc = "block"
    /\ LET ready == {fd \in interest : EventOf(fd) # "none"}
           must == {fd \in ready : ~ MayStall(fd)}
       IN  \E may \in SUBSET (ready \ must) :
              /\ must \cup may # {}
              /\ batch' = {<<fd, EventOf(fd)>> : fd \in must \cup may}
    /\ lpc' = "serve"
    /\ UNCHANGED <<limit, interest, handlers, endpoint, leaked, clients, peers>>

\* del_event() and get_handler(): the loop goes on with an event that has its
\* registration and its handler, and throws on one that has not.
Takes(fd, ev) ==
    /\ lpc = "serve"
    /\ <<fd, ev>> \in batch
    /\ batch' = batch \ {<<fd, ev>>}
    /\ fd \in interest \cap DOMAIN handlers
    /\ UNCHANGED limit

EndBatch ==
    /\ lpc = "serve"
    /\ \A e \in batch : e[1] \notin interest \cap DOMAIN handlers
    /\ lpc' = IF batch = {} THEN "block" ELSE "threw"
    /\ UNCHANGED <<limit, batch, interest, handlers, endpoint, leaked, clients, peers>>

\* Broken form: del_event() is not called, the event stays registered.
LeavesRegistered(fd, new, table) ==
    /\ interest' = interest \cup DOMAIN new
    /\ handlers' = new @@ Without(handlers, {fd})
    /\ endpoint' = table
    /\ lpc' = IF DOMAIN new \cap interest # {} THEN "threw" ELSE "serve"

\* The handler of fd has run: it registered the continuations in new, a
\* function, and what it captured alone is closed.  add_event() throws when a
\* descriptor is registered already.
Leaves(fd, new, table) ==
    /\ interest' = (interest \ {fd}) \cup DOMAIN new
    /\ handlers' = new @@ Without(handlers, {fd})
    /\ endpoint' = table
    /\ lpc' = IF DOMAIN new \cap (interest \ {fd}) # {} THEN "threw" ELSE "serve"

-----------------------------------------------------------------------------
(* The handlers.                                                            *)

\* Ends the pipeline: nothing is registered, all it captured is closed.
Ends(fd, h) == Leaves(fd, <<>>, Without(endpoint, Captured(h)))

\* Broken form: a parser that is PENDING is not given another part.
MoreStops(fd, h, n) == IF n > 0 THEN Ends(fd, h) ELSE Leaves(fd, fd :> h, endpoint)

\* read_entity() and write_all() are not done and wait for the same again.
More(fd, h, n) == Leaves(fd, fd :> [h EXCEPT !.left = @ - n], endpoint)

\* Broken form: the descriptors of a peer outlive its last continuation.
AnswerKeepsPeer(fd, h, code) == Leaves(fd, h.sock :> Responding(h, code), endpoint)

\* Broken form: http_conn is captured by reference, it is the last one accepted.
AnswerOnLastConnection(fd, h, code) ==
    LET conns == {f \in DOMAIN endpoint : endpoint[f].kind = "client"}
        last == CHOOSE f \in conns : \A g \in conns : g <= f
    IN  Leaves(fd, last :> Responding([h EXCEPT !.sock = last], code),
               Without(endpoint, Captured(h) \ {h.sock, last}))

\* send_response(): the first write of the response waits for the client, and
\* the descriptors of a peer go with the continuation that read its answer.
Answer(fd, h, code) ==
    Leaves(fd, h.sock :> Responding(h, code),
           Without(endpoint, Captured(h) \ {h.sock}))

\* The parser calls value() on an absent Content-Length: nobody catches.
Aborts ==
    /\ lpc' = "aborted"
    /\ UNCHANGED <<interest, handlers, endpoint>>

\* A write that nobody will read raises SIGPIPE: nobody handles it.
Killed ==
    /\ lpc' = "killed"
    /\ UNCHANGED <<interest, handlers, endpoint>>

\* Broken form: the next connection is waited for after accept() succeeded.
AcceptRearmsLate(fd, ev) ==
    /\ Takes(fd, ev)
    /\ handlers[fd].at = "accept"
    /\ IF Free # {}
       THEN LET conn == Lowest(Free)
            IN  \E c \in {d \in Clients : client[d] = "backlog"} :
                    /\ client' = [client EXCEPT ![c] = "open"]
                    /\ Leaves(fd, fd :> Accepting @@ conn :> Reading(conn),
                              endpoint @@ (conn :> [kind |-> "client", c |-> c]))
       ELSE /\ Leaves(fd, <<>>, endpoint)
            /\ UNCHANGED client
    /\ UNCHANGED <<leaked, unsent, unread, reply, peers>>

\* The first handler of server_pipeline(): accept(), wait for the next
\* connection, and then for the request of this one.
Accept(fd, ev) ==
    /\ Takes(fd, ev)
    /\ handlers[fd].at = "accept"
    /\ IF Free # {}
       THEN LET conn == Lowest(Free)
            IN  \E c \in {d \in Clients : client[d] = "backlog"} :
                    /\ client' = [client EXCEPT ![c] = "open"]
                    /\ Leaves(fd, fd :> Accepting @@ conn :> Reading(conn),
                              endpoint @@ (conn :> [kind |-> "client", c |-> c]))
       ELSE /\ Leaves(fd, fd :> Accepting, endpoint)
            /\ UNCHANGED client
    /\ UNCHANGED <<leaked, unsent, unread, reply, peers>>

\* cgi::send_request(): two pipes, a child, and the child's ends closed.  With
\* too few descriptors, or no child, whatever was opened is closed again.
StartCgi(fd, h, c) ==
    LET r1 == Lowest(Free)
        w1 == Lowest(Free \ {r1})
        r2 == Lowest(Free \ {r1, w1})
        next == [h EXCEPT !.at = "to_cgi", !.to = w1, !.from = r2, !.left = Units]
    IN  /\ \/ /\ Cardinality(Free) >= 4
              /\ peer' = [peer EXCEPT ![c] = "live"]
              /\ peerUnsent' = [peerUnsent EXCEPT ![c] = Units]
              /\ inherited' = [inherited EXCEPT ![c] = Inheritable]
              /\ Leaves(fd, w1 :> next,
                        endpoint @@ (w1 :> [kind |-> "cgi", c |-> c])
                                 @@ (r2 :> [kind |-> "cgi", c |-> c]))
           \/ /\ Cardinality(Free) < 4 \/ c \in Flaky
              /\ Answer(fd, h, 503)
              /\ UNCHANGED <<peer, peerUnsent, inherited>>
        /\ UNCHANGED leaked

\* Client::from(): a socket, a blocking connect(), and when that fails the
\* socket stays open though nobody knows it.
StartProxy(fd, h, c) ==
    LET up == Lowest(Free)
        next == [h EXCEPT !.at = "to_proxy", !.to = up, !.left = Units]
    IN  /\ \/ /\ Free # {}
              /\ peer' = [peer EXCEPT ![c] = "live"]
              /\ peerUnsent' = [peerUnsent EXCEPT ![c] = Units]
              /\ Leaves(fd, up :> next, endpoint @@ (up :> [kind |-> "upstream", c |-> c]))
              /\ UNCHANGED leaked
           \/ /\ Free # {} /\ c \in Flaky
              /\ leaked' = leaked \cup {up}
              /\ Leaves(fd, h.sock :> Responding(h, 502),
                        endpoint @@ (up :> [kind |-> "failed", c |-> c]))
              /\ UNCHANGED <<peer, peerUnsent>>
           \/ /\ Free = {}
              /\ Answer(fd, h, 502)
              /\ UNCHANGED <<leaked, peer, peerUnsent>>
        /\ UNCHANGED inherited

\* The parser is READY with a request, and the location decides: none (500), a
\* file that is there or not (200, 500), a CGI, an upstream, or nothing
\* configured (404).
Dispatch(fd, h, c) ==
    \/ /\ \E code \in {404, 500} \cup (IF Free # {} THEN {200} ELSE {}) :
              Answer(fd, h, code)
       /\ UNCHANGED <<leaked, peer, peerUnsent, inherited>>
    \/ StartCgi(fd, h, c)
    \/ StartProxy(fd, h, c)

\* The parser has an error, and the pipeline ends, or it threw.
Refuse(fd, h) ==
    /\ Ends(fd, h) \/ Aborts
    /\ UNCHANGED <<leaked, peer, peerUnsent, inherited>>

\* One read of the request: an error, end of file (an empty part: the parser
\* stays PENDING), or parts.  The parser is READY with the last part; one that
\* misreads may be READY or throw at any part, or wait for more than there is.
\* What is sent behind a misread part is never read, and left out.
ReadRequest(fd, ev) ==
    LET h == handlers[fd]
        c == endpoint[fd].c
    IN  /\ Takes(fd, ev)
        /\ h.at = "request"
        /\ \/ /\ client[c] = "reset"
              /\ Ends(fd, h)
              /\ UNCHANGED <<leaked, unsent, unread, peer, peerUnsent, inherited>>
           \/ /\ client[c] = "fin" /\ unread[c] = 0
              /\ More(fd, h, 0)
              /\ UNCHANGED <<leaked, unsent, unread, peer, peerUnsent, inherited>>
           \/ \E n \in 1..unread[c] :
              \/ /\ n < h.left \/ c \in Misread
                 /\ More(fd, h, n)
                 /\ unread' = [unread EXCEPT ![c] = @ - n]
                 /\ UNCHANGED <<leaked, unsent, peer, peerUnsent, inherited>>
              \/ /\ \/ /\ n >= h.left \/ c \in Misread
                       /\ Dispatch(fd, [h EXCEPT !.request = c], c)
                    \/ c \in Misread /\ Refuse(fd, h)
                 /\ unread' = [unread EXCEPT ![c] = 0]
                 /\ unsent' = [unsent EXCEPT ![c] = IF c \in Misread THEN 0 ELSE @]
        /\ UNCHANGED <<client, reply, peerUnread>>

\* One write of the request to a CGI or an upstream.  When the peer is gone the
\* write raises SIGPIPE, unless the body is empty; a full pipe that nobody reads
\* is reported as an error, and a socket takes data before it fails.  After the
\* last one the answer is read, and the pipe to the CGI is closed.
WritePeer(fd, ev) ==
    LET h == handlers[fd]
        c == endpoint[fd].c
        failure == IF h.at = "to_cgi" THEN 503 ELSE 502
        next == IF h.at = "to_cgi"
                THEN [h EXCEPT !.at = "from_cgi", !.to = NoFd, !.left = Units]
                ELSE [h EXCEPT !.at = "from_proxy", !.to = NoFd, !.from = h.to, !.left = Units]
    IN  /\ Takes(fd, ev)
        /\ h.at \in {"to_cgi", "to_proxy"}
        /\ \/ /\ peer[c] = "live" \/ h.at = "to_proxy" \/ h.left = 1
              /\ IF h.left > 1
                 THEN More(fd, h, 1)
                 ELSE Leaves(fd, next.from :> next,
                             Without(endpoint, Captured(h) \ Captured(next)))
           \/ /\ peer[c] = "live" /\ c \in Flaky
              /\ More(fd, h, 0)
           \/ /\ peer[c] = "gone"
              /\ Killed \/ Answer(fd, h, failure)
        /\ UNCHANGED <<leaked, clients, peers>>

\* One read of the answer.  An upstream at end of file leaves the parser
\* PENDING for ever; a CGI that hung up is an error.  The parser is READY as for
\* a request.
ReadPeer(fd, ev) ==
    LET h == handlers[fd]
        c == endpoint[fd].c
        failure == IF h.at = "from_cgi" THEN 503 ELSE 502
    IN  /\ Takes(fd, ev)
        /\ h.at \in {"from_cgi", "from_proxy"}
        /\ \/ /\ ev = "CLOSED" \/ (peer[c] = "gone" /\ c \in Flaky)
              /\ Answer(fd, h, failure)
              /\ peerUnread' = [peerUnread EXCEPT ![c] = 0]
           \/ /\ ev = "TO_READ" /\ peer[c] = "gone" /\ peerUnread[c] = 0
              /\ More(fd, h, 0)
              /\ UNCHANGED peerUnread
           \/ /\ ev = "TO_READ"
              /\ \E n \in 1..peerUnread[c] :
                 \/ /\ n < h.left \/ c \in Misread
                    /\ More(fd, h, n)
                    /\ peerUnread' = [peerUnread EXCEPT ![c] = @ - n]
                 \/ /\ \/ (n >= h.left \/ c \in Misread) /\ Answer(fd, h, 200)
                       \/ c \in Misread /\ (Answer(fd, h, failure) \/ Aborts)
                    /\ peerUnread' = [peerUnread EXCEPT ![c] = 0]
        /\ UNCHANGED <<leaked, clients, peer, peerUnsent, inherited>>

\* One write of the response; after the last one the connection is closed.
WriteResponse(fd, ev) ==
    LET h == handlers[fd]
        c == endpoint[fd].c
        Wrote == IF h.left > 1 THEN More(fd, h, 1) ELSE Ends(fd, h)
    IN  /\ Takes(fd, ev)
        /\ h.at = "response"
        /\ \/ /\ client[c] = "open"
              /\ reply' = [reply EXCEPT ![c] = Append(@, <<h.status, h.request>>)]
              /\ Wrote
              /\ UNCHANGED client
           \/ /\ client[c] = "open" /\ c \in Rude
              /\ More(fd, h, 0)
              /\ UNCHANGED <<client, reply>>
           \/ /\ client[c] = "fin"
              /\ client' = [client EXCEPT ![c] = "reset"]
              /\ Wrote
              /\ UNCHANGED reply
           \/ /\ client[c] = "reset"
              /\ Killed \/ Ends(fd, h)
              /\ UNCHANGED <<client, reply>>
        /\ UNCHANGED <<leaked, unsent, unread, peers>>
-----------------------------------------------------------------------------
(* The environment.                                                         *)

server == <<lpc, batch, interest, handlers, endpoint, leaked, limit>>

\* What clients and peers do once nobody is there to see it is left out.
Attended(c) == Running /\ Continuation(c) # {}
Awaited(c, stages) == Running /\ \E h \in Continuation(c) : h.at \in stages
Asking == {"to_cgi", "to_proxy"}
Answering == {"from_cgi", "from_proxy"}

Connect(c) ==
    /\ Running
    /\ client[c] = "new"
    /\ client' = [client EXCEPT ![c] = "backlog"]
    /\ UNCHANGED <<server, unsent, unread, reply, peers>>

SendPart(c) ==
    /\ Awaited(c, {"request"})
    /\ client[c] = "open" /\ unsent[c] > 0
    /\ unsent' = [unsent EXCEPT ![c] = @ - 1]
    /\ unread' = [unread EXCEPT ![c] = @ + 1]
    /\ UNCHANGED <<server, client, reply, peers>>

\* A client that closes its socket, or is cut off.
HangUp(c) ==
    /\ c \in Rude /\ Attended(c)
    /\ \/ client[c] = "open" /\ client' = [client EXCEPT ![c] = "fin"]
       \/ client[c] \in {"open", "fin"} /\ client' = [client EXCEPT ![c] = "reset"]
    /\ UNCHANGED <<server, unsent, unread, reply, peers>>

\* A CGI or upstream reads the request before it answers, unless it is flaky.
PeerSend(c) ==
    /\ Awaited(c, Asking \cup Answering)
    /\ c \in Flaky \/ ~ Awaited(c, Asking)
    /\ peer[c] = "live" /\ peerUnsent[c] > 0
    /\ peerUnsent' = [peerUnsent EXCEPT ![c] = @ - 1]
    /\ peerUnread' = [peerUnread EXCEPT ![c] = @ + 1]
    /\ UNCHANGED <<server, clients, peer, inherited>>

\* A child ends, and with it what it had open; or an upstream closes.  One that
\* is not flaky does when its answer is sent, or nobody wants it.
PeerLeave(c) ==
    /\ Running
    /\ peer[c] = "live"
    /\ \/ peerUnsent[c] = 0 \/ c \in Flaky
       \/ ~ Awaited(c, Asking \cup Answering)
    /\ peer' = [peer EXCEPT ![c] = "gone"]
    /\ inherited' = [inherited EXCEPT ![c] = {}]
    /\ peerUnsent' = [peerUnsent EXCEPT ![c] = 0]
    /\ UNCHANGED <<server, clients, peerUnread>>

-----------------------------------------------------------------------------

\* async_main() has created the acceptor and started its pipeline.
Init ==
    /\ limit \in Limits
    /\ lpc = "block"
    /\ batch = {}
    /\ interest = {Acceptor}
    /\ handlers = Acceptor :> Accepting
    /\ endpoint = Acceptor :> [kind |-> "acceptor", c |-> NoClient]
    /\ leaked = {}
    /\ client = [c \in Clients |-> "new"]
    /\ unsent = [c \in Clients |-> Units]
    /\ unread = [c \in Clients |-> 0]
    /\ reply = [c \in Clients |-> <<>>]
    /\ peer = [c \in Clients |-> "none"]
    /\ peerUnsent = [c \in Clients |-> 0]
    /\ peerUnread = [c \in Clients |-> 0]
    /\ inherited = [c \in Clients |-> {}]

Events == {"TO_READ", "TO_WRITE", "CLOSED"}

Serve(fd, ev) ==
    \/ Accept(fd, ev) \/ ReadRequest(fd, ev) \/ WritePeer(fd, ev)
    \/ ReadPeer(fd, ev) \/ WriteResponse(fd, ev)

LoopStep ==
    Block \/ EndBatch \/ \E fd \in Fds, ev \in Events : Serve(fd, ev)

Next ==
    \/ Block \/ EndBatch
    \/ \E fd \in Fds, ev \in Events :
          \/ Accept(fd, ev) \/ ReadRequest(fd, ev) \/ WritePeer(fd, ev)
          \/ ReadPeer(fd, ev) \/ WriteResponse(fd, ev)
    \/ \E c \in Clients :
          Connect(c) \/ SendPart(c) \/ HangUp(c) \/ PeerSend(c) \/ PeerLeave(c)

\* The process runs.  Clients that are not rude send their whole request.  Peers
\* that are not flaky send their whole answer and then leave; but a script may
\* read its request to the end of file, which comes when nobody has the pipe to
\* it any more.
Fairness ==
    /\ WF_vars(LoopStep)
    /\ \A c \in Clients \ Rude : WF_vars(SendPart(c))
    /\ \A c \in Clients \ Flaky :
          /\ WF_vars(PeerSend(c) /\ ~ SomeChildHas("cgi", c))
          /\ WF_vars(PeerLeave(c) /\ peerUnsent[c] = 0)

Spec == Init /\ [][Next]_vars /\ Fairness

-----------------------------------------------------------------------------

TypeOK ==
    /\ lpc \in {"block", "serve", "threw", "aborted", "killed"}
    /\ batch \subseteq Fds \X Events
    /\ interest \subseteq Fds
    /\ DOMAIN handlers \subseteq Fds
    /\ \A fd \in DOMAIN handlers : handlers[fd] \in Continuations
    /\ DOMAIN endpoint \subseteq Fds
    /\ \A fd \in DOMAIN endpoint :
          endpoint[fd] \in [kind : {"acceptor", "client", "cgi", "upstream", "failed"},
                            c : Clients \cup {NoClient}]
    /\ leaked \subseteq Fds
    /\ client \in [Clients -> {"new", "backlog", "open", "fin", "reset"}]
    /\ unsent \in [Clients -> 0..Units] /\ unread \in [Clients -> 0..Units]
    /\ \A c \in Clients : reply[c] \in Seq(Status \X Clients)
    /\ peer \in [Clients -> {"none", "live", "gone"}]
    /\ peerUnsent \in [Clients -> 0..Units] /\ peerUnread \in [Clients -> 0..Units]
    /\ inherited \in [Clients -> SUBSET [kind : {"client", "cgi"}, c : Clients]]

\* Three descriptors for a client and its peer, the acceptor, and the two ends
\* of a child that the server closes.
Enough == 3 * Cardinality(Clients) + 3

\* The acceptor waits for the next connection whatever became of this one, with
\* descriptors or without.  Every open descriptor has one owner: the acceptor, one
\* continuation, or nobody if its connect() failed.  The pipelines leak nothing
\* else, and each waits for one of its own, which is registered: a reused number
\* cannot get the event of its predecessor.
DescriptorsAccounted ==
    Running =>
        LET owns(fd) == IF fd = Acceptor THEN {Acceptor} ELSE Captured(handlers[fd])
        IN  /\ Acceptor \in interest
            /\ interest = DOMAIN handlers
            /\ \A fd \in interest : fd \in owns(fd) /\ owns(fd) \cap leaked = {}
            /\ \A f, g \in interest : f # g => owns(f) \cap owns(g) = {}
            /\ DOMAIN endpoint = leaked \cup UNION {owns(fd) : fd \in interest}

\* A client that sent a request and waits is never forgotten: until its
\* response is complete exactly one continuation serves it, unless its request
\* may be misread.
PatientNotDropped ==
    Running => \A c \in Clients \ (Rude \cup Misread) :
        client[c] = "open" /\ Len(reply[c]) < Units => Cardinality(Continuation(c)) = 1

\* A script that waits for the end of its request waits for the children that
\* inherited the pipe, those for the children that inherited theirs, and so on
\* to one that is flaky, or misread and then forgotten, which may stay for ever.
HeldUp(c) ==
    \A S \in SUBSET Clients :
        c \in S /\ (\A x \in S, d \in Clients : [kind |-> "cgi", c |-> x] \in inherited[d] => d \in S)
            => S \cap (Flaky \cup Misread) # {}

\* With well-behaved peers and descriptors enough, a patient client is answered
\* in full, whatever the others do, unless they end the process or hold its
\* script up for good, or its messages may be misread.
PatientAnswered ==
    \A c \in Clients \ (Rude \cup Flaky \cup Misread) :
        client[c] = "backlog" /\ limit >= Enough
            ~> Len(reply[c]) = Units \/ ~ Running \/ []HeldUp(c)

\* The process ends only while it serves a client or peer that misbehaves, by
\* SIGPIPE, or one whose message it misreads, for want of a Content-Length or by
\* a line that begins with its "\n".  The loop never throws: every event it got
\* has its registration and its handler, and no handler registers a descriptor
\* that is registered.
DownForACause ==
    [][Running /\ ~ Running' =>
          /\ lpc' # "threw"
          /\ \E e \in batch \ batch' : endpoint[e[1]].c \in Rude \cup Flaky \cup Misread]_vars
-----------------------------------------------------------------------------
(* What clients see of the server.                                          *)

\* Its whole request is sent, or what may be taken for it.
Asked == [c \in Clients |-> IF c \in Misread THEN unsent[c] < Units ELSE unsent[c] = 0]

Presence == [c \in Clients |-> IF client[c] \in {"fin", "reset"} THEN "gone" ELSE client[c]]

\* A connection that was accepted is open as long as the server has its socket,
\* and kept from its end as long as a child has.
Connection ==
    [c \in Clients |->
        IF client[c] \in {"new", "backlog"} THEN "none"
        ELSE IF Running /\ \E fd \in DOMAIN endpoint : endpoint[fd] = [kind |-> "client", c |-> c]
        THEN "open"
        ELSE IF SomeChildHas("client", c) THEN "kept" ELSE "closed"]

Service == INSTANCE HttpService WITH
    client <- Presence, asked <- Asked, connection <- Connection, running <- Running

\* Refinement: with its descriptors, events and continuations the server does
\* what HttpService promises: no response before the whole request, one misread
\* apart, nothing to a client but its own response, the connection given up with
\* its last part and not before, and an end of the process that has a cause.
ImplementsService == Service!Spec
=============================================================================
