---------------------------- MODULE HttpService ----------------------------
(***************************************************************************)
(* What webserv promises those who connect to it, whatever descriptors,    *)
(* events, continuations and peers it takes:                               *)
(*                                                                         *)
(*  - a connection is accepted once, and a response begins only when the   *)
(*    whole request has been sent, or part of one that is misread;         *)
(*  - a client is sent one response, its own, part by part;                *)
(*  - the server gives a connection up with the last part; before it, only *)
(*    a client that hung up, or one whose request is misread and not       *)
(*    before a part of it, loses its connection.  The client may not see   *)
(*    that for a while: CGI children keep connections that were open when  *)
(*    they were forked from their end;                                     *)
(*  - the process ends only when it has the request of a client that       *)
(*    misbehaves, whose peer does, or whose request or answer is misread,  *)
(*    and has not given the connection up.                                 *)
(***************************************************************************)
EXTENDS Naturals, Sequences

CONSTANTS
    Clients,
    Rude,     \* those that may hang up or be slow
    Flaky,    \* those whose CGI or upstream may fail
    Misread,  \* those whose request, or the answer to it, may be misread
    Units,    \* parts of a response
    Status    \* of a response

VARIABLES
    client,      \* per client: "new", "backlog", "open" or "gone"
    asked,       \* per client: its request is sent, or what may be taken for it
    connection,  \* per client: "none", "open", given up but "kept", or "closed"
    reply,       \* per client: the parts of a response it was sent
    running      \* the process has not ended

vars == <<client, asked, connection, reply, running>>

\* The server closes its socket; a child may have it open.
GivenUp(c) == \E s \in {"kept", "closed"} : connection' = [connection EXCEPT ![c] = s]

Init ==
    /\ client = [c \in Clients |-> "new"]
    /\ asked = [c \in Clients |-> FALSE]
    /\ connection = [c \in Clients |-> "none"]
    /\ reply = [c \in Clients |-> <<>>]
    /\ running = TRUE

Connect(c) ==
    /\ client[c] = "new"
    /\ client' = [client EXCEPT ![c] = "backlog"]
    /\ UNCHANGED <<asked, connection, reply, running>>

Ask(c) ==
    /\ client[c] = "open"
    /\ asked' = [asked EXCEPT ![c] = TRUE]
    /\ UNCHANGED <<client, connection, reply, running>>

HangUp(c) ==
    /\ c \in Rude
    /\ client[c] = "open"
    /\ client' = [client EXCEPT ![c] = "gone"]
    /\ UNCHANGED <<asked, connection, reply, running>>

Accept(c) ==
    /\ running
    /\ client[c] = "backlog"
    /\ client' = [client EXCEPT ![c] = "open"]
    /\ connection' = [connection EXCEPT ![c] = "open"]
    /\ UNCHANGED <<asked, reply, running>>

\* The next part of the response; with the last one the server gives the
\* connection up.
Deliver(c) ==
    /\ running
    /\ client[c] = "open" /\ asked[c] /\ connection[c] = "open"
    /\ \E status \in Status :
          /\ \A i \in 1..Len(reply[c]) : reply[c][i] = <<status, c>>
          /\ reply' = [reply EXCEPT ![c] = Append(@, <<status, c>>)]
    /\ IF Len(reply'[c]) = Units THEN GivenUp(c) ELSE UNCHANGED connection
    /\ UNCHANGED <<client, asked, running>>

Drop(c) ==
    /\ running
    /\ client[c] = "gone" \/ (c \in Misread /\ asked[c] /\ reply[c] = <<>>)
    /\ connection[c] = "open"
    /\ GivenUp(c)
    /\ UNCHANGED <<client, asked, reply, running>>

\* With the process all its sockets are closed.
GoDown(c) ==
    /\ running
    /\ c \in Rude \cup Flaky \cup Misread
    /\ asked[c] /\ connection[c] = "open"
    /\ running' = FALSE
    /\ \E kept \in SUBSET Clients :
          connection' = [d \in Clients |-> IF connection[d] # "open" THEN connection[d]
                                          ELSE IF d \in kept THEN "kept" ELSE "closed"]
    /\ UNCHANGED <<client, asked, reply>>

\* A CGI child leaves, and ends the connections that nobody else has.
Release ==
    /\ \E ended \in SUBSET {c \in Clients : connection[c] = "kept"} :
          connection' = [c \in Clients |-> IF c \in ended THEN "closed" ELSE connection[c]]
    /\ UNCHANGED <<client, asked, reply, running>>

Next ==
    \/ \E c \in Clients :
          \/ Connect(c) \/ Ask(c) \/ HangUp(c) \/ Accept(c)
          \/ Deliver(c) \/ Drop(c) \/ GoDown(c)
    \/ Release

Spec == Init /\ [][Next]_vars

\* A client receives the parts of one response, and that to its own request,
\* whichever others are answered meanwhile: what the service comes to for it.
OwnResponseOnly ==
    \A c \in Clients :
        /\ Len(reply[c]) <= Units
        /\ \A i \in 1..Len(reply[c]) : reply[c][i][2] = c /\ reply[c][i] = reply[c][1]
=============================================================================
