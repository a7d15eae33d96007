------------------------------ MODULE CgiPipes ------------------------------
(***************************************************************************)
(* The CGI children of webserv and the two pipes to each.  cgi::object     *)
(* ::from() makes the pipes and forks; the child inherits every descriptor *)
(* the server has open, those of other requests too, and closes only its   *)
(* own request's server ends.  The server writes the whole request, and    *)
(* reads the answer after that; the end it wrote to is closed in between.  *)
(*                                                                         *)
(* Both ends of a pipe are O_NONBLOCK, for the child as well: a script     *)
(* that is not patient takes EAGAIN for the end of its work.               *)
(*                                                                         *)
(* The event loop is level-triggered, and what it reports of a pipe stays  *)
(* true until the handler runs or becomes the failure of the handler's     *)
(* call; the report and the handler are one step here.  The response to    *)
(* the client is written and the connection closed in the step that has    *)
(* the answer: WebServer has the steps of that, and the descriptors that   *)
(* run out.                                                                *)
(***************************************************************************)
EXTENDS Integers, Sequences, FiniteSets

CONSTANTS
    Requests,   \* each on a connection of its own, for a child of its own
    Server,     \* the server process
    Cap,        \* what a pipe holds
    Headers,    \* length of the line and the headers
    Bodies,     \* bound: the lengths of bodies
    Reply       \* length of an answer that is no copy of the request

ASSUME PipesAssumption ==
    /\ IsFiniteSet(Requests)
    /\ Server \notin Requests
    /\ Cap \in Nat \ {0} /\ Headers \in Nat \ {0} /\ Reply \in Nat \ {0}
    /\ Bodies \subseteq Nat

\* What a script does with its standard input before it answers: it is missing
\* and does not answer, reads nothing (cgi1.py), reads as much as the headers
\* say, reads to the end, or answers each part as it reads it.
Habits == {"missing", "nothing", "length", "end", "copy"}
Scripts == {s \in [reads : Habits, patient : BOOLEAN] :
               s.reads = "missing" => s.patient}

\* The ends of a request's pipes, and its connection.  The server keeps "to"
\* and "from"; "in" and "out" become the child's standard input and output.
Ends == Requests \X {"to", "from", "in", "out", "sock"}

VARIABLES
    script,    \* the script each request is for
    body,      \* length of each request's body
    stage,     \* the pipeline: "new", "headers", "body", "answer" or "done"
    pos,       \* from_pos of write_all()
    status,    \* of the response, 0 before
    forked,    \* the requests in the order of their fork()
    child,     \* "none", "reading", "writing", "ending" or "exited"
    holds,     \* the ends each process has open
    stdin,     \* the pipe to the child: positions in the request
    taken,     \* what the child has read
    wrote,     \* how much the child has written
    received,  \* how much of that the server has read
    killed     \* SIGPIPE has ended the server

vars == <<script, body, stage, pos, status, forked, child, holds, stdin, taken,
          wrote, received, killed>>

Whole(p) == Headers + body[p]
Want(p) == IF script[p].reads = "copy" THEN Whole(p) ELSE Reply
Open(p, e) == \E x \in Requests \cup {Server} : <<p, e>> \in holds[x]
InStdout(p) == wrote[p] - received[p]

-----------------------------------------------------------------------------

\* The connections are open; no request has been dispatched.
Init ==
    /\ script \in [Requests -> Scripts]
    /\ body \in [Requests -> Bodies]
    /\ stage = [p \in Requests |-> "new"]
    /\ pos = [p \in Requests |-> 0]
    /\ status = [p \in Requests |-> 0]
    /\ forked = <<>>
    /\ child = [p \in Requests |-> "none"]
    /\ holds = [x \in Requests \cup {Server} |->
                   IF x = Server THEN Requests \X {"sock"} ELSE {}]
    /\ stdin = [p \in Requests |-> <<>>]
    /\ taken = [p \in Requests |-> <<>>]
    /\ wrote = [p \in Requests |-> 0]
    /\ received = [p \in Requests |-> 0]
    /\ killed = FALSE

\* The pipeline of p has its response: what it captured is closed.
Answered(p, code) ==
    /\ stage' = [stage EXCEPT ![p] = "done"]
    /\ status' = [status EXCEPT ![p] = code]
    /\ holds' = [holds EXCEPT ![Server] = {e \in @ : e[1] # p}]

\* The parent has no destructors that close the ends of the child.
ForkKeeping(p) ==
    /\ holds' = [holds EXCEPT
                    ![Server] = @ \cup ({p} \X {"to", "from", "in", "out"}),
                    ![p] = holds[Server] \cup ({p} \X {"in", "out"})]
    /\ forked' = Append(forked, p)

\* fork(), after which each process closes the other's ends of p's pipes.
Fork(p) ==
    /\ holds' = [holds EXCEPT ![Server] = @ \cup ({p} \X {"to", "from"}),
                              ![p] = holds[Server] \cup ({p} \X {"in", "out"})]
    /\ forked' = Append(forked, p)

\* object::from() and the first continuation of send_request(); a pipe or a
\* fork that fails leaves nothing open and is answered 503.
SendRequest(p) ==
    /\ ~killed
    /\ stage[p] = "new"
    /\ \/ /\ Fork(p)
          /\ child' = [child EXCEPT ![p] =
                          CASE script[p].reads = "missing" -> "ending"
                            [] script[p].reads = "nothing" -> "writing"
                            [] OTHER -> "reading"]
          /\ stage' = [stage EXCEPT ![p] = "headers"]
          /\ UNCHANGED status
       \/ /\ Answered(p, 503)
          /\ UNCHANGED <<child, forked>>
    /\ UNCHANGED <<script, body, pos, stdin, taken, wrote, received, killed>>

\* The data of write_all(): the headers, then the body.
Size(p)   == IF stage[p] = "headers" THEN Headers ELSE body[p]
Offset(p) == IF stage[p] = "headers" THEN 0 ELSE Headers

\* The body is forgotten: the serializer is READY after the headers.
AdvanceHeadersOnly(p, n) ==
    IF pos[p] + n # Size(p)
    THEN /\ pos' = [pos EXCEPT ![p] = @ + n]
         /\ UNCHANGED <<stage, holds>>
    ELSE /\ pos' = [pos EXCEPT ![p] = 0]
         /\ stage' = [stage EXCEPT ![p] = "answer"]
         /\ holds' = [holds EXCEPT ![Server] = @ \ {<<p, "to">>}]

\* The next part is taken from where this one began, not from where it ended.
AdvanceFromPart(p, n) ==
    IF pos[p] + n # Size(p)
    THEN /\ pos' = [pos EXCEPT ![p] = n]
         /\ UNCHANGED <<stage, holds>>
    ELSE /\ pos' = [pos EXCEPT ![p] = 0]
         /\ IF stage[p] = "headers"
            THEN stage' = [stage EXCEPT ![p] = "body"] /\ UNCHANGED holds
            ELSE /\ stage' = [stage EXCEPT ![p] = "answer"]
                 /\ holds' = [holds EXCEPT ![Server] = @ \ {<<p, "to">>}]

\* The object with both ends lives on in the continuation that maps the answer.
AdvanceHolding(p, n) ==
    /\ UNCHANGED holds
    /\ IF pos[p] + n # Size(p)
       THEN /\ pos' = [pos EXCEPT ![p] = @ + n]
            /\ UNCHANGED stage
       ELSE /\ pos' = [pos EXCEPT ![p] = 0]
            /\ stage' = [stage EXCEPT ![p] =
                            IF @ = "headers" THEN "body" ELSE "answer"]

\* n more positions are written: write_all() goes on with the rest of its data,
\* write_entity() with the body after the headers, and after the body the
\* answer is read; the object goes with its continuation, and closes "to".
Advance(p, n) ==
    IF pos[p] + n # Size(p)
    THEN /\ pos' = [pos EXCEPT ![p] = @ + n]
         /\ UNCHANGED <<stage, holds>>
    ELSE /\ pos' = [pos EXCEPT ![p] = 0]
         /\ IF stage[p] = "headers"
            THEN stage' = [stage EXCEPT ![p] = "body"] /\ UNCHANGED holds
            ELSE /\ stage' = [stage EXCEPT ![p] = "answer"]
                 /\ holds' = [holds EXCEPT ![Server] = @ \ {<<p, "to">>}]

\* One event of the pipe to the child, and one write of what fits.  A pipe that
\* nobody reads is an error when it is full; when it is not it is writable, and
\* the write raises SIGPIPE, unless there is nothing to write.
WritePart(p) ==
    LET space == Cap - Len(stdin[p])
        left == Size(p) - pos[p]
        n == IF space < left THEN space ELSE left
    IN  /\ ~killed
        /\ stage[p] \in {"headers", "body"}
        /\ \/ /\ space > 0
              /\ Open(p, "in") \/ left = 0
              /\ stdin' = [stdin EXCEPT ![p] =
                              @ \o [i \in 1..n |-> Offset(p) + pos[p] + i]]
              /\ Advance(p, n)
              /\ UNCHANGED <<status, killed>>
           \/ /\ space > 0
              /\ ~Open(p, "in") /\ left > 0
              /\ killed' = TRUE
              /\ holds' = [holds EXCEPT ![Server] = {}]
              /\ UNCHANGED <<stdin, pos, stage, status>>
           \/ /\ space = 0
              /\ ~Open(p, "in")
              /\ Answered(p, 503)
              /\ UNCHANGED <<stdin, pos, killed>>
        /\ UNCHANGED <<script, body, forked, child, taken, wrote, received>>

\* One event of the pipe from the child: all that is there is read, and the
\* parser is READY with the whole answer; or the child has hung up.
ReadPart(p) ==
    /\ ~killed
    /\ stage[p] = "answer"
    /\ \/ /\ InStdout(p) > 0
          /\ received' = [received EXCEPT ![p] = wrote[p]]
          /\ IF wrote[p] < Want(p)
             THEN UNCHANGED <<stage, status, holds>>
             ELSE Answered(p, 200)
       \/ /\ InStdout(p) = 0
          /\ ~Open(p, "out")
          /\ Answered(p, 503)
          /\ UNCHANGED received
    /\ UNCHANGED <<script, body, pos, forked, child, stdin, taken, wrote, killed>>

-----------------------------------------------------------------------------
(* The children: processes of the system, not code of the repository.       *)

Becomes(p, state) == child' = [child EXCEPT ![p] = state]

ChildReads(p) ==
    /\ child[p] = "reading"
    /\ \/ /\ stdin[p] # <<>>
          /\ taken' = [taken EXCEPT ![p] = Append(@, Head(stdin[p]))]
          /\ stdin' = [stdin EXCEPT ![p] = Tail(@)]
          /\ Becomes(p, IF \/ script[p].reads = "copy"
                           \/ script[p].reads = "length" /\ Len(taken'[p]) = Whole(p)
                        THEN "writing" ELSE "reading")
       \/ /\ stdin[p] = <<>>
          /\ \/ /\ ~Open(p, "to")
                /\ Becomes(p, IF script[p].reads = "end" THEN "writing" ELSE "ending")
             \/ /\ Open(p, "to") /\ ~script[p].patient
                /\ Becomes(p, "ending")
          /\ UNCHANGED <<stdin, taken>>
    /\ UNCHANGED <<script, body, stage, pos, status, forked, holds, wrote, received,
                   killed>>

ChildWrites(p) ==
    /\ child[p] = "writing"
    /\ \/ /\ Open(p, "from") /\ InStdout(p) < Cap
          /\ wrote' = [wrote EXCEPT ![p] = @ + 1]
          /\ Becomes(p, IF wrote'[p] = Want(p) THEN "ending"
                        ELSE IF script[p].reads = "copy" THEN "reading"
                        ELSE "writing")
       \/ /\ ~Open(p, "from") \/ (InStdout(p) = Cap /\ ~script[p].patient)
          /\ Becomes(p, "ending")
          /\ UNCHANGED wrote
    /\ UNCHANGED <<script, body, stage, pos, status, forked, holds, stdin, taken,
                   received, killed>>

ChildExits(p) ==
    /\ child[p] = "ending"
    /\ Becomes(p, "exited")
    /\ holds' = [holds EXCEPT ![p] = {}]
    /\ UNCHANGED <<script, body, stage, pos, status, forked, stdin, taken, wrote,
                   received, killed>>

-----------------------------------------------------------------------------

ServerStep(p) == WritePart(p) \/ ReadPart(p)
ChildStep(p) == ChildReads(p) \/ ChildWrites(p) \/ ChildExits(p)

Next ==
    \E p \in Requests :
        \/ SendRequest(p) \/ WritePart(p) \/ ReadPart(p)
        \/ ChildReads(p) \/ ChildWrites(p) \/ ChildExits(p)

\* The loop serves every pipe that is ready, and the system runs every child
\* that is not blocked.
Spec ==
    /\ Init
    /\ [][Next]_vars
    /\ \A p \in Requests : WF_vars(ServerStep(p)) /\ WF_vars(ChildStep(p))

-----------------------------------------------------------------------------

\* Safety: the child gets the request in order, no part lost or twice, however
\* the pipe cuts it, and whole once the server goes on to the answer.
RequestIntact ==
    \A p \in Requests :
        LET sent == taken[p] \o stdin[p] IN
        /\ sent = [i \in 1..Len(sent) |-> i]
        /\ stage[p] = "answer" => Len(sent) = Whole(p)

\* Safety: the server has open what its pipelines wait for and no end of a
\* child, so that a child that exits is seen to hang up; an end of the server's
\* is open besides only in children that were forked later, so that children
\* never wait for each other in a circle.
EndsAccounted ==
    /\ ~killed =>
          \A p \in Requests : {e[2] : e \in {f \in holds[Server] : f[1] = p}} =
              CASE stage[p] = "new" -> {"sock"}
                [] stage[p] \in {"headers", "body"} -> {"sock", "to", "from"}
                [] stage[p] = "answer" -> {"sock", "from"}
                [] stage[p] = "done" -> {}
    /\ \A p, q \in Requests :
          /\ <<p, "in">> \in holds[q] \/ <<p, "out">> \in holds[q] => p = q
          /\ <<p, "to">> \in holds[q] \/ <<p, "from">> \in holds[q] =>
                \E i, j \in 1..Len(forked) : i < j /\ forked[i] = p /\ forked[j] = q
          /\ child[q] \in {"none", "exited"} => holds[q] = {}

\* Safety: a script that reads its request, and waits when a pipe is empty or
\* full, does not fail: 503, and the end of the process, need a child that was
\* not forked or that left before it had read what it was sent.
FailureHasCause ==
    LET mayLeave(p) == ~script[p].patient \/ script[p].reads \in {"missing", "nothing"}
    IN  /\ killed => \E p \in Requests : child[p] = "exited" /\ mayLeave(p)
        /\ \A p \in Requests :
              /\ status[p] = 503 => child[p] = "none" \/ mayLeave(p)
              /\ status[p] = 200 /\ script[p].reads # "nothing" =>
                    Len(taken[p]) = Whole(p)

\* Both pipes are full: the child waits for the server to read its answer, the
\* server for the child to read the request.
Wedged(p) ==
    /\ stage[p] \in {"headers", "body"}
    /\ child[p] = "writing"
    /\ script[p].patient
    /\ Len(stdin[p]) = Cap
    /\ InStdout(p) = Cap

\* Liveness: a request is answered and its client sees the connection close,
\* unless the process is killed or a child that has the connection open, this one
\* or a later one, stands against the server with both pipes full.
CgiAnswered ==
    \A p \in Requests :
        stage[p] # "new" ~>
            \/ stage[p] = "done" /\ ~Open(p, "sock")
            \/ killed
            \/ \E q \in Requests : Wedged(q) /\ <<p, "sock">> \in holds[q]
=============================================================================
