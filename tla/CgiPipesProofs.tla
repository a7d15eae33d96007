--------------------------- MODULE CgiPipesProofs ---------------------------
(***************************************************************************)
(* Proofs about CgiPipes, for any number of requests, scripts and lengths  *)
(* and any capacity of the pipes.                                          *)
(***************************************************************************)
EXTENDS CgiPipes, TLAPS, SequenceTheorems

PipeTypes ==
    /\ script \in [Requests -> Scripts]
    /\ body \in [Requests -> Nat]
    /\ stage \in [Requests -> {"new", "headers", "body", "answer", "done"}]
    /\ pos \in [Requests -> Nat]
    /\ status \in [Requests -> {0, 200, 503}]
    /\ forked \in Seq(Requests)
    /\ child \in [Requests -> {"none", "reading", "writing", "ending", "exited"}]
    /\ holds \in [Requests \cup {Server} -> SUBSET Ends]
    /\ stdin \in [Requests -> Seq(Nat)]
    /\ taken \in [Requests -> Seq(Nat)]
    /\ wrote \in [Requests -> Nat]
    /\ received \in [Requests -> Nat]

\* What was read and what the pipe holds are one run of positions.
InOrder(t, s) ==
    /\ \A i \in 1..Len(t) : t[i] = i
    /\ \A i \in 1..Len(s) : s[i] = Len(t) + i

\* What went into the pipe so far, against the place where the pipeline is.
Passed(p) == Len(taken[p]) + Len(stdin[p])

FlowOf(p) ==
    /\ Len(stdin[p]) <= Cap
    /\ InOrder(taken[p], stdin[p])
    /\ stage[p] = "new" => Passed(p) = 0 /\ pos[p] = 0 /\ child[p] = "none"
    /\ stage[p] = "headers" => Passed(p) = pos[p] /\ pos[p] < Headers
    /\ stage[p] = "body" => Passed(p) = Headers + pos[p] /\ pos[p] <= body[p]
    /\ stage[p] = "answer" => Passed(p) = Whole(p) /\ pos[p] = 0
    /\ stage[p] = "done" => Passed(p) <= Whole(p)

PipeInv == PipeTypes /\ \A p \in Requests : FlowOf(p)

-----------------------------------------------------------------------------

\* The data of a write: as long as it says, and numbered without a gap.
LEMMA Numbered ==
    ASSUME NEW n \in Nat, NEW from \in Nat
    PROVE  /\ [i \in 1..n |-> from + i] \in Seq(Nat)
           /\ Len([i \in 1..n |-> from + i]) = n
           /\ \A i \in 1..n : [j \in 1..n |-> from + j][i] = from + i
  <1>1. [i \in 1..n |-> from + i] \in [1..n -> Nat]
    OBVIOUS
  <1>2. [i \in 1..n |-> from + i] \in Seq(Nat)
    BY <1>1, SeqDef
  <1>3. Len([i \in 1..n |-> from + i]) = n
    BY <1>2, LenProperties
  <1> QED
    BY <1>2, <1>3

\* The pipe and what was read from it, put together.
LEMMA Together ==
    ASSUME NEW t \in Seq(Nat), NEW s \in Seq(Nat), InOrder(t, s)
    PROVE  /\ Len(t \o s) = Len(t) + Len(s)
           /\ t \o s = [i \in 1..Len(t \o s) |-> i]
  <1> DEFINE sent == t \o s
  <1>1. Len(t) \in Nat /\ Len(s) \in Nat
    BY LenProperties
  <1>2. /\ sent \in Seq(Nat)
        /\ Len(sent) = Len(t) + Len(s)
        /\ \A i \in 1..(Len(t) + Len(s)) :
              sent[i] = IF i <= Len(t) THEN t[i] ELSE s[i - Len(t)]
    BY ConcatProperties
  <1> HIDE DEF sent
  <1>3. ASSUME NEW i \in 1..(Len(t) + Len(s)) PROVE sent[i] = i
    <2>1. CASE i <= Len(t)
      <3>1. i \in 1..Len(t) /\ sent[i] = t[i]
        BY <1>1, <1>2, <2>1
      <3> QED
        BY <3>1 DEF InOrder
    <2>2. CASE ~(i <= Len(t))
      <3>1. i - Len(t) \in 1..Len(s) /\ sent[i] = s[i - Len(t)]
        BY <1>1, <1>2, <2>2
      <3>2. s[i - Len(t)] = Len(t) + (i - Len(t))
        BY <3>1 DEF InOrder
      <3>3. Len(t) + (i - Len(t)) = i
        BY <1>1
      <3> QED
        BY <3>1, <3>2, <3>3
    <2> QED
      BY <2>1, <2>2
  <1>4. sent = [i \in 1..Len(sent) |-> sent[i]]
    BY <1>2, LenProperties
  <1> QED
    BY <1>2, <1>3, <1>4 DEF sent

\* A write puts the next n positions behind those in the pipe.
LEMMA WriteInOrder ==
    ASSUME NEW t \in Seq(Nat), NEW s \in Seq(Nat), InOrder(t, s),
           NEW n \in Nat, NEW from \in Nat, from = Len(t) + Len(s)
    PROVE  LET both == s \o [i \in 1..n |-> from + i] IN
           /\ both \in Seq(Nat)
           /\ Len(both) = Len(s) + n
           /\ InOrder(t, both)
  <1> DEFINE part == [i \in 1..n |-> from + i]
             both == s \o part
  <1>1. Len(t) \in Nat /\ Len(s) \in Nat
    BY LenProperties
  <1>2. /\ part \in Seq(Nat) /\ Len(part) = n
        /\ \A i \in 1..n : part[i] = from + i
    BY Numbered
  <1> HIDE DEF part
  <1>3. /\ both \in Seq(Nat)
        /\ Len(both) = Len(s) + n
        /\ \A i \in 1..(Len(s) + n) :
              both[i] = IF i <= Len(s) THEN s[i] ELSE part[i - Len(s)]
    BY <1>2, ConcatProperties
  <1> HIDE DEF both
  <1>4. ASSUME NEW i \in 1..(Len(s) + n) PROVE both[i] = Len(t) + i
    <2>1. CASE i <= Len(s)
      BY SMTT(30), <1>1, <1>3, <2>1 DEF InOrder
    <2>2. CASE ~(i <= Len(s))
      <3>1. i - Len(s) \in 1..n
        BY <1>1, <2>2
      <3> QED
        BY <1>1, <1>2, <1>3, <2>2, <3>1
    <2> QED
      BY <2>1, <2>2
  <1> QED
    BY <1>3, <1>4 DEF InOrder, both, part

\* A read takes the oldest position of the pipe.
LEMMA ReadInOrder ==
    ASSUME NEW t \in Seq(Nat), NEW s \in Seq(Nat), InOrder(t, s), s # <<>>
    PROVE  /\ Append(t, Head(s)) \in Seq(Nat) /\ Tail(s) \in Seq(Nat)
           /\ Len(Append(t, Head(s))) = Len(t) + 1
           /\ Len(Tail(s)) = Len(s) - 1
           /\ InOrder(Append(t, Head(s)), Tail(s))
  <1>1. Len(t) \in Nat /\ Len(s) \in Nat \ {0} /\ Head(s) = s[1]
    BY LenProperties, EmptySeq
  <1>2. /\ Head(s) \in Nat /\ Tail(s) \in Seq(Nat)
        /\ Len(Tail(s)) = Len(s) - 1
        /\ \A i \in 1..Len(Tail(s)) : Tail(s)[i] = s[i + 1]
    BY HeadTailProperties
  <1>3. /\ Append(t, Head(s)) \in Seq(Nat)
        /\ Len(Append(t, Head(s))) = Len(t) + 1
        /\ \A i \in 1..Len(t) : Append(t, Head(s))[i] = t[i]
        /\ Append(t, Head(s))[Len(t) + 1] = Head(s)
    BY <1>2, AppendProperties
  <1>4. ASSUME NEW i \in 1..(Len(t) + 1) PROVE Append(t, Head(s))[i] = i
    <2>1. CASE i = Len(t) + 1
      <3>1. 1 \in 1..Len(s)
        BY <1>1
      <3>2. s[1] = Len(t) + 1
        BY <3>1 DEF InOrder
      <3> QED
        BY <1>1, <1>3, <2>1, <3>2
    <2>2. CASE i # Len(t) + 1
      <3>1. i \in 1..Len(t)
        BY <1>1, <2>2
      <3> QED
        BY <1>3, <3>1 DEF InOrder
    <2> QED
      BY <2>1, <2>2
  <1>5. ASSUME NEW i \in 1..(Len(s) - 1) PROVE Tail(s)[i] = (Len(t) + 1) + i
    <2>1. i + 1 \in 1..Len(s) /\ Tail(s)[i] = s[i + 1]
      BY <1>1, <1>2
    <2>2. s[i + 1] = Len(t) + (i + 1)
      BY <2>1 DEF InOrder
    <2> QED
      BY <1>1, <2>1, <2>2
  <1> QED
    BY <1>2, <1>3, <1>4, <1>5 DEF InOrder

\* The facts about the data of one request that the arithmetic steps need.
LEMMA DataOf ==
    ASSUME PipeInv, NEW p \in Requests
    PROVE  /\ FlowOf(p)
           /\ stdin \in [Requests -> Seq(Nat)] /\ taken \in [Requests -> Seq(Nat)]
           /\ body \in [Requests -> Nat] /\ pos \in [Requests -> Nat]
           /\ stdin[p] \in Seq(Nat) /\ taken[p] \in Seq(Nat)
           /\ Len(stdin[p]) \in Nat /\ Len(taken[p]) \in Nat
           /\ body[p] \in Nat /\ pos[p] \in Nat
           /\ Headers \in Nat \ {0} /\ Cap \in Nat \ {0}
  <1>1. /\ FlowOf(p)
        /\ stdin \in [Requests -> Seq(Nat)] /\ taken \in [Requests -> Seq(Nat)]
        /\ body \in [Requests -> Nat] /\ pos \in [Requests -> Nat]
        /\ stdin[p] \in Seq(Nat) /\ taken[p] \in Seq(Nat)
        /\ body[p] \in Nat /\ pos[p] \in Nat
        /\ Headers \in Nat \ {0} /\ Cap \in Nat \ {0}
    BY PipesAssumption DEF PipeInv, PipeTypes
  <1> QED
    BY <1>1, LenProperties

\* Nothing is in a pipe before the first request.
LEMMA InitPipes == Init => PipeInv
  <1> SUFFICES ASSUME Init PROVE PipeInv
    OBVIOUS
  <1>1. holds \in [Requests \cup {Server} -> SUBSET Ends]
    BY DEF Init, Ends
  <1>2. \A S : <<>> \in Seq(S) /\ Len(<<>>) = 0
    BY EmptySeq
  <1>3. PipeTypes
    BY <1>1, <1>2, PipesAssumption DEF Init, PipeTypes
  <1>4. \A p \in Requests : FlowOf(p)
    BY <1>2, PipesAssumption DEF Init, FlowOf, Passed, InOrder
  <1> QED
    BY <1>3, <1>4 DEF PipeInv

\* A pipeline that has its response leaves the data where it is.
LEMMA AnsweredPipes ==
    ASSUME PipeInv, NEW p \in Requests, NEW code \in {200, 503}, Answered(p, code),
           stage[p] # "done"
    PROVE  /\ stage' \in [Requests -> {"new", "headers", "body", "answer", "done"}]
           /\ status' \in [Requests -> {0, 200, 503}]
           /\ holds' \in [Requests \cup {Server} -> SUBSET Ends]
           /\ Passed(p) <= Whole(p)
  <1>1. /\ stage' \in [Requests -> {"new", "headers", "body", "answer", "done"}]
        /\ status' \in [Requests -> {0, 200, 503}]
    BY DEF PipeInv, PipeTypes, Answered
  <1>2. holds' \in [Requests \cup {Server} -> SUBSET Ends]
    BY DEF PipeInv, PipeTypes, Answered
  <1>3. Passed(p) <= Whole(p)
    <2>1. FlowOf(p) /\ stage[p] \in {"new", "headers", "body", "answer"}
      BY DEF PipeInv, PipeTypes
    <2>2. body[p] \in Nat /\ pos[p] \in Nat
      BY DEF PipeInv, PipeTypes
    <2> QED
      BY <2>1, <2>2, PipesAssumption DEF FlowOf, Whole
  <1> QED
    BY <1>1, <1>2, <1>3

\* A step that does not touch q's data, stage and position keeps its flow.
LEMMA FlowElsewhere ==
    ASSUME NEW q \in Requests, FlowOf(q), body' = body,
           stage'[q] = stage[q], pos'[q] = pos[q], child'[q] = child[q],
           stdin'[q] = stdin[q], taken'[q] = taken[q]
    PROVE  FlowOf(q)'
  BY DEF FlowOf, Passed, Whole

\* And what is there stays in order.
LEMMA AnsweredFlow ==
    ASSUME PipeInv, NEW p \in Requests, NEW code \in {200, 503}, Answered(p, code),
           stage[p] # "done", UNCHANGED <<body, pos, child, stdin, taken>>,
           NEW q \in Requests
    PROVE  FlowOf(q)'
  <1>1. CASE q = p
    <2>1. stage'[q] = "done" /\ Passed(q)' <= Whole(q)'
      <3>1. stage'[q] = "done"
        BY <1>1 DEF Answered, PipeInv, PipeTypes
      <3>2. Passed(p) <= Whole(p)
        BY AnsweredPipes
      <3>3. Passed(q)' = Passed(q) /\ Whole(q)' = Whole(q)
        BY DEF Passed, Whole
      <3> QED
        BY <1>1, <3>1, <3>2, <3>3
    <2>2. FlowOf(q)
      BY DEF PipeInv
    <2> QED
      BY <2>1, <2>2 DEF FlowOf
  <1>2. CASE q # p
    BY <1>2, FlowElsewhere DEF PipeInv, PipeTypes, Answered
  <1> QED
    BY <1>1, <1>2

\* The pipeline that starts, or is answered at once, keeps the flow.
LEMMA SendKeepsPipes ==
    ASSUME PipeInv, NEW p \in Requests, SendRequest(p)
    PROVE  PipeInv'
  <1> USE DEF PipeInv
  <1>0. /\ stage[p] = "new"
        /\ UNCHANGED <<script, body, pos, stdin, taken, wrote, received>>
    BY DEF SendRequest
  <1>1. CASE /\ Fork(p)
             /\ child' = [child EXCEPT ![p] =
                             CASE script[p].reads = "missing" -> "ending"
                               [] script[p].reads = "nothing" -> "writing"
                               [] OTHER -> "reading"]
             /\ stage' = [stage EXCEPT ![p] = "headers"]
             /\ UNCHANGED status
    <2>1. holds' \in [Requests \cup {Server} -> SUBSET Ends]
      <3>1. {p} \X {"to", "from"} \subseteq Ends /\ {p} \X {"in", "out"} \subseteq Ends
        BY DEF Ends
      <3>2. holds[Server] \subseteq Ends
        BY DEF PipeTypes
      <3> QED
        BY <1>1, <3>1, <3>2 DEF Fork, PipeTypes
    <2>2. forked' \in Seq(Requests)
      BY <1>1, AppendProperties DEF Fork, PipeTypes
    <2>3. child' \in [Requests -> {"none", "reading", "writing", "ending", "exited"}]
      BY <1>1 DEF PipeTypes
    <2>4. PipeTypes'
      BY <1>0, <1>1, <2>1, <2>2, <2>3 DEF PipeTypes
    <2>5. ASSUME NEW q \in Requests PROVE FlowOf(q)'
      <3>1. CASE q = p
        <4>0. FlowOf(p) /\ p \in DOMAIN stage
          BY DEF PipeTypes
        <4>1. /\ stage'[q] = "headers" /\ pos'[q] = 0
              /\ stdin'[q] = stdin[q] /\ taken'[q] = taken[q]
          BY <1>0, <1>1, <3>1, <4>0 DEF FlowOf
        <4>2. Passed(q)' = Passed(q) /\ Passed(q) = 0
          BY <1>0, <3>1, <4>0 DEF FlowOf, Passed
        <4>3. 0 < Headers
          BY PipesAssumption
        <4> QED
          BY <1>0, <3>1, <4>0, <4>1, <4>2, <4>3 DEF FlowOf
      <3>2. CASE q # p
        BY <1>0, <1>1, <3>2, FlowElsewhere DEF PipeTypes
      <3> QED
        BY <3>1, <3>2
    <2> QED
      BY <2>4, <2>5
  <1>2. CASE Answered(p, 503) /\ UNCHANGED <<child, forked>>
    <2>1. PipeTypes'
      <3>1. /\ stage' \in [Requests -> {"new", "headers", "body", "answer", "done"}]
            /\ status' \in [Requests -> {0, 200, 503}]
            /\ holds' \in [Requests \cup {Server} -> SUBSET Ends]
        BY <1>0, <1>2, AnsweredPipes
      <3> QED
        BY <1>0, <1>2, <3>1 DEF PipeTypes
    <2>2. ASSUME NEW q \in Requests PROVE FlowOf(q)'
      BY <1>0, <1>2, AnsweredFlow
    <2> QED
      BY <2>1, <2>2
  <1> QED
    BY <1>1, <1>2 DEF SendRequest

\* A write of what fits goes on where the last one ended: write_all().
LEMMA WriteKeepsPipes ==
    ASSUME PipeInv, NEW p \in Requests, WritePart(p)
    PROVE  PipeInv'
  <1> USE DEF PipeInv
  <1> DEFINE space == Cap - Len(stdin[p])
             left == Size(p) - pos[p]
             n == IF space < left THEN space ELSE left
             part == [i \in 1..n |-> Offset(p) + pos[p] + i]
  <1>0. /\ stage[p] \in {"headers", "body"}
        /\ UNCHANGED <<script, body, forked, child, taken, wrote, received>>
    BY DEF WritePart
  <1>1. CASE /\ stdin' = [stdin EXCEPT ![p] = @ \o part]
             /\ Advance(p, n)
             /\ UNCHANGED status
    <2>1. /\ FlowOf(p)
          /\ stdin \in [Requests -> Seq(Nat)] /\ taken \in [Requests -> Seq(Nat)]
          /\ body \in [Requests -> Nat] /\ pos \in [Requests -> Nat]
          /\ stdin[p] \in Seq(Nat) /\ taken[p] \in Seq(Nat)
          /\ body[p] \in Nat /\ pos[p] \in Nat
          /\ Headers \in Nat /\ Cap \in Nat
      BY DataOf
    <2>2. Len(stdin[p]) \in Nat /\ Len(taken[p]) \in Nat
      BY DataOf
    <2>s. /\ Size(p) \in Nat /\ Offset(p) \in Nat
          /\ pos[p] <= Size(p)
          /\ Passed(p) = Offset(p) + pos[p]
          /\ Len(stdin[p]) <= Cap
      BY <1>0, <2>1 DEF FlowOf, Size, Offset
    <2>3. /\ space \in Nat /\ left \in Nat /\ n \in Nat
          /\ n <= space /\ pos[p] + n <= Size(p)
          /\ Offset(p) + pos[p] \in Nat
      BY <2>1, <2>2, <2>s
    <2>5. /\ stdin'[p] = stdin[p] \o part
          /\ stdin' \in [Requests -> Seq(Nat)]
          /\ Len(stdin'[p]) = Len(stdin[p]) + n
          /\ InOrder(taken[p], stdin'[p])
      <3>1. /\ stdin[p] \o part \in Seq(Nat)
            /\ Len(stdin[p] \o part) = Len(stdin[p]) + n
            /\ InOrder(taken[p], stdin[p] \o part)
        <4>1. Offset(p) + pos[p] = Len(taken[p]) + Len(stdin[p])
          BY <2>s DEF Passed
        <4>2. InOrder(taken[p], stdin[p])
          BY <2>1 DEF FlowOf
        <4> HIDE DEF n
        <4>3. LET both == stdin[p] \o [i \in 1..n |-> (Offset(p) + pos[p]) + i] IN
              /\ both \in Seq(Nat)
              /\ Len(both) = Len(stdin[p]) + n
              /\ InOrder(taken[p], both)
          BY <2>1, <2>3, <4>1, <4>2, WriteInOrder
        <4> QED
          BY <4>3
      <3> HIDE DEF part, n
      <3>2. stdin'[p] = stdin[p] \o part /\ stdin' \in [Requests -> Seq(Nat)]
        BY <1>1, <3>1 DEF PipeTypes
      <3> QED
        BY <3>1, <3>2
    <2> HIDE DEF part, n
    <2>6. CASE pos[p] + n # Size(p)
      <3>1. pos' = [pos EXCEPT ![p] = @ + n] /\ UNCHANGED <<stage, holds>>
        BY <1>1, <2>6 DEF Advance
      <3>2. PipeTypes'
        <4>1. pos' \in [Requests -> Nat]
          BY <2>1, <2>3, <3>1 DEF PipeTypes
        <4> QED
          BY <1>0, <1>1, <2>5, <3>1, <4>1 DEF PipeTypes
      <3>3. FlowOf(p)'
        <4>1. /\ pos'[p] = pos[p] + n /\ stage'[p] = stage[p]
              /\ Passed(p)' = Passed(p) + n
              /\ Len(stdin'[p]) <= Cap
          BY <1>0, <2>1, <2>2, <2>3, <2>5, <2>s, <3>1 DEF PipeTypes, Passed
        <4>2. pos[p] + n < Size(p) /\ Passed(p)' = Offset(p) + pos'[p]
          BY SMTT(30), <2>1, <2>3, <2>6, <2>s, <4>1
        <4>3. CASE stage[p] = "headers"
          BY <1>0, <2>1, <2>3, <2>5, <4>1, <4>2, <4>3 DEF FlowOf, Size, Offset
        <4>4. CASE stage[p] = "body"
          BY <1>0, <2>1, <2>3, <2>5, <4>1, <4>2, <4>4 DEF FlowOf, Size, Offset
        <4> QED
          BY <1>0, <4>3, <4>4
      <3>4. ASSUME NEW q \in Requests, q # p PROVE FlowOf(q)'
        BY <1>0, <1>1, <3>1, <3>4, FlowElsewhere DEF PipeTypes
      <3> QED
        BY <3>2, <3>3, <3>4
    <2>7. CASE pos[p] + n = Size(p)
      <3>1. /\ pos' = [pos EXCEPT ![p] = 0]
            /\ stage' = [stage EXCEPT ![p] =
                            IF stage[p] = "headers" THEN "body" ELSE "answer"]
            /\ holds' \in [Requests \cup {Server} -> SUBSET Ends]
        BY <1>1, <2>7 DEF Advance, PipeTypes
      <3>2. PipeTypes'
        BY <1>0, <1>1, <2>5, <3>1 DEF PipeTypes
      <3>3. FlowOf(p)'
        <4>1. /\ pos'[p] = 0
              /\ stage'[p] = IF stage[p] = "headers" THEN "body" ELSE "answer"
              /\ Passed(p)' = Offset(p) + Size(p)
              /\ Len(stdin'[p]) <= Cap
          <5>1. p \in DOMAIN pos /\ p \in DOMAIN stage
            BY DEF PipeTypes
          <5>2. /\ pos'[p] = 0
                /\ stage'[p] = IF stage[p] = "headers" THEN "body" ELSE "answer"
            BY <3>1, <5>1
          <5>3. Passed(p)' = Passed(p) + n /\ Len(stdin'[p]) <= Cap
            <6>1. taken'[p] = taken[p] /\ Len(stdin'[p]) = Len(stdin[p]) + n
              BY <1>0, <2>5
            <6>2. Len(stdin[p]) + n <= Cap
              BY <2>1, <2>2, <2>3
            <6> QED
              BY <1>0, <2>1, <2>2, <2>3, <2>5, <6>1, <6>2 DEF Passed
          <5> QED
            BY <2>1, <2>3, <2>7, <2>s, <5>2, <5>3
        <4>2. CASE stage[p] = "headers"
          BY <1>0, <2>1, <2>5, <4>1, <4>2 DEF FlowOf, Size, Offset, Whole
        <4>3. CASE stage[p] = "body"
          BY <1>0, <2>1, <2>5, <4>1, <4>3 DEF FlowOf, Size, Offset, Whole
        <4> QED
          BY <1>0, <4>2, <4>3
      <3>4. ASSUME NEW q \in Requests, q # p PROVE FlowOf(q)'
        BY <1>0, <1>1, <3>1, <3>4, FlowElsewhere DEF PipeTypes
      <3> QED
        BY <3>2, <3>3, <3>4
    <2> QED
      BY <2>6, <2>7
  <1>2. CASE holds' = [holds EXCEPT ![Server] = {}] /\ UNCHANGED <<stdin, pos, stage, status>>
    <2>1. PipeTypes'
      BY <1>0, <1>2 DEF PipeTypes
    <2> QED
      BY <1>0, <1>2, <2>1, FlowElsewhere
  <1>3. CASE Answered(p, 503) /\ UNCHANGED <<stdin, pos>>
    <2>0. stage[p] # "done"
      BY <1>0
    <2>1. PipeTypes'
      <3>1. /\ stage' \in [Requests -> {"new", "headers", "body", "answer", "done"}]
            /\ status' \in [Requests -> {0, 200, 503}]
            /\ holds' \in [Requests \cup {Server} -> SUBSET Ends]
        BY <1>0, <1>3, <2>0, AnsweredPipes
      <3> QED
        BY <1>0, <1>3, <3>1 DEF PipeTypes
    <2>2. ASSUME NEW q \in Requests PROVE FlowOf(q)'
      BY <1>0, <1>3, <2>0, AnsweredFlow
    <2> QED
      BY <2>1, <2>2
  <1> QED
    BY <1>1, <1>2, <1>3 DEF WritePart

\* Reading the answer does not touch the request.
LEMMA ReadKeepsPipes ==
    ASSUME PipeInv, NEW p \in Requests, ReadPart(p)
    PROVE  PipeInv'
  <1> USE DEF PipeInv
  <1>0. /\ stage[p] = "answer" /\ stage[p] # "done"
        /\ UNCHANGED <<script, body, pos, forked, child, stdin, taken, wrote>>
    BY DEF ReadPart
  <1>1. received' \in [Requests -> Nat]
    <2>1. received' = [received EXCEPT ![p] = wrote[p]] \/ received' = received
      BY DEF ReadPart
    <2>2. wrote \in [Requests -> Nat] /\ received \in [Requests -> Nat]
      BY DEF PipeTypes
    <2> QED
      BY <2>1, <2>2
  <1>2. CASE UNCHANGED <<stage, status, holds>>
    <2>1. PipeTypes'
      BY <1>0, <1>1, <1>2 DEF PipeTypes
    <2> QED
      BY <1>0, <1>2, <2>1, FlowElsewhere
  <1>3. ASSUME NEW code \in {200, 503}, Answered(p, code) PROVE PipeInv'
    <2>1. PipeTypes'
      <3>1. /\ stage' \in [Requests -> {"new", "headers", "body", "answer", "done"}]
            /\ status' \in [Requests -> {0, 200, 503}]
            /\ holds' \in [Requests \cup {Server} -> SUBSET Ends]
        BY <1>0, <1>3, AnsweredPipes
      <3> QED
        BY <1>0, <1>1, <3>1 DEF PipeTypes
    <2>2. ASSUME NEW q \in Requests PROVE FlowOf(q)'
      BY <1>0, <1>3, AnsweredFlow
    <2> QED
      BY <2>1, <2>2
  <1> QED
    BY <1>2, <1>3 DEF ReadPart

\* A child takes what is oldest in its pipe, and only that.
LEMMA ChildKeepsPipes ==
    ASSUME PipeInv, NEW p \in Requests, ChildStep(p)
    PROVE  PipeInv'
  <1> USE DEF PipeInv
  <1>0. /\ UNCHANGED <<script, body, stage, pos, status, forked, received>>
        /\ child[p] # "none"
    BY DEF ChildStep, ChildReads, ChildWrites, ChildExits
  <1>1. /\ child' \in [Requests -> {"none", "reading", "writing", "ending", "exited"}]
        /\ \A q \in Requests : q # p => child'[q] = child[q]
    <2>1. \E state \in {"reading", "writing", "ending", "exited"} :
             child' = [child EXCEPT ![p] = state]
      BY DEF ChildStep, ChildReads, ChildWrites, ChildExits, Becomes
    <2> QED
      BY <2>1 DEF PipeTypes
  <1>2. holds' \in [Requests \cup {Server} -> SUBSET Ends]
    BY DEF ChildStep, ChildReads, ChildWrites, ChildExits, PipeTypes
  <1>3. wrote' \in [Requests -> Nat]
    <2>1. wrote' = [wrote EXCEPT ![p] = @ + 1] \/ wrote' = wrote
      BY DEF ChildStep, ChildReads, ChildWrites, ChildExits
    <2> QED
      BY <2>1 DEF PipeTypes
  <1>4. CASE /\ stdin[p] # <<>>
             /\ taken' = [taken EXCEPT ![p] = Append(@, Head(stdin[p]))]
             /\ stdin' = [stdin EXCEPT ![p] = Tail(@)]
    <2>1. /\ FlowOf(p)
          /\ stdin[p] \in Seq(Nat) /\ taken[p] \in Seq(Nat)
          /\ Len(stdin[p]) \in Nat /\ Len(taken[p]) \in Nat
      BY DataOf
    <2>2. /\ Append(taken[p], Head(stdin[p])) \in Seq(Nat)
          /\ Tail(stdin[p]) \in Seq(Nat)
          /\ Len(Append(taken[p], Head(stdin[p]))) = Len(taken[p]) + 1
          /\ Len(Tail(stdin[p])) = Len(stdin[p]) - 1
          /\ InOrder(Append(taken[p], Head(stdin[p])), Tail(stdin[p]))
      BY <1>4, <2>1, ReadInOrder DEF FlowOf
    <2>4. /\ taken' \in [Requests -> Seq(Nat)] /\ stdin' \in [Requests -> Seq(Nat)]
          /\ taken'[p] = Append(taken[p], Head(stdin[p]))
          /\ stdin'[p] = Tail(stdin[p])
      BY <1>4, <2>2 DEF PipeTypes
    <2>5. PipeTypes'
      BY <1>0, <1>1, <1>2, <1>3, <2>4 DEF PipeTypes
    <2>6. FlowOf(p)'
      <3>1. /\ Len(taken'[p]) = Len(taken[p]) + 1
            /\ Len(stdin'[p]) = Len(stdin[p]) - 1
            /\ InOrder(taken'[p], stdin'[p])
        BY <2>2, <2>4
      <3>2. taken \in [Requests -> Seq(Nat)] /\ stdin \in [Requests -> Seq(Nat)]
        BY DEF PipeTypes
      <3>3. Passed(p)' = Passed(p)
        <4>1. Len(taken[p]) + 1 + (Len(stdin[p]) - 1) = Len(taken[p]) + Len(stdin[p])
          BY <2>1, <3>2
        <4> QED
          BY <3>1, <4>1 DEF Passed
      <3>4. Len(stdin'[p]) <= Cap
        BY <2>1, <2>4, <3>1, <3>2, PipesAssumption DEF FlowOf
      <3>6. stage[p] # "new"
        BY <1>0, <2>1 DEF FlowOf
      <3> QED
        BY <1>0, <2>1, <3>1, <3>3, <3>4, <3>6 DEF FlowOf, Whole
    <2>7. ASSUME NEW q \in Requests, q # p PROVE FlowOf(q)'
      BY <1>0, <1>1, <1>4, <2>7, FlowElsewhere DEF PipeTypes
    <2> QED
      BY <2>5, <2>6, <2>7
  <1>5. CASE UNCHANGED <<stdin, taken>>
    <2>1. PipeTypes'
      BY <1>0, <1>1, <1>2, <1>3, <1>5 DEF PipeTypes
    <2>2. FlowOf(p)'
      <3>1. FlowOf(p) /\ stage[p] # "new"
        BY <1>0 DEF FlowOf
      <3> QED
        BY <1>0, <1>5, <3>1 DEF FlowOf, Passed, Whole
    <2>3. ASSUME NEW q \in Requests, q # p PROVE FlowOf(q)'
      BY <1>0, <1>1, <1>5, <2>3, FlowElsewhere
    <2> QED
      BY <2>1, <2>2, <2>3
  <1> QED
    BY <1>4, <1>5 DEF ChildStep, ChildReads, ChildWrites, ChildExits

\* Every step keeps the positions in order.
LEMMA NextKeepsPipes == PipeInv /\ [Next]_vars => PipeInv'
  <1> SUFFICES ASSUME PipeInv, [Next]_vars PROVE PipeInv'
    OBVIOUS
  <1>1. CASE UNCHANGED vars
    <2>1. PipeTypes'
      BY <1>1 DEF vars, PipeInv, PipeTypes
    <2> QED
      BY <1>1, <2>1, FlowElsewhere DEF vars, PipeInv
  <1> QED
    BY <1>1, SendKeepsPipes, WriteKeepsPipes, ReadKeepsPipes, ChildKeepsPipes
    DEF Next, ChildStep

\* Types, and the place of every position of a request, hold in every behaviour.
THEOREM PipesCorrect == Spec => []PipeInv
  BY InitPipes, NextKeepsPipes, PTL DEF Spec

\* A child gets its request in order, without a gap and nothing twice, and the
\* whole of it once the server waits for the answer, whatever the sizes.
THEOREM RequestIntactCorrect == Spec => []RequestIntact
  <1>1. PipeInv => RequestIntact
    <2> SUFFICES ASSUME PipeInv, NEW p \in Requests
                 PROVE  LET sent == taken[p] \o stdin[p] IN
                        /\ sent = [i \in 1..Len(sent) |-> i]
                        /\ stage[p] = "answer" => Len(sent) = Whole(p)
      BY DEF RequestIntact
    <2>1. /\ taken[p] \o stdin[p] = [i \in 1..Len(taken[p] \o stdin[p]) |-> i]
          /\ Len(taken[p] \o stdin[p]) = Passed(p)
      BY DataOf, Together DEF FlowOf, Passed
    <2> QED
      BY <2>1, DataOf DEF FlowOf
  <1> QED
    BY <1>1, PipesCorrect, PTL

-----------------------------------------------------------------------------

\* The ends the server keeps for a request.
Kept(p) == CASE stage[p] = "new" -> {"sock"}
             [] stage[p] \in {"headers", "body"} -> {"sock", "to", "from"}
             [] stage[p] = "answer" -> {"sock", "from"}
             [] stage[p] = "done" -> {}

Roles == {"to", "from", "in", "out", "sock"}

ServerEnds ==
    ~killed => \A p \in Requests, role \in Roles :
                  <<p, role>> \in holds[Server] <=> role \in Kept(p)

\* The children in the order of their fork; a pipeline past its start has one.
ForkedBefore(p, q) ==
    \E i, j \in 1..Len(forked) : i < j /\ forked[i] = p /\ forked[j] = q

ForkedAtAll ==
    \A p \in Requests : stage[p] \in {"headers", "body", "answer"} =>
        \E i \in 1..Len(forked) : forked[i] = p

ChildEnds ==
    \A p, q \in Requests :
        /\ <<p, "in">> \in holds[q] \/ <<p, "out">> \in holds[q] => p = q
        /\ <<p, "to">> \in holds[q] \/ <<p, "from">> \in holds[q] => ForkedBefore(p, q)
        /\ child[q] \in {"none", "exited"} => holds[q] = {}

EndsInv == PipeTypes /\ ServerEnds /\ ForkedAtAll /\ ChildEnds

\* Steps that fork nothing open nothing in the children.
LEMMA NothingForked ==
    ASSUME EndsInv, forked' = forked,
           \A q \in Requests : /\ holds'[q] \subseteq holds[q]
                               /\ child'[q] \in {"none", "exited"} =>
                                     child[q] \in {"none", "exited"} \/ holds'[q] = {},
           \A q \in Requests : stage'[q] \in {"headers", "body", "answer"} =>
                                  stage[q] \in {"headers", "body", "answer"}
    PROVE  ForkedAtAll' /\ ChildEnds'
  <1>1. ForkedAtAll'
    BY DEF EndsInv, ForkedAtAll
  <1>2. ASSUME NEW p \in Requests, NEW q \in Requests
        PROVE  /\ <<p, "in">> \in holds'[q] \/ <<p, "out">> \in holds'[q] => p = q
               /\ <<p, "to">> \in holds'[q] \/ <<p, "from">> \in holds'[q] =>
                     ForkedBefore(p, q)'
               /\ child'[q] \in {"none", "exited"} => holds'[q] = {}
    BY DEF EndsInv, ChildEnds, ForkedBefore
  <1> QED
    BY <1>1, <1>2 DEF ChildEnds

\* The child takes over what the server has open, and so is behind each
\* request whose ends these are.
LEMMA ForkKeepsEnds ==
    ASSUME EndsInv, NEW p \in Requests, ~killed, killed' = killed,
           stage[p] = "new", child[p] = "none", Fork(p),
           stage' = [stage EXCEPT ![p] = "headers"],
           child'[p] \notin {"none", "exited"},
           \A q \in Requests : q # p => child'[q] = child[q]
    PROVE  ServerEnds' /\ ForkedAtAll' /\ ChildEnds'
  <1> USE DEF EndsInv
  <1>0. Server \notin Requests
    BY PipesAssumption
  <1>1. /\ holds'[Server] = holds[Server] \cup ({p} \X {"to", "from"})
        /\ holds'[p] = holds[Server] \cup ({p} \X {"in", "out"})
        /\ \A q \in Requests : q # p => holds'[q] = holds[q]
    BY SMTT(30), <1>0 DEF Fork, PipeTypes
  <1>2. /\ Len(forked) \in Nat /\ Len(forked') = Len(forked) + 1
        /\ \A i \in 1..Len(forked) : forked'[i] = forked[i]
        /\ forked'[Len(forked) + 1] = p
    BY AppendProperties, LenProperties DEF Fork, PipeTypes
  <1>3. /\ stage'[p] = "headers"
        /\ \A q \in Requests : q # p => stage'[q] = stage[q]
    BY DEF PipeTypes
  <1>4. ServerEnds'
    <2>1. ASSUME NEW q \in Requests, NEW role \in Roles
          PROVE  <<q, role>> \in holds'[Server] <=> role \in Kept(q)'
      <3>1. <<q, role>> \in holds[Server] <=> role \in Kept(q)
        BY DEF ServerEnds
      <3>2. CASE q = p
        BY <1>1, <1>3, <3>1, <3>2 DEF Kept, Roles
      <3>3. CASE q # p
        BY <1>1, <1>3, <3>1, <3>3 DEF Kept, Roles
      <3> QED
        BY <3>2, <3>3
    <2> QED
      BY <2>1 DEF ServerEnds
  <1>5. ForkedAtAll'
    <2>1. ASSUME NEW q \in Requests, stage'[q] \in {"headers", "body", "answer"}
          PROVE  \E i \in 1..Len(forked') : forked'[i] = q
      <3>1. CASE q = p
        BY <1>2, <3>1
      <3>2. CASE q # p
        BY <1>2, <1>3, <2>1, <3>2 DEF ForkedAtAll
      <3> QED
        BY <3>1, <3>2
    <2> QED
      BY <2>1 DEF ForkedAtAll
  <1>6. ChildEnds'
    <2>1. ASSUME NEW r \in Requests, NEW q \in Requests
          PROVE  /\ <<r, "in">> \in holds'[q] \/ <<r, "out">> \in holds'[q] => r = q
                 /\ <<r, "to">> \in holds'[q] \/ <<r, "from">> \in holds'[q] =>
                       ForkedBefore(r, q)'
                 /\ child'[q] \in {"none", "exited"} => holds'[q] = {}
      <3>1. CASE q # p
        <4>1. ForkedBefore(r, q) => ForkedBefore(r, q)'
          BY <1>2 DEF ForkedBefore
        <4> QED
          BY <1>1, <3>1, <4>1 DEF ChildEnds
      <3>2. CASE q = p
        <4>0. /\ "in" \notin Kept(r) /\ "out" \notin Kept(r)
              /\ "to" \in Kept(r) \/ "from" \in Kept(r) =>
                    stage[r] \in {"headers", "body", "answer"}
          <5>1. stage[r] \in {"new", "headers", "body", "answer", "done"}
            BY DEF PipeTypes
          <5> QED
            BY <5>1 DEF Kept
        <4>1. \A role \in Roles : <<r, role>> \in holds[Server] <=> role \in Kept(r)
          BY DEF ServerEnds
        <4>2. <<r, "in">> \notin holds[Server] /\ <<r, "out">> \notin holds[Server]
          BY <4>0, <4>1 DEF Roles
        <4>3. <<r, "to">> \in holds[Server] \/ <<r, "from">> \in holds[Server] =>
                 stage[r] \in {"headers", "body", "answer"}
          BY <4>0, <4>1 DEF Roles
        <4>4. stage[r] \in {"headers", "body", "answer"} => ForkedBefore(r, q)'
          <5>1. SUFFICES ASSUME stage[r] \in {"headers", "body", "answer"}
                         PROVE  ForkedBefore(r, q)'
            OBVIOUS
          <5>2. PICK i \in 1..Len(forked) : forked[i] = r
            BY <5>1 DEF ForkedAtAll
          <5>3. /\ i \in 1..Len(forked') /\ Len(forked) + 1 \in 1..Len(forked')
                /\ i < Len(forked) + 1 /\ forked'[i] = r
                /\ forked'[Len(forked) + 1] = q
            BY <1>2, <3>2, <5>2
          <5> QED
            BY <5>3 DEF ForkedBefore
        <4> QED
          BY <1>1, <3>2, <4>2, <4>3, <4>4
      <3> QED
        BY <3>1, <3>2
    <2> QED
      BY <2>1 DEF ChildEnds
  <1> QED
    BY <1>4, <1>5, <1>6

\* A pipeline that is done has closed all it captured.
LEMMA AnsweredEnds ==
    ASSUME EndsInv, NEW p \in Requests, NEW code, Answered(p, code),
           UNCHANGED <<forked, child, killed>>
    PROVE  ServerEnds' /\ ForkedAtAll' /\ ChildEnds'
  <1> USE DEF EndsInv
  <1>0. Server \notin Requests
    BY PipesAssumption
  <1>1. /\ holds'[Server] = {e \in holds[Server] : e[1] # p}
        /\ \A q \in Requests : holds'[q] = holds[q]
    BY <1>0 DEF Answered, PipeTypes
  <1>2. /\ stage'[p] = "done"
        /\ \A q \in Requests : q # p => stage'[q] = stage[q]
    BY DEF Answered, PipeTypes
  <1>3. ServerEnds'
    <2>1. ASSUME NEW q \in Requests, NEW role \in Roles, ~killed
          PROVE  <<q, role>> \in holds'[Server] <=> role \in Kept(q)'
      <3>1. <<q, role>> \in holds[Server] <=> role \in Kept(q)
        BY <2>1 DEF ServerEnds
      <3>2. CASE q = p
        BY <1>1, <1>2, <3>1, <3>2 DEF Kept
      <3>3. CASE q # p
        <4>1. Kept(q)' = Kept(q)
          BY <1>2, <3>3 DEF Kept
        <4> QED
          BY <1>1, <3>1, <3>3, <4>1
      <3> QED
        BY <3>2, <3>3
    <2> QED
      BY <2>1 DEF ServerEnds
  <1>4. ForkedAtAll' /\ ChildEnds'
    BY <1>1, <1>2, NothingForked
  <1> QED
    BY <1>3, <1>4

\* Of the server's ends a write closes "to", after the whole request.
LEMMA WriteKeepsEnds ==
    ASSUME EndsInv, NEW p \in Requests, WritePart(p)
    PROVE  ServerEnds' /\ ForkedAtAll' /\ ChildEnds'
  <1> USE DEF EndsInv
  <1>0. /\ Server \notin Requests
        /\ stage[p] \in {"headers", "body"} /\ ~killed
        /\ UNCHANGED <<forked, child>>
    BY PipesAssumption DEF WritePart
  <1>1. CASE UNCHANGED killed /\ \E n : Advance(p, n)
    <2>1. PICK n : Advance(p, n)
      BY <1>1
    <2>2. CASE UNCHANGED <<stage, holds>>
      <3>1. ServerEnds'
        BY <1>1, <2>2 DEF ServerEnds, Kept
      <3> QED
        BY <1>0, <2>2, <3>1, NothingForked
    <2>3. CASE /\ stage[p] = "headers" /\ stage' = [stage EXCEPT ![p] = "body"]
               /\ UNCHANGED holds
      <3>1. \A q \in Requests : Kept(q)' = Kept(q)
        BY <2>3 DEF Kept, PipeTypes
      <3>2. ServerEnds'
        BY <1>1, <2>3, <3>1 DEF ServerEnds
      <3>3. \A q \in Requests : stage'[q] \in {"headers", "body", "answer"} =>
                                   stage[q] \in {"headers", "body", "answer"}
        BY <1>0, <2>3 DEF PipeTypes
      <3> QED
        BY <1>0, <2>3, <3>2, <3>3, NothingForked
    <2>4. CASE /\ stage' = [stage EXCEPT ![p] = "answer"]
               /\ holds' = [holds EXCEPT ![Server] = @ \ {<<p, "to">>}]
      <3>1. /\ holds'[Server] = holds[Server] \ {<<p, "to">>}
            /\ \A q \in Requests : holds'[q] = holds[q]
            /\ stage'[p] = "answer"
            /\ \A q \in Requests : q # p => stage'[q] = stage[q]
        BY <1>0, <2>4 DEF PipeTypes
      <3>2. ASSUME NEW q \in Requests, NEW role \in Roles
            PROVE  <<q, role>> \in holds'[Server] <=> role \in Kept(q)'
        <4>1. <<q, role>> \in holds[Server] <=> role \in Kept(q)
          BY <1>0 DEF ServerEnds
        <4>2. CASE q = p
          BY <1>0, <3>1, <4>1, <4>2 DEF Kept, Roles
        <4>3. CASE q # p
          <5>1. Kept(q)' = Kept(q)
            BY <3>1, <4>3 DEF Kept
          <5> QED
            BY <3>1, <4>1, <4>3, <5>1
        <4> QED
          BY <4>2, <4>3
      <3>3. ServerEnds'
        BY <3>2 DEF ServerEnds
      <3>4. \A q \in Requests : stage'[q] \in {"headers", "body", "answer"} =>
                                   stage[q] \in {"headers", "body", "answer"}
        BY <1>0, <3>1
      <3> QED
        BY <1>0, <3>1, <3>3, <3>4, NothingForked
    <2> QED
      BY <2>1, <2>2, <2>3, <2>4 DEF Advance
  <1>2. CASE killed' = TRUE /\ holds' = [holds EXCEPT ![Server] = {}] /\ UNCHANGED stage
    <2>1. \A q \in Requests : holds'[q] = holds[q]
      BY <1>0, <1>2 DEF PipeTypes
    <2>2. ServerEnds'
      BY <1>2 DEF ServerEnds
    <2> QED
      BY <1>0, <1>2, <2>1, <2>2, NothingForked
  <1>3. CASE UNCHANGED killed /\ Answered(p, 503)
    BY <1>0, <1>3, AnsweredEnds
  <1> QED
    BY <1>1, <1>2, <1>3 DEF WritePart

\* A read closes all when the answer is there; a child closes what is its own.
LEMMA OthersKeepEnds ==
    ASSUME EndsInv, NEW p \in Requests, ReadPart(p) \/ ChildStep(p)
    PROVE  ServerEnds' /\ ForkedAtAll' /\ ChildEnds'
  <1> USE DEF EndsInv
  <1>0. Server \notin Requests
    BY PipesAssumption
  <1>1. CASE \E code : Answered(p, code) /\ UNCHANGED <<forked, child, killed>>
    BY <1>1, AnsweredEnds
  <1>2. CASE UNCHANGED <<stage, holds, forked, child, killed>>
    <2>1. ServerEnds'
      BY <1>2 DEF ServerEnds, Kept
    <2> QED
      BY <1>2, <2>1, NothingForked
  <1>3. CASE /\ UNCHANGED <<stage, forked, killed, holds>>
             /\ \E state \in {"reading", "writing", "ending"} :
                   child' = [child EXCEPT ![p] = state]
    <2>1. ServerEnds'
      BY <1>3 DEF ServerEnds, Kept
    <2>2. \A q \in Requests : child'[q] \in {"none", "exited"} => child[q] \in {"none", "exited"}
      BY <1>3 DEF PipeTypes
    <2> QED
      BY <1>3, <2>1, <2>2, NothingForked
  <1>4. CASE ChildExits(p)
    <2>1. /\ holds'[Server] = holds[Server] /\ holds'[p] = {}
          /\ \A q \in Requests : q # p => holds'[q] = holds[q] /\ child'[q] = child[q]
          /\ UNCHANGED <<stage, forked, killed>>
      BY <1>0, <1>4 DEF ChildExits, Becomes, PipeTypes
    <2>2. ServerEnds'
      BY <2>1 DEF ServerEnds, Kept
    <2> QED
      BY <2>1, <2>2, NothingForked
  <1>5. ReadPart(p) => \/ \E code : Answered(p, code) /\ UNCHANGED <<forked, child, killed>>
                       \/ UNCHANGED <<stage, holds, forked, child, killed>>
    BY DEF ReadPart
  <1>6. ChildReads(p) \/ ChildWrites(p) =>
           /\ UNCHANGED <<stage, forked, killed, holds>>
           /\ \E state \in {"reading", "writing", "ending"} :
                 child' = [child EXCEPT ![p] = state]
    BY DEF ChildReads, ChildWrites, Becomes
  <1> QED
    BY <1>1, <1>2, <1>3, <1>4, <1>5, <1>6 DEF ChildStep

\* Before the first fork only connections are open, and only in the server.
LEMMA InitEnds == Init => ServerEnds /\ ForkedAtAll /\ ChildEnds
  <1> SUFFICES ASSUME Init PROVE ServerEnds /\ ForkedAtAll /\ ChildEnds
    OBVIOUS
  <1>1. /\ holds[Server] = Requests \X {"sock"}
        /\ \A q \in Requests : holds[q] = {}
    BY PipesAssumption DEF Init
  <1>2. ServerEnds
    BY <1>1 DEF Init, ServerEnds, Kept, Roles
  <1>3. ForkedAtAll /\ ChildEnds
    BY <1>1 DEF Init, ForkedAtAll, ChildEnds
  <1> QED
    BY <1>2, <1>3

\* Every step keeps the ends where the stages and the order of forks put them.
LEMMA NextKeepsEnds ==
    PipeInv /\ EndsInv /\ [Next]_vars => ServerEnds' /\ ForkedAtAll' /\ ChildEnds'
  <1> SUFFICES ASSUME PipeInv, EndsInv, [Next]_vars
               PROVE  ServerEnds' /\ ForkedAtAll' /\ ChildEnds'
    OBVIOUS
  <1>1. ASSUME NEW p \in Requests, SendRequest(p)
        PROVE  ServerEnds' /\ ForkedAtAll' /\ ChildEnds'
    <2>0. stage[p] = "new" /\ ~killed /\ killed' = killed /\ child[p] = "none"
      BY <1>1, DataOf DEF SendRequest, FlowOf
    <2>1. CASE Answered(p, 503) /\ UNCHANGED <<child, forked>>
      BY <2>0, <2>1, AnsweredEnds
    <2>2. CASE Fork(p) /\ stage' = [stage EXCEPT ![p] = "headers"]
               /\ \E state \in {"reading", "writing", "ending"} :
                     child' = [child EXCEPT ![p] = state]
      <3>1. /\ child'[p] \notin {"none", "exited"}
            /\ \A q \in Requests : q # p => child'[q] = child[q]
        BY <2>2 DEF EndsInv, PipeTypes
      <3> QED
        BY <2>0, <2>2, <3>1, ForkKeepsEnds
    <2> QED
      BY <1>1, <2>1, <2>2 DEF SendRequest
  <1>2. CASE UNCHANGED vars
    <2>1. ServerEnds'
      BY <1>2 DEF vars, EndsInv, ServerEnds, Kept
    <2> QED
      BY <1>2, <2>1, NothingForked DEF vars
  <1> QED
    BY <1>1, <1>2, WriteKeepsEnds, OthersKeepEnds DEF Next, ChildStep

\* Whatever is forked when, the server has open just what its pipelines wait
\* for, and a pipe's end that a child has inherited is in a child forked later.
THEOREM EndsAccountedCorrect == Spec => []EndsAccounted
  <1>1. Init => PipeInv /\ EndsInv
    BY InitPipes, InitEnds DEF EndsInv, PipeInv
  <1>2. PipeInv /\ EndsInv /\ [Next]_vars => (PipeInv /\ EndsInv)'
    BY NextKeepsPipes, NextKeepsEnds DEF EndsInv, PipeInv
  <1>3. EndsInv => EndsAccounted
    <2> SUFFICES ASSUME EndsInv PROVE EndsAccounted
      OBVIOUS
    <2> USE DEF EndsInv
    <2>1. ASSUME ~killed, NEW p \in Requests
          PROVE  {e[2] : e \in {f \in holds[Server] : f[1] = p}} = Kept(p)
      <3>1. holds[Server] \subseteq Requests \X Roles
        BY DEF PipeTypes, Ends, Roles
      <3>2. Kept(p) \subseteq Roles
        BY DEF Kept, Roles, PipeTypes
      <3>3. \A role \in Roles : <<p, role>> \in holds[Server] <=> role \in Kept(p)
        BY <2>1 DEF ServerEnds
      <3>4. ASSUME NEW e \in holds[Server], e[1] = p PROVE e[2] \in Kept(p)
        <4>1. e = <<p, e[2]>> /\ e[2] \in Roles
          BY <3>1, <3>4
        <4> QED
          BY <3>3, <4>1
      <3>5. ASSUME NEW role \in Kept(p)
            PROVE  \E e \in {f \in holds[Server] : f[1] = p} : e[2] = role
        <4>1. <<p, role>> \in holds[Server]
          BY <3>2, <3>3
        <4> QED
          BY <4>1
      <3> QED
        BY <3>4, <3>5
    <2> QED
      BY <2>1 DEF ChildEnds, ForkedBefore, Kept, EndsAccounted
  <1> QED
    BY <1>1, <1>2, <1>3, PTL DEF Spec

-----------------------------------------------------------------------------

\* A script that may end before it has read its request.
MayLeave(p) == ~script[p].patient \/ script[p].reads \in {"missing", "nothing"}

\* A child that has not exited has its ends open.
LiveEnds ==
    \A p \in Requests : child[p] \in {"reading", "writing", "ending"} =>
        <<p, "in">> \in holds[p] /\ <<p, "out">> \in holds[p]

AnswerOf(p) ==
    /\ received[p] <= wrote[p] /\ wrote[p] <= Want(p)
    /\ stage[p] = "new" => wrote[p] = 0 /\ received[p] = 0
    /\ stage[p] \in {"headers", "body", "answer"} =>
          received[p] < Want(p) /\ child[p] # "none"
    /\ child[p] = "writing" => wrote[p] < Want(p)
    /\ child[p] = "reading" /\ script[p].reads # "copy" => wrote[p] = 0
    /\ status[p] # 0 => stage[p] = "done"

\* How far a script of each habit has read when it is where it is.
HabitOf(p) ==
    /\ script[p].reads = "missing" => child[p] \in {"none", "ending", "exited"} /\ wrote[p] = 0
    /\ script[p].reads = "nothing" => child[p] # "reading"
    /\ script[p].reads = "length" =>
          /\ child[p] = "reading" => Len(taken[p]) < Whole(p)
          /\ child[p] = "writing" \/ wrote[p] > 0 => Len(taken[p]) = Whole(p)
    /\ script[p].reads = "end" =>
          \/ child[p] # "writing" /\ wrote[p] = 0
          \/ killed \/ stage[p] = "done" \/ Len(taken[p]) = Whole(p)
    /\ script[p].reads = "copy" =>
          /\ child[p] = "reading" => wrote[p] = Len(taken[p]) /\ wrote[p] < Whole(p)
          /\ child[p] = "writing" => wrote[p] + 1 = Len(taken[p])
          /\ wrote[p] <= Len(taken[p])

\* A script that does not leave early has done all its work when it ends.
FinishedOf(p) ==
    ~MayLeave(p) /\ ~killed /\ stage[p] # "done" /\ child[p] \in {"ending", "exited"} =>
        wrote[p] = Want(p) /\ Len(taken[p]) = Whole(p)

CauseOf(p) ==
    /\ status[p] = 503 => child[p] = "none" \/ MayLeave(p)
    /\ status[p] = 200 /\ script[p].reads # "nothing" => Len(taken[p]) = Whole(p)

KilledByLeaver == killed => \E p \in Requests : child[p] = "exited" /\ MayLeave(p)

Each(p) == AnswerOf(p) /\ HabitOf(p) /\ FinishedOf(p) /\ CauseOf(p)

AnswerInv == LiveEnds /\ KilledByLeaver /\ \A p \in Requests : Each(p)

AllInv == PipeInv /\ EndsInv /\ AnswerInv

-----------------------------------------------------------------------------

\* What is known of one request, with the types the arithmetic steps need.
LEMMA FactsOf ==
    ASSUME AllInv, NEW p \in Requests
    PROVE  /\ FlowOf(p) /\ Each(p)
           /\ script \in [Requests -> Scripts] /\ child \in [Requests ->
                 {"none", "reading", "writing", "ending", "exited"}]
           /\ stage \in [Requests -> {"new", "headers", "body", "answer", "done"}]
           /\ status \in [Requests -> {0, 200, 503}]
           /\ stdin \in [Requests -> Seq(Nat)] /\ taken \in [Requests -> Seq(Nat)]
           /\ body \in [Requests -> Nat] /\ pos \in [Requests -> Nat]
           /\ wrote \in [Requests -> Nat] /\ received \in [Requests -> Nat]
           /\ Len(stdin[p]) \in Nat /\ Len(taken[p]) \in Nat
           /\ wrote[p] \in Nat /\ received[p] \in Nat
           /\ Whole(p) \in Nat \ {0} /\ Want(p) \in Nat \ {0}
           /\ Passed(p) = Len(taken[p]) + Len(stdin[p])
           /\ Passed(p) <= Whole(p)
  <1>1. /\ FlowOf(p) /\ Each(p) /\ PipeTypes
        /\ Len(stdin[p]) \in Nat /\ Len(taken[p]) \in Nat
    BY DataOf DEF AllInv, AnswerInv, PipeInv
  <1>2. /\ stdin \in [Requests -> Seq(Nat)] /\ taken \in [Requests -> Seq(Nat)]
        /\ body[p] \in Nat /\ pos[p] \in Nat /\ wrote[p] \in Nat /\ received[p] \in Nat
        /\ stage[p] \in {"new", "headers", "body", "answer", "done"}
    BY <1>1 DEF PipeTypes
  <1>3. Whole(p) \in Nat \ {0} /\ Want(p) \in Nat \ {0}
    BY <1>2, PipesAssumption DEF Whole, Want
  <1>4. Passed(p) <= Whole(p)
    BY <1>1, <1>2, PipesAssumption DEF FlowOf, Whole
  <1> QED
    BY <1>1, <1>2, <1>3, <1>4 DEF PipeTypes, Passed

\* A step that does not touch q's own state keeps what is known of q.
LEMMA EachElsewhere ==
    ASSUME NEW q \in Requests, Each(q), script' = script, body' = body,
           killed => killed',
           stage'[q] = stage[q], status'[q] = status[q], child'[q] = child[q],
           taken'[q] = taken[q], wrote'[q] = wrote[q], received'[q] = received[q]
    PROVE  Each(q)'
  <1>1. Whole(q)' = Whole(q) /\ Want(q)' = Want(q)
    BY DEF Whole, Want
  <1>2. AnswerOf(q)'
    BY <1>1 DEF Each, AnswerOf
  <1>3. HabitOf(q)'
    BY <1>1 DEF Each, HabitOf
  <1>4. FinishedOf(q)' /\ CauseOf(q)'
    BY <1>1 DEF Each, FinishedOf, CauseOf, MayLeave
  <1> QED
    BY <1>2, <1>3, <1>4 DEF Each

\* While a pipeline is under way the server has its ends open.
LEMMA ServerEndsOpen ==
    ASSUME EndsInv, ~killed, NEW p \in Requests
    PROVE  /\ stage[p] \in {"headers", "body"} => Open(p, "to")
           /\ stage[p] \in {"headers", "body", "answer"} => Open(p, "from")
  <1>1. \A role \in {"to", "from"} : <<p, role>> \in holds[Server] <=> role \in Kept(p)
    BY DEF EndsInv, ServerEnds, Roles
  <1>2. /\ stage[p] \in {"headers", "body"} => "to" \in Kept(p)
        /\ stage[p] \in {"headers", "body", "answer"} => "from" \in Kept(p)
    BY DEF Kept
  <1> QED
    BY <1>1, <1>2 DEF Open

\* Nobody reads a pipe, or writes the other, only when the child is gone.
LEMMA ChildEndsOpen ==
    ASSUME AllInv, NEW p \in Requests, ~Open(p, "in") \/ ~Open(p, "out")
    PROVE  child[p] \in {"none", "exited"}
  BY DEF AllInv, AnswerInv, LiveEnds, PipeInv, PipeTypes, Open

\* The leaver that has ended the server stays what it is.
LEMMA KilledStays ==
    ASSUME KilledByLeaver, killed' = killed, script' = script,
           \A q \in Requests : child[q] = "exited" => child'[q] = "exited"
    PROVE  KilledByLeaver'
  BY DEF KilledByLeaver, MayLeave

\* Steps that close the ends of no child but one that exits.
LEMMA LiveStays ==
    ASSUME LiveEnds,
           \A q \in Requests :
              /\ child'[q] \in {"reading", "writing", "ending"} =>
                    child[q] \in {"reading", "writing", "ending"}
              /\ holds'[q] = holds[q] \/ child'[q] = "exited"
    PROVE  LiveEnds'
  BY DEF LiveEnds

\* The response is there: 503 for a cause, or 200 after all was read.
LEMMA AnsweredEach ==
    ASSUME AllInv, NEW p \in Requests, NEW code \in {200, 503}, Answered(p, code),
           UNCHANGED <<script, body, child, taken, wrote, killed>>,
           received'[p] \in {received[p], wrote[p]},
           \A q \in Requests : q # p => received'[q] = received[q],
           code = 503 => child[p] = "none" \/ MayLeave(p),
           code = 200 => script[p].reads = "nothing" \/ Len(taken[p]) = Whole(p)
    PROVE  AnswerInv'
  <1>0. Server \notin Requests
    BY PipesAssumption
  <1>1. /\ stage'[p] = "done" /\ status'[p] = code
        /\ \A q \in Requests : q # p => stage'[q] = stage[q] /\ status'[q] = status[q]
        /\ \A q \in Requests : holds'[q] = holds[q]
    BY <1>0, FactsOf DEF Answered, AllInv, PipeInv, PipeTypes
  <1>2. Each(p)'
    <2>1. Each(p) /\ received[p] \in Nat /\ wrote[p] \in Nat
      BY ZenonT(60), FactsOf
    <2>2. Whole(p)' = Whole(p) /\ Want(p)' = Want(p)
      BY DEF Whole, Want
    <2>3. AnswerOf(p)'
      BY <1>1, <2>1, <2>2 DEF Each, AnswerOf
    <2>4. HabitOf(p)'
      BY <1>1, <2>1, <2>2 DEF Each, HabitOf
    <2>5. FinishedOf(p)'
      BY <1>1 DEF FinishedOf
    <2>6. CauseOf(p)'
      BY <1>1, <2>2 DEF CauseOf, MayLeave
    <2> QED
      BY <2>3, <2>4, <2>5, <2>6 DEF Each
  <1>3. ASSUME NEW q \in Requests, q # p PROVE Each(q)'
    <2>1. Each(q)
      BY FactsOf
    <2> QED
      BY <1>1, <1>3, <2>1, EachElsewhere
  <1>4. LiveEnds' /\ KilledByLeaver'
    BY <1>1, LiveStays, KilledStays DEF AllInv, AnswerInv
  <1> QED
    BY <1>2, <1>3, <1>4 DEF AnswerInv

\* A child that is forked has read and written nothing; 503 means there is none.
LEMMA SendKeepsAnswer ==
    ASSUME AllInv, NEW p \in Requests, SendRequest(p)
    PROVE  AnswerInv'
  <1>0. /\ stage[p] = "new" /\ ~killed /\ child[p] = "none" /\ Passed(p) = 0
        /\ UNCHANGED <<script, body, pos, stdin, taken, wrote, received, killed>>
    BY FactsOf DEF SendRequest, FlowOf
  <1>1. CASE /\ Fork(p)
             /\ child' = [child EXCEPT ![p] =
                             CASE script[p].reads = "missing" -> "ending"
                               [] script[p].reads = "nothing" -> "writing"
                               [] OTHER -> "reading"]
             /\ stage' = [stage EXCEPT ![p] = "headers"]
             /\ UNCHANGED status
    <2>0. Server \notin Requests
      BY PipesAssumption
    <2>1. /\ stage'[p] = "headers"
          /\ child'[p] = CASE script[p].reads = "missing" -> "ending"
                           [] script[p].reads = "nothing" -> "writing"
                           [] OTHER -> "reading"
          /\ <<p, "in">> \in holds'[p] /\ <<p, "out">> \in holds'[p]
          /\ \A q \in Requests : q # p => /\ stage'[q] = stage[q]
                                          /\ child'[q] = child[q]
                                          /\ holds'[q] = holds[q]
      BY <1>1, <2>0 DEF Fork, AllInv, PipeInv, PipeTypes
    <2>2. Each(p)'
      <3>1. /\ Each(p) /\ Whole(p) \in Nat \ {0} /\ Want(p) \in Nat \ {0}
        BY FactsOf
      <3>a. Len(taken[p]) = 0
        <4> DEFINE read == Len(taken[p])
                   held == Len(stdin[p])
        <4>1. read \in Nat /\ held \in Nat /\ read + held = 0
          BY ZenonT(60), <1>0, FactsOf
        <4> HIDE DEF read, held
        <4>2. read = 0
          BY <4>1
        <4> QED
          BY <4>2 DEF read
      <3>2. wrote[p] = 0 /\ received[p] = 0 /\ status[p] = 0
        BY <1>0, <3>1 DEF Each, AnswerOf
      <3>3. Whole(p)' = Whole(p) /\ Want(p)' = Want(p)
        BY <1>0 DEF Whole, Want
      <3>4. AnswerOf(p)'
        BY <1>0, <1>1, <2>1, <3>1, <3>2, <3>3 DEF AnswerOf
      <3>5. HabitOf(p)'
        BY <1>0, <2>1, <3>1, <3>a, <3>2, <3>3 DEF HabitOf, Want
      <3>6. FinishedOf(p)' /\ CauseOf(p)'
        BY <1>0, <1>1, <2>1, <3>2 DEF FinishedOf, CauseOf, MayLeave
      <3> QED
        BY <3>4, <3>5, <3>6 DEF Each
    <2>3. ASSUME NEW q \in Requests, q # p PROVE Each(q)'
      <3>1. Each(q)
        BY FactsOf
      <3> QED
        BY <1>0, <1>1, <2>1, <2>3, <3>1, EachElsewhere
    <2>4. LiveEnds'
      BY <2>1 DEF AllInv, AnswerInv, LiveEnds
    <2>5. KilledByLeaver'
      BY <1>0 DEF KilledByLeaver
    <2> QED
      BY <2>2, <2>3, <2>4, <2>5 DEF AnswerInv
  <1>2. CASE Answered(p, 503) /\ UNCHANGED <<child, forked>>
    BY <1>0, <1>2, AnsweredEach
  <1> QED
    BY <1>1, <1>2 DEF SendRequest

\* What the server may still write, the child has not read.
LEMMA NotYetRead ==
    ASSUME AllInv, NEW p \in Requests, stage[p] \in {"headers", "body"},
           Size(p) - pos[p] > 0 \/ Len(stdin[p]) = Cap
    PROVE  Len(taken[p]) # Whole(p)
  <1> DEFINE read == Len(taken[p])
             held == Len(stdin[p])
  <1>1. /\ FlowOf(p) /\ read \in Nat /\ held \in Nat /\ Passed(p) = read + held
        /\ Passed(p) <= Whole(p)
        /\ body[p] \in Nat /\ pos[p] \in Nat
    BY ZenonT(60), FactsOf
  <1>2. CASE held = Cap
    <2> HIDE DEF read, held
    <2>1. Cap \in Nat \ {0} /\ Whole(p) \in Nat
      BY <1>1, PipesAssumption DEF Whole
    <2>2. read # Whole(p)
      BY <1>1, <1>2, <2>1
    <2> QED
      BY <2>2 DEF read
  <1>3. CASE Size(p) - pos[p] > 0
    <2> HIDE DEF read, held
    <2>1. Passed(p) < Whole(p)
      <3>1. Headers \in Nat
        BY PipesAssumption
      <3>2. CASE stage[p] = "headers"
        <4>1. Passed(p) = pos[p] /\ Headers - pos[p] > 0
          BY <1>1, <1>3, <3>2 DEF FlowOf, Size
        <4> QED
          BY <1>1, <3>1, <4>1 DEF Whole
      <3>3. CASE stage[p] = "body"
        <4>1. Passed(p) = Headers + pos[p] /\ body[p] - pos[p] > 0
          BY <1>1, <1>3, <3>3 DEF FlowOf, Size
        <4> QED
          BY <1>1, <3>1, <4>1 DEF Whole
      <3> QED
        BY <3>2, <3>3
    <2>2. Whole(p) \in Nat
      BY <1>1, PipesAssumption DEF Whole
    <2>3. read # Whole(p)
      BY <1>1, <2>1, <2>2
    <2> QED
      BY <2>3 DEF read
  <1> QED
    BY <1>2, <1>3

\* A child that is gone before it has read what it was sent may leave.
LEMMA GoneEarly ==
    ASSUME AllInv, ~killed, NEW p \in Requests,
           stage[p] \in {"headers", "body", "answer"},
           ~Open(p, "in") \/ ~Open(p, "out"),
           Len(taken[p]) # Whole(p) \/ wrote[p] # Want(p)
    PROVE  child[p] = "exited" /\ MayLeave(p)
  <1>1. child[p] = "exited"
    BY FactsOf, ChildEndsOpen DEF Each, AnswerOf
  <1> QED
    BY ZenonT(60), <1>1, FactsOf DEF Each, FinishedOf

\* The pipe to a child fails, or ends the server, only when the child left early.
LEMMA WriteKeepsAnswer ==
    ASSUME AllInv, NEW p \in Requests, WritePart(p)
    PROVE  AnswerInv'
  <1> DEFINE space == Cap - Len(stdin[p])
             left == Size(p) - pos[p]
             n == IF space < left THEN space ELSE left
             part == [i \in 1..n |-> Offset(p) + pos[p] + i]
  <1>0. /\ Server \notin Requests /\ ~killed
        /\ stage[p] \in {"headers", "body"}
        /\ UNCHANGED <<script, body, forked, child, taken, wrote, received>>
    BY PipesAssumption DEF WritePart
  <1>1. CASE Advance(p, n) /\ UNCHANGED <<status, killed>>
    <2> HIDE DEF n
    <2>1. /\ stage'[p] \in {"headers", "body", "answer"}
          /\ \A q \in Requests : q # p => stage'[q] = stage[q]
          /\ \A q \in Requests : holds'[q] = holds[q]
      <3>1. /\ stage \in [Requests -> {"new", "headers", "body", "answer", "done"}]
            /\ holds \in [Requests \cup {Server} -> SUBSET Ends]
        BY DEF AllInv, PipeInv, PipeTypes
      <3>2. /\ stage' \in {stage, [stage EXCEPT ![p] = "body"], [stage EXCEPT ![p] = "answer"]}
            /\ \/ holds' = holds
               \/ holds' = [holds EXCEPT ![Server] = @ \ {<<p, "to">>}]
        BY <1>1 DEF Advance
      <3>3. /\ stage'[p] \in {"headers", "body", "answer"}
            /\ \A q \in Requests : q # p => stage'[q] = stage[q]
        BY <1>0, <3>1, <3>2
      <3>4. \A q \in Requests : holds'[q] = holds[q]
        BY <1>0, <3>1, <3>2
      <3> QED
        BY <3>3, <3>4
    <2>2. Each(p)'
      <3>1. Each(p)
        BY FactsOf
      <3>2. Whole(p)' = Whole(p) /\ Want(p)' = Want(p)
        BY <1>0 DEF Whole, Want
      <3>3. stage'[p] # "new" /\ stage'[p] # "done" /\ stage[p] # "done"
        BY <1>0, <2>1
      <3>4. status[p] = 0 /\ status' = status
        BY <1>0, <1>1, <3>1 DEF Each, AnswerOf
      <3>5. AnswerOf(p)'
        BY <1>0, <3>1, <3>2, <3>3, <3>4 DEF Each, AnswerOf
      <3>6. HabitOf(p)'
        BY <1>0, <1>1, <3>1, <3>2, <3>3 DEF Each, HabitOf
      <3>7. FinishedOf(p)' /\ CauseOf(p)'
        BY <1>0, <1>1, <3>1, <3>2, <3>3, <3>4 DEF Each, FinishedOf, CauseOf, MayLeave
      <3> QED
        BY <3>5, <3>6, <3>7 DEF Each
    <2>3. ASSUME NEW q \in Requests, q # p PROVE Each(q)'
      <3>1. Each(q)
        BY FactsOf
      <3> QED
        BY <1>0, <1>1, <2>1, <2>3, <3>1, EachElsewhere
    <2>4. LiveEnds' /\ KilledByLeaver'
      BY <1>0, <1>1, <2>1, LiveStays, KilledStays DEF AllInv, AnswerInv
    <2> QED
      BY <2>2, <2>3, <2>4 DEF AnswerInv
  <1>2. CASE /\ ~Open(p, "in") /\ left > 0
             /\ killed' = TRUE
             /\ holds' = [holds EXCEPT ![Server] = {}]
             /\ UNCHANGED <<stdin, pos, stage, status>>
    <2>1. child[p] = "exited" /\ MayLeave(p)
      BY <1>0, <1>2, NotYetRead, GoneEarly
    <2>2. KilledByLeaver'
      BY <1>0, <2>1 DEF KilledByLeaver, MayLeave
    <2>3. \A q \in Requests : holds'[q] = holds[q]
      BY <1>0, <1>2
    <2>4. LiveEnds'
      BY <1>0, <2>3, LiveStays DEF AllInv, AnswerInv
    <2>5. ASSUME NEW q \in Requests PROVE Each(q)'
      <3>1. Each(q)
        BY FactsOf
      <3> QED
        BY <1>0, <1>2, <3>1, EachElsewhere
    <2> QED
      BY <2>2, <2>4, <2>5 DEF AnswerInv
  <1>3. CASE space = 0 /\ ~Open(p, "in") /\ Answered(p, 503) /\ UNCHANGED killed
    <2>1. Len(stdin[p]) = Cap
      <3> DEFINE held == Len(stdin[p])
      <3>1. held \in Nat /\ Cap - held = 0
        BY <1>3, FactsOf
      <3> HIDE DEF held
      <3>2. held = Cap
        BY <3>1, PipesAssumption
      <3> QED
        BY <3>2 DEF held
    <2>2. MayLeave(p)
      BY <1>0, <1>3, <2>1, NotYetRead, GoneEarly
    <2> QED
      BY <1>0, <1>3, <2>2, AnsweredEach
  <1> QED
    BY <1>1, <1>2, <1>3 DEF WritePart

\* 200 comes after all the child was to read; 503 when it left early.
LEMMA ReadKeepsAnswer ==
    ASSUME AllInv, NEW p \in Requests, ReadPart(p)
    PROVE  AnswerInv'
  <1>0. /\ stage[p] = "answer" /\ ~killed
        /\ UNCHANGED <<script, body, pos, forked, child, stdin, taken, wrote, killed>>
    BY DEF ReadPart
  <1>f. /\ Each(p) /\ wrote[p] \in Nat /\ received[p] \in Nat
        /\ Whole(p) \in Nat \ {0} /\ Want(p) \in Nat \ {0}
        /\ received \in [Requests -> Nat]
    BY ZenonT(60), FactsOf
  <1>1. CASE /\ received' = [received EXCEPT ![p] = wrote[p]]
             /\ wrote[p] < Want(p)
             /\ UNCHANGED <<stage, status, holds>>
    <2>1. Each(p)'
      <3>1. Whole(p)' = Whole(p) /\ Want(p)' = Want(p)
        BY <1>0 DEF Whole, Want
      <3>2. received'[p] = wrote[p]
        BY <1>1, <1>f
      <3>3. AnswerOf(p)'
        BY <1>0, <1>1, <1>f, <3>1, <3>2 DEF Each, AnswerOf
      <3>4. HabitOf(p)'
        BY <1>0, <1>1, <1>f, <3>1 DEF Each, HabitOf
      <3>5. FinishedOf(p)' /\ CauseOf(p)'
        BY <1>0, <1>1, <1>f, <3>1 DEF Each, FinishedOf, CauseOf, MayLeave
      <3> QED
        BY <3>3, <3>4, <3>5 DEF Each
    <2>2. ASSUME NEW q \in Requests, q # p PROVE Each(q)'
      <3>1. Each(q)
        BY FactsOf
      <3>2. received'[q] = received[q]
        BY <1>1, <1>f, <2>2
      <3> QED
        BY <1>0, <1>1, <2>2, <3>1, <3>2, EachElsewhere
    <2>3. LiveEnds' /\ KilledByLeaver'
      BY <1>0, <1>1, LiveStays, KilledStays DEF AllInv, AnswerInv
    <2> QED
      BY <2>1, <2>2, <2>3 DEF AnswerInv
  <1>2. CASE /\ received' = [received EXCEPT ![p] = wrote[p]]
             /\ ~(wrote[p] < Want(p))
             /\ Answered(p, 200)
    <2>1. wrote[p] = Want(p)
      BY <1>2, <1>f DEF Each, AnswerOf
    <2>2. script[p].reads \in Habits
      <3>1. script[p] \in Scripts
        BY DEF AllInv, PipeInv, PipeTypes
      <3> QED
        BY <3>1 DEF Scripts
    <2>3. script[p].reads = "nothing" \/ Len(taken[p]) = Whole(p)
      <3> DEFINE read == Len(taken[p])
                 held == Len(stdin[p])
      <3>1. /\ read \in Nat /\ held \in Nat /\ Passed(p) = read + held
            /\ Passed(p) <= Whole(p) /\ HabitOf(p)
        BY FactsOf DEF Each
      <3>2. CASE script[p].reads = "copy"
        <4>1. wrote[p] <= read /\ Want(p) = Whole(p)
          BY <3>1, <3>2 DEF HabitOf, Want
        <4> HIDE DEF read, held
        <4>2. read = Whole(p)
          BY <1>f, <2>1, <3>1, <4>1
        <4> QED
          BY <4>2 DEF read
      <3>3. CASE script[p].reads \in {"missing", "length", "end"}
        <4>1. wrote[p] > 0
          BY <1>f, <2>1
        <4>2. wrote[p] # 0
          BY <1>f, <2>1
        <4> QED
          BY <1>0, <3>1, <3>3, <4>1, <4>2 DEF HabitOf
      <3> QED
        BY <2>2, <3>2, <3>3 DEF Habits
    <2>4. /\ received'[p] = wrote[p]
          /\ \A q \in Requests : q # p => received'[q] = received[q]
      BY <1>2, <1>f
    <2> QED
      BY <1>0, <1>2, <2>3, <2>4, AnsweredEach
  <1>3. CASE /\ InStdout(p) = 0 /\ ~Open(p, "out")
             /\ Answered(p, 503) /\ UNCHANGED received
    <2>1. wrote[p] # Want(p)
      BY <1>0, <1>3, <1>f DEF InStdout, Each, AnswerOf
    <2>2. MayLeave(p)
      BY <1>0, <1>3, <2>1, GoneEarly
    <2> QED
      BY <1>0, <1>3, <2>2, AnsweredEach
  <1> QED
    BY <1>1, <1>2, <1>3 DEF ReadPart

\* A step of a child disturbs at most what is known of its own request.
LEMMA ChildKeepsAnswer ==
    ASSUME AllInv, NEW p \in Requests, ChildStep(p), Each(p)'
    PROVE  AnswerInv'
  <1>1. /\ UNCHANGED <<script, body, stage, status, received, killed>>
        /\ child[p] \in {"reading", "writing", "ending"}
    BY DEF ChildStep, ChildReads, ChildWrites, ChildExits
  <1>a. \E state \in {"reading", "writing", "ending", "exited"} :
           child' = [child EXCEPT ![p] = state]
    BY DEF ChildStep, ChildReads, ChildWrites, ChildExits, Becomes
  <1>b. /\ taken' = taken \/ taken' = [taken EXCEPT ![p] = Append(@, Head(stdin[p]))]
        /\ wrote' = wrote \/ wrote' = [wrote EXCEPT ![p] = @ + 1]
        /\ \/ holds' = holds
           \/ /\ child' = [child EXCEPT ![p] = "exited"]
              /\ holds' = [holds EXCEPT ![p] = {}]
    <2>1. CASE ChildReads(p)
      BY <2>1 DEF ChildReads
    <2>2. CASE ChildWrites(p)
      BY <2>2 DEF ChildWrites
    <2>3. CASE ChildExits(p)
      BY <2>3 DEF ChildExits, Becomes
    <2> QED
      BY <2>1, <2>2, <2>3 DEF ChildStep
  <1>2. PipeTypes
    BY DEF AllInv, PipeInv
  <1>3. ASSUME NEW q \in Requests, q # p
        PROVE  /\ child'[q] = child[q] /\ taken'[q] = taken[q] /\ wrote'[q] = wrote[q]
               /\ holds'[q] = holds[q]
    BY SMTT(30), <1>a, <1>b, <1>2, <1>3 DEF PipeTypes
  <1>4. holds'[p] = holds[p] \/ child'[p] = "exited"
    BY <1>b, <1>2 DEF PipeTypes
  <1>5. ASSUME NEW q \in Requests PROVE Each(q)'
    <2>1. CASE q # p
      <3>1. Each(q)
        BY FactsOf
      <3> QED
        BY <1>1, <1>3, <2>1, <3>1, EachElsewhere
    <2> QED
      BY <2>1
  <1>6. LiveEnds'
    BY <1>1, <1>3, <1>4, LiveStays DEF AllInv, AnswerInv
  <1>7. KilledByLeaver'
    <2>1. \A q \in Requests : child[q] = "exited" => child'[q] = "exited"
      BY <1>1, <1>3
    <2> QED
      BY <1>1, <2>1, KilledStays DEF AllInv, AnswerInv
  <1> QED
    BY <1>5, <1>6, <1>7 DEF AnswerInv

\* A child reads a part, the end of its input, or EAGAIN.
LEMMA ReadsKeepsEach ==
    ASSUME AllInv, NEW p \in Requests, ChildReads(p)
    PROVE  Each(p)'
  <1> DEFINE read == Len(taken[p])
             held == Len(stdin[p])
  <1>1. /\ child[p] = "reading"
        /\ UNCHANGED <<script, body, stage, pos, status, forked, holds, wrote,
                       received, killed>>
    BY DEF ChildReads
  <1>2. /\ FlowOf(p) /\ Each(p) /\ wrote[p] \in Nat
        /\ Whole(p) \in Nat \ {0} /\ Want(p) \in Nat \ {0}
        /\ read \in Nat /\ held \in Nat
        /\ Passed(p) = read + held /\ Passed(p) <= Whole(p)
    BY ZenonT(60), FactsOf
  <1>3. Whole(p)' = Whole(p) /\ Want(p)' = Want(p)
    BY <1>1 DEF Whole, Want
  <1>4. stage[p] # "new"
    BY <1>1, <1>2 DEF FlowOf
  <1>5. /\ script[p].reads \in {"length", "end", "copy"}
        /\ script[p].reads = "copy" => Want(p) = Whole(p)
    <2>1. script[p] \in Scripts
      BY DEF AllInv, PipeInv, PipeTypes
    <2>2. script[p].reads \in Habits
      BY <2>1 DEF Scripts
    <2> QED
      BY <1>1, <1>2, <2>2 DEF Habits, Each, HabitOf, Want
  <1>6. CASE /\ stdin[p] # <<>>
             /\ taken' = [taken EXCEPT ![p] = Append(@, Head(stdin[p]))]
             /\ Becomes(p, IF \/ script[p].reads = "copy"
                              \/ script[p].reads = "length" /\ Len(taken'[p]) = Whole(p)
                           THEN "writing" ELSE "reading")
    <2>1. Len(taken'[p]) = read + 1 /\ held > 0
      <3>1. /\ stdin[p] \in Seq(Nat) /\ taken[p] \in Seq(Nat)
            /\ p \in DOMAIN taken
        BY DEF AllInv, PipeInv, PipeTypes
      <3>2. /\ Head(stdin[p]) \in Nat /\ taken'[p] = Append(taken[p], Head(stdin[p]))
            /\ held > 0
        BY <1>6, <3>1, HeadTailProperties, EmptySeq, LenProperties
      <3>3. Len(Append(taken[p], Head(stdin[p]))) = read + 1
        BY <3>1, <3>2, AppendProperties
      <3> QED
        BY <3>2, <3>3
    <2>2. child'[p] = IF \/ script[p].reads = "copy"
                         \/ script[p].reads = "length" /\ Len(taken'[p]) = Whole(p)
                      THEN "writing" ELSE "reading"
      BY <1>6 DEF Becomes, AllInv, PipeInv, PipeTypes
    <2> DEFINE readNow == Len(taken'[p])
    <2> HIDE DEF read, held, readNow
    <2>3. readNow = read + 1 /\ readNow <= Whole(p) /\ read # Whole(p)
      <3>1. readNow = read + 1 /\ held > 0
        BY <2>1 DEF readNow, read, held
      <3> QED
        BY <1>2, <3>1
    <2>4. /\ child'[p] = IF \/ script[p].reads = "copy"
                            \/ script[p].reads = "length" /\ readNow = Whole(p)
                         THEN "writing" ELSE "reading"
          /\ script[p].reads = "copy" => wrote[p] = read /\ wrote[p] < Whole(p)
          /\ script[p].reads \in {"length", "end"} => wrote[p] = 0
          /\ script[p].reads = "length" => read < Whole(p)
          /\ status[p] = 503 => MayLeave(p)
          /\ status[p] = 200 => script[p].reads = "nothing"
      BY <1>1, <1>2, <1>5, <2>2, <2>3
      DEF Each, AnswerOf, HabitOf, CauseOf, read, readNow
    <2>5. AnswerOf(p)'
      BY <1>1, <1>2, <1>3, <1>4, <1>5, <2>3, <2>4 DEF Each, AnswerOf
    <2>6. HabitOf(p)'
      <3>1. CASE script[p].reads = "length"
        BY <1>1, <1>2, <1>3, <2>3, <2>4, <3>1 DEF HabitOf, readNow
      <3>2. CASE script[p].reads = "end"
        BY <1>1, <2>4, <3>2 DEF HabitOf
      <3>3. CASE script[p].reads = "copy"
        <4>1. child'[p] = "writing" /\ wrote[p] + 1 = readNow /\ wrote[p] <= readNow
          BY <1>2, <2>3, <2>4, <3>3
        <4> QED
          BY <1>1, <3>3, <4>1 DEF HabitOf, readNow
      <3> QED
        BY <1>5, <3>1, <3>2, <3>3
    <2>7. FinishedOf(p)' /\ CauseOf(p)'
      <3>1. child'[p] \notin {"none", "ending", "exited"}
        BY <2>4
      <3> QED
        BY <1>1, <2>4, <3>1 DEF FinishedOf, CauseOf, MayLeave
    <2> QED
      BY <2>5, <2>6, <2>7 DEF Each
  <1>7. CASE /\ stdin[p] = <<>> /\ taken' = taken
             /\ \/ /\ ~Open(p, "to")
                   /\ Becomes(p, IF script[p].reads = "end" THEN "writing" ELSE "ending")
                \/ /\ ~script[p].patient
                   /\ Becomes(p, "ending")
    <2>1. /\ child'[p] \in {"writing", "ending"}
          /\ child'[p] = "writing" => script[p].reads = "end" /\ ~Open(p, "to")
          /\ child'[p] = "ending" /\ script[p].patient =>
                script[p].reads # "end" /\ ~Open(p, "to")
      BY <1>7 DEF Becomes, AllInv, PipeInv, PipeTypes
    \* With the end closed the whole request has been written, and read.
    <2>2. ASSUME ~Open(p, "to"), ~killed, stage[p] # "done" PROVE Len(taken[p]) = Whole(p)
      <3>1. stage[p] = "answer"
        <4>1. /\ EndsInv
              /\ stage[p] \in {"new", "headers", "body", "answer", "done"}
          BY ZenonT(60), FactsOf DEF AllInv
        <4> QED
          BY <1>4, <2>2, <4>1, ServerEndsOpen
      <3>2. held = 0
        BY <1>7, EmptySeq
      <3>3. read + held = Whole(p)
        BY <1>2, <3>1 DEF FlowOf
      <3> HIDE DEF read, held
      <3>4. read = Whole(p)
        BY <1>2, <3>2, <3>3
      <3> QED
        BY <3>4 DEF read
    <2>3. AnswerOf(p)'
      BY <1>1, <1>2, <1>3, <1>4, <2>1 DEF Each, AnswerOf
    <2>4. HabitOf(p)'
      <3>1. CASE script[p].reads = "length"
        BY <1>1, <1>2, <1>3, <1>7, <2>1, <3>1 DEF Each, AnswerOf, HabitOf
      <3>2. CASE script[p].reads = "end"
        <4>1. wrote[p] = 0
          BY <1>1, <1>2, <3>2 DEF Each, AnswerOf
        <4> QED
          BY <1>1, <1>3, <1>7, <2>1, <2>2, <3>2, <4>1 DEF HabitOf
      <3>3. CASE script[p].reads = "copy"
        BY <1>1, <1>2, <1>3, <1>7, <2>1, <3>3 DEF Each, HabitOf
      <3> QED
        BY <1>5, <3>1, <3>2, <3>3
    <2>5. FinishedOf(p)'
      <3> SUFFICES ASSUME ~MayLeave(p), ~killed, stage[p] # "done",
                          child'[p] \in {"ending", "exited"}
                   PROVE  FALSE
        BY <1>1 DEF FinishedOf, MayLeave
      <3>1. Len(taken[p]) = Whole(p) /\ script[p].reads \in {"length", "copy"}
        BY <1>5, <2>1, <2>2 DEF MayLeave
      <3>2. CASE script[p].reads = "length"
        BY <1>1, <1>2, <3>1, <3>2 DEF Each, HabitOf
      <3>3. CASE script[p].reads = "copy"
        BY <1>1, <1>2, <3>1, <3>3 DEF Each, HabitOf
      <3> QED
        BY <3>1, <3>2, <3>3
    <2>6. CauseOf(p)'
      BY <1>1, <1>2, <1>3, <1>7 DEF Each, CauseOf, MayLeave
    <2> QED
      BY <2>3, <2>4, <2>5, <2>6 DEF Each
  <1> QED
    BY <1>6, <1>7 DEF ChildReads

\* A child writes a part, or finds nobody to read it, or EAGAIN.
LEMMA WritesKeepsEach ==
    ASSUME AllInv, NEW p \in Requests, ChildWrites(p)
    PROVE  Each(p)'
  <1>1. /\ child[p] = "writing"
        /\ UNCHANGED <<script, body, stage, pos, status, forked, holds, stdin,
                       taken, received, killed>>
    BY DEF ChildWrites
  <1>2. /\ FlowOf(p) /\ Each(p) /\ wrote[p] \in Nat /\ received[p] \in Nat
        /\ Whole(p) \in Nat \ {0} /\ Want(p) \in Nat \ {0}
        /\ Len(taken[p]) \in Nat
    BY ZenonT(60), FactsOf
  <1>3. Whole(p)' = Whole(p) /\ Want(p)' = Want(p)
    BY <1>1 DEF Whole, Want
  <1>4. stage[p] # "new"
    BY <1>1, <1>2 DEF FlowOf
  <1>5. /\ script[p].reads \in {"nothing", "length", "end", "copy"}
        /\ script[p].reads = "copy" => Want(p) = Whole(p)
    <2>1. script[p] \in Scripts
      BY DEF AllInv, PipeInv, PipeTypes
    <2>2. script[p].reads \in Habits
      BY <2>1 DEF Scripts
    <2> QED
      BY <1>1, <1>2, <2>2 DEF Habits, Each, HabitOf, Want
  <1>c. CauseOf(p)'
    <2>1. child'[p] = "none" => child[p] = "none"
      BY <1>1 DEF ChildWrites, Becomes, AllInv, PipeInv, PipeTypes
    <2> QED
      BY <1>1, <1>2, <1>3, <2>1 DEF Each, CauseOf, MayLeave
  <1>6. CASE /\ wrote' = [wrote EXCEPT ![p] = @ + 1]
             /\ Becomes(p, IF wrote'[p] = Want(p) THEN "ending"
                           ELSE IF script[p].reads = "copy" THEN "reading"
                           ELSE "writing")
    <2>1. /\ wrote'[p] = wrote[p] + 1
          /\ child'[p] = IF wrote'[p] = Want(p) THEN "ending"
                         ELSE IF script[p].reads = "copy" THEN "reading"
                         ELSE "writing"
      BY <1>6 DEF Becomes, AllInv, PipeInv, PipeTypes
    <2>2. wrote[p] < Want(p) /\ wrote'[p] \in Nat /\ wrote'[p] <= Want(p)
      BY <1>1, <1>2, <2>1 DEF Each, AnswerOf
    <2>3. AnswerOf(p)'
      BY <1>1, <1>2, <1>3, <1>4, <2>1, <2>2 DEF Each, AnswerOf
    <2>4. HabitOf(p)'
      <3>1. CASE script[p].reads = "nothing"
        BY <1>1, <2>1, <3>1 DEF HabitOf
      <3>2. CASE script[p].reads = "length"
        BY <1>1, <1>2, <1>3, <2>1, <3>2 DEF Each, HabitOf
      <3>3. CASE script[p].reads = "end"
        BY <1>1, <1>2, <1>3, <2>1, <3>3 DEF Each, HabitOf
      <3>4. CASE script[p].reads = "copy"
        <4>1. wrote'[p] = Len(taken[p]) /\ child'[p] # "writing"
          BY <1>1, <1>2, <2>1, <3>4 DEF Each, HabitOf
        <4>2. child'[p] = "reading" => wrote'[p] < Whole(p)
          BY <1>2, <1>5, <2>1, <2>2, <3>4
        <4>3. Len(taken[p])' = Len(taken[p]) /\ wrote'[p] <= Len(taken[p])
          BY <1>1, <1>2, <4>1
        <4> QED
          BY <1>1, <1>3, <3>4, <4>1, <4>2, <4>3 DEF HabitOf
      <3> QED
        BY <1>5, <3>1, <3>2, <3>3, <3>4
    <2>5. FinishedOf(p)'
      <3> SUFFICES ASSUME ~MayLeave(p), ~killed, stage[p] # "done",
                          child'[p] \in {"ending", "exited"}
                   PROVE  wrote'[p] = Want(p) /\ Len(taken[p]) = Whole(p)
        BY <1>1, <1>3 DEF FinishedOf, MayLeave
      <3>1. wrote'[p] = Want(p)
        BY <2>1
      <3>2. CASE script[p].reads = "length"
        BY <1>1, <1>2, <3>1, <3>2 DEF Each, HabitOf
      <3>3. CASE script[p].reads = "end"
        BY <1>1, <1>2, <3>1, <3>3 DEF Each, HabitOf
      <3>4. CASE script[p].reads = "copy"
        BY <1>1, <1>2, <1>5, <2>1, <3>1, <3>4 DEF Each, HabitOf
      <3> QED
        BY <1>5, <3>2, <3>3, <3>4 DEF MayLeave
    <2> QED
      BY <1>c, <2>3, <2>4, <2>5 DEF Each
  <1>7. CASE /\ ~Open(p, "from") \/ ~script[p].patient
             /\ Becomes(p, "ending")
             /\ wrote' = wrote
    <2>1. child'[p] = "ending"
      BY <1>7 DEF Becomes, AllInv, PipeInv, PipeTypes
    <2>2. AnswerOf(p)'
      BY <1>1, <1>2, <1>3, <1>4, <1>7, <2>1 DEF Each, AnswerOf
    <2>3. HabitOf(p)'
      <3>1. CASE script[p].reads \in {"nothing", "length", "end"}
        BY <1>1, <1>2, <1>3, <1>7, <2>1, <3>1 DEF Each, HabitOf
      <3>2. CASE script[p].reads = "copy"
        BY <1>1, <1>2, <1>3, <1>7, <2>1, <3>2 DEF Each, HabitOf
      <3> QED
        BY <1>5, <3>1, <3>2
    <2>4. FinishedOf(p)'
      <3>1. killed \/ stage[p] = "done" \/ Open(p, "from")
        <4>1. /\ EndsInv
              /\ stage[p] \in {"new", "headers", "body", "answer", "done"}
          BY ZenonT(60), FactsOf DEF AllInv
        <4> QED
          BY <1>4, <4>1, ServerEndsOpen
      <3> QED
        BY <1>1, <1>7, <3>1 DEF FinishedOf, MayLeave
    <2> QED
      BY <1>c, <2>2, <2>3, <2>4 DEF Each
  <1> QED
    BY <1>6, <1>7 DEF ChildWrites

\* A child exits; the system closes its ends.
LEMMA ExitsKeepsEach ==
    ASSUME AllInv, NEW p \in Requests, ChildExits(p)
    PROVE  Each(p)'
  <1>1. /\ child[p] = "ending" /\ child'[p] = "exited"
        /\ UNCHANGED <<script, body, stage, pos, status, forked, stdin, taken,
                       wrote, received, killed>>
    BY DEF ChildExits, Becomes, AllInv, PipeInv, PipeTypes
  <1>2. Each(p) /\ Whole(p)' = Whole(p) /\ Want(p)' = Want(p)
    BY <1>1, FactsOf DEF Whole, Want
  <1>3. AnswerOf(p)'
    BY <1>1, <1>2 DEF Each, AnswerOf
  <1>4. HabitOf(p)'
    BY <1>1, <1>2 DEF Each, HabitOf
  <1>5. FinishedOf(p)' /\ CauseOf(p)'
    BY <1>1, <1>2 DEF Each, FinishedOf, CauseOf, MayLeave
  <1> QED
    BY <1>3, <1>4, <1>5 DEF Each

\* Nothing is read, written or answered before the first request.
LEMMA InitAnswer == Init => AnswerInv
  <1> SUFFICES ASSUME Init PROVE AnswerInv
    OBVIOUS
  <1>1. LiveEnds /\ KilledByLeaver
    BY DEF Init, LiveEnds, KilledByLeaver
  <1>2. ASSUME NEW p \in Requests PROVE Each(p)
    <2>1. /\ child[p] = "none" /\ wrote[p] = 0 /\ received[p] = 0 /\ status[p] = 0
          /\ stage[p] = "new" /\ taken[p] = <<>>
      BY DEF Init
    <2>2. Len(taken[p]) = 0
      BY <2>1
    <2>w. Want(p) \in Nat \ {0}
      <3>1. body[p] \in Nat
        BY PipesAssumption DEF Init
      <3> QED
        BY <3>1, PipesAssumption DEF Want, Whole
    <2>3. AnswerOf(p)
      BY <2>1, <2>w DEF AnswerOf
    <2>4. HabitOf(p)
      BY <2>1, <2>2 DEF HabitOf
    <2>5. FinishedOf(p) /\ CauseOf(p)
      BY <2>1 DEF FinishedOf, CauseOf
    <2> QED
      BY <2>3, <2>4, <2>5 DEF Each
  <1> QED
    BY <1>1, <1>2 DEF AnswerInv

\* Every step keeps what is known of the answers.
LEMMA NextKeepsAnswer == AllInv /\ [Next]_vars => AnswerInv'
  <1> SUFFICES ASSUME AllInv, [Next]_vars PROVE AnswerInv'
    OBVIOUS
  <1>1. ASSUME NEW p \in Requests, ChildStep(p) PROVE AnswerInv'
    <2>1. Each(p)'
      BY <1>1, ReadsKeepsEach, WritesKeepsEach, ExitsKeepsEach DEF ChildStep
    <2> QED
      BY <1>1, <2>1, ChildKeepsAnswer
  <1>2. CASE UNCHANGED vars
    <2>1. ASSUME NEW q \in Requests PROVE Each(q)'
      <3>1. Each(q)
        BY FactsOf
      <3> QED
        BY <1>2, <3>1, EachElsewhere DEF vars
    <2>2. LiveEnds' /\ KilledByLeaver'
      BY <1>2, LiveStays, KilledStays DEF vars, AllInv, AnswerInv
    <2> QED
      BY <2>1, <2>2 DEF AnswerInv
  <1> QED
    BY <1>1, <1>2, SendKeepsAnswer, WriteKeepsAnswer, ReadKeepsAnswer DEF Next, ChildStep

\* A response of 503, and the end of the server by SIGPIPE, are always due to a
\* script that left early or was not forked; a 200 comes after the whole request
\* was read, unless the script reads nothing.
THEOREM FailureHasCauseCorrect == Spec => []FailureHasCause
  <1>1. Init => AllInv
    BY InitPipes, InitEnds, InitAnswer DEF AllInv, EndsInv, PipeInv
  <1>2. AllInv /\ [Next]_vars => AllInv'
    BY NextKeepsPipes, NextKeepsEnds, NextKeepsAnswer DEF AllInv, EndsInv, PipeInv
  <1>3. AllInv => FailureHasCause
    BY DEF AllInv, AnswerInv, KilledByLeaver, Each, CauseOf, MayLeave, FailureHasCause
  <1> QED
    BY <1>1, <1>2, <1>3, PTL DEF Spec
=============================================================================
