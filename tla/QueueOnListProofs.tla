------------------------- MODULE QueueOnListProofs -------------------------
(***************************************************************************)
(* Proofs about MpmcQueue and about the list it is built on, for any       *)
(* finite sets of handles, any values, any bound on the number of sends    *)
(* and any heap that has room for them.                                    *)
(***************************************************************************)
EXTENDS QueueOnList, TLAPS, FiniteSetTheorems, SequenceTheorems, WellFoundedInduction

\* The typing invariant is inductive only together with the meaning of the
\* counters: a decrement stays natural because a handle is there to drop.
Typing == TypeOK /\ CountsMatchHandles

-----------------------------------------------------------------------------

\* A copy adds one handle, a destructor removes one, and no handle of a kind
\* means a count of zero: the arithmetic the counters rest on.
LEMMA HandleArithmetic ==
    ASSUME NEW H, IsFiniteSet(H), NEW S \in SUBSET H
    PROVE  /\ Cardinality(S) \in Nat
           /\ Cardinality(S) = 0 <=> S = {}
           /\ \A h \in H \ S : Cardinality(S \cup {h}) = Cardinality(S) + 1
           /\ \A h \in S : Cardinality(S \ {h}) = Cardinality(S) - 1
  <1>1. IsFiniteSet(S)
    BY FS_Subset
  <1>2. Cardinality(S) \in Nat
    BY <1>1, FS_CardinalityType
  <1>3. Cardinality(S) = 0 <=> S = {}
    BY <1>1, FS_EmptySet
  <1>4. \A h \in H \ S : Cardinality(S \cup {h}) = Cardinality(S) + 1
    BY <1>1, FS_AddElement
  <1>5. \A h \in S : Cardinality(S \ {h}) = Cardinality(S) - 1
    BY <1>1, FS_RemoveElement
  <1> QED
    BY <1>2, <1>3, <1>4, <1>5

\* The variables begin with their types,
LEMMA TypingInit == Init => Typing
  <1> SUFFICES ASSUME Init PROVE Typing
    OBVIOUS
  <1>1. Cardinality(senders) = 1 /\ Cardinality(receivers) = 1
    BY FS_Singleton DEF Init
  <1> QED
    BY <1>1, HandleAssumption
    DEF Init, Typing, TypeOK, CountsMatchHandles, Locations

\* and every critical section keeps them and the counters.
LEMMA TypingNext == Typing /\ [Next]_vars => Typing'
  <1> SUFFICES ASSUME Typing, [Next]_vars PROVE Typing'
    OBVIOUS
  <1> USE DEF Typing, TypeOK, CountsMatchHandles, Locations
  <1>s. /\ \A t \in Senders \ senders :
             Cardinality(senders \cup {t}) = Cardinality(senders) + 1
        /\ \A s \in senders : /\ Cardinality(senders \ {s}) = Cardinality(senders) - 1
                              /\ Cardinality(senders \ {s}) \in Nat
    <2>1. \A s \in senders : senders \ {s} \in SUBSET Senders
      OBVIOUS
    <2> QED
      BY <2>1, HandleAssumption, HandleArithmetic
  <1>r. /\ \A t \in Receivers \ receivers :
             Cardinality(receivers \cup {t}) = Cardinality(receivers) + 1
        /\ \A r \in receivers : /\ Cardinality(receivers \ {r}) = Cardinality(receivers) - 1
                                /\ Cardinality(receivers \ {r}) \in Nat
    <2>1. \A r \in receivers : receivers \ {r} \in SUBSET Receivers
      OBVIOUS
    <2> QED
      BY <2>1, HandleAssumption, HandleArithmetic
  <1>q. queue # <<>> => /\ Tail(queue) \in Seq(Values)
                        /\ Append(received, Head(queue)) \in Seq(Values)
    BY HeadTailProperties, AppendProperties
  <1>1. ASSUME NEW s \in Senders, NEW t \in Senders, CopySender(s, t) PROVE Typing'
    BY <1>1, <1>s DEF CopySender, handles, counts, history
  <1>2. ASSUME NEW s \in Senders, DropSender(s) PROVE Typing'
    <2>1. producer_count' = Cardinality(senders') /\ producer_count' \in Nat
      BY <1>2, <1>s DEF DropSender
    <2>2. pc' \in [Receivers -> Locations]
      BY <1>2 DEF DropSender, NotifyAll
    <2> QED
      BY <1>2, <2>1, <2>2 DEF DropSender, history
  <1>3. ASSUME NEW s \in Senders, SendClosed(s) PROVE Typing'
    BY <1>3 DEF SendClosed, vars, counts, handles, history
  <1>4. ASSUME NEW s \in Senders, NEW v \in Values, Send(s, v) PROVE Typing'
    <2>1. pc' \in [Receivers -> Locations]
      BY <1>4 DEF Send, NotifyOne, Waiting
    <2>2. queue' \in Seq(Values) /\ sent' \in Seq(Values)
      BY <1>4, AppendProperties DEF Send
    <2> QED
      BY <1>4, <2>1, <2>2 DEF Send, counts, handles
  <1>5. ASSUME NEW r \in Receivers, NEW t \in Receivers, CopyReceiver(r, t)
        PROVE Typing'
    BY <1>5, <1>r DEF CopyReceiver, history
  <1>6. ASSUME NEW r \in Receivers, DropReceiver(r) PROVE Typing'
    BY <1>6, <1>r DEF DropReceiver, history
  <1>7. ASSUME NEW r \in Receivers, CallRecv(r) PROVE Typing'
    BY <1>7 DEF CallRecv, counts, handles, history
  <1>8. ASSUME NEW r \in Receivers, TryRecv(r) PROVE Typing'
    BY <1>8, <1>q DEF TryRecv, counts, handles
  <1>9. ASSUME NEW r \in Receivers, RecvTake(r) PROVE Typing'
    BY <1>9, <1>q DEF RecvTake, counts, handles
  <1>10. ASSUME NEW r \in Receivers, RecvClosed(r) PROVE Typing'
    BY <1>10 DEF RecvClosed, counts, handles
  <1>11. ASSUME NEW r \in Receivers, RecvWait(r) PROVE Typing'
    BY <1>11 DEF RecvWait, counts, handles, history
  <1>12. ASSUME NEW r \in Receivers, SpuriousWakeup(r) PROVE Typing'
    BY <1>12 DEF SpuriousWakeup, counts, handles, history
  <1>13. CASE UNCHANGED vars
    BY <1>13 DEF vars, counts, handles, history
  <1> QED
    BY <1>1, <1>2, <1>3, <1>4, <1>5, <1>6, <1>7, <1>8, <1>9, <1>10, <1>11,
       <1>12, <1>13 DEF Next

\* The variables have their types and the counters count the living handles.
THEOREM TypingCorrect == Spec => []Typing
  BY TypingInit, TypingNext, PTL DEF Spec

\* The counters of the queue are the numbers of handles alive, whatever is
\* copied and destroyed in whatever order.
THEOREM CountsCorrect == Spec => []CountsMatchHandles
  BY TypingCorrect, PTL DEF Typing

-----------------------------------------------------------------------------

\* Pigeonhole of the wait loop: while a thread sleeps, the threads on their
\* way to the mutex are at least as many as the queued values.  The invariant
\* is inductive given the types: a push adds a value and wakes a sleeper, a
\* pop removes both a value and a thread from the way, and a thread falls
\* asleep only over an empty queue.
THEOREM NoLostWakeupCorrect == Spec => []NoLostWakeup
  <1>1. Init => NoLostWakeup
    BY DEF Init, NoLostWakeup, Waiting
  <1>2. Typing /\ NoLostWakeup /\ [Next]_vars => NoLostWakeup'
    <2> SUFFICES ASSUME Typing, NoLostWakeup, [Next]_vars, Waiting' # {}
                 PROVE  Len(queue') <= Cardinality(Awake')
      BY DEF NoLostWakeup
    <2> USE DEF Typing, TypeOK, Locations
    <2>a. /\ Awake \in SUBSET Receivers
          /\ IsFiniteSet(Receivers)
          /\ Cardinality(Awake) \in Nat
          /\ \A r \in Receivers \ Awake :
                Cardinality(Awake \cup {r}) = Cardinality(Awake) + 1
          /\ \A r \in Awake : Cardinality(Awake \ {r}) = Cardinality(Awake) - 1
      BY HandleAssumption, HandleArithmetic DEF Awake
    <2>b. Len(queue) \in Nat /\ (queue = <<>> => Len(queue) = 0)
      BY LenProperties
    <2>c. queue # <<>> => /\ Len(queue) \in Nat \ {0}
                          /\ Len(Tail(queue)) = Len(queue) - 1
      BY HeadTailProperties, EmptySeq
    <2>d. ASSUME UNCHANGED <<queue, pc>> PROVE Len(queue') <= Cardinality(Awake')
      BY <2>d DEF NoLostWakeup, Awake, Waiting
    <2>1. ASSUME NEW s \in Senders, NEW t \in Senders, CopySender(s, t)
          PROVE  Len(queue') <= Cardinality(Awake')
      BY <2>1, <2>d DEF CopySender
    <2>2. ASSUME NEW s \in Senders, DropSender(s)
          PROVE  Len(queue') <= Cardinality(Awake')
      <3>1. CASE producer_count - 1 = 0
        BY <2>2, <3>1 DEF DropSender, NotifyAll, Waiting
      <3>2. CASE producer_count - 1 # 0
        BY <2>2, <3>2, <2>d DEF DropSender
      <3> QED
        BY <3>1, <3>2
    <2>3. ASSUME NEW s \in Senders, SendClosed(s)
          PROVE  Len(queue') <= Cardinality(Awake')
      BY <2>3, <2>d DEF SendClosed, vars
    <2>4. ASSUME NEW s \in Senders, NEW v \in Values, Send(s, v)
          PROVE  Len(queue') <= Cardinality(Awake')
      <3>1. Len(queue') = Len(queue) + 1
        BY <2>4, AppendProperties DEF Send
      <3>2. Waiting # {}
        BY <2>4 DEF Send, NotifyOne, Waiting
      <3>3. PICK r \in Waiting : pc' = [pc EXCEPT ![r] = "awake"]
        BY <2>4, <3>2 DEF Send, NotifyOne
      <3>4. r \in Receivers \ Awake /\ Awake' = Awake \cup {r}
        BY <3>3 DEF Awake, Waiting
      <3> QED
        BY <3>1, <3>2, <3>4, <2>a, <2>b DEF NoLostWakeup
    <2>5. ASSUME NEW r \in Receivers, NEW t \in Receivers, CopyReceiver(r, t)
          PROVE  Len(queue') <= Cardinality(Awake')
      BY <2>5, <2>d DEF CopyReceiver
    <2>6. ASSUME NEW r \in Receivers, DropReceiver(r)
          PROVE  Len(queue') <= Cardinality(Awake')
      BY <2>6, <2>d DEF DropReceiver
    <2>7. ASSUME NEW r \in Receivers, CallRecv(r)
          PROVE  Len(queue') <= Cardinality(Awake')
      <3>1. Waiting' = Waiting /\ r \in Receivers \ Awake /\ Awake' = Awake \cup {r}
        BY <2>7 DEF CallRecv, Awake, Waiting
      <3> QED
        BY <3>1, <2>7, <2>a, <2>b DEF NoLostWakeup, CallRecv
    <2>8. ASSUME NEW r \in Receivers, TryRecv(r)
          PROVE  Len(queue') <= Cardinality(Awake')
      <3>1. Waiting' = Waiting /\ Awake' = Awake
        BY <2>8 DEF TryRecv, Awake, Waiting
      <3>2. Len(queue') <= Len(queue) /\ Len(queue') \in Nat
        BY <2>8, <2>b, <2>c DEF TryRecv
      <3> QED
        BY <3>1, <3>2, <2>a, <2>b DEF NoLostWakeup
    <2>9. ASSUME NEW r \in Receivers, RecvTake(r)
          PROVE  Len(queue') <= Cardinality(Awake')
      <3>1. Waiting' = Waiting /\ r \in Awake /\ Awake' = Awake \ {r}
        BY <2>9 DEF RecvTake, Awake, Waiting
      <3>2. Len(queue') = Len(queue) - 1
        BY <2>9, <2>c DEF RecvTake
      <3> QED
        BY <3>1, <3>2, <2>a, <2>b DEF NoLostWakeup
    <2>10. ASSUME NEW r \in Receivers, RecvClosed(r)
           PROVE  Len(queue') <= Cardinality(Awake')
      <3>1. Awake' = Awake \ {r} /\ r \in Awake
        BY <2>10 DEF RecvClosed, Awake
      <3>2. Len(queue') = 0 /\ Cardinality(Awake') \in Nat
        <4>1. Awake' \in SUBSET Receivers
          BY <3>1, <2>a
        <4> QED
          BY <4>1, <2>10, <2>a, <2>b, HandleArithmetic DEF RecvClosed
      <3> QED
        BY <3>2
    <2>11. ASSUME NEW r \in Receivers, RecvWait(r)
           PROVE  Len(queue') <= Cardinality(Awake')
      <3>1. queue' = <<>> /\ Awake' \in SUBSET Receivers
        BY <2>11 DEF RecvWait, Awake
      <3>2. Cardinality(Awake') \in Nat
        BY <3>1, <2>a, HandleArithmetic
      <3> QED
        BY <3>1, <3>2, <2>11, <2>b DEF RecvWait
    <2>12. ASSUME NEW r \in Receivers, SpuriousWakeup(r)
           PROVE  Len(queue') <= Cardinality(Awake')
      <3>1. r \in Receivers \ Awake /\ Awake' = Awake \cup {r} /\ r \in Waiting
        BY <2>12 DEF SpuriousWakeup, Awake, Waiting
      <3> QED
        BY <3>1, <2>12, <2>a, <2>b DEF NoLostWakeup, SpuriousWakeup
    <2>13. CASE UNCHANGED vars
      BY <2>13, <2>d DEF vars
    <2> QED
      BY <2>1, <2>2, <2>3, <2>4, <2>5, <2>6, <2>7, <2>8, <2>9, <2>10, <2>11,
         <2>12, <2>13 DEF Next
  <1> QED
    BY <1>1, <1>2, TypingCorrect, PTL DEF Spec

-----------------------------------------------------------------------------

\* Nothing is sent at first,
LEMMA FifoInit == Init => FifoExactlyOnce
  BY ConcatEmptySeq, EmptySeq DEF Init, FifoExactlyOnce

\* and what is sent is queued and then received.
LEMMA FifoNext == Typing /\ FifoExactlyOnce /\ [Next]_vars => FifoExactlyOnce'
  <1> SUFFICES ASSUME Typing, FifoExactlyOnce, [Next]_vars PROVE FifoExactlyOnce'
    OBVIOUS
  <1> USE DEF Typing, TypeOK, FifoExactlyOnce
  <1>a. ASSUME UNCHANGED <<queue, sent, received>> PROVE FifoExactlyOnce'
    BY <1>a
  <1>b. ASSUME queue # <<>>, queue' = Tail(queue), UNCHANGED sent,
               received' = Append(received, Head(queue))
        PROVE  FifoExactlyOnce'
    <2> DEFINE h == Head(queue)
               t == Tail(queue)
    <2>1. h \in Values /\ t \in Seq(Values) /\ <<h>> \in Seq(Values)
      BY <1>b, HeadTailProperties
    <2>2. queue = <<h>> \o t
      BY <1>b, <2>1, ConcatProperties, HeadTailProperties
    <2>3. Append(received, h) = received \o <<h>>
      BY <2>1, AppendIsConcat
    <2>4. (received \o <<h>>) \o t = received \o (<<h>> \o t)
      BY <2>1, ConcatAssociative
    <2> QED
      BY <1>b, <2>2, <2>3, <2>4
  <1>c. ASSUME NEW v \in Values, UNCHANGED received, queue' = Append(queue, v),
               sent' = Append(sent, v)
        PROVE  FifoExactlyOnce'
    <2>1. <<v>> \in Seq(Values)
      OBVIOUS
    <2>2. Append(queue, v) = queue \o <<v>> /\ Append(sent, v) = sent \o <<v>>
      BY AppendIsConcat
    <2>3. (received \o queue) \o <<v>> = received \o (queue \o <<v>>)
      BY <2>1, ConcatAssociative
    <2> QED
      BY <1>c, <2>2, <2>3
  <1>1. ASSUME NEW s \in Senders, NEW t \in Senders, CopySender(s, t)
        PROVE  FifoExactlyOnce'
    BY <1>1, <1>a DEF CopySender, history
  <1>2. ASSUME NEW s \in Senders, DropSender(s) PROVE FifoExactlyOnce'
    BY <1>2, <1>a DEF DropSender, history
  <1>3. ASSUME NEW s \in Senders, SendClosed(s) PROVE FifoExactlyOnce'
    BY <1>3, <1>a DEF SendClosed, vars, history
  <1>4. ASSUME NEW s \in Senders, NEW v \in Values, Send(s, v) PROVE FifoExactlyOnce'
    BY <1>4, <1>c DEF Send
  <1>5. ASSUME NEW r \in Receivers, NEW t \in Receivers, CopyReceiver(r, t)
        PROVE  FifoExactlyOnce'
    BY <1>5, <1>a DEF CopyReceiver, history
  <1>6. ASSUME NEW r \in Receivers, DropReceiver(r) PROVE FifoExactlyOnce'
    BY <1>6, <1>a DEF DropReceiver, history
  <1>7. ASSUME NEW r \in Receivers, CallRecv(r) PROVE FifoExactlyOnce'
    BY <1>7, <1>a DEF CallRecv, history
  <1>8. ASSUME NEW r \in Receivers, TryRecv(r) PROVE FifoExactlyOnce'
    BY <1>8, <1>a, <1>b DEF TryRecv
  <1>9. ASSUME NEW r \in Receivers, RecvTake(r) PROVE FifoExactlyOnce'
    BY <1>9, <1>b DEF RecvTake
  <1>10. ASSUME NEW r \in Receivers, RecvClosed(r) PROVE FifoExactlyOnce'
    BY <1>10, <1>a DEF RecvClosed
  <1>11. ASSUME NEW r \in Receivers, RecvWait(r) PROVE FifoExactlyOnce'
    BY <1>11, <1>a DEF RecvWait, history
  <1>12. ASSUME NEW r \in Receivers, SpuriousWakeup(r) PROVE FifoExactlyOnce'
    BY <1>12, <1>a DEF SpuriousWakeup, history
  <1>13. CASE UNCHANGED vars
    BY <1>13, <1>a DEF vars, history
  <1> QED
    BY <1>1, <1>2, <1>3, <1>4, <1>5, <1>6, <1>7, <1>8, <1>9, <1>10, <1>11,
       <1>12, <1>13 DEF Next

\* Values leave the queue in the order push() accepted them, each once.
THEOREM FifoCorrect == Spec => []FifoExactlyOnce
  BY FifoInit, FifoNext, TypingCorrect, PTL DEF Spec

-----------------------------------------------------------------------------

\* Once the producers are gone nobody sleeps: the last destructor empties the
\* wait set, and with the count at zero the loop of pop() never waits again.
THEOREM ClosedReleasesCorrect == Spec => []ClosedReleasesWaiters
  <1>1. Init => ClosedReleasesWaiters
    BY DEF Init, ClosedReleasesWaiters
  <1>2. Typing /\ ClosedReleasesWaiters /\ [Next]_vars => ClosedReleasesWaiters'
    <2> SUFFICES ASSUME Typing, ClosedReleasesWaiters, [Next]_vars, producer_count' = 0
                 PROVE  Waiting' = {}
      BY DEF ClosedReleasesWaiters
    <2> USE DEF Typing, TypeOK, ClosedReleasesWaiters, Waiting, counts
    <2>1. ASSUME NEW s \in Senders, NEW t \in Senders, CopySender(s, t)
          PROVE  Waiting' = {}
      BY <2>1 DEF CopySender
    <2>2. ASSUME NEW s \in Senders, DropSender(s) PROVE Waiting' = {}
      BY <2>2 DEF DropSender, NotifyAll
    <2>3. ASSUME NEW s \in Senders, SendClosed(s) PROVE Waiting' = {}
      BY <2>3 DEF SendClosed, vars
    <2>4. ASSUME NEW s \in Senders, NEW v \in Values, Send(s, v) PROVE Waiting' = {}
      BY <2>4 DEF Send, NotifyOne
    <2>5. ASSUME NEW r \in Receivers, NEW t \in Receivers, CopyReceiver(r, t)
          PROVE  Waiting' = {}
      BY <2>5 DEF CopyReceiver
    <2>6. ASSUME NEW r \in Receivers, DropReceiver(r) PROVE Waiting' = {}
      BY <2>6 DEF DropReceiver
    <2>7. ASSUME NEW r \in Receivers, CallRecv(r) PROVE Waiting' = {}
      BY <2>7 DEF CallRecv
    <2>8. ASSUME NEW r \in Receivers, TryRecv(r) PROVE Waiting' = {}
      BY <2>8 DEF TryRecv
    <2>9. ASSUME NEW r \in Receivers, RecvTake(r) PROVE Waiting' = {}
      BY <2>9 DEF RecvTake
    <2>10. ASSUME NEW r \in Receivers, RecvClosed(r) PROVE Waiting' = {}
      BY <2>10 DEF RecvClosed
    <2>11. ASSUME NEW r \in Receivers, RecvWait(r) PROVE Waiting' = {}
      BY <2>11 DEF RecvWait
    <2>12. ASSUME NEW r \in Receivers, SpuriousWakeup(r) PROVE Waiting' = {}
      BY <2>12 DEF SpuriousWakeup
    <2>13. CASE UNCHANGED vars
      BY <2>13 DEF vars
    <2> QED
      BY <2>1, <2>2, <2>3, <2>4, <2>5, <2>6, <2>7, <2>8, <2>9, <2>10, <2>11,
         <2>12, <2>13 DEF Next
  <1> QED
    BY <1>1, <1>2, TypingCorrect, PTL DEF Spec

-----------------------------------------------------------------------------

\* What "closed" told a receiver stays true: drained, and no sender to refill.
ClosedInv == sawClosed # {} => queue = <<>> /\ senders = {}

\* The invariant behind ClosedIsFinal: an answer "closed" is given in a state
\* with no producer, so by the meaning of the counter with no sender, and only
\* a sender makes senders or fills the queue.
LEMMA ClosedInvCorrect == Spec => []ClosedInv
  <1>1. Init => ClosedInv
    BY DEF Init, ClosedInv
  <1>2. Typing /\ ClosedInv /\ [Next]_vars => ClosedInv'
    <2> SUFFICES ASSUME Typing, ClosedInv, [Next]_vars PROVE ClosedInv'
      OBVIOUS
    <2> USE DEF Typing, CountsMatchHandles, ClosedInv, counts, handles, history
    <2>a. producer_count = 0 => senders = {}
      BY HandleAssumption, HandleArithmetic DEF TypeOK
    <2>1. ASSUME NEW s \in Senders, NEW t \in Senders, CopySender(s, t) PROVE ClosedInv'
      BY <2>1 DEF CopySender
    <2>2. ASSUME NEW s \in Senders, DropSender(s) PROVE ClosedInv'
      BY <2>2 DEF DropSender
    <2>3. ASSUME NEW s \in Senders, SendClosed(s) PROVE ClosedInv'
      BY <2>3 DEF SendClosed, vars
    <2>4. ASSUME NEW s \in Senders, NEW v \in Values, Send(s, v) PROVE ClosedInv'
      BY <2>4 DEF Send
    <2>5. ASSUME NEW r \in Receivers, NEW t \in Receivers, CopyReceiver(r, t)
          PROVE  ClosedInv'
      BY <2>5 DEF CopyReceiver
    <2>6. ASSUME NEW r \in Receivers, DropReceiver(r) PROVE ClosedInv'
      BY <2>6 DEF DropReceiver
    <2>7. ASSUME NEW r \in Receivers, CallRecv(r) PROVE ClosedInv'
      BY <2>7 DEF CallRecv
    <2>8. ASSUME NEW r \in Receivers, TryRecv(r) PROVE ClosedInv'
      BY <2>8, <2>a DEF TryRecv
    <2>9. ASSUME NEW r \in Receivers, RecvTake(r) PROVE ClosedInv'
      BY <2>9 DEF RecvTake
    <2>10. ASSUME NEW r \in Receivers, RecvClosed(r) PROVE ClosedInv'
      BY <2>10, <2>a DEF RecvClosed
    <2>11. ASSUME NEW r \in Receivers, RecvWait(r) PROVE ClosedInv'
      BY <2>11 DEF RecvWait
    <2>12. ASSUME NEW r \in Receivers, SpuriousWakeup(r) PROVE ClosedInv'
      BY <2>12 DEF SpuriousWakeup
    <2>13. CASE UNCHANGED vars
      BY <2>13 DEF vars
    <2> QED
      BY <2>1, <2>2, <2>3, <2>4, <2>5, <2>6, <2>7, <2>8, <2>9, <2>10, <2>11,
         <2>12, <2>13 DEF Next
  <1> QED
    BY <1>1, <1>2, TypingCorrect, PTL DEF Spec

\* After a receiver was told "closed" no value is accepted or delivered and
\* no sender appears.
THEOREM ClosedIsFinalCorrect == Spec => ClosedIsFinal
  <1>1. ClosedInv /\ ClosedInv' /\ [Next]_vars =>
            [sawClosed # {} => /\ sent' = sent
                               /\ received' = received
                               /\ senders' = {}]_vars
    <2> SUFFICES ASSUME ClosedInv, ClosedInv', Next, sawClosed # {}
                 PROVE  sent' = sent /\ received' = received /\ senders' = {}
      OBVIOUS
    <2> USE DEF ClosedInv, history, handles, counts
    <2>1. queue = <<>> /\ senders = {}
      OBVIOUS
    <2>2. \A s, t \in Senders : ~ CopySender(s, t)
      BY <2>1 DEF CopySender
    <2>3. \A s \in Senders : ~ DropSender(s) /\ ~ SendClosed(s)
      BY <2>1 DEF DropSender, SendClosed
    <2>4. \A s \in Senders, v \in Values : ~ Send(s, v)
      BY <2>1 DEF Send
    <2>5. ASSUME NEW r \in Receivers, NEW t \in Receivers, CopyReceiver(r, t)
          PROVE  sent' = sent /\ received' = received /\ senders' = {}
      BY <2>1, <2>5 DEF CopyReceiver
    <2>6. ASSUME NEW r \in Receivers,
                 \/ DropReceiver(r) \/ CallRecv(r) \/ TryRecv(r) \/ RecvTake(r)
                 \/ RecvClosed(r) \/ RecvWait(r) \/ SpuriousWakeup(r)
          PROVE  sent' = sent /\ received' = received /\ senders' = {}
      BY <2>1, <2>6 DEF DropReceiver, CallRecv, TryRecv, RecvTake, RecvClosed,
                        RecvWait, SpuriousWakeup
    <2> QED
      BY <2>2, <2>3, <2>4, <2>5, <2>6 DEF Next
  <1> QED
    BY <1>1, ClosedInvCorrect, PTL DEF Spec, ClosedIsFinal

-----------------------------------------------------------------------------

\* Every critical section of the queue is a step of the channel without locks,
\* or no step of it at all: refinement, its safety part.
THEOREM ChannelSafetyCorrect == Spec => ImplementsChannelSafety
  <1> USE DEF Calling, Awake, Waiting
  <1>1. Init => Abstract!Init
    BY DEF Init, Abstract!Init
  <1>2. Typing /\ [Next]_vars => [Abstract!Next]_(Abstract!vars)
    <2> SUFFICES ASSUME Typing, [Next]_vars PROVE [Abstract!Next]_(Abstract!vars)
      OBVIOUS
    <2> USE DEF Typing, TypeOK, CountsMatchHandles, Locations,
                handles, counts, history, Abstract!vars
    <2>a. /\ producer_count = 0 <=> senders = {}
          /\ consumder_count = 0 <=> receivers = {}
      BY HandleAssumption, HandleArithmetic
    <2>1. ASSUME NEW s \in Senders, NEW t \in Senders, CopySender(s, t)
          PROVE  Abstract!Handles
      BY <2>1 DEF CopySender, Abstract!Handles
    <2>2. ASSUME NEW s \in Senders, DropSender(s) PROVE Abstract!Handles
      <3>1. Calling' = Calling
        BY <2>2 DEF DropSender, NotifyAll
      <3> QED
        BY <2>2, <3>1 DEF DropSender, Abstract!Handles
    <2>3. ASSUME NEW s \in Senders, SendClosed(s) PROVE UNCHANGED Abstract!vars
      BY <2>3 DEF SendClosed, vars
    <2>4. ASSUME NEW s \in Senders, NEW v \in Values, Send(s, v) PROVE Abstract!Send
      <3>1. Calling' = Calling
        BY <2>4 DEF Send, NotifyOne
      <3> QED
        BY <2>4, <2>a, <3>1 DEF Send, Abstract!Send
    <2>5. ASSUME NEW r \in Receivers, NEW t \in Receivers, CopyReceiver(r, t)
          PROVE  Abstract!Handles
      BY <2>5 DEF CopyReceiver, Abstract!Handles
    <2>6. ASSUME NEW r \in Receivers, DropReceiver(r) PROVE Abstract!Handles
      BY <2>6 DEF DropReceiver, Abstract!Handles
    <2>7. ASSUME NEW r \in Receivers, CallRecv(r) PROVE Abstract!Call
      <3>1. r \in receivers \ Calling /\ Calling' = Calling \cup {r}
        BY <2>7 DEF CallRecv
      <3> QED
        BY <2>7, <3>1 DEF CallRecv, Abstract!Call
    <2>8. ASSUME NEW r \in Receivers, TryRecv(r)
          PROVE  Abstract!TryTake \/ UNCHANGED Abstract!vars
      <3>1. r \in receivers \ Calling /\ Calling' = Calling
        BY <2>8 DEF TryRecv
      <3> QED
        BY <2>8, <3>1 DEF TryRecv, Abstract!TryTake
    <2>9. ASSUME NEW r \in Receivers, RecvTake(r) PROVE Abstract!Take
      <3>1. r \in Calling /\ Calling' = Calling \ {r}
        BY <2>9 DEF RecvTake
      <3> QED
        BY <2>9, <3>1 DEF RecvTake, Abstract!Take
    <2>10. ASSUME NEW r \in Receivers, RecvClosed(r) PROVE Abstract!Closed(r)
      <3>1. r \in Calling /\ Calling' = Calling \ {r}
        BY <2>10 DEF RecvClosed
      <3> QED
        BY <2>10, <2>a, <3>1 DEF RecvClosed, Abstract!Closed
    <2>11. ASSUME NEW r \in Receivers, RecvWait(r) PROVE UNCHANGED Abstract!vars
      BY <2>11 DEF RecvWait
    <2>12. ASSUME NEW r \in Receivers, SpuriousWakeup(r) PROVE UNCHANGED Abstract!vars
      BY <2>12 DEF SpuriousWakeup
    <2>13. CASE UNCHANGED vars
      BY <2>13 DEF vars
    <2> QED
      BY <2>1, <2>2, <2>3, <2>4, <2>5, <2>6, <2>7, <2>8, <2>9, <2>10, <2>11,
         <2>12, <2>13 DEF Next, Abstract!Next
  <1> QED
    BY <1>1, <1>2, TypingCorrect, PTL DEF Spec, ImplementsChannelSafety
-----------------------------------------------------------------------------
(* The list under the queue.                                                *)

Gone == senders \cup receivers = {}

\* The nodes of the list in order, the dummy first, and what they hold.
Chain(c) ==
    /\ \A i, j \in 0..Len(queue) : c[i] = c[j] => i = j
    /\ head = c[0] /\ tail = c[Len(queue)]
    /\ allocated = {c[i] : i \in 0..Len(queue)}
    /\ \A i \in 0..(Len(queue) - 1) : next[c[i]] = c[i + 1]
    /\ next[c[Len(queue)]] = NoNode
    /\ \A i \in 1..Len(queue) : value[c[i]] = queue[i]

Heap ==
    /\ next \in [Nodes -> Nodes \cup {NoNode}]
    /\ value \in [Nodes -> Values \cup {Nothing}]
    /\ allocated \subseteq Nodes /\ IsFiniteSet(allocated)
    /\ badAccess = {}

\* While a handle lives the list is a chain of as many nodes as there are values
\* and one, and then nothing; and only a living receiver is within recv().
OnList ==
    /\ Heap
    /\ Gone => allocated = {}
    /\ ~ Gone => /\ Cardinality(allocated) = Len(queue) + 1
                 /\ \E c \in [0..Len(queue) -> Nodes] : Chain(c)
    /\ \A r \in Receivers : pc[r] # "idle" => r \in receivers

\* The inductive invariant of the queue on its list.
ListInv == Typing /\ FifoExactlyOnce /\ OnList

\* Every step is one of the queue, whatever the list does.
LEMMA ListStepsAreQueueSteps == [LNext]_allVars => [Next]_vars
  <1> SUFFICES ASSUME [LNext]_allVars PROVE [Next]_vars
    OBVIOUS
  <1>1. CASE UNCHANGED allVars
    BY <1>1 DEF allVars
  <1>2. CASE LNext
    BY <1>2 DEF LNext, Next, LSend, LRecvTake, LTryRecv, LDrop
  <1> QED
    BY <1>1, <1>2

-----------------------------------------------------------------------------
(* The allocator and the walk along the list.                               *)

\* The allocator hands out a free node as long as there is one,
LEMMA FreshIsFree ==
    ASSUME Nodes \ allocated # {}
    PROVE  List!Fresh \in Nodes \ allocated
  <1> DEFINE S == Nodes \ allocated
  <1>1. S \subseteq Nat /\ S # {}
    BY NodesAssumption
  <1>2. \E x \in S : \A y \in S : ~ (<<y, x>> \in OpToRel(<, Nat))
    BY <1>1, NatLessThanWellFounded, WFMin
  <1>3. \E x \in S : \A y \in S : ~ (y < x)
    BY <1>1, <1>2 DEF OpToRel
  <1>4. \E x \in S : \A y \in S : x <= y
    BY <1>1, <1>3
  <1> HIDE DEF S
  <1>5. (CHOOSE x \in S : \A y \in S : x <= y) \in S
    BY <1>4
  <1> QED
    BY <1>5 DEF List!Fresh, S

\* which there is when another value may be sent.
LEMMA HeapHasRoom ==
    ASSUME ListInv, ~ Gone, Len(sent) < MaxSends
    PROVE  Nodes \ allocated # {}
  <1>1. queue \in Seq(Values) /\ sent \in Seq(Values) /\ received \in Seq(Values)
    BY DEF ListInv, Typing, TypeOK
  <1>2. Len(sent) = Len(received) + Len(queue)
    BY <1>1, ConcatProperties DEF ListInv, FifoExactlyOnce
  <1>3. Cardinality(allocated) = Len(queue) + 1 /\ allocated \subseteq Nodes
    BY DEF ListInv, OnList, Heap
  <1>4. Cardinality(allocated) <= MaxSends
    BY <1>1, <1>2, <1>3, BoundAssumption
  <1>5. ASSUME Nodes \ allocated = {}
        PROVE  FALSE
    <2>1. allocated = Nodes
      BY <1>3, <1>5
    <2>2. Cardinality(Nodes) \in Nat /\ Cardinality(Nodes) > MaxSends
      BY NodesAssumption, FS_CardinalityType
    <2> QED
      BY <1>4, <2>1, <2>2, BoundAssumption
  <1> QED
    BY <1>5

\* Cardinality is what the list takes it for.
LEMMA ListCounts == List!Cardinality(Nodes) = Cardinality(Nodes)
  BY DEF List!Cardinality, Cardinality

\* Who walks along next meets the chain and then nothing.
LEMMA WalkIsChain ==
    ASSUME Heap, NEW n \in Nat, n <= Cardinality(Nodes), NEW c \in [0..n -> Nodes],
           \A i \in 0..(n - 1) : next[c[i]] = c[i + 1], next[c[n]] = NoNode
    PROVE  \A i \in 0..Cardinality(Nodes) : List!Walk(c[0])[i] = IF i <= n THEN c[i] ELSE NoNode
  <1> DEFINE N == Cardinality(Nodes)
             along(f) == [i \in 0..N |->
                            IF i = 0 THEN c[0]
                            ELSE IF f[i - 1] = NoNode THEN NoNode ELSE next[f[i - 1]]]
             w == [i \in 0..N |-> IF i <= n THEN c[i] ELSE NoNode]
             at == CHOOSE f : f = along(f)
  <1>1. N \in Nat
    BY NodesAssumption, FS_CardinalityType
  <1>2. List!Walk(c[0]) = at
    BY ListCounts DEF List!Walk
  <1> HIDE DEF N
  <1>3. w = along(w)
    <2>1. ASSUME NEW i \in 0..N
          PROVE  w[i] = along(w)[i]
      <3>1. CASE i = 0
        BY <3>1
      <3>2. CASE i # 0 /\ i <= n
        <4>1. i - 1 \in 0..N /\ i - 1 \in 0..(n - 1) /\ i - 1 <= n /\ (i - 1) + 1 = i
          BY <1>1, <3>2
        <4>2. w[i - 1] = c[i - 1] /\ next[c[i - 1]] = c[i]
          BY <4>1
        <4>3. c[i - 1] # NoNode
          BY <4>1, NodesAssumption
        <4> QED
          BY <3>2, <4>2, <4>3
      <3>3. CASE i = n + 1
        <4>1. i - 1 \in 0..N /\ i - 1 = n /\ i # 0 /\ ~ (i <= n)
          BY <1>1, <3>3
        <4>2. w[i - 1] = c[n] /\ c[n] # NoNode
          BY <4>1, NodesAssumption
        <4> QED
          BY <4>1, <4>2
      <3>4. CASE i > n + 1
        <4>1. i - 1 \in 0..N /\ ~ (i - 1 <= n) /\ i # 0 /\ ~ (i <= n)
          BY <1>1, <3>4
        <4>2. w[i - 1] = NoNode
          BY <4>1
        <4> QED
          BY <4>1, <4>2
      <3> QED
        BY <1>1, <3>1, <3>2, <3>3, <3>4
    <2> HIDE DEF w
    <2>2. w = [i \in 0..N |-> w[i]]
      BY DEF w
    <2> QED
      BY <2>1, <2>2
  <1>4. at = along(at)
    <2> HIDE DEF w
    <2> DEFINE P(f) == f = along(f)
    <2>1. P(w)
      BY <1>3
    <2> HIDE DEF P
    <2>2. P(CHOOSE f : P(f))
      BY <2>1
    <2> QED
      BY <2>2 DEF P
  <1> HIDE DEF at, w
  \* Two walks of which one is wrong somewhere differ at a first place.
  <1>5. ASSUME NEW k \in 0..N, at[k] # w[k]
        PROVE  FALSE
    <2> DEFINE S == {i \in 0..N : at[i] # w[i]}
    <2>1. S \subseteq Nat /\ S # {}
      BY <1>5
    <2>2. \E x \in S : \A y \in S : ~ (<<y, x>> \in OpToRel(<, Nat))
      BY <2>1, NatLessThanWellFounded, WFMin
    <2>3. \E x \in S : \A y \in S : ~ (y < x)
      BY <2>1, <2>2 DEF OpToRel
    <2>4. PICK x \in S : \A y \in S : ~ (y < x)
      BY <2>3
    <2>5. at[x] = along(at)[x] /\ w[x] = along(w)[x] /\ x \in 0..N
      BY <1>3, <1>4, <2>4
    <2>6. x # 0
      BY <2>4, <2>5
    <2>7. x - 1 \in 0..N /\ x - 1 < x
      BY <1>1, <2>5, <2>6
    <2>8. at[x - 1] = w[x - 1]
      BY <2>4, <2>7
    <2> QED
      BY <2>4, <2>5, <2>6, <2>8
  <1> QED
    BY <1>2, <1>5 DEF N, w

\* So the nodes reachable are those of the list, the values behind the dummy are
\* the queue, and both ends meet when there are none.
LEMMA ListShowsQueue ==
    ASSUME ListInv, ~ Gone
    PROVE  List!Reachable = allocated /\ List!Contents = queue /\ (List!is_empty <=> queue = <<>>)
  <1> DEFINE n == Len(queue)
             N == Cardinality(Nodes)
  <1>1. PICK c \in [0..n -> Nodes] : Chain(c)
    BY DEF ListInv, OnList
  <1>2. queue \in Seq(Values) /\ n \in Nat
    BY DEF ListInv, Typing, TypeOK
  <1>3. N \in Nat /\ n + 1 <= N
    <2>1. Cardinality(allocated) <= N /\ N \in Nat
      BY NodesAssumption, FS_CardinalityType, FS_Subset DEF ListInv, OnList, Heap
    <2> QED
      BY <2>1 DEF ListInv, OnList
  <1>4. List!Cardinality(Nodes) = N
    BY ListCounts
  <1>5. /\ \A i, j \in 0..n : c[i] = c[j] => i = j
        /\ head = c[0] /\ tail = c[n]
        /\ allocated = {c[i] : i \in 0..n}
        /\ \A i \in 1..n : value[c[i]] = queue[i]
    BY <1>1 DEF Chain
  <1>6. \A i \in 0..N : List!Walk(head)[i] = IF i <= n THEN c[i] ELSE NoNode
    <2>1. (\A i \in 0..(n - 1) : next[c[i]] = c[i + 1]) /\ next[c[n]] = NoNode
      BY <1>1 DEF Chain
    <2>2. Heap /\ n <= N
      BY <1>2, <1>3 DEF ListInv, OnList
    <2> HIDE DEF n
    <2> QED
      BY <1>2, <1>5, <2>1, <2>2, WalkIsChain
  <1>7. \A i \in 0..n : c[i] \in Nodes /\ c[i] # NoNode
    BY NodesAssumption
  <1> HIDE DEF n, N
  <1>8. List!Reachable = allocated
    <2>1. List!Reachable = {List!Walk(head)[i] : i \in 0..N} \ {NoNode}
      BY <1>4 DEF List!Reachable
    <2>2. ASSUME NEW x \in List!Reachable
          PROVE  x \in allocated
      <3>1. PICK i \in 0..N : x = List!Walk(head)[i] /\ x # NoNode
        BY <2>1
      <3>2. i <= n /\ x = c[i]
        BY <1>6, <3>1
      <3> QED
        BY <1>2, <1>5, <3>2
    <2>3. ASSUME NEW x \in allocated
          PROVE  x \in List!Reachable
      <3>1. PICK i \in 0..n : x = c[i]
        BY <1>5
      <3>2. i \in 0..N /\ List!Walk(head)[i] = x
        BY <1>2, <1>3, <1>6, <3>1
      <3> QED
        BY <1>7, <2>1, <3>1, <3>2
    <2> QED
      BY <2>2, <2>3
  <1>9. List!Contents = queue
    <2>1. List!Behind = {i \in 1..N : List!Walk(head)[i] # NoNode}
      BY <1>4 DEF List!Behind
    <2>2. List!Behind = 1..n
      BY <1>2, <1>3, <1>6, <1>7, <2>1
    <2>3. \A i \in 1..n : value[List!Walk(head)[i]] = queue[i]
      BY <1>2, <1>3, <1>5, <1>6
    <2>4. List!Contents = [i \in 1..n |-> queue[i]]
      BY <2>2, <2>3 DEF List!Contents
    <2>5. queue = [i \in 1..n |-> queue[i]]
      BY <1>2 DEF n
    <2> QED
      BY <2>4, <2>5
  <1>10. List!is_empty <=> queue = <<>>
    <2>1. n = 0 <=> queue = <<>>
      BY <1>2 DEF n
    <2>2. head = tail <=> n = 0
      BY <1>2, <1>5
    <2> QED
      BY <2>1, <2>2 DEF List!is_empty
  <1> QED
    BY <1>8, <1>9, <1>10

-----------------------------------------------------------------------------
(* The operations of the list.                                              *)

LEMMA PushKeeps ==
    ASSUME ListInv, ~ Gone, Len(sent) < MaxSends, NEW v \in Values,
           List!push_back(v), queue' = Append(queue, v)
    PROVE  /\ Heap' /\ Cardinality(allocated') = Len(queue') + 1
           /\ \E c \in [0..Len(queue') -> Nodes] : Chain(c)'
  <1> DEFINE node == List!Fresh
  <1>0. queue \in Seq(Values)
    BY DEF ListInv, Typing, TypeOK
  <1>2. PICK n \in Nat : n = Len(queue)
    BY <1>0
  <1>1. PICK c \in [0..n -> Nodes] : Chain(c)
    BY <1>2 DEF ListInv, OnList
  <1>3. /\ \A i, j \in 0..n : c[i] = c[j] => i = j
        /\ head = c[0] /\ tail = c[n]
        /\ allocated = {c[i] : i \in 0..n}
        /\ \A i \in 0..(n - 1) : next[c[i]] = c[i + 1]
        /\ next[c[n]] = NoNode
        /\ \A i \in 1..n : value[c[i]] = queue[i]
    BY <1>1, <1>2 DEF Chain
  <1>4. node \in Nodes \ allocated
    BY HeapHasRoom, FreshIsFree
  <1>5. /\ allocated' = allocated \cup {node}
        /\ value' = [value EXCEPT ![node] = v]
        /\ next' = [next EXCEPT ![node] = NoNode, ![tail] = node]
        /\ tail' = node /\ head' = head
        /\ badAccess' = badAccess \cup ({tail} \ allocated)
    BY DEF List!push_back, List!Touch
  <1>6. Heap
    BY DEF ListInv, OnList
  <1>7. Len(queue') = n + 1 /\ queue'[n + 1] = v /\ \A i \in 1..n : queue'[i] = queue[i]
    BY <1>0, <1>2
  <1>8. PICK new : new = node
    OBVIOUS
  <1> HIDE DEF node
  <1>9. tail \in allocated /\ tail \in Nodes /\ tail # new
    BY <1>2, <1>3, <1>4, <1>8
  <1>10. /\ \A x \in Nodes \ {new, tail} : next'[x] = next[x]
         /\ next'[new] = NoNode /\ next'[tail] = new
         /\ \A x \in Nodes \ {new} : value'[x] = value[x]
         /\ value'[new] = v
    BY <1>4, <1>5, <1>6, <1>8, <1>9 DEF Heap
  <1>11. Heap'
    <2>1. IsFiniteSet(allocated')
      BY <1>5, <1>6, FS_AddElement DEF Heap
    <2>2. next' \in [Nodes -> Nodes \cup {NoNode}] /\ value' \in [Nodes -> Values \cup {Nothing}]
      BY <1>4, <1>5, <1>6, <1>9 DEF Heap
    <2>3. allocated' \subseteq Nodes /\ badAccess' = {}
      BY <1>4, <1>5, <1>6, <1>9 DEF Heap
    <2> QED
      BY <2>1, <2>2, <2>3 DEF Heap
  <1>12. Cardinality(allocated') = Len(queue') + 1
    <2>1. Cardinality(allocated') = Cardinality(allocated) + 1
      BY <1>4, <1>5, <1>6, FS_AddElement DEF Heap
    <2> QED
      BY <1>2, <1>7, <2>1 DEF ListInv, OnList
  <1>d. PICK d : d = [i \in 0..(n + 1) |-> IF i <= n THEN c[i] ELSE new]
    OBVIOUS
  <1>13. /\ d \in [0..(n + 1) -> Nodes] /\ d[n + 1] = new
         /\ \A i \in 0..n : d[i] = c[i] /\ d[i] \in allocated /\ d[i] # new
    BY <1>2, <1>3, <1>4, <1>8, <1>d
  <1>14. Chain(d)'
    <2>1. \A i, j \in 0..(n + 1) : d[i] = d[j] => i = j
      <3>1. ASSUME NEW i \in 0..(n + 1), NEW j \in 0..(n + 1), d[i] = d[j], i # n + 1, j # n + 1
            PROVE  i = j
        <4>1. i \in 0..n /\ j \in 0..n
          BY <1>2, <3>1
        <4> QED
          BY <1>3, <1>13, <3>1, <4>1
      <3>2. \A i \in 0..(n + 1) : i # n + 1 => d[i] # d[n + 1]
        <4>1. \A i \in 0..(n + 1) : i # n + 1 => i \in 0..n
          BY <1>2
        <4> QED
          BY <1>13, <4>1
      <3> QED
        BY <3>1, <3>2
    <2>2. head' = d[0] /\ tail' = d[n + 1]
      BY <1>2, <1>3, <1>5, <1>8, <1>13
    <2>3. allocated' = {d[i] : i \in 0..(n + 1)}
      <3>1. ASSUME NEW x \in allocated'
            PROVE  \E i \in 0..(n + 1) : x = d[i]
        <4>1. CASE x = new
          <5>1. n + 1 \in 0..(n + 1)
            BY <1>2
          <5> QED
            BY <1>13, <4>1, <5>1
        <4>2. CASE x # new
          <5>1. x \in allocated
            BY <1>5, <1>8, <3>1, <4>2
          <5>2. PICK i \in 0..n : x = c[i]
            BY <1>3, <5>1
          <5>3. i \in 0..(n + 1)
            BY <1>2
          <5> QED
            BY <1>13, <5>2, <5>3
        <4> QED
          BY <4>1, <4>2
      <3>2. ASSUME NEW i \in 0..(n + 1)
            PROVE  d[i] \in allocated'
        <4>1. i \in 0..n \/ i = n + 1
          BY <1>2
        <4> QED
          BY <1>5, <1>8, <1>13, <4>1
      <3> QED
        BY <3>1, <3>2
    <2>4. ASSUME NEW i \in 0..n
          PROVE  next'[d[i]] = d[i + 1]
      <3>1. CASE i = n
        BY <1>3, <1>10, <1>13, <3>1
      <3>2. CASE i # n
        <4>1. i \in 0..(n - 1) /\ i + 1 \in 0..n /\ n \in 0..n
          BY <1>2, <3>2
        <4>2. c[i] # tail /\ c[i] \in Nodes /\ c[i] # new
          BY <1>3, <1>13, <3>2, <4>1
        <4>3. next'[c[i]] = c[i + 1]
          BY <1>3, <1>10, <4>1, <4>2
        <4> QED
          BY <1>13, <4>1, <4>3
      <3> QED
        BY <3>1, <3>2
    <2>5. next'[d[n + 1]] = NoNode
      BY <1>10, <1>13
    <2>6. ASSUME NEW i \in 1..(n + 1)
          PROVE  value'[d[i]] = queue'[i]
      <3>1. CASE i = n + 1
        BY <1>7, <1>10, <1>13, <3>1
      <3>2. CASE i # n + 1
        <4>1. i \in 0..n /\ i \in 1..n
          BY <1>2, <3>2
        <4> QED
          BY <1>3, <1>7, <1>10, <1>13, <4>1
      <3> QED
        BY <3>1, <3>2
    <2>7. (n + 1) - 1 = n
      BY <1>2
    <2> QED
      BY <1>7, <2>1, <2>2, <2>3, <2>4, <2>5, <2>6, <2>7 DEF Chain
  <1> QED
    BY <1>7, <1>11, <1>12, <1>13, <1>14

LEMMA PopKeeps ==
    ASSUME ListInv, ~ Gone, queue # <<>>, List!pop_front, queue' = Tail(queue)
    PROVE  /\ Heap' /\ Cardinality(allocated') = Len(queue') + 1
           /\ \E c \in [0..Len(queue') -> Nodes] : Chain(c)'
  <1>0. queue \in Seq(Values)
    BY DEF ListInv, Typing, TypeOK
  <1>2. PICK n \in Nat : n = Len(queue) /\ n >= 1
    BY <1>0
  <1>1. PICK c \in [0..n -> Nodes] : Chain(c)
    BY <1>2 DEF ListInv, OnList
  <1>3. /\ \A i, j \in 0..n : c[i] = c[j] => i = j
        /\ head = c[0] /\ tail = c[n]
        /\ allocated = {c[i] : i \in 0..n}
        /\ \A i \in 0..(n - 1) : next[c[i]] = c[i + 1]
        /\ next[c[n]] = NoNode
        /\ \A i \in 1..n : value[c[i]] = queue[i]
    BY <1>1, <1>2 DEF Chain
  <1>4. 0 \in 0..(n - 1) /\ 0 \in 0..n /\ 1 \in 0..n
    BY <1>2
  <1>5. next[head] = c[1]
    BY <1>3, <1>4
  <1>6. /\ allocated' = allocated \ {c[1]}
        /\ value' = [value EXCEPT ![c[1]] = Nothing]
        /\ next' = [next EXCEPT ![head] = next[c[1]]]
        /\ tail' = IF next[c[1]] = NoNode THEN head ELSE tail
        /\ head' = head
        /\ badAccess' = badAccess \cup ({head, c[1]} \ allocated)
    BY <1>5 DEF List!pop_front, List!Touch
  <1>7. Heap
    BY DEF ListInv, OnList
  <1>8. Len(queue') = n - 1 /\ \A i \in 1..(n - 1) : queue'[i] = queue[i + 1]
    BY <1>0, <1>2
  <1>9. /\ head \in Nodes /\ c[1] \in Nodes /\ c[1] # head
        /\ head \in allocated /\ c[1] \in allocated
    BY <1>3, <1>4
  <1>10. /\ \A x \in Nodes \ {head} : next'[x] = next[x]
         /\ next'[head] = next[c[1]]
         /\ \A x \in Nodes \ {c[1]} : value'[x] = value[x]
    BY <1>6, <1>7, <1>9 DEF Heap
  <1>11. Heap'
    <2>1. IsFiniteSet(allocated')
      BY <1>6, <1>7, FS_RemoveElement DEF Heap
    <2>2. next' \in [Nodes -> Nodes \cup {NoNode}] /\ value' \in [Nodes -> Values \cup {Nothing}]
      BY <1>6, <1>7, <1>9 DEF Heap
    <2>3. allocated' \subseteq Nodes /\ badAccess' = {}
      BY <1>6, <1>7, <1>9 DEF Heap
    <2> QED
      BY <2>1, <2>2, <2>3 DEF Heap
  <1>12. Cardinality(allocated') = Len(queue') + 1
    <2>1. Cardinality(allocated') = Cardinality(allocated) - 1
      BY <1>6, <1>7, <1>9, FS_RemoveElement DEF Heap
    <2> QED
      BY <1>2, <1>8, <2>1 DEF ListInv, OnList
  <1>d. PICK d : d = [i \in 0..(n - 1) |-> IF i = 0 THEN c[0] ELSE c[i + 1]]
    OBVIOUS
  <1>13. /\ d \in [0..(n - 1) -> Nodes] /\ d[0] = head
         /\ \A i \in 1..(n - 1) : i + 1 \in 0..n /\ d[i] = c[i + 1]
         /\ \A i \in 1..(n - 1) : d[i] \in Nodes /\ d[i] # head /\ d[i] # c[1]
    <2>1. \A i \in 1..(n - 1) : i + 1 \in 0..n /\ i \in 0..(n - 1) /\ i # 0 /\ i + 1 # 0 /\ i + 1 # 1
      BY <1>2
    <2>2. d[0] = head /\ \A i \in 1..(n - 1) : d[i] = c[i + 1]
      BY <1>3, <1>4, <1>d, <2>1
    <2>3. d \in [0..(n - 1) -> Nodes]
      <3>1. \A i \in 0..(n - 1) : i # 0 => i \in 1..(n - 1)
        BY <1>2
      <3> QED
        BY <1>4, <1>d, <2>1, <3>1
    <2>4. \A i \in 1..(n - 1) : d[i] \in Nodes /\ d[i] # head /\ d[i] # c[1]
      BY <1>3, <1>4, <2>1, <2>2
    <2> QED
      BY <2>1, <2>2, <2>3, <2>4
  <1>14. Chain(d)'
    <2>1. \A i, j \in 0..(n - 1) : d[i] = d[j] => i = j
      <3>1. ASSUME NEW i \in 0..(n - 1), NEW j \in 0..(n - 1), d[i] = d[j], i # 0, j # 0
            PROVE  i = j
        <4>1. i \in 1..(n - 1) /\ j \in 1..(n - 1)
          BY <1>2, <3>1
        <4>2. i + 1 = j + 1
          BY <1>3, <1>13, <3>1, <4>1
        <4> QED
          BY <4>1, <4>2
      <3>2. \A i \in 0..(n - 1) : i # 0 => d[i] # d[0]
        <4>1. \A i \in 0..(n - 1) : i # 0 => i \in 1..(n - 1)
          BY <1>2
        <4> QED
          BY <1>13, <4>1
      <3> QED
        BY <3>1, <3>2
    <2>2. head' = d[0]
      BY <1>6, <1>13
    <2>3. allocated' = {d[i] : i \in 0..(n - 1)}
      <3>1. ASSUME NEW x \in allocated'
            PROVE  \E i \in 0..(n - 1) : x = d[i]
        <4>1. PICK k \in 0..n : x = c[k]
          BY <1>3, <1>6, <3>1
        <4>2. CASE k = 0
          BY <1>3, <1>4, <1>13, <4>1, <4>2
        <4>3. CASE k # 0
          <5>1. k # 1
            BY <1>6, <3>1, <4>1
          <5>2. k - 1 \in 1..(n - 1) /\ (k - 1) + 1 = k /\ k - 1 \in 0..(n - 1)
            BY <1>2, <4>3, <5>1
          <5>3. x = d[k - 1]
            BY <1>13, <4>1, <5>2
          <5> QED
            BY <5>2, <5>3
        <4> QED
          BY <4>2, <4>3
      <3>2. ASSUME NEW i \in 0..(n - 1)
            PROVE  d[i] \in allocated'
        <4>1. CASE i = 0
          BY <1>6, <1>9, <1>13, <4>1
        <4>2. CASE i # 0
          <5>1. i \in 1..(n - 1)
            BY <1>2, <4>2
          <5>2. d[i] \in allocated
            BY <1>3, <1>13, <5>1
          <5> QED
            BY <1>6, <1>13, <5>1, <5>2
        <4> QED
          BY <4>1, <4>2
      <3> QED
        BY <3>1, <3>2
    \* The last value taken leaves the dummy alone.
    <2>4. CASE n = 1
      <3>1. next[c[1]] = NoNode
        BY <1>3, <2>4
      <3>2. tail' = d[n - 1] /\ next'[d[n - 1]] = NoNode
        BY <1>6, <1>10, <1>13, <2>4, <3>1
      <3>3. (n - 1) - 1 < 0 /\ n - 1 < 1
        BY <2>4
      <3>4. (\A i \in 0..((n - 1) - 1) : FALSE) /\ (\A i \in 1..(n - 1) : FALSE)
        BY <1>2, <3>3
      <3> QED
        BY <1>8, <2>1, <2>2, <2>3, <3>2, <3>4 DEF Chain
    <2>5. CASE n # 1
      <3>1. n >= 2 /\ n - 1 \in 1..(n - 1) /\ 1 \in 0..(n - 1) /\ (n - 1) + 1 = n
        BY <1>2, <2>5
      <3>2. next[c[1]] = c[2] /\ c[2] \in Nodes
        BY <1>3, <3>1
      <3>3. tail' = d[n - 1]
        BY <1>3, <1>6, <1>13, <3>1, <3>2, NodesAssumption
      <3>4. next'[d[n - 1]] = NoNode
        BY <1>3, <1>10, <1>13, <3>1
      <3>5. ASSUME NEW i \in 0..((n - 1) - 1)
            PROVE  next'[d[i]] = d[i + 1]
        <4>1. CASE i = 0
          <5>1. 1 \in 1..(n - 1) /\ 1 + 1 = 2
            BY <3>1
          <5>2. d[1] = c[2]
            BY <1>13, <5>1
          <5> QED
            BY <1>10, <1>13, <3>2, <4>1, <5>2
        <4>2. CASE i # 0
          <5>1. i \in 1..(n - 1) /\ i + 1 \in 1..(n - 1) /\ i + 1 \in 0..(n - 1)
            BY <1>2, <4>2
          <5>2. next'[d[i]] = next[d[i]]
            BY <1>10, <1>13, <5>1
          <5>3. next[c[i + 1]] = c[(i + 1) + 1]
            BY <1>3, <5>1
          <5> QED
            BY <1>13, <5>1, <5>2, <5>3
        <4> QED
          BY <4>1, <4>2
      <3>6. ASSUME NEW i \in 1..(n - 1)
            PROVE  value'[d[i]] = queue'[i]
        <4>1. i + 1 \in 1..n
          BY <1>2
        <4>2. value'[d[i]] = value[d[i]] /\ d[i] = c[i + 1]
          BY <1>10, <1>13
        <4> QED
          BY <1>3, <1>8, <4>1, <4>2
      <3> QED
        BY <1>8, <2>1, <2>2, <2>3, <3>3, <3>4, <3>5, <3>6 DEF Chain
    <2> QED
      BY <2>4, <2>5
  <1> QED
    BY <1>8, <1>11, <1>12, <1>13, <1>14

LEMMA DeleteKeeps ==
    ASSUME ListInv, ~ Gone, List!_delete_values
    PROVE  Heap' /\ allocated' = {}
  <1>1. List!Reachable = allocated
    BY ListShowsQueue
  <1>2. /\ allocated' = {} /\ badAccess' = badAccess
        /\ value' = [n \in Nodes |-> Nothing] /\ next' = next
    BY <1>1 DEF List!_delete_values, List!Touch
  <1> QED
    BY <1>2, FS_EmptySet DEF ListInv, OnList, Heap

-----------------------------------------------------------------------------
(* The theorems about the queue on its list.                                *)

LEMMA InitListInv == LInit => ListInv
  <1> SUFFICES ASSUME LInit PROVE ListInv
    OBVIOUS
  <1>1. Init /\ List!Init
    BY DEF LInit
  <1>2. Typing /\ FifoExactlyOnce
    BY <1>1, TypingInit, FifoInit
  <1>3. /\ Len(queue) = 0 /\ ~ Gone /\ \A r \in Receivers : pc[r] = "idle"
    BY <1>1 DEF Init, Gone
  <1>4. PICK dummy \in Nodes :
           /\ head = dummy /\ tail = dummy /\ allocated = {dummy}
           /\ next = [n \in Nodes |-> IF n = dummy THEN NoNode ELSE dummy]
           /\ value = [n \in Nodes |-> Nothing]
           /\ badAccess = {}
    BY <1>1 DEF List!Init
  <1>5. Heap /\ Cardinality(allocated) = 1
    BY <1>4, FS_Singleton DEF Heap
  <1>6. PICK c : c = [i \in 0..0 |-> dummy]
    OBVIOUS
  <1>7. c \in [0..0 -> Nodes] /\ c[0] = dummy /\ (\A i \in 0..0 : i = 0)
    BY <1>6
  <1>8. Chain(c)
    <2>1. allocated = {c[i] : i \in 0..0}
      BY <1>4, <1>7
    <2>2. next[c[0]] = NoNode
      BY <1>4, <1>7
    <2>3. (\A i \in 0..(0 - 1) : FALSE) /\ (\A i \in 1..0 : FALSE)
      OBVIOUS
    <2> QED
      BY <1>3, <1>4, <1>7, <2>1, <2>2, <2>3 DEF Chain
  <1> QED
    BY <1>2, <1>3, <1>5, <1>7, <1>8 DEF ListInv, OnList

\* A step that changes neither the list nor the queue nor the last handle.
LEMMA ListUntouched ==
    ASSUME OnList, UNCHANGED list, UNCHANGED queue, Gone' <=> Gone,
           \A r \in Receivers : pc'[r] # "idle" => r \in receivers'
    PROVE  OnList'
  <1>1. Heap'
    BY DEF OnList, Heap, list
  <1>2. \A c : Chain(c) => Chain(c)'
    BY DEF Chain, list
  <1> QED
    BY <1>1, <1>2 DEF OnList, list

LEMMA NextListInv == ListInv /\ [LNext]_allVars => ListInv'
  <1> SUFFICES ASSUME ListInv, [LNext]_allVars PROVE ListInv'
    OBVIOUS
  <1>0. [Next]_vars
    BY ListStepsAreQueueSteps
  <1>a. Typing' /\ FifoExactlyOnce'
    BY <1>0, TypingNext, FifoNext DEF ListInv
  <1>b. OnList /\ Typing /\ queue \in Seq(Values)
    BY DEF ListInv, Typing, TypeOK
  <1>c. \A r \in Receivers : pc[r] # "idle" => r \in receivers
    BY <1>b DEF OnList
  <1> SUFFICES OnList'
    BY <1>a DEF ListInv
  <1>1. ASSUME NEW s \in Senders, NEW v \in Values, LSend(s, v)
        PROVE  OnList'
    <2>1. Send(s, v) /\ List!push_back(v)
      BY <1>1 DEF LSend
    <2>2. /\ ~ Gone /\ ~ Gone' /\ Len(sent) < MaxSends /\ queue' = Append(queue, v)
          /\ UNCHANGED receivers /\ NotifyOne
      BY <2>1 DEF Send, Gone, handles
    <2>3. \A r \in Receivers : pc'[r] # "idle" => r \in receivers'
      BY <1>b, <1>c, <2>2 DEF NotifyOne, Waiting, Typing, TypeOK
    <2> QED
      BY <2>1, <2>2, <2>3, PushKeeps DEF OnList
  <1>2. ASSUME NEW r \in Receivers, queue # <<>>, queue' = Tail(queue), List!pop_front,
               r \in receivers, UNCHANGED <<senders, receivers>>,
               \A t \in Receivers : pc'[t] # "idle" => t \in receivers'
        PROVE  OnList'
    <2>1. ~ Gone /\ ~ Gone'
      BY <1>2 DEF Gone
    <2> QED
      BY <1>2, <2>1, PopKeeps DEF OnList
  <1>3. ASSUME NEW r \in Receivers, LRecvTake(r)
        PROVE  OnList'
    <2>1. RecvTake(r) /\ List!pop_front
      BY <1>3 DEF LRecvTake
    <2>2. /\ queue # <<>> /\ queue' = Tail(queue) /\ UNCHANGED <<senders, receivers>>
          /\ r \in receivers
      BY <1>c, <2>1 DEF RecvTake, handles
    <2>3. \A t \in Receivers : pc'[t] # "idle" => t \in receivers'
      BY <1>b, <1>c, <2>1, <2>2 DEF RecvTake, Typing, TypeOK
    <2> QED
      BY <1>2, <2>1, <2>2, <2>3
  <1>4. ASSUME NEW r \in Receivers, LTryRecv(r)
        PROVE  OnList'
    <2>1. /\ r \in receivers /\ UNCHANGED <<senders, receivers, pc>> /\ ~ Gone
          /\ (queue = <<>> /\ UNCHANGED queue) \/ (queue # <<>> /\ queue' = Tail(queue))
      BY <1>4 DEF LTryRecv, TryRecv, handles, Gone
    <2>2. List!is_empty <=> queue = <<>>
      BY <2>1, ListShowsQueue
    <2>3. \A t \in Receivers : pc'[t] # "idle" => t \in receivers'
      BY <1>c, <2>1
    <2>4. CASE queue # <<>>
      <3>1. List!pop_front
        BY <1>4, <2>2, <2>4 DEF LTryRecv, List!pop_front_empty
      <3> QED
        BY <1>2, <2>1, <2>3, <2>4, <3>1
    <2>5. CASE queue = <<>>
      <3>1. UNCHANGED <<head, tail, next, value, allocated, badAccess>>
        BY <1>4, <2>2, <2>5 DEF LTryRecv, List!pop_front, List!pop_front_empty, list
      <3>2. Heap'
        BY <1>b, <3>1 DEF OnList, Heap
      <3>3. \A c : Chain(c) => Chain(c)'
        BY <2>1, <2>5, <3>1 DEF Chain
      <3> QED
        BY <1>b, <2>1, <2>3, <2>5, <3>1, <3>2, <3>3 DEF OnList, Gone
    <2> QED
      BY <2>4, <2>5
  <1>5. ASSUME ~ Gone, UNCHANGED queue,
               IF senders' \cup receivers' = {} THEN List!_delete_values ELSE UNCHANGED list,
               \A t \in Receivers : pc'[t] # "idle" => t \in receivers'
        PROVE  OnList'
    <2>1. CASE Gone'
      <3>1. List!_delete_values
        BY <1>5, <2>1 DEF Gone
      <3> QED
        BY <1>5, <2>1, <3>1, DeleteKeeps DEF OnList
    <2>2. CASE ~ Gone'
      <3>1. UNCHANGED list
        BY <1>5, <2>2 DEF Gone
      <3> QED
        BY <1>5, <1>b, <2>2, <3>1, ListUntouched
    <2> QED
      BY <2>1, <2>2
  <1>6. ASSUME NEW s \in Senders, LDrop(DropSender(s))
        PROVE  OnList'
    <2>1. DropSender(s) /\ ~ Gone /\ UNCHANGED <<queue, receivers>>
      BY <1>6 DEF LDrop, DropSender, Gone
    <2>2. \A t \in Receivers : pc'[t] # "idle" => t \in receivers'
      BY <1>b, <1>c, <2>1 DEF DropSender, NotifyAll, Typing, TypeOK
    <2> QED
      BY <1>5, <1>6, <2>1, <2>2 DEF LDrop
  <1>7. ASSUME NEW r \in Receivers, LDrop(DropReceiver(r))
        PROVE  OnList'
    <2>1. DropReceiver(r) /\ ~ Gone /\ UNCHANGED queue
      BY <1>7 DEF LDrop, DropReceiver, Gone
    <2>2. \A t \in Receivers : pc'[t] # "idle" => t \in receivers'
      BY <1>c, <2>1 DEF DropReceiver
    <2> QED
      BY <1>5, <1>7, <2>1, <2>2 DEF LDrop
  <1>8. ASSUME NEW s \in Senders, NEW t \in Senders, CopySender(s, t), UNCHANGED list
        PROVE  OnList'
    BY <1>8, <1>b, <1>c, ListUntouched DEF CopySender, Gone
  <1>9. ASSUME NEW s \in Senders, SendClosed(s), UNCHANGED list
        PROVE  OnList'
    BY <1>9, <1>b, <1>c, ListUntouched DEF SendClosed, vars, handles, Gone
  <1>10. ASSUME NEW r \in Receivers, NEW t \in Receivers, CopyReceiver(r, t), UNCHANGED list
         PROVE  OnList'
    BY <1>10, <1>b, <1>c, ListUntouched DEF CopyReceiver, Gone
  <1>11. ASSUME NEW r \in Receivers, UNCHANGED list,
                CallRecv(r) \/ RecvClosed(r) \/ RecvWait(r) \/ SpuriousWakeup(r)
         PROVE  OnList'
    <2>1. UNCHANGED <<queue, senders, receivers>> /\ r \in receivers
      BY <1>11, <1>c DEF CallRecv, RecvClosed, RecvWait, SpuriousWakeup, handles
    <2>2. \A t \in Receivers \ {r} : pc'[t] = pc[t]
      BY <1>11, <1>b DEF CallRecv, RecvClosed, RecvWait, SpuriousWakeup, Typing, TypeOK
    <2> QED
      BY <1>11, <1>b, <1>c, <2>1, <2>2, ListUntouched DEF Gone
  <1>12. CASE UNCHANGED allVars
    BY <1>12, <1>b, <1>c, ListUntouched DEF allVars, vars, handles, Gone
  <1> QED
    BY <1>1, <1>3, <1>4, <1>6, <1>7, <1>8, <1>9, <1>10, <1>11, <1>12 DEF LNext

\* The queue on its list is the queue: LSpec implements the safety part of
\* MpmcQueue!Spec, so that what holds of the queue holds of it.
THEOREM ListImplementsQueue == LSpec => Init /\ [][Next]_vars
  <1>1. LInit => Init
    BY DEF LInit
  <1> QED
    BY <1>1, ListStepsAreQueueSteps, PTL DEF LSpec

\* The nodes of the heap, the values they hold and the queue fit together.
THEOREM ListCorrect == LSpec => []ListInv
  BY InitListInv, NextListInv, PTL DEF LSpec

\* forward_list touches no node it does not hold and leaks none, the destructor
\* of the last handle included.
THEOREM HeapIntactCorrect == LSpec => []HeapIntact
  <1>1. ListInv => HeapIntact
    BY ListShowsQueue DEF HeapIntact, ListInv, OnList, Heap, Gone
  <1> QED
    BY <1>1, ListCorrect, PTL

\* push_back() and pop_front() keep the accepted values in order, and is_empty()
\* tells whether there are any.
THEOREM ListHoldsQueueCorrect == LSpec => []ListHoldsQueue
  <1>1. ListInv => ListHoldsQueue
    BY ListShowsQueue DEF ListHoldsQueue, Gone
  <1> QED
    BY <1>1, ListCorrect, PTL
=============================================================================
