----------------------------- MODULE MpmcQueue -----------------------------
(***************************************************************************)
(* ft::detail::UnboundedMPMCQueue and its handles ft::mpmc::Sender and     *)
(* ft::mpmc::Receiver.                                                     *)
(*                                                                         *)
(* One action is one critical section of _mutex.  pop() is a loop around a *)
(* condition variable, so it is several: entering recv(), and then, each   *)
(* time the thread holds the mutex at the head of the loop, one of         *)
(* "take", "report closed" or "wait".  A handle that was moved from holds  *)
(* no queue and counts for nothing, so a move is no step: a handle here is *)
(* a live reference to the queue, wherever it is stored.                   *)
(***************************************************************************)
EXTENDS Integers, Sequences, FiniteSets

CONSTANTS
    Senders, Receivers,           \* the handles that may ever exist
    FirstSender, FirstReceiver,   \* the pair channel() returns
    Values,                       \* what is sent
    MaxSends                      \* bound: values accepted in a behaviour

ASSUME HandleAssumption ==
    /\ FirstSender \in Senders
    /\ FirstReceiver \in Receivers
    /\ IsFiniteSet(Senders)
    /\ IsFiniteSet(Receivers)

ASSUME BoundAssumption == MaxSends \in Nat

VARIABLES
    queue,            \* _queue, oldest value first
    producer_count,   \* _producer_count
    consumder_count,  \* _consumder_count
    senders,          \* the Sender objects that are alive
    receivers,        \* the Receiver objects that are alive
    pc,               \* where the thread that owns a receiver is
    sent,             \* history: the values push() accepted, in order
    received,         \* history: the values pop() and try_pop() returned
    sawClosed         \* history: receivers that were told "closed"

counts == <<producer_count, consumder_count>>
handles == <<senders, receivers>>
history == <<sent, received, sawClosed>>
vars == <<queue, counts, handles, pc, history>>

\* idle: outside recv();  awake: at the head of the loop of pop(), needing
\* the mutex;  waiting: blocked in _not_empty.wait().
Locations == {"idle", "awake", "waiting"}

Awake == {r \in Receivers : pc[r] = "awake"}
Waiting == {r \in Receivers : pc[r] = "waiting"}

\* _not_empty.notify_one(): some waiter, if there is one, leaves the wait set.
NotifyOne ==
    IF Waiting = {}
    THEN UNCHANGED pc
    ELSE \E r \in Waiting : pc' = [pc EXCEPT ![r] = "awake"]

\* _not_empty.notify_all()
NotifyAll ==
    pc' = [r \in Receivers |-> IF pc[r] = "waiting" THEN "awake" ELSE pc[r]]

-----------------------------------------------------------------------------
(* Broken forms of the operations below: each is one a plausible edit of    *)
(* the code would give, and breaks one of the properties of this module.    *)

\* A defaulted copy constructor shares the queue without counting.
CopySenderUncounted(s, t) ==
    /\ s \in senders
    /\ t \in Senders \ senders
    /\ senders' = senders \cup {t}
    /\ UNCHANGED <<queue, counts, receivers, pc, history>>

\* The destructor of the last sender wakes nobody.
DropSenderSilently(s) ==
    /\ s \in senders
    /\ senders' = senders \ {s}
    /\ producer_count' = producer_count - 1
    /\ UNCHANGED <<queue, consumder_count, receivers, pc, history>>

\* push() notifies only when the queue was empty.
SendNotifyIfEmpty(s, v) ==
    /\ s \in senders
    /\ consumder_count # 0
    /\ Len(sent) < MaxSends
    /\ queue' = Append(queue, v)
    /\ IF queue = <<>> THEN NotifyOne ELSE UNCHANGED pc
    /\ sent' = Append(sent, v)
    /\ UNCHANGED <<counts, handles, received, sawClosed>>

\* pop() returns the head and leaves it in the queue.
RecvPeek(r) ==
    /\ pc[r] = "awake"
    /\ queue # <<>>
    /\ received' = Append(received, Head(queue))
    /\ pc' = [pc EXCEPT ![r] = "idle"]
    /\ UNCHANGED <<queue, counts, handles, sent, sawClosed>>

\* pop() takes an empty queue for a closed one.
RecvClosedWhenEmpty(r) ==
    /\ pc[r] = "awake"
    /\ queue = <<>>
    /\ pc' = [pc EXCEPT ![r] = "idle"]
    /\ sawClosed' = sawClosed \cup {r}
    /\ UNCHANGED <<queue, counts, handles, sent, received>>

\* pop() tests the producers before the queue.
RecvClosedUndrained(r) ==
    /\ pc[r] = "awake"
    /\ producer_count = 0
    /\ pc' = [pc EXCEPT ![r] = "idle"]
    /\ sawClosed' = sawClosed \cup {r}
    /\ UNCHANGED <<queue, counts, handles, sent, received>>

-----------------------------------------------------------------------------

\* channel(): a fresh queue with both counts at one and one handle of a kind.
Init ==
    /\ queue = <<>>
    /\ producer_count = 1
    /\ consumder_count = 1
    /\ senders = {FirstSender}
    /\ receivers = {FirstReceiver}
    /\ pc = [r \in Receivers |-> "idle"]
    /\ sent = <<>>
    /\ received = <<>>
    /\ sawClosed = {}

\* Sender(const Sender &)
CopySender(s, t) ==
    /\ s \in senders
    /\ t \in Senders \ senders
    /\ senders' = senders \cup {t}
    /\ producer_count' = producer_count + 1
    /\ UNCHANGED <<queue, consumder_count, receivers, pc, history>>

\* ~Sender()
DropSender(s) ==
    /\ s \in senders
    /\ senders' = senders \ {s}
    /\ producer_count' = producer_count - 1
    /\ IF producer_count - 1 = 0 THEN NotifyAll ELSE UNCHANGED pc
    /\ UNCHANGED <<queue, consumder_count, receivers, history>>

\* Receiver(const Receiver &)
CopyReceiver(r, t) ==
    /\ r \in receivers
    /\ t \in Receivers \ receivers
    /\ receivers' = receivers \cup {t}
    /\ consumder_count' = consumder_count + 1
    /\ UNCHANGED <<queue, producer_count, senders, pc, history>>

\* ~Receiver(), by the thread that owns the receiver.
DropReceiver(r) ==
    /\ r \in receivers
    /\ pc[r] = "idle"
    /\ receivers' = receivers \ {r}
    /\ consumder_count' = consumder_count - 1
    /\ UNCHANGED <<queue, producer_count, senders, pc, history>>

\* Sender::send(), accepted.
Send(s, v) ==
    /\ s \in senders
    /\ consumder_count # 0
    /\ Len(sent) < MaxSends
    /\ queue' = Append(queue, v)
    /\ NotifyOne
    /\ sent' = Append(sent, v)
    /\ UNCHANGED <<counts, handles, received, sawClosed>>

\* Sender::send(), refused: the value is dropped and the caller gets "closed".
SendClosed(s) ==
    /\ s \in senders
    /\ consumder_count = 0
    /\ UNCHANGED vars

\* Receiver::recv() is called.
CallRecv(r) ==
    /\ r \in receivers
    /\ pc[r] = "idle"
    /\ pc' = [pc EXCEPT ![r] = "awake"]
    /\ UNCHANGED <<queue, counts, handles, history>>

\* The loop of pop() ends: the head of the queue is moved out.
RecvTake(r) ==
    /\ pc[r] = "awake"
    /\ queue # <<>>
    /\ queue' = Tail(queue)
    /\ received' = Append(received, Head(queue))
    /\ pc' = [pc EXCEPT ![r] = "idle"]
    /\ UNCHANGED <<counts, handles, sent, sawClosed>>

\* The loop of pop() finds the queue drained and no producer left.
RecvClosed(r) ==
    /\ pc[r] = "awake"
    /\ queue = <<>>
    /\ producer_count = 0
    /\ pc' = [pc EXCEPT ![r] = "idle"]
    /\ sawClosed' = sawClosed \cup {r}
    /\ UNCHANGED <<queue, counts, handles, sent, received>>

\* The loop of pop() blocks, giving the mutex up.
RecvWait(r) ==
    /\ pc[r] = "awake"
    /\ queue = <<>>
    /\ producer_count # 0
    /\ pc' = [pc EXCEPT ![r] = "waiting"]
    /\ UNCHANGED <<queue, counts, handles, history>>

\* wait() may return without a notification.
SpuriousWakeup(r) ==
    /\ pc[r] = "waiting"
    /\ pc' = [pc EXCEPT ![r] = "awake"]
    /\ UNCHANGED <<queue, counts, handles, history>>

\* Receiver::try_recv(): closed, nothing there, or the head.
TryRecv(r) ==
    /\ r \in receivers
    /\ pc[r] = "idle"
    /\ \/ /\ queue = <<>>
          /\ producer_count = 0
          /\ sawClosed' = sawClosed \cup {r}
          /\ UNCHANGED <<queue, received>>
       \/ /\ queue # <<>>
          /\ queue' = Tail(queue)
          /\ received' = Append(received, Head(queue))
          /\ UNCHANGED sawClosed
       \/ /\ queue = <<>>
          /\ producer_count # 0
          /\ UNCHANGED <<queue, received, sawClosed>>
    /\ UNCHANGED <<counts, handles, pc, sent>>

Recv(r) == RecvTake(r) \/ RecvClosed(r) \/ RecvWait(r)

Next ==
    \/ \E s, t \in Senders : CopySender(s, t)
    \/ \E s \in Senders : DropSender(s) \/ SendClosed(s)
    \/ \E s \in Senders, v \in Values : Send(s, v)
    \/ \E r, t \in Receivers : CopyReceiver(r, t)
    \/ \E r \in Receivers :
          \/ DropReceiver(r) \/ CallRecv(r) \/ TryRecv(r)
          \/ RecvTake(r) \/ RecvClosed(r) \/ RecvWait(r) \/ SpuriousWakeup(r)

\* A thread that was woken or that entered recv() gets the mutex in the end.
Fairness == \A r \in Receivers : WF_vars(Recv(r))

Spec == Init /\ [][Next]_vars /\ Fairness

-----------------------------------------------------------------------------

TypeOK ==
    /\ queue \in Seq(Values)
    /\ producer_count \in Nat
    /\ consumder_count \in Nat
    /\ senders \subseteq Senders
    /\ receivers \subseteq Receivers
    /\ pc \in [Receivers -> Locations]
    /\ sent \in Seq(Values)
    /\ received \in Seq(Values)
    /\ sawClosed \subseteq Receivers

\* The two counters that decide "closed" are the numbers of living handles,
\* so neither side is declared gone early or kept alive by a handle that
\* was destroyed or moved from.
CountsMatchHandles ==
    /\ producer_count = Cardinality(senders)
    /\ consumder_count = Cardinality(receivers)

\* notify_one is called once per push() and a woken thread may find the
\* queue emptied by another: still, as long as some thread sleeps in wait(),
\* for every queued value some other thread is on its way to the mutex.
NoLostWakeup == Waiting # {} => Len(queue) <= Cardinality(Awake)

\* The notify_all of the last ~Sender() leaves nobody asleep, and nobody
\* falls asleep afterwards.
ClosedReleasesWaiters == producer_count = 0 => Waiting = {}

\* Every accepted value is taken at most once and in the order of send().
FifoExactlyOnce == sent = received \o queue

\* "closed" is a final answer: once one receiver was told so, no value is
\* accepted or delivered any more and no sender comes back.
ClosedIsFinal ==
    [][sawClosed # {} => /\ sent' = sent
                         /\ received' = received
                         /\ senders' = {}]_vars

\* Receivers inside recv(), whether running or asleep.
Calling == Awake \cup Waiting

Abstract ==
    INSTANCE Channel WITH buf <- queue, producers <- senders,
                          consumers <- receivers, calling <- Calling

\* The queue with its lock, wait set and counters behaves as the channel
\* that has none, liveness included.
ImplementsChannel == Abstract!Spec

\* The part of ImplementsChannel that is about safety.
ImplementsChannelSafety == Abstract!Init /\ [][Abstract!Next]_(Abstract!vars)
=============================================================================
