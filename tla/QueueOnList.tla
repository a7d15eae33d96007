---------------------------- MODULE QueueOnList ----------------------------
(***************************************************************************)
(* UnboundedMPMCQueue with the container it is built on: each critical     *)
(* section of MpmcQueue together with the call it makes of ForwardList,    *)
(* down to the destructor of the queue when the last handle goes.  The     *)
(* variable queue is then what the code's list must amount to.             *)
(***************************************************************************)
EXTENDS MpmcQueue

CONSTANTS
    Nodes,      \* the nodes of the heap
    NoNode,     \* nullptr
    Nothing     \* std::nullopt, and the contents of memory that holds no value

ASSUME NodesAssumption ==
    /\ Nodes \subseteq Nat /\ IsFiniteSet(Nodes)
    /\ NoNode \notin Nodes
    /\ Nothing \notin Values
    /\ Cardinality(Nodes) > MaxSends

VARIABLES head, tail, next, value, allocated, popped, badAccess

List == INSTANCE ForwardList

list == <<head, tail, next, value, allocated, popped, badAccess>>
allVars == <<vars, list>>

LInit == Init /\ List!Init

\* push(): accepted, the value is linked behind the others.
LSend(s, v) == Send(s, v) /\ List!push_back(v)

\* The end of pop(): is_empty() was false under the same lock.
LRecvTake(r) == RecvTake(r) /\ List!pop_front

\* pop_front() is called of an empty list too when a producer remains.
LTryRecv(r) ==
    /\ TryRecv(r)
    /\ IF queue = <<>> /\ producer_count = 0
       THEN UNCHANGED list
       ELSE List!pop_front \/ List!pop_front_empty

\* A handle goes, and with the last one the queue and its list.
LDrop(Drop) ==
    /\ Drop
    /\ IF senders' \cup receivers' = {}
       THEN List!_delete_values
       ELSE UNCHANGED list

LNext ==
    \/ \E s \in Senders, v \in Values : LSend(s, v)
    \/ \E r \in Receivers : LRecvTake(r) \/ LTryRecv(r)
    \/ \E s \in Senders : LDrop(DropSender(s))
    \/ \E r \in Receivers : LDrop(DropReceiver(r))
    \/ /\ \/ \E s, t \in Senders : CopySender(s, t)
          \/ \E s \in Senders : SendClosed(s)
          \/ \E r, t \in Receivers : CopyReceiver(r, t)
          \/ \E r \in Receivers :
                CallRecv(r) \/ RecvClosed(r) \/ RecvWait(r) \/ SpuriousWakeup(r)
       /\ UNCHANGED list

LRecv(r) == LRecvTake(r) \/ ((RecvClosed(r) \/ RecvWait(r)) /\ UNCHANGED list)

\* A thread that was woken or that entered recv() gets the mutex in the end.
LSpec ==
    /\ LInit
    /\ [][LNext]_allVars
    /\ \A r \in Receivers : WF_allVars(LRecv(r))

-----------------------------------------------------------------------------

\* Safety: no interleaving of senders, receivers and handles makes the list
\* dereference or free a node it does not hold, the destructor included, and
\* the nodes it holds are those reachable from the dummy, none of them when the
\* last handle is gone, whatever was still queued.
HeapIntact ==
    /\ badAccess = {}
    /\ allocated = IF senders \cup receivers = {} THEN {} ELSE List!Reachable

\* Safety: while a handle lives the list holds the accepted values that were
\* not yet taken, in order, and is_empty() tells whether there are any.
ListHoldsQueue ==
    senders \cup receivers # {} =>
        /\ List!Contents = queue
        /\ List!is_empty <=> queue = <<>>
=============================================================================
