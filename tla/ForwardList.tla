---------------------------- MODULE ForwardList ----------------------------
(***************************************************************************)
(* ft::detail::forward_list, the container of the queue: a singly linked   *)
(* list behind a dummy node that is allocated but never constructed.  Its   *)
(* operations are actions for the module that owns a list; QueueOnList      *)
(* composes them with the queue.  The heap is a set of numbered nodes; the  *)
(* allocator hands out the lowest free one, so a freed node is soon reused. *)
(*                                                                         *)
(* The copy and move operations of the class are never instantiated by the *)
(* repository and are left out.                                            *)
(***************************************************************************)
EXTENDS Integers, Sequences, FiniteSets

CONSTANTS
    Nodes,      \* the nodes the allocator has; their number bounds the list
    NoNode,     \* nullptr
    Values,
    Nothing     \* std::nullopt, and the contents of memory that holds no value

VARIABLES
    head, tail,   \* _head, _tail
    next,         \* the next field of every node
    value,        \* the value field of every node
    allocated,    \* nodes the list holds from its allocator
    popped,       \* what the last pop_front() returned
    badAccess     \* history: nodes dereferenced or freed while not allocated

vars == <<head, tail, next, value, allocated, popped, badAccess>>

\* A dereference or a deallocation of n in the state before the step.
Touch(S) == badAccess' = badAccess \cup (S \ allocated)

is_empty == head = tail

\* allocate()
Fresh == CHOOSE n \in Nodes \ allocated : \A m \in Nodes \ allocated : n <= m

-----------------------------------------------------------------------------
(* Broken forms of push_back and pop_front.                                 *)

\* pop_front() forgets that the tail node may be the one it frees.
pop_front_stale_tail ==
    /\ ~ is_empty
    /\ LET node == next[head] IN
        /\ next' = [next EXCEPT ![head] = next[node]]
        /\ popped' = value[node]
        /\ value' = [value EXCEPT ![node] = Nothing]
        /\ allocated' = allocated \ {node}
        /\ Touch({head, node})
    /\ UNCHANGED <<head, tail>>

\* pop_front() unlinks the node without giving it back.
pop_front_leak ==
    /\ ~ is_empty
    /\ LET node == next[head] IN
        /\ next' = [next EXCEPT ![head] = next[node]]
        /\ tail' = IF next[node] = NoNode THEN head ELSE tail
        /\ popped' = value[node]
        /\ value' = [value EXCEPT ![node] = Nothing]
        /\ Touch({head, node})
    /\ UNCHANGED <<head, allocated>>

\* push_back() links the new node after the dummy: a stack.
push_back_front(v) ==
    /\ head # NoNode
    /\ LET node == Fresh IN
        /\ allocated' = allocated \cup {node}
        /\ value' = [value EXCEPT ![node] = v]
        /\ next' = [next EXCEPT ![node] = next[head], ![head] = node]
        /\ tail' = IF is_empty THEN node ELSE tail
        /\ Touch({head})
    /\ UNCHANGED <<head, popped>>

-----------------------------------------------------------------------------

\* forward_list(): the dummy node alone, which is both ends.  The next fields
\* of nodes not yet handed out hold what the allocator left there, which may
\* well be a pointer.
Init ==
    \E dummy \in Nodes :
        /\ \A n \in Nodes : dummy <= n
        /\ head = dummy
        /\ tail = dummy
        /\ allocated = {dummy}
        /\ next = [n \in Nodes |-> IF n = dummy THEN NoNode ELSE dummy]
        /\ value = [n \in Nodes |-> Nothing]
        /\ popped = Nothing
        /\ badAccess = {}

\* A node constructed with next = nullptr is linked behind the tail.
push_back(v) ==
    /\ head # NoNode
    /\ LET node == Fresh IN
        /\ allocated' = allocated \cup {node}
        /\ value' = [value EXCEPT ![node] = v]
        /\ next' = [next EXCEPT ![node] = NoNode, ![tail] = node]
        /\ tail' = node
        /\ Touch({tail})
    /\ UNCHANGED <<head, popped>>

pop_front ==
    /\ ~ is_empty
    /\ LET node == next[head] IN
        /\ next' = [next EXCEPT ![head] = next[node]]
        /\ tail' = IF next[node] = NoNode THEN head ELSE tail
        /\ popped' = value[node]
        /\ value' = [value EXCEPT ![node] = Nothing]
        /\ allocated' = allocated \ {node}
        /\ Touch({head, node})
    /\ UNCHANGED head

pop_front_empty ==
    /\ head # NoNode
    /\ is_empty
    /\ popped' = Nothing
    /\ UNCHANGED <<head, tail, next, value, allocated, badAccess>>

\* The i-th node met by following next from n, or NoNode past the last.  A walk
\* is cut after as many nodes as there are, so that it ends on a cycle too.
Walk(n) ==
    LET at[i \in 0..Cardinality(Nodes)] ==
            IF i = 0 THEN n
            ELSE LET last == at[i - 1]
                 IN  IF last = NoNode THEN NoNode ELSE next[last]
    IN  at

\* The nodes reachable from the dummy.
Reachable == {Walk(head)[i] : i \in 0..Cardinality(Nodes)} \ {NoNode}

\* ~forward_list(): every node behind the dummy, then the dummy.
_delete_values ==
    /\ head # NoNode
    /\ allocated' = allocated \ Reachable
    /\ Touch(Reachable)
    /\ value' = [n \in Nodes |-> Nothing]
    /\ head' = NoNode
    /\ tail' = NoNode
    /\ UNCHANGED <<next, popped>>

-----------------------------------------------------------------------------

\* The values behind the dummy.
Behind == {i \in 1..Cardinality(Nodes) : Walk(head)[i] # NoNode}
Contents == [i \in Behind |-> value[Walk(head)[i]]]
=============================================================================
