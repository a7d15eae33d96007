------------------------------ MODULE Channel ------------------------------
(***************************************************************************)
(* What a user of ft::mpmc::channel<T>() may rely on, with no mutex, no    *)
(* condition variable and no reference counts: a FIFO buffer that accepts  *)
(* a value while some receiver lives, from which a blocked receiver takes  *)
(* the head in one step, and which reports "closed" to a receiver exactly  *)
(* when it is drained and every sender is gone.                            *)
(*                                                                         *)
(* MpmcQueue implements this specification (see ImplementsChannel there).  *)
(***************************************************************************)
EXTENDS Sequences

CONSTANTS Senders, Receivers, Values, FirstSender, FirstReceiver

VARIABLES
    buf,        \* accepted and not yet taken values
    producers,  \* living senders
    consumers,  \* living receivers
    calling     \* receivers inside recv()

vars == <<buf, producers, consumers, calling>>

Init ==
    /\ buf = <<>>
    /\ producers = {FirstSender}
    /\ consumers = {FirstReceiver}
    /\ calling = {}

\* Handles come and go: a copy is made from a living handle, and a receiver
\* is not destroyed under a running recv().
Handles ==
    /\ UNCHANGED <<buf, calling>>
    /\ \/ /\ producers # {}
          /\ \E s \in Senders \ producers : producers' = producers \cup {s}
          /\ UNCHANGED consumers
       \/ /\ \E s \in producers : producers' = producers \ {s}
          /\ UNCHANGED consumers
       \/ /\ consumers # {}
          /\ \E r \in Receivers \ consumers : consumers' = consumers \cup {r}
          /\ UNCHANGED producers
       \/ /\ \E r \in consumers \ calling : consumers' = consumers \ {r}
          /\ UNCHANGED producers

Send ==
    /\ producers # {}
    /\ consumers # {}
    /\ \E v \in Values : buf' = Append(buf, v)
    /\ UNCHANGED <<producers, consumers, calling>>

Call ==
    /\ \E r \in consumers \ calling : calling' = calling \cup {r}
    /\ UNCHANGED <<buf, producers, consumers>>

\* A blocked receiver returns with the oldest value.
Take ==
    /\ buf # <<>>
    /\ buf' = Tail(buf)
    /\ \E r \in calling : calling' = calling \ {r}
    /\ UNCHANGED <<producers, consumers>>

\* try_recv() takes the oldest value without blocking.
TryTake ==
    /\ buf # <<>>
    /\ consumers \ calling # {}
    /\ buf' = Tail(buf)
    /\ UNCHANGED <<producers, consumers, calling>>

\* A blocked receiver returns "closed".
Closed(r) ==
    /\ buf = <<>>
    /\ producers = {}
    /\ r \in calling
    /\ calling' = calling \ {r}
    /\ UNCHANGED <<buf, producers, consumers>>

Next ==
    Handles \/ Send \/ Call \/ Take \/ TryTake \/ \E r \in Receivers : Closed(r)

\* A value never stays in the channel while somebody is blocked in recv(),
\* and nobody stays blocked on a channel that is closed and drained.
Spec ==
    /\ Init
    /\ [][Next]_vars
    /\ WF_vars(Take)
    /\ \A r \in Receivers : WF_vars(Closed(r))
=============================================================================
