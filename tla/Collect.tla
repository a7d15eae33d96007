------------------------------ MODULE Collect ------------------------------
(***************************************************************************)
(* ft::futures::collect() over the shared states it links: one per input   *)
(* future, the container that counts, and the one of the future returned.  *)
(*                                                                         *)
(* Every shared state runs its callback while it holds its own mutex, so a *)
(* completing input holds its mutex while it enters the container, and the *)
(* container's while it sets the result.  A step is one critical section,  *)
(* or the part of it up to the next mutex.  The caller of collect() is one *)
(* more thread: it links the inputs while they complete, and then blocks   *)
(* in block_get(), which is how ExecutionContext::loop() waits for all the *)
(* handlers of a batch.                                                    *)
(***************************************************************************)
EXTENDS Integers, Sequences, FiniteSets

CONSTANTS N    \* how many futures are collected

ASSUME NAssumption == N \in Nat

Inputs == 1..N
Caller == 0
Threads == Inputs \cup {Caller}   \* thread i completes the promise of input i
Free == -1                        \* a mutex that nobody holds

VARIABLES
    required,       \* _required_amount: the n_expected of the call
    hasValue,       \* per input: _value is set
    hasCallback,    \* per input: _callback is set
    inputMutex,     \* per input: who holds _mutex
    values,         \* _values of the container: the inputs added, in order
    contCallback,   \* _callback of the container is set
    contMutex,      \* who holds the container's _mutex
    result,         \* _value of the returned future, <<>> until it is set
    resultSets,     \* history: how often the result was set
    pc,             \* per thread
    linking         \* the input that the caller links, or links next

vars == <<required, hasValue, hasCallback, inputMutex, values, contCallback,
          contMutex, result, resultSets, pc, linking>>

container == <<values, contCallback, contMutex>>
outcome == <<result, resultSets>>

\* The input whose callback thread t is running.
InputOf(t) == IF t = Caller THEN linking ELSE t

\* Where a thread goes on when the callback of its input has returned.
AfterAdd(t) == IF t = Caller THEN "next" ELSE "done"

Elements(s) == {s[i] : i \in 1..Len(s)}

-----------------------------------------------------------------------------
(* Broken forms of the operations below.                                    *)

\* set_callback() of an input stores the callback without a look at the value.
LinkStoresOnly ==
    /\ pc[Caller] = "link"
    /\ linking \in Inputs
    /\ inputMutex[linking] = Free
    /\ hasCallback' = [hasCallback EXCEPT ![linking] = TRUE]
    /\ pc' = [pc EXCEPT ![Caller] = "next"]
    /\ UNCHANGED <<required, hasValue, inputMutex, linking, container, outcome>>

\* add_value() counts the value it is about to push as missing.
AddOffByOne(t) ==
    /\ pc[t] = "add"
    /\ contMutex = Free
    /\ values' = Append(values, InputOf(t))
    /\ IF Len(values) >= required /\ contCallback
       THEN /\ pc' = [pc EXCEPT ![t] = "deliver"]
            /\ contMutex' = t
            /\ UNCHANGED inputMutex
       ELSE /\ pc' = [pc EXCEPT ![t] = AfterAdd(t)]
            /\ inputMutex' = [inputMutex EXCEPT ![InputOf(t)] = Free]
            /\ UNCHANGED contMutex
    /\ UNCHANGED <<required, hasValue, hasCallback, contCallback, outcome, linking>>

\* add_value() delivers at the first value.
AddEager(t) ==
    /\ pc[t] = "add"
    /\ contMutex = Free
    /\ values' = Append(values, InputOf(t))
    /\ IF contCallback
       THEN /\ pc' = [pc EXCEPT ![t] = "deliver"]
            /\ contMutex' = t
            /\ UNCHANGED inputMutex
       ELSE /\ pc' = [pc EXCEPT ![t] = AfterAdd(t)]
            /\ inputMutex' = [inputMutex EXCEPT ![InputOf(t)] = Free]
            /\ UNCHANGED contMutex
    /\ UNCHANGED <<required, hasValue, hasCallback, contCallback, outcome, linking>>

\* add_value() keeps the callback after it ran.
DeliverKeeping(t) ==
    /\ pc[t] = "deliver"
    /\ result' = values
    /\ resultSets' = resultSets + 1
    /\ contMutex' = Free
    /\ inputMutex' = [inputMutex EXCEPT ![InputOf(t)] = Free]
    /\ pc' = [pc EXCEPT ![t] = AfterAdd(t), ![Caller] =
                 IF pc[Caller] = "waiting" THEN "get" ELSE @]
    /\ UNCHANGED <<required, hasValue, hasCallback, values, contCallback, linking>>

\* The container's callback is run with its mutex locked by hand, and left so.
DeliverLocked(t) ==
    /\ pc[t] = "deliver"
    /\ result' = values
    /\ resultSets' = resultSets + 1
    /\ contCallback' = FALSE
    /\ inputMutex' = [inputMutex EXCEPT ![InputOf(t)] = Free]
    /\ pc' = [pc EXCEPT ![t] = AfterAdd(t), ![Caller] =
                 IF pc[Caller] = "waiting" THEN "get" ELSE @]
    /\ UNCHANGED <<required, hasValue, hasCallback, values, contMutex, linking>>

\* set_value() notifies only the threads that wait for a callback.
DeliverSilently(t) ==
    /\ pc[t] = "deliver"
    /\ result' = values
    /\ resultSets' = resultSets + 1
    /\ contCallback' = FALSE
    /\ contMutex' = Free
    /\ inputMutex' = [inputMutex EXCEPT ![InputOf(t)] = Free]
    /\ pc' = [pc EXCEPT ![t] = AfterAdd(t)]
    /\ UNCHANGED <<required, hasValue, hasCallback, values, linking>>
-----------------------------------------------------------------------------

Init ==
    /\ required \in 0..N
    /\ hasValue = [i \in Inputs |-> FALSE]
    /\ hasCallback = [i \in Inputs |-> FALSE]
    /\ inputMutex = [i \in Inputs |-> Free]
    /\ values = <<>>
    /\ contCallback = FALSE
    /\ contMutex = Free
    /\ result = <<>>
    /\ resultSets = 0
    /\ pc = [t \in Threads |-> IF t = Caller THEN "link" ELSE "set"]
    /\ linking = 1

(* a thread that completes its input *)

\* set_value() of an input: with a callback it goes on to run it, holding the
\* mutex; without one it is done.
SetValue(i) ==
    /\ pc[i] = "set"
    /\ inputMutex[i] = Free
    /\ hasValue' = [hasValue EXCEPT ![i] = TRUE]
    /\ IF hasCallback[i]
       THEN pc' = [pc EXCEPT ![i] = "add"] /\ inputMutex' = [inputMutex EXCEPT ![i] = i]
       ELSE pc' = [pc EXCEPT ![i] = "done"] /\ UNCHANGED inputMutex
    /\ UNCHANGED <<required, hasCallback, linking, container, outcome>>

\* The callback of an input, run by whoever completes or links it, under the
\* input's mutex: add_value().  The value that reaches the amount, and any
\* later one that still finds the callback there, goes on to deliver.
Add(t) ==
    /\ pc[t] = "add"
    /\ contMutex = Free
    /\ values' = Append(values, InputOf(t))
    /\ IF Len(values) + 1 >= required /\ contCallback
       THEN /\ pc' = [pc EXCEPT ![t] = "deliver"]
            /\ contMutex' = t
            /\ UNCHANGED inputMutex
       ELSE /\ pc' = [pc EXCEPT ![t] = AfterAdd(t)]
            /\ inputMutex' = [inputMutex EXCEPT ![InputOf(t)] = Free]
            /\ UNCHANGED contMutex
    /\ UNCHANGED <<required, hasValue, hasCallback, contCallback, outcome, linking>>

\* The container's callback under both mutexes: the result is set, which wakes
\* the caller; then the callback is dropped and both mutexes are given up.
Deliver(t) ==
    /\ pc[t] = "deliver"
    /\ result' = values
    /\ resultSets' = resultSets + 1
    /\ contCallback' = FALSE
    /\ contMutex' = Free
    /\ inputMutex' = [inputMutex EXCEPT ![InputOf(t)] = Free]
    /\ pc' = [pc EXCEPT ![t] = AfterAdd(t), ![Caller] =
                 IF pc[Caller] = "waiting" THEN "get" ELSE @]
    /\ UNCHANGED <<required, hasValue, hasCallback, values, linking>>

(* the caller of collect() *)

\* on_complete() of the next input: the callback is stored, and run at once,
\* under the mutex, if the value is already there.
Link ==
    /\ pc[Caller] = "link"
    /\ linking \in Inputs
    /\ inputMutex[linking] = Free
    /\ hasCallback' = [hasCallback EXCEPT ![linking] = TRUE]
    /\ IF hasValue[linking]
       THEN /\ pc' = [pc EXCEPT ![Caller] = "add"]
            /\ inputMutex' = [inputMutex EXCEPT ![linking] = Caller]
       ELSE /\ pc' = [pc EXCEPT ![Caller] = "next"]
            /\ UNCHANGED inputMutex
    /\ UNCHANGED <<required, hasValue, linking, container, outcome>>

LinkNext ==
    /\ pc[Caller] = "next"
    /\ linking' = linking + 1
    /\ pc' = [pc EXCEPT ![Caller] = "link"]
    /\ UNCHANGED <<required, hasValue, hasCallback, inputMutex, container, outcome>>

\* on_complete() of the container: with enough values there the callback runs
\* at once and is never stored, otherwise it is stored.
LinkContainer ==
    /\ pc[Caller] = "link"
    /\ linking = N + 1
    /\ contMutex = Free
    /\ IF Len(values) >= required
       THEN /\ result' = values
            /\ resultSets' = resultSets + 1
            /\ UNCHANGED contCallback
       ELSE /\ contCallback' = TRUE
            /\ UNCHANGED outcome
    /\ pc' = [pc EXCEPT ![Caller] = "get"]
    /\ UNCHANGED <<required, hasValue, hasCallback, inputMutex, values, contMutex, linking>>

\* block_get() on the returned future: the value, or wait for it.
BlockGet ==
    /\ pc[Caller] = "get"
    /\ pc' = [pc EXCEPT ![Caller] = IF resultSets > 0 THEN "returned" ELSE "waiting"]
    /\ UNCHANGED <<required, hasValue, hasCallback, inputMutex, linking, container, outcome>>

Next ==
    \/ \E i \in Inputs : SetValue(i)
    \/ \E t \in Threads : Add(t) \/ Deliver(t)
    \/ Link \/ LinkNext \/ LinkContainer \/ BlockGet

\* The caller runs on, and a thread inside a callback leaves it.  That the
\* tasks behind the inputs end is assumed where a property needs it.
Fairness ==
    /\ WF_vars(Link \/ LinkNext \/ LinkContainer \/ BlockGet)
    /\ \A t \in Threads : WF_vars(Add(t) \/ Deliver(t))

Spec == Init /\ [][Next]_vars /\ Fairness

-----------------------------------------------------------------------------

TypeOK ==
    /\ required \in 0..N
    /\ hasValue \in [Inputs -> BOOLEAN]
    /\ hasCallback \in [Inputs -> BOOLEAN]
    /\ inputMutex \in [Inputs -> Threads \cup {Free}]
    /\ values \in Seq(Inputs)
    /\ contCallback \in BOOLEAN
    /\ contMutex \in Threads \cup {Free}
    /\ result \in Seq(Inputs)
    /\ resultSets \in Nat
    /\ pc \in [Threads -> {"set", "add", "deliver", "done", "link", "next", "get",
                           "waiting", "returned"}]
    /\ linking \in 1..N + 1

\* Each input reaches the container exactly once, whether the thread that
\* completes it or the one that links it comes first, unless one of the two
\* is still on its way.
EveryInputAddedOnce ==
    \A i \in Inputs :
        LET added == Cardinality({k \in 1..Len(values) : values[k] = i})
        IN  IF hasValue[i] /\ hasCallback[i] /\ inputMutex[i] = Free
            THEN added = 1
            ELSE added <= IF hasValue[i] /\ hasCallback[i] THEN 1 ELSE 0

\* The barrier: the caller gets on only after n_expected inputs have completed,
\* and what it gets starts with the first ones to be added, in that order.
Barrier ==
    pc[Caller] = "returned" =>
        /\ Cardinality({i \in Inputs : hasValue[i]}) >= required
        /\ Len(result) >= required
        /\ \A k \in 1..Len(result) : result[k] = values[k]

\* The promise of the returned future is set exactly once: the value that
\* reaches the amount, a later value and the caller that links the container
\* cannot each find the callback to run, and the amount cannot be passed over
\* between the two ways to reach it.
ResultSetOnce ==
    /\ resultSets <= 1
    /\ (/\ Len(values) >= required
        /\ contMutex = Free
        /\ pc[Caller] \in {"get", "waiting"}) => resultSets = 1

\* Nobody waits for a mutex in a circle: the callback of an input comes back,
\* although it runs under two mutexes and takes a third.
CallbacksEnd ==
    \A t \in Threads : (pc[t] \in {"add", "deliver"}) ~> (pc[t] \in {AfterAdd(t), "link"})

\* If n_expected inputs complete, block_get() returns.
CallerReturns ==
    (Cardinality({i \in Inputs : hasValue[i]}) >= required) ~> (pc[Caller] = "returned")
=============================================================================
