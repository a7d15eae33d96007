----------------------------- MODULE Coroutine -----------------------------
(***************************************************************************)
(* Coroutines that return ft::Future<T> (CoroutinePromise) and await       *)
(* ft::Future<T> (FutureAwaiter), over the shared states of the futures.   *)
(*                                                                         *)
(* Coroutine Depth is called by the main thread.  Coroutine k > 1 calls    *)
(* coroutine k - 1 and awaits its result; coroutine 1 starts the operation *)
(* of leaf 1, awaits it, starts leaf 2, and so on: each leaf is a promise  *)
(* that a thread of its own sets once.  A state is a leaf, or the number   *)
(* of leaves plus a coroutine for the result of that coroutine.            *)
(*                                                                         *)
(* A coroutine is resumed where its value arrives: inside set_value() or   *)
(* set_callback(), below the lock_guard of the awaited state's mutex.  A   *)
(* thread's stack therefore has a frame for each coroutine it runs and for *)
(* each section that runs a callback:                                      *)
(*   <<"co", k>>   the body of coroutine k                                 *)
(*   <<"set", s>>  set_value() of s, callback running, mutex held          *)
(*   <<"cb", s>>   set_callback() of s, callback running, mutex held       *)
(* A section that runs no callback is one step, with the mutex free.       *)
(***************************************************************************)
EXTENDS Integers, Sequences, FiniteSets

CONSTANTS
    Leaves,     \* operations that coroutine 1 awaits in turn
    Depth       \* coroutines, each awaiting the one before

Co      == 1..Depth
Leaf    == 1..Leaves
Threads == 0..Leaves        \* 0 is main; thread l sets leaf l
States  == 1..(Leaves + Depth)

ASSUME CountsAssumption == Leaves \in Nat \ {0} /\ Depth \in Nat \ {0}

VARIABLES
    viaLoop,     \* the leaves are handlers of the event loop, not pool tasks
    failing,     \* the coroutine whose body throws, or 0
    stack,       \* the frames of each thread, innermost last
    pc,          \* where each coroutine stands
    awaited,     \* awaits each coroutine has done
    value,       \* _value of each state: "none", "there", "moved"
    callback,    \* states whose _callback will resume a coroutine
    promises,    \* states that a promise still refers to
    futures,     \* states that a future still refers to
    freedLocked  \* history: states freed while their mutex was held

vars == <<viaLoop, failing, stack, pc, awaited, value, callback, promises,
          futures, freedLocked>>

Result(k) == Leaves + k

Awaits(k) == IF k = 1 THEN [i \in Leaf |-> i] ELSE <<Result(k - 1)>>

\* The state coroutine k awaits next, or has just awaited.
Awaited(k) == Awaits(k)[awaited[k] + 1]

Pop(s) == SubSeq(s, 1, Len(s) - 1)

Runs(t, f) == stack[t] # <<>> /\ stack[t][Len(stack[t])] = f

Running(t, k) == Runs(t, <<"co", k>>)

Frames(f) == UNION {{<<t, i>> : i \in {j \in DOMAIN stack[t] : stack[t][j] = f}} :
                       t \in Threads}

Locked(s) == Frames(<<"set", s>>) \cup Frames(<<"cb", s>>) # {}

\* A handle of s goes: with the last one the state is freed.
Drop(s, others) ==
    freedLocked' = freedLocked \cup
        IF s \notin others /\ Locked(s) THEN {s} ELSE {}

-----------------------------------------------------------------------------

Init ==
    /\ viaLoop \in BOOLEAN
    /\ failing \in Co \cup {0}
    /\ stack = [t \in Threads |-> <<>>]
    /\ pc = [k \in Co |-> "unborn"]
    /\ awaited = [k \in Co |-> 0]
    /\ value = [s \in States |-> "none"]
    /\ callback = {} /\ promises = {} /\ futures = {} /\ freedLocked = {}

\* make_contract(): the state with one promise and one future.
Contract(s) ==
    /\ promises' = promises \cup {s}
    /\ futures' = futures \cup {s}

\* Calling coroutine k: its frame, its contract, no suspension at the start.
Enter(t, k) ==
    /\ Contract(Result(k))
    /\ stack' = [stack EXCEPT ![t] = Append(@, <<"co", k>>)]

Start ==
    /\ pc[Depth] = "unborn"
    /\ stack[0] = <<>>
    /\ Enter(0, Depth)
    /\ pc' = [pc EXCEPT ![Depth] = "body"]
    /\ UNCHANGED <<viaLoop, failing, awaited, value, callback, freedLocked>>

\* The body reaches its next co_await and evaluates the operand: the contract
\* of an operation, or the coroutine called, which runs until it suspends.
Call(t, k) ==
    /\ Running(t, k)
    /\ pc[k] = "body"
    /\ awaited[k] < Len(Awaits(k))
    /\ IF k = 1
       THEN /\ Contract(Awaited(1))
            /\ pc' = [pc EXCEPT ![1] = "ready"]
            /\ UNCHANGED stack
       ELSE /\ Enter(t, k - 1)
            /\ pc' = [pc EXCEPT ![k] = "ready", ![k - 1] = "body"]
    /\ UNCHANGED <<viaLoop, failing, awaited, value, callback, freedLocked>>

\* await_ready(): try_get().
AwaitReady(t, k) ==
    LET s == Awaited(k) IN
    /\ Running(t, k)
    /\ pc[k] = "ready"
    /\ ~Locked(s)
    /\ IF value[s] = "there"
       THEN /\ value' = [value EXCEPT ![s] = "moved"]
            /\ pc' = [pc EXCEPT ![k] = "resumed"]
       ELSE /\ pc' = [pc EXCEPT ![k] = "suspend"]
            /\ UNCHANGED value
    /\ UNCHANGED <<viaLoop, failing, stack, awaited, callback, promises, futures,
                   freedLocked>>

\* set_callback() stores the callback and does not ask for a value.
SuspendBlindly(t, k) ==
    /\ Running(t, k)
    /\ pc[k] = "suspend"
    /\ ~Locked(Awaited(k))
    /\ callback' = callback \cup {Awaited(k)}
    /\ stack' = [stack EXCEPT ![t] = Pop(@)]
    /\ pc' = [pc EXCEPT ![k] = "waiting"]
    /\ UNCHANGED <<viaLoop, failing, awaited, value, promises, futures, freedLocked>>

\* await_suspend(): set_callback().  If the value has come since await_ready()
\* the coroutine is resumed at once, inside, with the mutex held.
AwaitSuspend(t, k) ==
    LET s == Awaited(k) IN
    /\ Running(t, k)
    /\ pc[k] = "suspend"
    /\ ~Locked(s)
    /\ IF value[s] = "there"
       THEN /\ value' = [value EXCEPT ![s] = "moved"]
            /\ stack' = [stack EXCEPT ![t] = Pop(@) \o <<<<"cb", s>>, <<"co", k>>>>]
            /\ pc' = [pc EXCEPT ![k] = "resumed"]
            /\ UNCHANGED callback
       ELSE /\ callback' = callback \cup {s}
            /\ stack' = [stack EXCEPT ![t] = Pop(@)]
            /\ pc' = [pc EXCEPT ![k] = "waiting"]
            /\ UNCHANGED value
    /\ UNCHANGED <<viaLoop, failing, awaited, promises, futures, freedLocked>>

\* await_resume(); the awaiter goes at the end of the expression, and its
\* future with it.
AwaitResume(t, k) ==
    LET s == Awaited(k) IN
    /\ Running(t, k)
    /\ pc[k] = "resumed"
    /\ futures' = futures \ {s}
    /\ Drop(s, promises)
    /\ awaited' = [awaited EXCEPT ![k] = @ + 1]
    /\ pc' = [pc EXCEPT ![k] = "body"]
    /\ UNCHANGED <<viaLoop, failing, stack, value, callback, promises>>

\* set_value() stores the value and leaves the callback alone.
SetSilently(t, s, at) ==
    /\ ~Locked(s)
    /\ value' = [value EXCEPT ![s] = "there"]
    /\ pc' = at
    /\ UNCHANGED stack

\* set_value() of s by thread t: the coroutine that awaits s is resumed inside,
\* or the value stays there.  at is pc with thread t's own coroutine moved on.
SetValue(t, s, at) ==
    LET awaiter == IF s \in Leaf THEN 1 ELSE s - Leaves + 1 IN
    /\ ~Locked(s)
    /\ IF s \in callback
       THEN /\ value' = [value EXCEPT ![s] = "moved"]
            /\ stack' = [stack EXCEPT ![t] = @ \o <<<<"set", s>>, <<"co", awaiter>>>>]
            /\ pc' = [at EXCEPT ![awaiter] = "resumed"]
       ELSE /\ value' = [value EXCEPT ![s] = "there"]
            /\ pc' = at
            /\ UNCHANGED stack

\* co_return: return_value().
Return(t, k) ==
    /\ Running(t, k)
    /\ pc[k] = "body"
    /\ failing # k
    /\ awaited[k] = Len(Awaits(k))
    /\ SetValue(t, Result(k), [pc EXCEPT ![k] = "final"])
    /\ UNCHANGED <<viaLoop, failing, awaited, callback, promises, futures, freedLocked>>

\* The body throws: unhandled_exception() swallows it and sets nothing.
Throw(t, k) ==
    /\ Running(t, k)
    /\ pc[k] = "body"
    /\ failing = k
    /\ pc' = [pc EXCEPT ![k] = "final"]
    /\ UNCHANGED <<viaLoop, failing, stack, awaited, value, callback, promises,
                   futures, freedLocked>>

\* No suspension at the end: the frame is destroyed, and its promise.
Final(t, k) ==
    /\ Running(t, k)
    /\ pc[k] = "final"
    /\ promises' = promises \ {Result(k)}
    /\ Drop(Result(k), futures)
    /\ stack' = [stack EXCEPT ![t] = Pop(@)]
    /\ pc' = [pc EXCEPT ![k] = "ended"]
    /\ UNCHANGED <<viaLoop, failing, awaited, value, callback, futures>>

\* The resumed coroutine has suspended or ended: set_value() clears the
\* callback, set_callback() leaves it; both release the mutex.
EndSection(t) ==
    \E s \in States :
        /\ \/ Runs(t, <<"set", s>>) /\ callback' = callback \ {s}
           \/ Runs(t, <<"cb", s>>) /\ UNCHANGED callback
        /\ stack' = [stack EXCEPT ![t] = Pop(@)]
        /\ UNCHANGED <<viaLoop, failing, pc, awaited, value, promises, futures,
                       freedLocked>>

\* The loop does not wait for the handlers of the last round.
CompleteAnyTime(l) ==
    /\ l \in promises
    /\ value[l] = "none"
    /\ stack[l] = <<>>
    /\ SetValue(l, l, pc)
    /\ UNCHANGED <<viaLoop, failing, awaited, callback, promises, futures, freedLocked>>

\* set() on a promise that is moved from: std::move(*promise).set().
CompleteConsuming(l) ==
    /\ l \in promises
    /\ value[l] = "none"
    /\ stack[l] = <<>>
    /\ viaLoop => \A t \in Threads : stack[t] = <<>>
    /\ SetValue(l, l, pc)
    /\ promises' = promises \ {l}
    /\ UNCHANGED <<viaLoop, failing, awaited, callback, futures, freedLocked>>

\* The operation of leaf l completes and its promise is set: by a task of a
\* pool at any time, by the event loop only when no handler is running.
Complete(l) ==
    /\ l \in promises
    /\ value[l] = "none"
    /\ stack[l] = <<>>
    /\ viaLoop => \A t \in Threads : stack[t] = <<>>
    /\ SetValue(l, l, pc)
    /\ UNCHANGED <<viaLoop, failing, awaited, callback, promises, futures, freedLocked>>

\* The task or handler that has set leaf l is destroyed, and its promise.
Forget(l) ==
    /\ l \in promises
    /\ value[l] # "none"
    /\ stack[l] = <<>>
    /\ promises' = promises \ {l}
    /\ Drop(l, futures)
    /\ UNCHANGED <<viaLoop, failing, stack, pc, awaited, value, callback, futures>>

\* The main thread drops the future of the coroutine it has called.
Detach ==
    /\ stack[0] = <<>>
    /\ Result(Depth) \in futures
    /\ futures' = futures \ {Result(Depth)}
    /\ Drop(Result(Depth), promises)
    /\ UNCHANGED <<viaLoop, failing, stack, pc, awaited, value, callback, promises>>

Body(t, k) ==
    \/ Call(t, k) \/ AwaitReady(t, k) \/ AwaitSuspend(t, k) \/ AwaitResume(t, k)
    \/ Return(t, k) \/ Throw(t, k) \/ Final(t, k)

Step(t) == EndSection(t) \/ \E k \in Co : Body(t, k)

Next ==
    \/ Start \/ Detach
    \/ \E t \in Threads : Step(t)
    \/ \E l \in Leaf : Complete(l) \/ Forget(l)

\* Every thread that runs gets on, and every operation started completes.
Spec ==
    /\ Init
    /\ [][Next]_vars
    /\ \A t \in Threads : WF_vars(Step(t))
    /\ \A l \in Leaf : WF_vars(Complete(l))

-----------------------------------------------------------------------------

\* Safety: set_value() touches its state after the coroutine it resumed has
\* come back, which may have dropped the last future; the promise of whoever
\* sets the value keeps the state until then.
SettersKeepTheState ==
    \A s \in States : Frames(<<"set", s>>) # {} => s \in promises

\* Safety: with the event loop setting the leaves (echo-serv-v3) no state is
\* freed while its mutex is held.  Only set_callback() has no handle of its own
\* to keep the state: this needs that no value arrives between await_ready()
\* and await_suspend(), which a loop that waits for its handlers ensures and a
\* pool does not.
LoopIsSafe == viaLoop => freedLocked = {}

\* Safety: a coroutine is never run by two threads or twice by one, and one
\* that waits is bound to be resumed: the state it awaits has its callback and
\* no value yet, and somebody still holds the promise, unless the coroutine
\* that held it has thrown.
OneResumption ==
    \A k \in Co :
        /\ Cardinality(Frames(<<"co", k>>)) =
              IF pc[k] \in {"unborn", "waiting", "ended"} THEN 0 ELSE 1
        /\ pc[k] = "waiting" =>
              LET s == Awaited(k) IN
              /\ s \in callback \cap futures
              /\ value[s] = "none"
              /\ s \in promises \/ (failing # 0 /\ s = Result(failing))

\* Liveness: a coroutine that is called ends, every coroutine below it ends, and
\* no mutex stays locked.  When a body throws nobody is told: the coroutine
\* itself ends, and those above wait for ever.
EndsUnlessThrown ==
    pc[Depth] # "unborn" ~>
        /\ \A t \in Threads : stack[t] = <<>>
        /\ \A k \in Co :
              pc[k] \in IF failing = 0 \/ k = failing THEN {"ended"}
                        ELSE IF k > failing THEN {"waiting"}
                        ELSE {"unborn", "ended"}
=============================================================================
