------------------------------ MODULE Fastest ------------------------------
(***************************************************************************)
(* ft::futures::fastest(): every input future gets a callback that sets a  *)
(* copy of one and the same promise.  The shared state of the returned     *)
(* future is therefore set as often as inputs complete, which no other     *)
(* code of the repository does to a shared state.                          *)
(*                                                                         *)
(* A step is one critical section: the callback of an input runs under the *)
(* input's mutex, which only that thread and the caller contend for, and   *)
(* the set of the shared promise is a section of the result's mutex.       *)
(***************************************************************************)
EXTENDS Integers, Sequences

CONSTANTS Inputs, None

VARIABLES
    hasValue,      \* inputs that are complete
    hasCallback,   \* inputs that fastest() has linked
    setting,       \* inputs whose callback is about to set the promise
    sets,          \* history: the inputs in the order their values were set
    value,         \* _value of the result: the input it came from, or None
    callback,      \* _callback of the result: "none", "engaged" or "moved"
    consumer,      \* the owner of the result: "linking", "holds", "waiting", "has"
    delivered,     \* history: what block_get() or the callback got, in order
    threw          \* set_value() called the empty callback: bad_function_call

vars == <<hasValue, hasCallback, setting, sets, value, callback, consumer,
          delivered, threw>>

Init ==
    /\ hasValue = {} /\ hasCallback = {} /\ setting = {} /\ sets = <<>>
    /\ value = None
    /\ callback = "none"
    /\ consumer = "linking"
    /\ delivered = <<>>
    /\ threw = FALSE

\* Input i completes.
Complete(i) ==
    /\ i \notin hasValue
    /\ hasValue' = hasValue \cup {i}
    /\ setting' = IF i \in hasCallback THEN setting \cup {i} ELSE setting
    /\ UNCHANGED <<hasCallback, sets, value, callback, consumer, delivered, threw>>

\* fastest() links input i, whose callback runs at once if it is complete.
Link(i) ==
    /\ consumer = "linking"
    /\ i \notin hasCallback
    /\ hasCallback' = hasCallback \cup {i}
    /\ setting' = IF i \in hasValue THEN setting \cup {i} ELSE setting
    /\ UNCHANGED <<hasValue, sets, value, callback, consumer, delivered, threw>>

\* fastest() returns its future.
Return ==
    /\ consumer = "linking"
    /\ hasCallback = Inputs
    /\ consumer' = "holds"
    /\ UNCHANGED <<hasValue, hasCallback, setting, sets, value, callback, delivered, threw>>

\* set_value(): the value replaces the one before it.  A callback is moved out
\* and run; calling one that was moved out before throws.
SetValue(i) ==
    /\ i \in setting
    /\ setting' = setting \ {i}
    /\ sets' = Append(sets, i)
    /\ value' = i
    /\ \/ /\ callback = "none"
          /\ consumer' = IF consumer = "waiting" THEN "holds" ELSE consumer
          /\ UNCHANGED <<callback, delivered, threw>>
       \/ /\ callback = "engaged"
          /\ callback' = "none"
          /\ delivered' = Append(delivered, i)
          /\ UNCHANGED <<consumer, threw>>
       \/ /\ callback = "moved"
          /\ threw' = TRUE
          /\ UNCHANGED <<callback, consumer, delivered>>
    /\ UNCHANGED <<hasValue, hasCallback>>

\* block_get(), which waits while there is no value.
BlockGet ==
    /\ consumer = "holds"
    /\ IF value = None
       THEN consumer' = "waiting" /\ UNCHANGED delivered
       ELSE consumer' = "has" /\ delivered' = Append(delivered, value)
    /\ UNCHANGED <<hasValue, hasCallback, setting, sets, value, callback, threw>>

\* on_complete(): with a value there the callback runs at once, and what is
\* left of it stays in its optional.
OnComplete ==
    /\ consumer = "holds"
    /\ consumer' = "has"
    /\ IF value = None
       THEN callback' = "engaged" /\ UNCHANGED delivered
       ELSE callback' = "moved" /\ delivered' = Append(delivered, value)
    /\ UNCHANGED <<hasValue, hasCallback, setting, sets, value, threw>>

Next ==
    \/ \E i \in Inputs : Complete(i) \/ Link(i) \/ SetValue(i)
    \/ Return \/ BlockGet \/ OnComplete

Spec == Init /\ [][Next]_vars

-----------------------------------------------------------------------------

\* "fastest (like any)": the value delivered is the one that was set first.
FastestWins == Len(delivered) > 0 => delivered[1] = sets[1]
=============================================================================
