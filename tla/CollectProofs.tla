---------------------------- MODULE CollectProofs ----------------------------
(***************************************************************************)
(* Proofs about Collect, for any number of inputs and any n_expected.      *)
(***************************************************************************)
EXTENDS Collect, TLAPS, FiniteSetTheorems, SequenceTheorems

\* Where the threads can be; the caller never delivers, since the container has
\* no callback before the caller has linked all inputs.
CollectTypes ==
    /\ required \in 0..N
    /\ hasValue \in [Inputs -> BOOLEAN]
    /\ hasCallback \in [Inputs -> BOOLEAN]
    /\ inputMutex \in [Inputs -> Threads \cup {Free}]
    /\ values \in Seq(Inputs)
    /\ contCallback \in BOOLEAN
    /\ contMutex \in Inputs \cup {Free}
    /\ result \in Seq(Inputs)
    /\ resultSets \in Nat
    /\ DOMAIN pc = Threads /\ pc = [t \in Threads |-> pc[t]]
    /\ \A i \in Inputs : pc[i] \in {"set", "add", "deliver", "done"}
    /\ pc[Caller] \in {"link", "add", "next", "get", "waiting", "returned"}
    /\ linking \in 1..(N + 1)

\* Thread t runs the callback of input i.
Runs(t, i) == InputOf(t) = i /\ pc[t] \in {"add", "deliver"}

\* A callback runs under the mutex of its input, and with it under no other
\* thread's hands; the container's mutex is held to deliver.
Held ==
    /\ \A i \in Inputs, t \in Threads : inputMutex[i] = t <=> Runs(t, i)
    /\ \A i \in Inputs : contMutex = i <=> pc[i] = "deliver"
    /\ contMutex # Free => contCallback

\* How far the two ways to a callback are: completing the input and linking it.
Progress ==
    /\ \A i \in Inputs :
          /\ hasValue[i] <=> pc[i] # "set"
          /\ pc[i] \in {"add", "deliver"} => hasCallback[i]
          /\ hasCallback[i] <=>
                i < linking \/ (i = linking /\ pc[Caller] \in {"add", "next"})
    /\ pc[Caller] = "add" => linking \in Inputs /\ hasValue[linking]
    /\ pc[Caller] = "next" => linking \in Inputs
    /\ pc[Caller] \in {"get", "waiting", "returned"} => linking = N + 1

\* An input is in the container when both have happened, but for one whose
\* callback has not got there yet, and it is there once.
AddedOnce ==
    /\ \A j, k \in 1..Len(values) : values[j] = values[k] => j = k
    /\ \A i \in Inputs :
          i \in Elements(values) <=>
             /\ hasValue[i] /\ hasCallback[i]
             /\ \A t \in Threads : InputOf(t) = i => pc[t] # "add"

\* The callback of the container is stored and not run, or run once; what is
\* missing for it to run is missing from the values too.
SetOnce ==
    /\ pc[Caller] \in {"link", "add", "next"} => ~contCallback /\ resultSets = 0
    /\ pc[Caller] \in {"get", "waiting", "returned"} =>
          resultSets = (IF contCallback THEN 0 ELSE 1)
    /\ contCallback => (contMutex = Free <=> Len(values) < required)
    /\ pc[Caller] = "returned" => resultSets = 1
    /\ resultSets = 1 =>
          /\ required <= Len(result) /\ Len(result) <= Len(values)
          /\ \A k \in 1..Len(result) : result[k] = values[k]

CollectInv == CollectTypes /\ Held /\ Progress /\ AddedOnce /\ SetOnce

-----------------------------------------------------------------------------

\* The caller is no input, and a free mutex is held by none of them.
LEMMA Names ==
    /\ Caller \notin Inputs /\ Free \notin Threads
    /\ Inputs \subseteq Threads /\ Caller \in Threads
    /\ \A t \in Threads : t \in Inputs \/ t = Caller
    /\ \A i \in Inputs : i \in Nat /\ i >= 1 /\ i <= N /\ InputOf(i) = i
    /\ InputOf(Caller) = linking
  BY NAssumption DEF Inputs, Threads, Caller, Free, InputOf

\* add_value() puts one value behind the others.
LEMMA Appended ==
    ASSUME NEW s \in Seq(Inputs), NEW x \in Inputs
    PROVE  /\ Append(s, x) \in Seq(Inputs)
           /\ Len(s) \in Nat /\ Len(Append(s, x)) = Len(s) + 1
           /\ \A k \in 1..Len(s) : Append(s, x)[k] = s[k]
           /\ Append(s, x)[Len(s) + 1] = x
           /\ Elements(Append(s, x)) = Elements(s) \cup {x}
  <1> DEFINE both == Append(s, x)
  <1>1. /\ both \in Seq(Inputs)
        /\ Len(s) \in Nat /\ Len(both) = Len(s) + 1
        /\ \A k \in 1..Len(s) : both[k] = s[k]
        /\ both[Len(s) + 1] = x
    BY AppendProperties, LenProperties
  <1> HIDE DEF both
  <1>2. ASSUME NEW y PROVE y \in Elements(both) <=> y \in Elements(s) \cup {x}
    <2>1. 1..(Len(s) + 1) = 1..Len(s) \cup {Len(s) + 1}
      BY <1>1
    <2> QED
      BY <1>1, <2>1 DEF Elements
  <1> QED
    BY <1>1, <1>2 DEF both

\* No value twice before, and the new one is not there: no value twice after.
LEMMA StillOnce ==
    ASSUME NEW s \in Seq(Inputs), NEW x \in Inputs, x \notin Elements(s),
           \A j, k \in 1..Len(s) : s[j] = s[k] => j = k
    PROVE  \A j, k \in 1..Len(Append(s, x)) :
              Append(s, x)[j] = Append(s, x)[k] => j = k
  <1> DEFINE both == Append(s, x)
  <1>1. /\ Len(s) \in Nat /\ Len(both) = Len(s) + 1
        /\ \A k \in 1..Len(s) : both[k] = s[k]
        /\ both[Len(s) + 1] = x
    BY Appended
  <1> HIDE DEF both
  <1>2. ASSUME NEW k \in 1..Len(s) PROVE both[k] # x
    BY <1>1, <1>2 DEF Elements
  <1>3. 1..Len(both) = 1..Len(s) \cup {Len(s) + 1}
    BY <1>1
  <1> QED
    BY <1>1, <1>2, <1>3 DEF both

\* Nothing is complete, linked or added yet.
LEMMA InitCollect == Init => CollectInv
  <1> SUFFICES ASSUME Init PROVE CollectInv
    OBVIOUS
  <1>1. CollectTypes
    <2>1. /\ DOMAIN pc = Threads /\ pc = [t \in Threads |-> pc[t]]
          /\ pc[Caller] = "link" /\ \A i \in Inputs : pc[i] = "set"
      BY Names DEF Init
    <2>2. <<>> \in Seq(Inputs) /\ 1 \in 1..(N + 1)
      BY EmptySeq, NAssumption
    <2> QED
      BY <2>1, <2>2 DEF Init, CollectTypes
  <1>2. Held
    BY Names DEF Init, Held, Runs
  <1>3. Progress
    BY Names DEF Init, Progress
  <1>4. AddedOnce
    BY Names DEF Init, AddedOnce, Elements
  <1>5. SetOnce
    BY Names DEF Init, SetOnce
  <1> QED
    BY <1>1, <1>2, <1>3, <1>4, <1>5 DEF CollectInv

\* set_value() of an input: nobody runs its callback yet, and from now on at
\* most the thread that completes it.
LEMMA SetValueKeeps ==
    ASSUME CollectInv, NEW i \in Inputs, SetValue(i)
    PROVE  CollectInv'
  <1> USE DEF CollectInv
  <1>0. /\ pc[i] = "set" /\ inputMutex[i] = Free /\ ~hasValue[i]
        /\ UNCHANGED <<required, hasCallback, linking, values, contCallback,
                       contMutex, result, resultSets>>
    BY DEF SetValue, container, outcome, Progress
  <1>1. /\ hasValue'[i] = TRUE
        /\ \A j \in Inputs : j # i => hasValue'[j] = hasValue[j]
        /\ hasValue' \in [Inputs -> BOOLEAN]
    BY DEF SetValue, CollectTypes
  <1>2. /\ pc'[i] = IF hasCallback[i] THEN "add" ELSE "done"
        /\ \A t \in Threads : t # i => pc'[t] = pc[t]
        /\ DOMAIN pc' = Threads /\ pc' = [t \in Threads |-> pc'[t]]
    BY Names DEF SetValue, CollectTypes
  <1>3. /\ inputMutex'[i] = IF hasCallback[i] THEN i ELSE Free
        /\ \A j \in Inputs : j # i => inputMutex'[j] = inputMutex[j]
        /\ inputMutex' \in [Inputs -> Threads \cup {Free}]
    <2>1. inputMutex \in [Inputs -> Threads \cup {Free}] /\ i \in Threads
      BY Names DEF CollectTypes
    <2>2. inputMutex' = IF hasCallback[i] THEN [inputMutex EXCEPT ![i] = i] ELSE inputMutex
      BY DEF SetValue
    <2> QED
      BY <1>0, <2>1, <2>2
  <1>4. CollectTypes'
    BY <1>0, <1>1, <1>2, <1>3, Names DEF CollectTypes
  <1>5. Held'
    <2>1. ASSUME NEW j \in Inputs, NEW t \in Threads
          PROVE  inputMutex'[j] = t <=> Runs(t, j)'
      <3>1. inputMutex[j] = t <=> Runs(t, j)
        BY DEF Held
      <3>2. InputOf(t)' = InputOf(t)
        BY <1>0 DEF InputOf
      <3>3. CASE j = i
        BY <1>0, <1>2, <1>3, <3>1, <3>2, <3>3, Names DEF Runs
      <3>4. CASE j # i
        BY <1>0, <1>2, <1>3, <3>1, <3>2, <3>4, Names DEF Runs
      <3> QED
        BY <3>3, <3>4
    <2>2. ASSUME NEW j \in Inputs PROVE contMutex' = j <=> pc'[j] = "deliver"
      BY <1>0, <1>2, Names DEF Held
    <2> QED
      BY <1>0, <2>1, <2>2 DEF Held
  <1>6. Progress'
    BY <1>0, <1>1, <1>2, Names DEF Progress
  <1>7. AddedOnce'
    <2>1. ASSUME NEW j \in Inputs
          PROVE  j \in Elements(values)' <=>
                    /\ hasValue'[j] /\ hasCallback'[j]
                    /\ \A t \in Threads : InputOf(t)' = j => pc'[t] # "add"
      <3>1. \A t \in Threads : InputOf(t)' = InputOf(t)
        BY <1>0 DEF InputOf
      <3>2. CASE j = i
        BY <1>0, <1>1, <1>2, <3>1, <3>2, Names DEF AddedOnce, Elements
      <3>3. CASE j # i
        BY <1>0, <1>1, <1>2, <3>1, <3>3, Names DEF AddedOnce, Elements
      <3> QED
        BY <3>2, <3>3
    <2> QED
      BY <1>0, <2>1 DEF AddedOnce
  <1>8. SetOnce'
    BY <1>0, <1>2, Names DEF SetOnce
  <1> QED
    BY <1>4, <1>5, <1>6, <1>7, <1>8

\* What adding needs to know: the thread runs the callback of an input that is
\* complete and linked, and not yet in the container.
LEMMA AddingOne ==
    ASSUME CollectInv, NEW t \in Threads, pc[t] = "add"
    PROVE  /\ InputOf(t) \in Inputs /\ InputOf(t) \notin Elements(values)
           /\ hasValue[InputOf(t)] /\ hasCallback[InputOf(t)]
           /\ inputMutex[InputOf(t)] = t
           /\ \A u \in Threads : u # t /\ InputOf(u) = InputOf(t) =>
                 pc[u] \notin {"add", "deliver"}
  <1> USE DEF CollectInv
  <1>1. InputOf(t) \in Inputs /\ hasValue[InputOf(t)] /\ hasCallback[InputOf(t)]
    <2>1. CASE t \in Inputs
      BY <2>1, Names DEF Progress
    <2>2. CASE t = Caller
      BY <2>2, Names DEF Progress
    <2> QED
      BY <2>1, <2>2, Names
  <1>2. InputOf(t) \notin Elements(values)
    BY <1>1 DEF AddedOnce
  <1>3. \A u \in Threads : inputMutex[InputOf(t)] = u <=> Runs(u, InputOf(t))
    BY <1>1 DEF Held
  <1> QED
    BY <1>1, <1>2, <1>3 DEF Runs

\* add_value(): the value is in the container; the callback goes on to deliver,
\* or returns and gives up the input's mutex.
LEMMA AddKeeps ==
    ASSUME CollectInv, NEW t \in Threads, Add(t)
    PROVE  CollectInv'
  <1> USE DEF CollectInv
  <1> DEFINE x == InputOf(t)
             full == Len(values) + 1 >= required /\ contCallback
  <1>0. /\ pc[t] = "add" /\ contMutex = Free /\ values' = Append(values, x)
        /\ UNCHANGED <<required, hasValue, hasCallback, contCallback, linking,
                       result, resultSets>>
    BY DEF Add, outcome
  <1>1. /\ x \in Inputs /\ x \notin Elements(values)
        /\ hasValue[x] /\ hasCallback[x] /\ inputMutex[x] = t
        /\ \A u \in Threads : u # t /\ InputOf(u) = x => pc[u] \notin {"add", "deliver"}
    BY <1>0, AddingOne
  <1>2. full => t \in Inputs
    BY <1>0, Names DEF SetOnce
  <1>3. \A u \in Threads : InputOf(u)' = InputOf(u)
    BY <1>0 DEF InputOf
  <1> HIDE DEF x
  <1>4. /\ pc'[t] = IF full THEN "deliver" ELSE AfterAdd(t)
        /\ \A u \in Threads : u # t => pc'[u] = pc[u]
        /\ DOMAIN pc' = Threads /\ pc' = [u \in Threads |-> pc'[u]]
    BY DEF Add, CollectTypes
  <1>5. /\ contMutex' = IF full THEN t ELSE Free
        /\ inputMutex'[x] = IF full THEN t ELSE Free
        /\ \A j \in Inputs : j # x => inputMutex'[j] = inputMutex[j]
        /\ inputMutex' \in [Inputs -> Threads \cup {Free}]
    <2>1. inputMutex \in [Inputs -> Threads \cup {Free}]
      BY DEF CollectTypes
    <2>2. inputMutex' = IF full THEN inputMutex ELSE [inputMutex EXCEPT ![x] = Free]
      BY DEF Add, x
    <2>3. contMutex' = IF full THEN t ELSE contMutex
      BY DEF Add
    <2> QED
      BY <1>0, <1>1, <2>1, <2>2, <2>3
  <1>6. /\ values' \in Seq(Inputs) /\ values \in Seq(Inputs)
        /\ Len(values) \in Nat /\ Len(values') = Len(values) + 1
        /\ \A k \in 1..Len(values) : values'[k] = values[k]
        /\ Elements(values') = Elements(values) \cup {x}
    BY <1>0, <1>1, Appended DEF CollectTypes
  <1>7. pc'[t] \in {"deliver", "done", "next"} /\ (t = Caller => pc'[t] = "next")
        /\ (t \in Inputs => pc'[t] \in {"deliver", "done"})
    BY <1>2, <1>4, Names DEF AfterAdd
  <1> HIDE DEF full
  <1>8. CollectTypes'
    <2>1. contMutex' \in Inputs \cup {Free}
      BY <1>2, <1>5
    <2>2. \A i \in Inputs : pc'[i] \in {"set", "add", "deliver", "done"}
      BY <1>4, <1>7, Names DEF CollectTypes
    <2>3. pc'[Caller] \in {"link", "add", "next", "get", "waiting", "returned"}
      BY <1>4, <1>7, Names DEF CollectTypes
    <2> QED
      BY <1>0, <1>4, <1>5, <1>6, <2>1, <2>2, <2>3 DEF CollectTypes
  <1>9. Held'
    <2>1. ASSUME NEW j \in Inputs, NEW u \in Threads
          PROVE  inputMutex'[j] = u <=> Runs(u, j)'
      <3>1. inputMutex[j] = u <=> Runs(u, j)
        BY DEF Held
      <3>2. Runs(u, j)' <=> InputOf(u) = j /\ pc'[u] \in {"add", "deliver"}
        BY <1>3 DEF Runs
      <3>3. CASE u = t
        <4>1. pc'[t] \in {"add", "deliver"} <=> full
          BY <1>4, <1>7 DEF AfterAdd
        <4> QED
          BY <1>0, <1>1, <1>5, <3>1, <3>2, <3>3, <4>1, Names DEF Runs, x
      <3>4. CASE u # t
        BY <1>1, <1>4, <1>5, <3>1, <3>2, <3>4, Names DEF Runs
      <3> QED
        BY <3>3, <3>4
    <2>2. ASSUME NEW j \in Inputs PROVE contMutex' = j <=> pc'[j] = "deliver"
      <3>1. ~(pc[j] = "deliver")
        BY <1>0, Names DEF Held
      <3>2. CASE j = t
        <4>1. pc'[t] = "deliver" <=> full
          BY <1>4 DEF AfterAdd
        <4> QED
          BY <1>5, <3>2, <4>1, Names
      <3>3. CASE j # t
        BY <1>4, <1>5, <3>1, <3>3, Names
      <3> QED
        BY <3>2, <3>3
    <2>3. contMutex' # Free => contCallback'
      BY <1>0, <1>5 DEF full
    <2> QED
      BY <2>1, <2>2, <2>3 DEF Held
  <1>10. Progress'
    <2>1. pc[Caller] \in {"add", "next"} <=> pc'[Caller] \in {"add", "next"}
      <3>1. CASE t = Caller
        BY <1>0, <1>7, <3>1
      <3>2. CASE t # Caller
        BY <1>4, <3>2, Names
      <3> QED
        BY <3>1, <3>2
    <2>2. pc'[Caller] # "add" \/ pc'[Caller] = pc[Caller]
      BY <1>4, <1>7, Names
    <2>3. pc'[Caller] = "next" => linking \in Inputs
      BY <1>0, <1>4, Names DEF Progress
    <2>4. pc'[Caller] \in {"get", "waiting", "returned"} => pc'[Caller] = pc[Caller]
      BY <1>4, <1>7, Names
    <2>5. ASSUME NEW i \in Inputs
          PROVE  /\ hasValue'[i] <=> pc'[i] # "set"
                 /\ pc'[i] \in {"add", "deliver"} => hasCallback'[i]
      <3>1. CASE i = t
        BY <1>0, <1>1, <1>7, <3>1, Names DEF x
      <3>2. CASE i # t
        BY <1>0, <1>4, <3>2, Names DEF Progress
      <3> QED
        BY <3>1, <3>2
    <2> QED
      BY <1>0, <2>1, <2>2, <2>3, <2>4, <2>5 DEF Progress
  <1>11. AddedOnce'
    <2>1. \A j, k \in 1..Len(values') : values'[j] = values'[k] => j = k
      BY <1>0, <1>1, <1>6, StillOnce DEF AddedOnce
    <2>2. ASSUME NEW j \in Inputs
          PROVE  j \in Elements(values') <=>
                    /\ hasValue'[j] /\ hasCallback'[j]
                    /\ \A u \in Threads : InputOf(u)' = j => pc'[u] # "add"
      <3>1. CASE j = x
        BY <1>0, <1>1, <1>3, <1>4, <1>6, <1>7, <3>1
      <3>2. CASE j # x
        <4>1. \A u \in Threads : InputOf(u) = j => u # t
          BY <3>2 DEF x
        <4> QED
          BY <1>0, <1>3, <1>4, <1>6, <3>2, <4>1 DEF AddedOnce
      <3> QED
        BY <3>1, <3>2
    <2>3. Elements(values)' = Elements(values')
      BY DEF Elements
    <2> QED
      BY <2>1, <2>2, <2>3 DEF AddedOnce
  <1>12. SetOnce'
    <2>1. required \in Nat
      BY NAssumption DEF CollectTypes
    <2>2. pc'[Caller] \in {"link", "add", "next"} <=> pc[Caller] \in {"link", "add", "next"}
      BY <1>0, <1>4, <1>7, Names
    <2>3. pc'[Caller] \in {"get", "waiting", "returned"} => pc'[Caller] = pc[Caller]
      BY <1>4, <1>7, Names
    <2>4. contCallback => (contMutex' = Free <=> Len(values') < required)
      <3>1. CASE full
        BY <1>2, <1>5, <1>6, <2>1, <3>1, Names DEF full
      <3>2. CASE ~full
        BY <1>5, <1>6, <2>1, <3>2 DEF full
      <3> QED
        BY <3>1, <3>2
    <2>5. resultSets = 1 =>
             /\ required <= Len(result) /\ Len(result) <= Len(values')
             /\ \A k \in 1..Len(result) : result[k] = values'[k]
      <3>1. Len(result) \in Nat
        BY LenProperties DEF CollectTypes
      <3> QED
        BY <1>6, <3>1 DEF SetOnce
    <2> QED
      BY <1>0, <2>2, <2>3, <2>4, <2>5 DEF SetOnce
  <1> QED
    BY <1>8, <1>9, <1>10, <1>11, <1>12

\* The container's callback: the result is all values added so far, which are
\* as many as were asked for, and it is set for the first time.
LEMMA DeliverKeeps ==
    ASSUME CollectInv, NEW t \in Threads, Deliver(t)
    PROVE  CollectInv'
  <1> USE DEF CollectInv
  <1>0. /\ pc[t] = "deliver" /\ result' = values /\ resultSets' = resultSets + 1
        /\ contCallback' = FALSE /\ contMutex' = Free
        /\ UNCHANGED <<required, hasValue, hasCallback, values, linking>>
    BY DEF Deliver
  <1>1. t \in Inputs /\ t # Caller /\ InputOf(t) = t /\ AfterAdd(t) = "done"
    BY <1>0, Names DEF CollectTypes, AfterAdd
  <1>2. /\ contMutex = t /\ contCallback /\ inputMutex[t] = t
        /\ \A j \in Inputs : j # t => pc[j] # "deliver"
    BY <1>0, <1>1, Names DEF Held, Runs
  <1>3. /\ pc[Caller] \in {"get", "waiting"}
        /\ resultSets = 0 /\ required <= Len(values)
    <2>1. pc[Caller] \in {"get", "waiting"}
      BY <1>2 DEF CollectTypes, SetOnce
    <2>2. required \in Nat /\ Len(values) \in Nat
      BY LenProperties, NAssumption DEF CollectTypes
    <2>3. ~(Len(values) < required)
      BY <1>1, <1>2, Names DEF SetOnce
    <2> QED
      BY <1>2, <2>1, <2>2, <2>3 DEF SetOnce
  <1>4. /\ pc'[t] = "done" /\ pc'[Caller] = "get"
        /\ \A u \in Threads : u # t /\ u # Caller => pc'[u] = pc[u]
        /\ DOMAIN pc' = Threads /\ pc' = [u \in Threads |-> pc'[u]]
    <2>1. pc' = [pc EXCEPT ![t] = "done", ![Caller] =
                    IF pc[Caller] = "waiting" THEN "get" ELSE @]
      BY <1>1 DEF Deliver
    <2>2. DOMAIN pc = Threads /\ Caller \in Threads
      BY Names DEF CollectTypes
    <2> QED
      BY <1>1, <1>3, <2>1, <2>2
  <1>5. /\ inputMutex'[t] = Free
        /\ \A j \in Inputs : j # t => inputMutex'[j] = inputMutex[j]
        /\ inputMutex' \in [Inputs -> Threads \cup {Free}]
    BY <1>1 DEF Deliver, CollectTypes
  <1>6. \A u \in Threads : InputOf(u)' = InputOf(u)
    BY <1>0 DEF InputOf
  <1>7. CollectTypes'
    <2>1. \A i \in Inputs : pc'[i] \in {"set", "add", "deliver", "done"}
      BY <1>4, Names DEF CollectTypes
    <2>2. result' \in Seq(Inputs) /\ resultSets' \in Nat
      BY <1>0, <1>3 DEF CollectTypes
    <2>3. /\ required' \in 0..N /\ hasValue' \in [Inputs -> BOOLEAN]
          /\ hasCallback' \in [Inputs -> BOOLEAN] /\ values' \in Seq(Inputs)
          /\ linking' \in 1..(N + 1)
      BY <1>0 DEF CollectTypes
    <2> QED
      BY <1>0, <1>4, <1>5, <2>1, <2>2, <2>3 DEF CollectTypes
  <1>8. Held'
    <2>1. ASSUME NEW j \in Inputs, NEW u \in Threads
          PROVE  inputMutex'[j] = u <=> Runs(u, j)'
      <3>1. /\ inputMutex[j] = u <=> Runs(u, j)
            /\ Runs(u, j)' <=> InputOf(u) = j /\ pc'[u] \in {"add", "deliver"}
        BY <1>6 DEF Held, Runs
      <3>2. CASE u = t
        BY <1>1, <1>2, <1>4, <1>5, <3>1, <3>2, Names DEF Runs
      <3>3. CASE u = Caller
        BY <1>2, <1>3, <1>4, <1>5, <3>1, <3>3, Names DEF Runs
      <3>4. CASE u # t /\ u # Caller
        BY <1>2, <1>4, <1>5, <3>1, <3>4, Names DEF Runs
      <3> QED
        BY <3>2, <3>3, <3>4
    <2>2. ASSUME NEW j \in Inputs PROVE contMutex' = j <=> pc'[j] = "deliver"
      BY <1>0, <1>2, <1>4, Names
    <2> QED
      BY <1>0, <2>1, <2>2 DEF Held
  <1>9. Progress'
    <2>1. ASSUME NEW i \in Inputs
          PROVE  /\ hasValue'[i] <=> pc'[i] # "set"
                 /\ pc'[i] \in {"add", "deliver"} => hasCallback'[i]
      <3>1. CASE i = t
        BY <1>0, <1>4, <3>1 DEF Progress
      <3>2. CASE i # t
        BY <1>0, <1>4, <3>2, Names DEF Progress
      <3> QED
        BY <3>1, <3>2
    <2> QED
      BY <1>0, <1>3, <1>4, <2>1 DEF Progress
  <1>10. AddedOnce'
    <2>1. \A u \in Threads : pc'[u] = "add" <=> pc[u] = "add"
      BY <1>0, <1>3, <1>4
    <2> QED
      BY <1>0, <1>6, <2>1 DEF AddedOnce, Elements
  <1>11. SetOnce'
    BY <1>0, <1>3, <1>4, LenProperties DEF SetOnce, CollectTypes
  <1> QED
    BY <1>7, <1>8, <1>9, <1>10, <1>11

\* on_complete() of an input: its callback is there from now on, and run by the
\* caller if the value came before.
LEMMA LinkKeeps ==
    ASSUME CollectInv, Link
    PROVE  CollectInv'
  <1> USE DEF CollectInv
  <1>0. /\ pc[Caller] = "link" /\ linking \in Inputs /\ inputMutex[linking] = Free
        /\ UNCHANGED <<required, hasValue, linking, values, contCallback,
                       contMutex, result, resultSets>>
    BY DEF Link, container, outcome
  <1>1. /\ pc'[Caller] = IF hasValue[linking] THEN "add" ELSE "next"
        /\ \A i \in Inputs : pc'[i] = pc[i]
        /\ DOMAIN pc' = Threads /\ pc' = [u \in Threads |-> pc'[u]]
    BY Names DEF Link, CollectTypes
  <1>2. /\ hasCallback'[linking] = TRUE
        /\ \A i \in Inputs : i # linking => hasCallback'[i] = hasCallback[i]
        /\ hasCallback' \in [Inputs -> BOOLEAN]
    BY <1>0 DEF Link, CollectTypes
  <1>3. /\ inputMutex'[linking] = IF hasValue[linking] THEN Caller ELSE Free
        /\ \A j \in Inputs : j # linking => inputMutex'[j] = inputMutex[j]
        /\ inputMutex' \in [Inputs -> Threads \cup {Free}]
    <2>1. inputMutex \in [Inputs -> Threads \cup {Free}] /\ Caller \in Threads
      BY Names DEF CollectTypes
    <2>2. inputMutex' = IF hasValue[linking] THEN [inputMutex EXCEPT ![linking] = Caller]
                        ELSE inputMutex
      BY DEF Link
    <2> QED
      BY <1>0, <2>1, <2>2
  <1>4. \A u \in Threads : InputOf(u)' = InputOf(u)
    BY <1>0 DEF InputOf
  <1>5. ~hasCallback[linking] /\ pc[linking] \notin {"add", "deliver"}
    BY <1>0, Names DEF Progress
  <1>6. CollectTypes'
    BY <1>0, <1>1, <1>2, <1>3 DEF CollectTypes
  <1>7. Held'
    <2>1. ASSUME NEW j \in Inputs, NEW u \in Threads
          PROVE  inputMutex'[j] = u <=> Runs(u, j)'
      <3>1. /\ inputMutex[j] = u <=> Runs(u, j)
            /\ Runs(u, j)' <=> InputOf(u) = j /\ pc'[u] \in {"add", "deliver"}
        BY <1>4 DEF Held, Runs
      <3>2. CASE u = Caller
        BY <1>0, <1>1, <1>3, <3>1, <3>2, Names DEF Runs
      <3>3. CASE u # Caller
        BY <1>0, <1>1, <1>3, <1>5, <3>1, <3>3, Names DEF Runs
      <3> QED
        BY <3>2, <3>3
    <2>2. ASSUME NEW j \in Inputs PROVE contMutex' = j <=> pc'[j] = "deliver"
      BY <1>0, <1>1 DEF Held
    <2> QED
      BY <1>0, <2>1, <2>2 DEF Held
  <1>8. Progress'
    <2>1. ASSUME NEW i \in Inputs
          PROVE  /\ hasValue'[i] <=> pc'[i] # "set"
                 /\ pc'[i] \in {"add", "deliver"} => hasCallback'[i]
                 /\ hasCallback'[i] <=>
                       i < linking \/ (i = linking /\ pc'[Caller] \in {"add", "next"})
      <3>1. CASE i = linking
        BY <1>0, <1>1, <1>2, <3>1 DEF Progress
      <3>2. CASE i # linking
        BY <1>0, <1>1, <1>2, <3>2 DEF Progress
      <3> QED
        BY <3>1, <3>2
    <2> QED
      BY <1>0, <1>1, <2>1 DEF Progress
  <1>9. AddedOnce'
    <2>1. ASSUME NEW j \in Inputs
          PROVE  j \in Elements(values) <=>
                    /\ hasValue[j] /\ hasCallback'[j]
                    /\ \A u \in Threads : InputOf(u) = j => pc'[u] # "add"
      <3>1. CASE j = linking
        BY <1>0, <1>1, <1>2, <1>5, <3>1, Names DEF AddedOnce
      <3>2. CASE j # linking
        BY <1>0, <1>1, <1>2, <3>2, Names DEF AddedOnce
      <3> QED
        BY <3>1, <3>2
    <2> QED
      BY <1>0, <1>4, <2>1 DEF AddedOnce, Elements
  <1>10. SetOnce'
    BY <1>0, <1>1 DEF SetOnce
  <1> QED
    BY <1>6, <1>7, <1>8, <1>9, <1>10

\* The caller goes on to the next input, which no other thread has linked.
LEMMA LinkNextKeeps ==
    ASSUME CollectInv, LinkNext
    PROVE  CollectInv'
  <1> USE DEF CollectInv
  <1>0. /\ pc[Caller] = "next" /\ linking' = linking + 1 /\ linking \in Inputs
        /\ UNCHANGED <<required, hasValue, hasCallback, inputMutex, values,
                       contCallback, contMutex, result, resultSets>>
    BY DEF LinkNext, container, outcome, Progress
  <1>1. /\ pc'[Caller] = "link"
        /\ \A i \in Inputs : pc'[i] = pc[i]
        /\ DOMAIN pc' = Threads /\ pc' = [u \in Threads |-> pc'[u]]
    <2>1. pc' = [pc EXCEPT ![Caller] = "link"]
      BY DEF LinkNext
    <2>2. DOMAIN pc = Threads
      BY DEF CollectTypes
    <2> QED
      BY <2>1, <2>2, Names
  <1>2. \A i \in Inputs : InputOf(i)' = i
    BY Names DEF InputOf
  <1>3. linking' \in 1..(N + 1)
    BY <1>0, NAssumption DEF Inputs
  <1>4. CollectTypes'
    BY <1>0, <1>1, <1>3 DEF CollectTypes
  <1>5. Held'
    <2>1. ASSUME NEW j \in Inputs, NEW u \in Threads
          PROVE  inputMutex'[j] = u <=> Runs(u, j)'
      <3>1. inputMutex[j] = u <=> Runs(u, j)
        BY DEF Held
      <3>2. CASE u = Caller
        BY <1>0, <1>1, <3>1, <3>2 DEF Runs
      <3>3. CASE u # Caller
        BY <1>0, <1>1, <1>2, <3>1, <3>3, Names DEF Runs
      <3> QED
        BY <3>2, <3>3
    <2> QED
      BY <1>0, <1>1, <2>1 DEF Held
  <1>6. Progress'
    BY <1>0, <1>1, Names DEF Progress
  <1>7. AddedOnce'
    <2>1. ASSUME NEW j \in Inputs
          PROVE  (\A u \in Threads : InputOf(u) = j => pc[u] # "add") <=>
                 (\A u \in Threads : InputOf(u)' = j => pc'[u] # "add")
      BY <1>0, <1>1, <1>2, Names
    <2> QED
      BY <1>0, <2>1 DEF AddedOnce, Elements
  <1>8. SetOnce'
    BY <1>0, <1>1 DEF SetOnce
  <1> QED
    BY <1>4, <1>5, <1>6, <1>7, <1>8

\* on_complete() of the container, after all inputs: the values are enough, and
\* the result is set at once, or the callback is stored.
LEMMA LinkContainerKeeps ==
    ASSUME CollectInv, LinkContainer
    PROVE  CollectInv'
  <1> USE DEF CollectInv
  <1>0. /\ pc[Caller] = "link" /\ linking = N + 1 /\ contMutex = Free
        /\ UNCHANGED <<required, hasValue, hasCallback, inputMutex, values,
                       contMutex, linking>>
    BY DEF LinkContainer
  <1>1. /\ pc'[Caller] = "get"
        /\ \A i \in Inputs : pc'[i] = pc[i]
        /\ DOMAIN pc' = Threads /\ pc' = [u \in Threads |-> pc'[u]]
    <2>1. pc' = [pc EXCEPT ![Caller] = "get"]
      BY DEF LinkContainer
    <2>2. DOMAIN pc = Threads
      BY DEF CollectTypes
    <2> QED
      BY <2>1, <2>2, Names
  <1>2. \A u \in Threads : InputOf(u)' = InputOf(u)
    BY <1>0 DEF InputOf
  <1>3. ~contCallback /\ resultSets = 0
    BY <1>0 DEF SetOnce
  <1>4. \/ /\ ~(Len(values) < required)
           /\ result' = values /\ resultSets' = 1 /\ contCallback' = FALSE
        \/ /\ Len(values) < required
           /\ result' = result /\ resultSets' = 0 /\ contCallback' = TRUE
    <2>1. Len(values) \in Nat /\ required \in Nat
      BY LenProperties, NAssumption DEF CollectTypes
    <2>2. contCallback \in BOOLEAN
      BY DEF CollectTypes
    <2>3. CASE Len(values) >= required
      <3>1. result' = values /\ resultSets' = resultSets + 1 /\ contCallback' = contCallback
        BY <2>3 DEF LinkContainer
      <3> QED
        BY <1>3, <2>1, <2>2, <2>3, <3>1
    <2>4. CASE ~(Len(values) >= required)
      <3>1. result' = result /\ resultSets' = resultSets /\ contCallback' = TRUE
        BY <2>4 DEF LinkContainer, outcome
      <3> QED
        BY <1>3, <2>1, <2>4, <3>1
    <2> QED
      BY <2>3, <2>4
  <1>5. CollectTypes'
    <2>1. /\ contCallback' \in BOOLEAN /\ result' \in Seq(Inputs) /\ resultSets' \in Nat
      <3>1. values \in Seq(Inputs) /\ result \in Seq(Inputs)
        BY DEF CollectTypes
      <3>2. contCallback' \in BOOLEAN
        BY <1>4
      <3>3. result' = values \/ result' = result
        BY <1>4
      <3>4. resultSets' = 0 \/ resultSets' = 1
        BY <1>4
      <3> QED
        BY <3>1, <3>2, <3>3, <3>4
    <2> QED
      BY <1>0, <1>1, <2>1 DEF CollectTypes
  <1>6. Held'
    <2>1. ASSUME NEW j \in Inputs, NEW u \in Threads
          PROVE  inputMutex'[j] = u <=> Runs(u, j)'
      BY <1>0, <1>1, <1>2, Names DEF Held, Runs
    <2> QED
      BY <1>0, <1>1, <2>1 DEF Held
  <1>7. Progress'
    BY <1>0, <1>1, Names DEF Progress
  <1>8. AddedOnce'
    <2>1. ASSUME NEW j \in Inputs
          PROVE  (\A u \in Threads : InputOf(u) = j => pc[u] # "add") <=>
                 (\A u \in Threads : InputOf(u)' = j => pc'[u] # "add")
      BY <1>0, <1>1, <1>2, Names
    <2> QED
      BY <1>0, <2>1 DEF AddedOnce, Elements
  <1>9. SetOnce'
    <2>1. Len(values) \in Nat /\ required \in Nat
      BY LenProperties, NAssumption DEF CollectTypes
    <2> QED
      BY <1>0, <1>1, <1>4, <2>1 DEF SetOnce
  <1> QED
    BY <1>5, <1>6, <1>7, <1>8, <1>9

\* block_get() returns only a result that is there.
LEMMA BlockGetKeeps ==
    ASSUME CollectInv, BlockGet
    PROVE  CollectInv'
  <1> USE DEF CollectInv
  <1>0. /\ pc[Caller] = "get"
        /\ UNCHANGED <<required, hasValue, hasCallback, inputMutex, values,
                       contCallback, contMutex, linking, result, resultSets>>
    BY DEF BlockGet, container, outcome
  <1>1. /\ pc'[Caller] = IF resultSets > 0 THEN "returned" ELSE "waiting"
        /\ \A i \in Inputs : pc'[i] = pc[i]
        /\ DOMAIN pc' = Threads /\ pc' = [u \in Threads |-> pc'[u]]
    <2>1. pc' = [pc EXCEPT ![Caller] = IF resultSets > 0 THEN "returned" ELSE "waiting"]
      BY DEF BlockGet
    <2>2. DOMAIN pc = Threads
      BY DEF CollectTypes
    <2> QED
      BY <2>1, <2>2, Names
  <1>2. \A u \in Threads : InputOf(u)' = InputOf(u)
    BY <1>0 DEF InputOf
  <1>3. CollectTypes'
    BY <1>0, <1>1 DEF CollectTypes
  <1>4. Held'
    <2>1. ASSUME NEW j \in Inputs, NEW u \in Threads
          PROVE  inputMutex'[j] = u <=> Runs(u, j)'
      BY <1>0, <1>1, <1>2, Names DEF Held, Runs
    <2> QED
      BY <1>0, <1>1, <2>1 DEF Held
  <1>5. Progress'
    BY <1>0, <1>1, Names DEF Progress
  <1>6. AddedOnce'
    <2>1. ASSUME NEW j \in Inputs
          PROVE  (\A u \in Threads : InputOf(u) = j => pc[u] # "add") <=>
                 (\A u \in Threads : InputOf(u)' = j => pc'[u] # "add")
      BY <1>0, <1>1, <1>2, Names
    <2> QED
      BY <1>0, <2>1 DEF AddedOnce, Elements
  <1>7. SetOnce'
    BY <1>0, <1>1 DEF SetOnce
  <1> QED
    BY <1>3, <1>4, <1>5, <1>6, <1>7

\* Every step keeps the invariant.
LEMMA NextKeepsCollect == CollectInv /\ [Next]_vars => CollectInv'
  <1> SUFFICES ASSUME CollectInv, [Next]_vars PROVE CollectInv'
    OBVIOUS
  <1>1. CASE UNCHANGED vars
    <2> USE <1>1 DEF vars, CollectInv
    <2>1. CollectTypes' /\ Progress' /\ SetOnce'
      BY DEF CollectTypes, Progress, SetOnce
    <2>2. Held' /\ AddedOnce'
      BY DEF Held, Runs, AddedOnce, Elements, InputOf
    <2> QED
      BY <2>1, <2>2
  <1> QED
    BY <1>1, SetValueKeeps, AddKeeps, DeliverKeeps, LinkKeeps, LinkNextKeeps,
       LinkContainerKeeps, BlockGetKeeps
    DEF Next

\* The inductive invariant of collect() holds throughout.
THEOREM CollectCorrect == Spec => []CollectInv
  BY InitCollect, NextKeepsCollect, PTL DEF Spec

-----------------------------------------------------------------------------

\* The places of one input in the container.
Places(i) == {k \in 1..Len(values) : values[k] = i}

\* There is one place for an input that is in the container, and none else.
LEMMA OnePlace ==
    ASSUME CollectInv, NEW i \in Inputs
    PROVE  Cardinality(Places(i)) = IF i \in Elements(values) THEN 1 ELSE 0
  <1>1. CASE i \in Elements(values)
    <2>1. PICK k \in 1..Len(values) : values[k] = i
      BY <1>1 DEF Elements
    <2>2. Places(i) = {k}
      BY <2>1 DEF Places, CollectInv, AddedOnce
    <2> QED
      BY <1>1, <2>2, FS_Singleton
  <1>2. CASE i \notin Elements(values)
    <2>1. Places(i) = {}
      BY <1>2 DEF Places, Elements
    <2> QED
      BY <1>2, <2>1, FS_EmptySet
  <1> QED
    BY <1>1, <1>2

\* With any number of inputs, each is added once, by whichever of completing and
\* linking it comes second.
THEOREM EveryInputAddedOnceCorrect == Spec => []EveryInputAddedOnce
  <1>1. CollectInv => EveryInputAddedOnce
    <2> SUFFICES ASSUME CollectInv, NEW i \in Inputs
                 PROVE  IF hasValue[i] /\ hasCallback[i] /\ inputMutex[i] = Free
                        THEN Cardinality(Places(i)) = 1
                        ELSE Cardinality(Places(i)) <=
                                IF hasValue[i] /\ hasCallback[i] THEN 1 ELSE 0
      BY DEF EveryInputAddedOnce, Places
    <2>1. i \in Elements(values) => hasValue[i] /\ hasCallback[i]
      BY DEF CollectInv, AddedOnce
    <2>2. hasValue[i] /\ hasCallback[i] /\ inputMutex[i] = Free => i \in Elements(values)
      <3>1. inputMutex[i] = Free => \A t \in Threads : InputOf(t) = i => pc[t] # "add"
        BY Names DEF CollectInv, Held, Runs
      <3> QED
        BY <3>1 DEF CollectInv, AddedOnce
    <2>3. Cardinality(Places(i)) = IF i \in Elements(values) THEN 1 ELSE 0
      BY OnePlace
    <2> QED
      BY <2>1, <2>2, <2>3
  <1> QED
    BY <1>1, CollectCorrect, PTL

\* The result is set once, however completions and linking meet, and not missed.
THEOREM ResultSetOnceCorrect == Spec => []ResultSetOnce
  <1>1. CollectInv => ResultSetOnce
    <2> SUFFICES ASSUME CollectInv PROVE ResultSetOnce
      OBVIOUS
    <2>1. /\ Len(values) \in Nat /\ required \in Nat
          /\ pc[Caller] \in {"link", "add", "next", "get", "waiting", "returned"}
      BY LenProperties, NAssumption DEF CollectInv, CollectTypes
    <2>2. resultSets \in {0, 1}
      BY <2>1 DEF CollectInv, SetOnce
    <2>3. ASSUME Len(values) >= required, contMutex = Free, pc[Caller] \in {"get", "waiting"}
          PROVE  resultSets = 1
      BY <2>1, <2>3 DEF CollectInv, SetOnce
    <2> QED
      BY <2>2, <2>3 DEF ResultSetOnce
  <1> QED
    BY <1>1, CollectCorrect, PTL

\* No value twice: as many inputs have completed as values are in the container.
LEMMA ValuesAreInputs ==
    ASSUME CollectInv
    PROVE  Len(values) <= Cardinality({i \in Inputs : hasValue[i]})
  <1> DEFINE complete == {i \in Inputs : hasValue[i]}
  <1>1. IsFiniteSet(complete)
    <2>1. IsFiniteSet(Inputs)
      BY FS_Interval, NAssumption DEF Inputs
    <2> QED
      BY <2>1, FS_Subset
  <1>2. Len(values) \in Nat /\ values \in [1..Len(values) -> complete]
    <2>1. values \in [1..Len(values) -> Inputs] /\ Len(values) \in Nat
      BY LenProperties DEF CollectInv, CollectTypes
    <2>2. \A k \in 1..Len(values) : hasValue[values[k]]
      BY <2>1 DEF CollectInv, AddedOnce, Elements
    <2> QED
      BY <2>1, <2>2
  <1> HIDE DEF complete
  <1>3. values \in Injection(1..Len(values), complete)
    BY <1>2 DEF CollectInv, AddedOnce, Injection, IsInjective
  <1>4. /\ IsFiniteSet(1..Len(values))
        /\ Cardinality(1..Len(values)) = Len(values)
    BY <1>2, FS_Interval
  <1>5. Cardinality(1..Len(values)) <= Cardinality(complete)
    BY <1>1, <1>3, <1>4, FS_Injection DEF ExistsInjection
  <1> QED
    BY <1>4, <1>5 DEF complete

\* The caller gets on only after n_expected inputs have completed, with the
\* values that came first.
THEOREM BarrierCorrect == Spec => []Barrier
  <1>1. CollectInv => Barrier
    <2> SUFFICES ASSUME CollectInv, pc[Caller] = "returned"
                 PROVE  /\ Cardinality({i \in Inputs : hasValue[i]}) >= required
                        /\ Len(result) >= required
                        /\ \A k \in 1..Len(result) : result[k] = values[k]
      BY DEF Barrier
    <2>1. /\ required <= Len(result) /\ Len(result) <= Len(values)
          /\ \A k \in 1..Len(result) : result[k] = values[k]
      BY DEF CollectInv, SetOnce
    <2>2. Len(values) \in Nat /\ Len(result) \in Nat /\ required \in Nat
      BY LenProperties, NAssumption DEF CollectInv, CollectTypes
    <2>3. Cardinality({i \in Inputs : hasValue[i]}) \in Nat
      <3>1. IsFiniteSet(Inputs) /\ {i \in Inputs : hasValue[i]} \in SUBSET Inputs
        BY FS_Interval, NAssumption DEF Inputs
      <3>2. IsFiniteSet({i \in Inputs : hasValue[i]})
        BY <3>1, FS_Subset
      <3> QED
        BY <3>2, FS_CardinalityType
    <2>4. Len(values) <= Cardinality({i \in Inputs : hasValue[i]})
      BY ValuesAreInputs
    <2> QED
      BY <2>1, <2>2, <2>3, <2>4
  <1> QED
    BY <1>1, CollectCorrect, PTL
=============================================================================
