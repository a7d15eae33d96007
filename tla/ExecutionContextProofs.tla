----------------------- MODULE ExecutionContextProofs -----------------------
(***************************************************************************)
(* Proofs about ExecutionContext, for any finite set of descriptors, any   *)
(* set of workers, and handlers that open any number of descriptors.       *)
(***************************************************************************)
EXTENDS ExecutionContext, TLAPS, FiniteSetTheorems, FunctionTheorems, SequenceTheorems

Holds(t, fd) == fd \in owned[t] \/ arming[t] = fd

Types ==
    /\ interest \subseteq Fds
    /\ lpc \in {"block", "next", "get", "dispatch", "threw"}
    /\ batch \in Seq(Fds)
    /\ tasks \subseteq Fds
    /\ serving \in [Workers -> Fds \cup {NoFd}]
    /\ owned \in [Workers -> SUBSET Fds]
    /\ arming \in [Workers -> Fds \cup {NoFd}]

\* The batch holds each descriptor once; what the loop has not come to is still
\* registered, and the event it is about to dispatch no longer is.
BatchInv ==
    /\ \A i, j \in 1..Len(batch) : batch[i] = batch[j] => i = j
    /\ lpc = "block" => batch = <<>>
    /\ lpc \in {"get", "dispatch", "threw"} => batch # <<>>
    /\ \A i \in 1..Len(batch) :
          batch[i] \in interest <=> (i > 1 \/ lpc \in {"block", "next"})

\* A descriptor is held by one handler, and registered by one that runs.  What is
\* held or queued is neither registered, the moment of arming apart, nor ahead
\* in the batch.
OwnerInv ==
    /\ \A t, u \in Workers : \A fd \in Fds : Holds(t, fd) /\ Holds(u, fd) => t = u
    /\ \A t \in Workers :
          /\ owned[t] \cap interest = {}
          /\ arming[t] \notin owned[t]
          /\ \A fd \in Fds : Holds(t, fd) => fd \notin tasks /\ fd \notin Elements(batch)
          /\ serving[t] = NoFd => arming[t] = NoFd
    /\ tasks \cap interest = {}
    /\ tasks \cap Elements(batch) = {}

\* The futures of the batch are those of queued and running handlers, and the
\* loop waits for all of them.
PendingInv ==
    /\ tasks \subseteq pending
    /\ \A t \in Workers : serving[t] # NoFd =>
          /\ serving[t] \in pending /\ serving[t] \notin tasks
          /\ \A u \in Workers : serving[u] = serving[t] => u = t
    /\ pending \cap Elements(batch) = {}
    /\ lpc = "block" => pending = {}

\* Only the holder of _mutex registers, and so inserts.
MutexInv ==
    /\ \A t \in Workers : arming[t] # NoFd => mutex = t
    /\ \A t \in Workers : inserting = t => mutex = t

\* The inductive invariant of the loop and its handlers.
LoopInv ==
    /\ Types /\ BatchInv /\ OwnerInv /\ PendingInv /\ MutexInv
    /\ ~ addFailed

-----------------------------------------------------------------------------

\* What epoll_wait() reports has each descriptor once.
LEMMA OrdersOnce ==
    ASSUME NEW S \in SUBSET Fds, NEW s \in Orders(S)
    PROVE  /\ s \in Seq(Fds) /\ Elements(s) = S
           /\ \A i, j \in 1..Len(s) : s[i] = s[j] => i = j
  <1>1. IsFiniteSet(S)
    BY FS_Subset, ContextAssumption
  <1>2. Cardinality(S) \in Nat
    BY <1>1, FS_CardinalityType
  <1> DEFINE D == 1..Cardinality(S)
  <1>3. s \in [D -> S] /\ Elements(s) = S
    BY DEF Orders
  <1>4. s \in Seq(S) /\ Len(s) = Cardinality(S)
    BY <1>2, <1>3
  <1>5. \A x \in S : \E i \in D : s[i] = x
    BY <1>3, <1>4 DEF Elements
  <1>6. s \in Surjection(D, S)
    BY <1>3, <1>5, Fun_IsSurj
  <1>7. IsFiniteSet(D) /\ Cardinality(D) = Cardinality(S)
    <2>1. 1 \in Int /\ Cardinality(S) \in Int /\ (1 > Cardinality(S) <=> Cardinality(S) = 0)
      BY <1>2
    <2>2. Cardinality(S) - 1 + 1 = Cardinality(S)
      BY <1>2
    <2> QED
      BY <2>1, <2>2, FS_Interval
  <1>8. s \in Injection(D, S)
    BY <1>6, <1>7, FS_SurjSameCardinalityImpliesInj
  <1>9. \A i, j \in D : s[i] = s[j] => i = j
    BY <1>8, Fun_InjectionProperties
  <1>10. s \in Seq(Fds)
    BY <1>4, SeqMonotonic
  <1> QED
    BY <1>3, <1>4, <1>9, <1>10

\* The first descriptor of a batch, and the rest.
LEMMA HeadAndRest ==
    ASSUME LoopInv, batch # <<>>
    PROVE  /\ Len(batch) \in Nat \ {0}
           /\ Head(batch) = batch[1] /\ Head(batch) \in Fds
           /\ Head(batch) \in Elements(batch)
           /\ Tail(batch) \in Seq(Fds) /\ Len(Tail(batch)) = Len(batch) - 1
           /\ \A i \in 1..Len(Tail(batch)) : Tail(batch)[i] = batch[i + 1]
           /\ Elements(Tail(batch)) = Elements(batch) \ {Head(batch)}
  <1>1. batch \in Seq(Fds)
    BY DEF LoopInv, Types
  <1>2. /\ Len(batch) \in Nat \ {0}
        /\ Head(batch) \in Fds
        /\ Tail(batch) \in Seq(Fds) /\ Len(Tail(batch)) = Len(batch) - 1
        /\ \A i \in 1..Len(Tail(batch)) : Tail(batch)[i] = batch[i + 1]
    BY <1>1, EmptySeq, HeadTailProperties
  <1>3. Head(batch) = batch[1]
    BY <1>1
  <1>4. Head(batch) \in Elements(batch)
    BY <1>2, <1>3 DEF Elements
  <1>5. \A i, j \in 1..Len(batch) : batch[i] = batch[j] => i = j
    BY DEF LoopInv, BatchInv
  <1>6. ASSUME NEW x \in Elements(Tail(batch)) PROVE x \in Elements(batch) \ {Head(batch)}
    <2>1. PICK i \in 1..Len(Tail(batch)) : Tail(batch)[i] = x
      BY <1>6 DEF Elements
    <2>2. i + 1 \in 1..Len(batch) /\ batch[i + 1] = x /\ i + 1 # 1 /\ 1 \in 1..Len(batch)
      BY <1>2, <2>1
    <2> QED
      BY <1>3, <1>5, <2>2 DEF Elements
  <1>7. ASSUME NEW x \in Elements(batch), x # Head(batch) PROVE x \in Elements(Tail(batch))
    <2>1. PICK i \in 1..Len(batch) : batch[i] = x
      BY DEF Elements
    <2>2. i # 1
      BY <1>3, <1>7, <2>1
    <2>3. i - 1 \in 1..Len(Tail(batch)) /\ Tail(batch)[i - 1] = batch[(i - 1) + 1]
      BY <1>2, <2>2
    <2>4. Tail(batch)[i - 1] = x
      BY <2>1, <2>3
    <2> QED
      BY <2>3, <2>4 DEF Elements
  <1> QED
    BY <1>2, <1>3, <1>4, <1>6, <1>7

\* One registered descriptor, no batch, and nobody at work.
LEMMA InitLoop == Init => LoopInv
  <1> SUFFICES ASSUME Init PROVE LoopInv
    OBVIOUS
  <1>1. Types
    BY EmptySeq, ContextAssumption DEF Init, Types
  <1>2. Elements(batch) = {} /\ Len(batch) = 0
    BY DEF Init, Elements
  <1>3. BatchInv
    BY <1>2 DEF Init, BatchInv
  <1>4. OwnerInv
    BY <1>2, ContextAssumption DEF Init, OwnerInv, Holds
  <1>5. PendingInv
    BY <1>2 DEF Init, PendingInv
  <1>6. MutexInv
    BY ContextAssumption DEF Init, MutexInv
  <1> QED
    BY <1>1, <1>3, <1>4, <1>5, <1>6 DEF Init, LoopInv

-----------------------------------------------------------------------------
(* The loop.                                                                *)

\* block(): the handlers of the last batch have returned, so what is registered
\* is not held by any.
LEMMA BlockKeeps == LoopInv /\ Block => LoopInv'
  <1> SUFFICES ASSUME LoopInv, Block PROVE LoopInv'
    OBVIOUS
  <1> USE DEF LoopInv
  <1>1. PICK ready \in SUBSET interest \ {{}} : batch' \in Orders(ready)
    BY DEF Block
  <1>2. ready \in SUBSET Fds
    BY <1>1 DEF Types
  <1>3. /\ batch' \in Seq(Fds) /\ Elements(batch') = ready
        /\ \A i, j \in 1..Len(batch') : batch'[i] = batch'[j] => i = j
    BY <1>1, <1>2, OrdersOnce
  <1>4. \A i \in 1..Len(batch') : batch'[i] \in interest
    BY <1>1, <1>3 DEF Elements
  <1>5. /\ lpc = "block" /\ lpc' = "next"
        /\ UNCHANGED <<table, tasks, pending, threads>>
    BY DEF Block
  <1>6. pending = {} /\ tasks = {} /\ \A t \in Workers : serving[t] = NoFd
    BY <1>5 DEF PendingInv
  <1>7. \A t \in Workers : \A fd \in Fds : Holds(t, fd)' <=> fd \in owned[t]
    BY <1>5, <1>6, ContextAssumption DEF OwnerInv, Holds, threads
  <1>8. Types'
    BY <1>3, <1>5 DEF Types, table, threads
  <1>9. BatchInv'
    BY <1>3, <1>4, <1>5 DEF BatchInv, table
  <1>10. OwnerInv'
    <2>1. \A t \in Workers : \A fd \in Fds : fd \in owned[t] => fd \notin ready
      BY <1>1 DEF OwnerInv
    <2>2. \A t, u \in Workers : \A fd \in Fds : fd \in owned[t] /\ fd \in owned[u] => t = u
      BY DEF OwnerInv, Holds
    <2>3. Elements(batch)' = ready /\ interest' = interest /\ tasks' = {}
      BY <1>3, <1>5, <1>6 DEF table, Elements
    <2>4. \A t \in Workers :
             /\ owned'[t] \cap interest = {}
             /\ arming'[t] \notin owned'[t]
             /\ serving'[t] = NoFd => arming'[t] = NoFd
      BY <1>5 DEF OwnerInv, threads
    <2> QED
      BY <1>7, <2>1, <2>2, <2>3, <2>4 DEF OwnerInv
  <1>11. PendingInv'
    BY <1>5, <1>6 DEF PendingInv, threads
  <1>12. MutexInv' /\ ~ addFailed'
    BY <1>5 DEF MutexInv, table, threads
  <1> QED
    BY <1>8, <1>9, <1>10, <1>11, <1>12

\* del_event() and get_handler() are about the first of the batch.
LEMMA TakeEventKeeps == LoopInv /\ (DelEvent \/ GetHandler) => LoopInv'
  <1> SUFFICES ASSUME LoopInv, DelEvent \/ GetHandler PROVE LoopInv'
    OBVIOUS
  <1> USE DEF LoopInv
  <1>1. CASE DelEvent
    <2>1. /\ lpc = "next" /\ batch # <<>> /\ lpc' = "get"
          /\ interest' = interest \ {Head(batch)}
          /\ UNCHANGED <<handlers, mutex, inserting, raced, batch, tasks, pending, threads>>
          /\ addFailed' = (addFailed \/ Head(batch) \notin interest)
      BY <1>1 DEF DelEvent
    <2>2. /\ Len(batch) \in Nat \ {0} /\ Head(batch) = batch[1]
      BY <2>1, HeadAndRest
    <2>3. Head(batch) \in interest
      BY <2>1, <2>2 DEF BatchInv
    <2>4. Types' /\ OwnerInv' /\ PendingInv' /\ MutexInv'
      BY <2>1 DEF Types, OwnerInv, PendingInv, MutexInv, Holds, threads, Elements
    <2>5. \A i \in 1..Len(batch) : batch[i] \in interest' <=> i > 1
      BY <2>1, <2>2 DEF BatchInv
    <2>6. BatchInv'
      BY <2>1, <2>5 DEF BatchInv
    <2> QED
      BY <2>1, <2>3, <2>4, <2>6
  <1>2. CASE GetHandler
    BY <1>2
    DEF GetHandler, Types, BatchInv, OwnerInv, PendingInv, MutexInv, Holds, threads, Elements
  <1> QED
    BY <1>1, <1>2

\* execute(): the first of the batch becomes a task, which nobody holds.
LEMMA ExecuteKeeps == LoopInv /\ Execute => LoopInv'
  <1> SUFFICES ASSUME LoopInv, Execute PROVE LoopInv'
    OBVIOUS
  <1> USE DEF LoopInv
  <1> DEFINE h == Head(batch)
  <1>1. /\ lpc = "dispatch" /\ lpc' = "next" /\ batch' = Tail(batch)
        /\ pending' = pending \cup {h} /\ tasks' = tasks \cup {h}
        /\ UNCHANGED <<table, threads>>
    BY DEF Execute
  <1>2. batch # <<>>
    BY <1>1 DEF BatchInv
  <1>3. /\ Len(batch) \in Nat \ {0} /\ h = batch[1] /\ h \in Fds /\ h \in Elements(batch)
        /\ batch' \in Seq(Fds) /\ Len(batch') = Len(batch) - 1
        /\ \A i \in 1..Len(batch') : batch'[i] = batch[i + 1]
        /\ Elements(batch') = Elements(batch) \ {h}
    BY <1>1, <1>2, HeadAndRest
  <1>4. Types'
    BY <1>1, <1>3 DEF Types, table, threads
  <1>5. BatchInv'
    <2>1. \A i \in 1..Len(batch') : i + 1 \in 1..Len(batch) /\ i + 1 > 1
      BY <1>3
    <2>2. \A i \in 1..Len(batch') : batch'[i] \in interest
      BY <1>3, <2>1 DEF BatchInv
    <2>3. \A i, j \in 1..Len(batch') : batch'[i] = batch'[j] => i + 1 = j + 1
      BY <1>3, <2>1 DEF BatchInv
    <2>4. \A i, j \in 1..Len(batch') : i + 1 = j + 1 => i = j
      BY <1>3
    <2> QED
      BY <1>1, <2>2, <2>3, <2>4 DEF BatchInv, table
  <1>6. h \notin interest
    BY <1>1, <1>3 DEF BatchInv
  <1>7. OwnerInv'
    <2>1. \A t \in Workers : \A fd \in Fds : Holds(t, fd)' <=> Holds(t, fd)
      BY <1>1 DEF Holds, threads
    <2>2. \A t \in Workers : ~ Holds(t, h)
      BY <1>3 DEF OwnerInv
    <2>3. interest' = interest /\ Elements(batch)' = Elements(batch) \ {h}
      BY <1>1, <1>3 DEF table
    <2> QED
      BY <1>1, <1>6, <2>1, <2>2, <2>3 DEF OwnerInv, threads
  <1>8. PendingInv'
    <2>1. \A t \in Workers : serving[t] # NoFd => serving[t] # h
      BY <1>3 DEF PendingInv
    <2> QED
      BY <1>1, <1>3, <2>1 DEF PendingInv, threads
  <1>9. MutexInv' /\ ~ addFailed'
    BY <1>1 DEF MutexInv, table, threads
  <1> QED
    BY <1>4, <1>5, <1>7, <1>8, <1>9

\* block_get() on the futures of the batch: none is left.
LEMMA EndBatchKeeps == LoopInv /\ EndBatch => LoopInv'
  <1> SUFFICES ASSUME LoopInv, EndBatch PROVE LoopInv'
    OBVIOUS
  <1>1. Len(batch) = 0
    BY DEF EndBatch
  <1> QED
    BY <1>1
    DEF EndBatch, LoopInv, Types, BatchInv, OwnerInv, PendingInv, MutexInv, Holds,
        table, threads, Elements

-----------------------------------------------------------------------------
(* A handler.                                                               *)

\* A worker takes a task: the descriptor of the event is its own from here.
LEMMA StartTaskKeeps ==
    ASSUME LoopInv, NEW t \in Workers, Start(t)
    PROVE  LoopInv'
  <1> USE DEF LoopInv
  <1>1. PICK fd \in tasks :
           /\ tasks' = tasks \ {fd}
           /\ serving' = [serving EXCEPT ![t] = fd]
           /\ owned' = [owned EXCEPT ![t] = {fd}]
    BY DEF Start
  <1>2. /\ serving[t] = NoFd /\ owned[t] = {}
        /\ UNCHANGED <<table, lpc, batch, pending, arming>>
        /\ fd \in Fds /\ fd # NoFd
    BY ContextAssumption DEF Start, Types
  <1>3. Types' /\ BatchInv' /\ MutexInv' /\ ~ addFailed'
    BY <1>1, <1>2 DEF Types, BatchInv, MutexInv, table
  <1>4. /\ owned'[t] = {fd} /\ serving'[t] = fd
        /\ \A u \in Workers \ {t} : owned'[u] = owned[u] /\ serving'[u] = serving[u]
    BY <1>1 DEF Types
  <1>5. /\ \A u \in Workers : ~ Holds(u, fd)
        /\ arming[t] = NoFd
        /\ fd \notin interest /\ fd \notin Elements(batch) /\ fd \in pending
    BY <1>1, <1>2 DEF OwnerInv, PendingInv
  <1>6. /\ \A x \in Fds : Holds(t, x)' <=> x = fd
        /\ \A u \in Workers \ {t} : \A x \in Fds : Holds(u, x)' <=> Holds(u, x)
    BY <1>2, <1>4, <1>5, ContextAssumption DEF Holds
  <1>7. interest' = interest /\ Elements(batch)' = Elements(batch)
    BY <1>2 DEF table, Elements
  <1>8. OwnerInv'
    <2>1. \A u, v \in Workers : \A x \in Fds : Holds(u, x)' /\ Holds(v, x)' => u = v
      BY <1>5, <1>6 DEF OwnerInv
    <2>2. \A u \in Workers : \A x \in Fds : Holds(u, x)' =>
             x \notin tasks' /\ x \notin Elements(batch)
      BY <1>1, <1>5, <1>6 DEF OwnerInv
    <2>3. \A u \in Workers :
             /\ owned'[u] \cap interest = {}
             /\ arming'[u] \notin owned'[u]
             /\ serving'[u] = NoFd => arming'[u] = NoFd
      BY <1>2, <1>4, <1>5 DEF OwnerInv
    <2> QED
      BY <1>1, <1>7, <2>1, <2>2, <2>3 DEF OwnerInv
  <1>9. PendingInv'
    BY <1>1, <1>2, <1>4, <1>5, <1>7 DEF PendingInv
  <1> QED
    BY <1>3, <1>8, <1>9

\* A handler opens a number that nobody has, or closes one of its own.
LEMMA OpenCloseKeeps ==
    ASSUME LoopInv, NEW t \in Workers, Open(t) \/ Close(t)
    PROVE  LoopInv'
  <1> USE DEF LoopInv
  <1>1. /\ UNCHANGED <<table, lpc, batch, tasks, pending, serving, arming>>
        /\ \A u \in Workers \ {t} : owned'[u] = owned[u]
        /\ owned' \in [Workers -> SUBSET Fds]
        /\ \/ \E fd \in FreeFds : owned'[t] = owned[t] \cup {fd}
           \/ owned'[t] \subseteq owned[t]
    BY DEF Open, Close, Types, FreeFds
  <1>2. Types' /\ BatchInv' /\ PendingInv' /\ MutexInv' /\ ~ addFailed'
    BY <1>1 DEF Types, BatchInv, PendingInv, MutexInv, table, Elements
  <1>3. interest' = interest /\ Elements(batch)' = Elements(batch)
    BY <1>1 DEF table, Elements
  <1>4. \A u \in Workers \ {t} : \A x \in Fds : Holds(u, x)' <=> Holds(u, x)
    BY <1>1 DEF Holds
  <1>5. OwnerInv'
    <2>1. CASE owned'[t] \subseteq owned[t]
      <3>1. \A u \in Workers : \A x \in Fds : Holds(u, x)' => Holds(u, x)
        BY <1>1, <1>4, <2>1 DEF Holds
      <3>2. \A u \in Workers :
               /\ owned'[u] \subseteq owned[u] /\ arming'[u] = arming[u]
               /\ serving'[u] = serving[u]
        BY <1>1, <2>1
      <3> QED
        BY <1>1, <1>3, <3>1, <3>2 DEF OwnerInv
    <2>2. CASE \E fd \in FreeFds : owned'[t] = owned[t] \cup {fd}
      <3>1. PICK fd \in FreeFds : owned'[t] = owned[t] \cup {fd}
        BY <2>2
      <3>2. /\ fd \notin interest /\ fd \notin Elements(batch) /\ fd \notin tasks
            /\ fd \in Fds /\ \A u \in Workers : fd \notin owned[u] /\ arming[u] # fd
        BY <3>1 DEF FreeFds
      <3>3. \A x \in Fds : Holds(t, x)' <=> (Holds(t, x) \/ x = fd)
        BY <1>1, <3>1 DEF Holds
      <3>4. \A u \in Workers : ~ Holds(u, fd)
        BY <3>2 DEF Holds
      <3>5. \A u, v \in Workers : \A x \in Fds : Holds(u, x)' /\ Holds(v, x)' => u = v
        BY <1>4, <3>3, <3>4 DEF OwnerInv
      <3>6. \A u \in Workers : \A x \in Fds : Holds(u, x)' =>
               x \notin tasks /\ x \notin Elements(batch)
        BY <1>4, <3>2, <3>3 DEF OwnerInv
      <3>7. \A u \in Workers :
               /\ owned'[u] \cap interest = {}
               /\ arming'[u] \notin owned'[u]
               /\ serving'[u] = NoFd => arming'[u] = NoFd
        BY <1>1, <3>1, <3>2 DEF OwnerInv
      <3> QED
        BY <1>1, <1>3, <3>5, <3>6, <3>7 DEF OwnerInv
    <2> QED
      BY <1>1, <2>1, <2>2
  <1> QED
    BY <1>2, <1>5

\* add_event(): what a handler owns is not registered, so epoll_ctl() takes it.
LEMMA AddEventKeeps ==
    ASSUME LoopInv, NEW t \in Workers, AddEvent(t)
    PROVE  LoopInv'
  <1> USE DEF LoopInv
  <1>1. PICK fd \in owned[t] :
           /\ arming' = [arming EXCEPT ![t] = fd]
           /\ owned' = [owned EXCEPT ![t] = @ \ {fd}]
           /\ interest' = interest \cup {fd}
           /\ addFailed' = (addFailed \/ fd \in interest)
    BY DEF AddEvent
  <1>2. /\ mutex = NoThread /\ mutex' = t
        /\ UNCHANGED <<handlers, inserting, raced, lpc, batch, tasks, pending, serving>>
        /\ fd \in Fds /\ fd # NoFd
    BY <1>1, ContextAssumption DEF AddEvent, Types
  <1>3. \A u \in Workers : arming[u] = NoFd /\ inserting # u
    BY <1>2, ContextAssumption DEF MutexInv
  <1>4. /\ Holds(t, fd) /\ serving[t] # NoFd /\ fd \notin interest
        /\ fd \notin tasks /\ fd \notin Elements(batch)
    BY <1>1, <1>2 DEF AddEvent, Holds, OwnerInv
  <1>5. /\ arming'[t] = fd /\ owned'[t] = owned[t] \ {fd}
        /\ \A u \in Workers \ {t} : arming'[u] = arming[u] /\ owned'[u] = owned[u]
    BY <1>1 DEF Types
  <1>6. \A u \in Workers : \A x \in Fds : Holds(u, x)' <=> Holds(u, x)
    BY <1>1, <1>3, <1>5, ContextAssumption DEF Holds
  <1>7. Types'
    BY <1>1, <1>2 DEF Types
  <1>8. BatchInv'
    <2>1. \A i \in 1..Len(batch) : batch[i] \in interest' <=> batch[i] \in interest
      BY <1>1, <1>4 DEF Elements
    <2> QED
      BY <1>2, <2>1 DEF BatchInv
  <1>9. OwnerInv'
    <2>1. \A u \in Workers : owned'[u] \cap interest' = {}
      BY <1>1, <1>2, <1>4, <1>5 DEF OwnerInv, Holds
    <2>2. \A u \in Workers : arming'[u] \notin owned'[u]
      BY <1>5 DEF OwnerInv
    <2>3. \A u \in Workers : serving'[u] = NoFd => arming'[u] = NoFd
      BY <1>2, <1>4, <1>5 DEF OwnerInv
    <2>4. Elements(batch)' = Elements(batch) /\ tasks' = tasks
      BY <1>2 DEF Elements
    <2> QED
      BY <1>1, <1>4, <1>6, <2>1, <2>2, <2>3, <2>4 DEF OwnerInv
  <1>10. PendingInv'
    BY <1>2 DEF PendingInv, Elements
  <1>11. MutexInv' /\ ~ addFailed'
    BY <1>1, <1>2, <1>3, <1>4, <1>5 DEF MutexInv
  <1> QED
    BY <1>7, <1>8, <1>9, <1>10, <1>11

\* set_handler(), in its two steps under _mutex; a lost entry changes only the
\* table.
LEMMA InsertKeeps ==
    ASSUME LoopInv, NEW t \in Workers, BeginInsert(t) \/ SetHandler(t)
    PROVE  LoopInv'
  <1> USE DEF LoopInv
  <1>1. CASE BeginInsert(t)
    BY <1>1
    DEF BeginInsert, Types, BatchInv, OwnerInv, PendingInv, MutexInv, Holds, threads, Elements
  <1>2. CASE SetHandler(t)
    <2>1. /\ inserting = t /\ mutex = t /\ inserting' = NoThread /\ mutex' = NoThread
          /\ arming' = [arming EXCEPT ![t] = NoFd]
          /\ UNCHANGED <<interest, addFailed, lpc, batch, tasks, pending, serving, owned>>
      BY <1>2 DEF SetHandler, MutexInv
    <2>2. \A u \in Workers : arming'[u] = NoFd
      BY <2>1 DEF MutexInv, Types
    <2>3. \A u \in Workers : \A x \in Fds : Holds(u, x)' => Holds(u, x)
      BY <2>1, <2>2, ContextAssumption DEF Holds
    <2>4. Types' /\ BatchInv' /\ PendingInv'
      BY <2>1 DEF Types, BatchInv, PendingInv, Elements
    <2>5. OwnerInv'
      <3>1. \A u \in Workers : NoFd \notin owned[u]
        BY ContextAssumption DEF Types
      <3>2. Elements(batch)' = Elements(batch)
        BY <2>1 DEF Elements
      <3> QED
        BY <2>1, <2>2, <2>3, <3>1, <3>2 DEF OwnerInv
    <2>6. MutexInv' /\ ~ addFailed'
      BY <2>1, <2>2, ContextAssumption DEF MutexInv
    <2> QED
      BY <2>4, <2>5, <2>6
  <1> QED
    BY <1>1, <1>2

\* The handler returns while it registers nothing, and one future less is
\* pending.
LEMMA FinishKeeps ==
    ASSUME LoopInv, NEW t \in Workers, Finish(t)
    PROVE  LoopInv'
  <1> USE DEF LoopInv
  <1>1. /\ serving[t] # NoFd /\ arming[t] = NoFd
        /\ serving' = [serving EXCEPT ![t] = NoFd]
        /\ pending' = pending \ {serving[t]}
        /\ UNCHANGED <<table, lpc, batch, tasks, owned, arming, opened>>
    BY DEF Finish
  <1>2. serving'[t] = NoFd /\ \A u \in Workers \ {t} : serving'[u] = serving[u]
    BY <1>1 DEF Types
  <1>3. Types' /\ BatchInv' /\ MutexInv' /\ ~ addFailed'
    BY <1>1 DEF Types, BatchInv, MutexInv, table
  <1>4. OwnerInv'
    <2>1. Elements(batch)' = Elements(batch) /\ interest' = interest
      BY <1>1 DEF Elements, table
    <2>2. \A u \in Workers : \A x \in Fds : Holds(u, x)' <=> Holds(u, x)
      BY <1>1 DEF Holds
    <2>3. \A u \in Workers : serving'[u] = NoFd => arming[u] = NoFd
      BY <1>1, <1>2 DEF OwnerInv
    <2> QED
      BY <1>1, <2>1, <2>2, <2>3 DEF OwnerInv
  <1>5. PendingInv'
    <2>1. Elements(batch)' = Elements(batch)
      BY <1>1 DEF Elements
    <2>2. serving[t] \notin tasks /\ \A u \in Workers \ {t} : serving[u] # serving[t]
      BY <1>1 DEF PendingInv
    <2> QED
      BY <1>1, <1>2, <2>1, <2>2 DEF PendingInv
  <1> QED
    BY <1>3, <1>4, <1>5

-----------------------------------------------------------------------------

\* Every step of the loop and of its handlers keeps the invariant.
LEMMA NextKeepsLoop == LoopInv /\ [Next]_vars => LoopInv'
  <1> SUFFICES ASSUME LoopInv, [Next]_vars PROVE LoopInv'
    OBVIOUS
  <1>1. CASE Block \/ DelEvent \/ GetHandler \/ Execute \/ EndBatch
    BY <1>1, BlockKeeps, TakeEventKeeps, ExecuteKeeps, EndBatchKeeps
  <1>2. CASE \E t \in Workers :
                \/ Start(t) \/ Open(t) \/ Close(t) \/ AddEvent(t) \/ BeginInsert(t)
                \/ SetHandler(t) \/ Finish(t)
    BY <1>2, StartTaskKeeps, OpenCloseKeeps, AddEventKeeps, InsertKeeps, FinishKeeps
  <1>3. CASE UNCHANGED vars
    BY <1>3
    DEF vars, LoopInv, Types, BatchInv, OwnerInv, PendingInv, MutexInv, Holds, Elements
  <1> QED
    BY <1>1, <1>2, <1>3 DEF Next

\* The inductive invariant of the loop holds throughout.
THEOREM LoopCorrect == Spec => []LoopInv
  BY InitLoop, NextKeepsLoop, PTL DEF Spec

\* However many descriptors and workers there are and whatever handlers open,
\* close and register while a batch is half served, no two hold a descriptor,
\* none is opened that is ahead in the batch, and epoll_ctl() never fails.
THEOREM FdOwnedOnceCorrect == Spec => []FdOwnedOnce
  <1> DEFINE Owners(fd) == {t \in Workers : fd \in owned[t] \/ arming[t] = fd}
  <1>1. ASSUME LoopInv, NEW fd \in Fds
        PROVE  /\ Cardinality(Owners(fd)) <= 1
               /\ fd \in tasks => Owners(fd) = {}
               /\ fd \in Elements(batch) => Owners(fd) = {} /\ fd \notin tasks
    <2> USE <1>1 DEF LoopInv
    <2>1. Owners(fd) = {} \/ \E t : Owners(fd) = {t}
      BY DEF OwnerInv, Holds
    <2>2. Cardinality(Owners(fd)) <= 1
      <3>1. Cardinality({}) = 0 /\ \A t : Cardinality({t}) = 1
        BY FS_EmptySet, FS_Singleton
      <3>2. CASE Owners(fd) = {}
        <4>1. Cardinality(Owners(fd)) = 0
          BY <3>1, <3>2
        <4> QED
          BY <4>1
      <3>3. CASE \E t : Owners(fd) = {t}
        <4>1. Cardinality(Owners(fd)) = 1
          BY <3>1, <3>3
        <4> QED
          BY <4>1
      <3> QED
        BY <2>1, <3>2, <3>3
    <2>3. fd \in tasks => Owners(fd) = {}
      BY DEF OwnerInv, Holds
    <2>4. fd \in Elements(batch) => Owners(fd) = {} /\ fd \notin tasks
      BY DEF OwnerInv, Holds
    <2> QED
      BY <2>2, <2>3, <2>4
  <1>2. LoopInv => FdOwnedOnce
    BY <1>1 DEF FdOwnedOnce, LoopInv
  <1> QED
    BY <1>2, LoopCorrect, PTL

\* However many workers there are, while the loop blocks no handler of the last
\* batch is queued or running, and what the task objects of that batch still own
\* is not registered.
THEOREM BarrierHoldsCorrect == Spec => []BarrierHolds
  <1>1. LoopInv => BarrierHolds
    BY DEF LoopInv, PendingInv, OwnerInv, BarrierHolds
  <1> QED
    BY <1>1, LoopCorrect, PTL
=============================================================================
