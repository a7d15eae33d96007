-------------------------- MODULE ThreadPoolProofs --------------------------
(***************************************************************************)
(* Proofs about ThreadPool, for any finite sets of workers and tasks: of   *)
(* the pool itself, and then of what becomes of an accepted task, which is *)
(* in one place and has run when shutdown() returns if it came before a    *)
(* pill.                                                                   *)
(***************************************************************************)
EXTENDS ThreadPool, TLAPS, FiniteSetTheorems, SequenceTheorems

\* Which senders are alive is decided by how far the owner of the pool is.
SendersByPhase ==
    /\ main = "copySender" => senders = {S0} /\ producer_count = 1
    /\ main \in {"copyReceiver", "member"} => senders = {S0, SP} /\ producer_count = 2
    /\ main = "spawn" => senders = {S0, SP, ST} /\ producer_count = 3
    /\ main = "dropParams" =>
          \/ senders = {S0, SP, ST} /\ producer_count = 3
          \/ senders = {S0, ST} /\ producer_count = 2
          \/ senders = {ST} /\ producer_count = 1
    /\ Usable => senders = {ST} /\ producer_count = 1
    /\ main = "destroyed" => senders = {} /\ producer_count = 0

\* A worker has its receiver from its creation to the end of its thread.
ReceiversOfWorkers ==
    /\ receivers \subseteq {R0, RP} \cup Workers
    /\ consumder_count = Cardinality(receivers)
    /\ \A w \in Workers :
          w \in receivers <=> wstate[w] \in {"loop", "running", "stopping", "threw"}

\* The vector holds the workers created until shutdown() clears it, its first
\* ones have been joined, and once it is cleared all have exited.
WorkersByPhase ==
    /\ main \notin {"copySender", "copyReceiver", "member", "spawn"} =>
          \A w \in Workers : wstate[w] # "none"
    /\ main \in {"shut", "destroyed"} => \A w \in Workers : wstate[w] = "exited"
    /\ main \notin {"shut", "destroyed"} =>
          /\ \A w \in Workers : wstate[w] # "none" <=> w \in Elements(workers)
          /\ joined <= Len(workers)
          /\ \A i \in 1..joined : wstate[workers[i]] = "exited"

PoolTypes ==
    /\ main \in {"copySender", "copyReceiver", "member", "spawn", "dropParams",
                 "open", "pills", "join", "shut", "destroyed"}
    /\ workers \in Seq(Workers)
    /\ wstate \in [Workers -> {"none", "loop", "running", "stopping", "exited", "threw"}]
    /\ joined \in Nat

\* The inductive invariant: a worker sees the channel closed only when no
\* sender is left, and that is when all workers have been joined.
PoolInv ==
    /\ PoolTypes
    /\ SendersByPhase
    /\ ReceiversOfWorkers
    /\ WorkersByPhase
    /\ WorkersNeverSeeClosed

-----------------------------------------------------------------------------

\* The count of receivers follows the set of living ones.
LEMMA ReceiverArithmetic ==
    ASSUME NEW S \in SUBSET ({R0, RP} \cup Workers)
    PROVE  /\ Cardinality(S) \in Nat
           /\ Cardinality(S) = 0 <=> S = {}
           /\ \A r : r \notin S => Cardinality(S \cup {r}) = Cardinality(S) + 1
           /\ \A r \in S : Cardinality(S \ {r}) = Cardinality(S) - 1
  <1>1. IsFiniteSet({R0, RP} \cup Workers)
    <2>1. IsFiniteSet({R0}) /\ IsFiniteSet({R0} \cup {RP})
      BY FS_Singleton, FS_AddElement
    <2>2. IsFiniteSet(({R0} \cup {RP}) \cup Workers)
      BY <2>1, FS_Union, PoolAssumption
    <2>3. ({R0} \cup {RP}) \cup Workers = {R0, RP} \cup Workers
      OBVIOUS
    <2> QED
      BY <2>2, <2>3
  <1>2. IsFiniteSet(S)
    BY <1>1, FS_Subset
  <1> QED
    BY <1>2, FS_CardinalityType, FS_EmptySet, FS_AddElement, FS_RemoveElement

\* Only the channel exists, and no worker has a receiver yet.
LEMMA InitPool == Init => PoolInv
  <1> SUFFICES ASSUME Init PROVE PoolInv
    OBVIOUS
  <1>1. Cardinality(receivers) = 1
    BY FS_Singleton DEF Init, Q!Init
  <1>2. Elements(workers) = {}
    BY DEF Init, Elements
  <1>3. PoolTypes
    BY EmptySeq DEF Init, PoolTypes
  <1>4. ReceiversOfWorkers
    BY <1>1, PoolAssumption DEF Init, Q!Init, ReceiversOfWorkers
  <1> QED
    BY <1>2, <1>3, <1>4
    DEF Init, Q!Init, PoolInv, SendersByPhase, WorkersByPhase, Usable,
        WorkersNeverSeeClosed

\* A step that leaves the handles, the owner and the vector of workers alone,
\* and moves one worker between "loop" and what it does with its receiver.
LEMMA WorkerMoves ==
    ASSUME PoolInv, NEW w \in Workers, NEW to \in {"loop", "running", "stopping"},
           wstate[w] \in {"loop", "running"},
           wstate' = [wstate EXCEPT ![w] = to],
           UNCHANGED <<main, workers, joined, senders, receivers, producer_count,
                       consumder_count>>
    PROVE  PoolInv'
  <1> USE DEF PoolInv
  <1>1. PoolTypes' /\ SendersByPhase' /\ WorkersNeverSeeClosed'
    BY DEF PoolTypes, SendersByPhase, Usable, WorkersNeverSeeClosed
  <1>2. ReceiversOfWorkers'
    BY DEF PoolTypes, ReceiversOfWorkers
  <1>3. WorkersByPhase'
    <2>1. \A v \in Workers : /\ wstate'[v] = "none" <=> wstate[v] = "none"
                             /\ wstate[v] = "exited" => wstate'[v] = "exited"
      BY DEF PoolTypes
    <2>2. main \notin {"shut", "destroyed"} =>
             \A i \in 1..joined : workers[i] \in Workers
      BY ElementOfSeq DEF PoolTypes, WorkersByPhase
    <2> QED
      BY <2>1, <2>2 DEF WorkersByPhase, Elements
  <1> QED
    BY <1>1, <1>2, <1>3

\* A step that changes nothing the invariant speaks of.
LEMMA PoolStutter ==
    ASSUME PoolInv,
           UNCHANGED <<main, workers, wstate, joined, senders, receivers,
                       producer_count, consumder_count>>
    PROVE  PoolInv'
  BY DEF PoolInv, PoolTypes, SendersByPhase, ReceiversOfWorkers, WorkersByPhase,
         WorkersNeverSeeClosed, Usable, Elements

\* The constructor copies the ends, spawns the workers, and drops its own ends.
LEMMA ConstructKeepsPool ==
    ASSUME PoolInv, CopyArguments \/ MemberSender \/ Spawn \/ DropHandles
    PROVE  PoolInv'
  <1> USE DEF PoolInv
  <1>s. S0 # SP /\ S0 # ST /\ SP # ST
    <2>1. SUFFICES ASSUME S0 = SP \/ S0 = ST \/ SP = ST PROVE FALSE
      OBVIOUS
    <2>2. \E a, b : {S0, SP, ST} = {a, b}
      BY <2>1
    <2>3. PICK a, b : {S0, SP, ST} = {a, b}
      BY <2>2
    <2>4. Cardinality({a}) = 1 /\ IsFiniteSet({a})
      BY FS_Singleton
    <2>5. Cardinality({a} \cup {b}) \in {1, 2}
      BY <2>4, FS_AddElement
    <2>6. {a} \cup {b} = {a, b}
      OBVIOUS
    <2> QED
      BY <2>3, <2>5, <2>6, PoolAssumption
  <1>1. CASE main = "copySender" /\ main' = "copyReceiver" /\ Q!CopySender(S0, SP)
             /\ UNCHANGED <<workers, wstate, task, pills, joined, done, refused>>
    BY <1>1, <1>s
    DEF Q!CopySender, PoolTypes, SendersByPhase, ReceiversOfWorkers, WorkersByPhase,
        WorkersNeverSeeClosed, Usable, Elements
  <1>2. CASE main = "copyReceiver" /\ main' = "member" /\ Q!CopyReceiver(R0, RP)
             /\ UNCHANGED <<workers, wstate, task, pills, joined, done, refused>>
    <2>1. ReceiversOfWorkers'
      BY <1>2, ReceiverArithmetic, PoolAssumption
      DEF Q!CopyReceiver, ReceiversOfWorkers
    <2> QED
      BY <1>2, <2>1
      DEF Q!CopyReceiver, PoolTypes, SendersByPhase, WorkersByPhase,
          WorkersNeverSeeClosed, Usable, Elements
  <1>3. CASE MemberSender
    BY <1>3, <1>s
    DEF MemberSender, Q!CopySender, PoolTypes, SendersByPhase, ReceiversOfWorkers,
        WorkersByPhase, WorkersNeverSeeClosed, Usable, Elements
  <1>4. CASE Spawn
    <2>1. PICK w \in Workers \ Elements(workers) :
             /\ Q!CopyReceiver(RP, w)
             /\ workers' = Append(workers, w)
             /\ wstate' = [wstate EXCEPT ![w] = "loop"]
             /\ main' = IF Elements(workers) \cup {w} = Workers THEN "dropParams"
                        ELSE main
      BY <1>4 DEF Spawn
    <2>m. main = "spawn" /\ joined' = joined
      BY <1>4 DEF Spawn
    <2>2. /\ workers' \in Seq(Workers)
          /\ Len(workers') = Len(workers) + 1
          /\ \A i \in 1..Len(workers) : workers'[i] = workers[i]
          /\ workers'[Len(workers) + 1] = w
      BY <2>1, AppendProperties DEF PoolTypes
    <2>n. Len(workers) \in Nat
      BY LenProperties DEF PoolTypes
    <2>3. Elements(workers)' = Elements(workers) \cup {w}
      <3>1. \A x : x \in Elements(workers') => x \in Elements(workers) \cup {w}
        BY <2>2, <2>n DEF Elements
      <3>2. \A x \in Elements(workers) : x \in Elements(workers')
        BY <2>2, <2>n DEF Elements
      <3>3. w \in Elements(workers')
        BY <2>2, <2>n DEF Elements
      <3> QED
        BY <3>1, <3>2, <3>3
    <2>4. PoolTypes' /\ SendersByPhase' /\ WorkersNeverSeeClosed'
      BY <2>1, <2>2, <2>m
      DEF PoolTypes, SendersByPhase, WorkersNeverSeeClosed, Usable, Q!CopyReceiver
    <2>5. ReceiversOfWorkers'
      BY <2>1, ReceiverArithmetic, PoolAssumption
      DEF Q!CopyReceiver, ReceiversOfWorkers, PoolTypes
    <2>6. WorkersByPhase'
      <3>1. \A v \in Workers : wstate'[v] # "none" <=> v \in Elements(workers)'
        BY <2>1, <2>3, <2>m DEF WorkersByPhase, PoolTypes
      <3>2. joined' <= Len(workers') /\ \A i \in 1..joined' : wstate'[workers'[i]] = "exited"
        <4>1. \A i \in 1..joined : /\ i \in 1..Len(workers)
                                   /\ workers[i] \in Workers
                                   /\ workers[i] \in Elements(workers)
                                   /\ wstate[workers[i]] = "exited"
          BY <2>m, <2>n, ElementOfSeq DEF WorkersByPhase, PoolTypes, Elements
        <4>2. joined <= Len(workers)
          BY <2>m DEF WorkersByPhase
        <4> QED
          BY <2>1, <2>2, <2>m, <2>n, <4>1, <4>2 DEF PoolTypes
      <3> QED
        BY <3>1, <3>2, <2>1, <2>3, <2>m DEF WorkersByPhase
    <2> QED
      BY <2>4, <2>5, <2>6
  <1>5. CASE DropHandles
    <2>1. SendersByPhase'
      BY <1>5, <1>s
      DEF DropHandles, Q!DropSender, Q!DropReceiver, SendersByPhase, Usable
    <2>2. ReceiversOfWorkers'
      BY <1>5, ReceiverArithmetic, PoolAssumption
      DEF DropHandles, Q!DropSender, Q!DropReceiver, ReceiversOfWorkers
    <2> QED
      BY <1>5, <2>1, <2>2
      DEF DropHandles, PoolTypes, WorkersByPhase, WorkersNeverSeeClosed, Elements
  <1> QED
    BY <1>1, <1>2, <1>3, <1>4, <1>5 DEF CopyArguments

\* A worker gives up its receiver when its thread ends, and no sender ever.
LEMMA WorkerKeepsPool ==
    ASSUME PoolInv, NEW w \in Workers,
           \/ WorkerRecv(w) \/ WorkerSpurious(w) \/ WorkerTake(w)
           \/ WorkerRun(w) \/ WorkerExit(w)
    PROVE  PoolInv'
  <1>1. CASE WorkerRecv(w) \/ WorkerSpurious(w)
    BY <1>1, PoolStutter
    DEF WorkerRecv, WorkerSpurious, Q!CallRecv, Q!RecvWait, Q!SpuriousWakeup,
        Q!counts, Q!handles, poolVars
  <1>2. CASE WorkerTake(w)
    <2>1. ~Q!RecvClosed(w)
      <3>1. wstate[w] = "loop"
        BY <1>2 DEF WorkerTake
      <3>2. main # "destroyed"
        BY <3>1 DEF PoolInv, WorkersByPhase
      <3> QED
        BY <3>2 DEF PoolInv, PoolTypes, SendersByPhase, Usable, Q!RecvClosed
    <2>2. /\ Q!RecvTake(w)
          /\ wstate[w] = "loop"
          /\ \E to \in {"running", "stopping"} : wstate' = [wstate EXCEPT ![w] = to]
          /\ UNCHANGED <<main, workers, joined>>
      BY <1>2, <2>1 DEF WorkerTake
    <2> QED
      BY <2>2, WorkerMoves DEF Q!RecvTake, Q!counts, Q!handles
  <1>3. CASE WorkerRun(w)
    BY <1>3, WorkerMoves DEF WorkerRun, queueVars
  <1>4. CASE WorkerExit(w)
    <2> USE DEF PoolInv
    <2>1. ReceiversOfWorkers'
      BY <1>4, ReceiverArithmetic, PoolAssumption
      DEF WorkerExit, Q!DropReceiver, ReceiversOfWorkers, PoolTypes
    <2>2. PoolTypes' /\ SendersByPhase' /\ WorkersNeverSeeClosed'
      BY <1>4
      DEF WorkerExit, Q!DropReceiver, PoolTypes, SendersByPhase, Usable,
          WorkersNeverSeeClosed
    <2>3. WorkersByPhase'
      <3>1. \A v \in Workers : /\ wstate'[v] = "none" <=> wstate[v] = "none"
                               /\ wstate[v] = "exited" => wstate'[v] = "exited"
        BY <1>4 DEF WorkerExit, PoolTypes
      <3>2. main \notin {"shut", "destroyed"} =>
               \A i \in 1..joined : workers[i] \in Workers
        BY ElementOfSeq DEF PoolTypes, WorkersByPhase
      <3> QED
        BY <1>4, <3>1, <3>2 DEF WorkerExit, WorkersByPhase, Elements
    <2> QED
      BY <2>1, <2>2, <2>3
  <1> QED
    BY <1>1, <1>2, <1>3, <1>4

\* execute() and the pills of shutdown() are sent and change no end of the channel.
LEMMA ExecuteKeepsPool ==
    ASSUME PoolInv,
           \/ \E t \in Tasks : execute(t)
           \/ SendPill
    PROVE  PoolInv'
  BY PoolStutter
  DEF execute, SendPill, Q!Send, Q!SendClosed, Q!vars, Q!counts, Q!handles

\* shutdown() joins every worker before the vector and the sender are gone.
LEMMA ShutdownKeepsPool ==
    ASSUME PoolInv, BeginShutdown \/ Join \/ Destroy
    PROVE  PoolInv'
  <1> USE DEF PoolInv
  <1>1. CASE BeginShutdown
    BY <1>1
    DEF BeginShutdown, queueVars, PoolTypes, SendersByPhase, ReceiversOfWorkers,
        WorkersByPhase, WorkersNeverSeeClosed, Usable, Elements
  <1>2. CASE Join
    <2>1. PoolTypes'
      <3>1. <<>> \in Seq(Workers)
        BY EmptySeq
      <3>2. /\ workers' = workers \/ workers' = <<>>
            /\ joined' = joined \/ joined' = joined + 1
            /\ main' \in {"join", "shut"} /\ wstate' = wstate
        BY <1>2 DEF Join
      <3>3. workers' \in Seq(Workers)
        BY <3>1, <3>2 DEF PoolTypes
      <3>4. joined' \in Nat
        BY <3>2 DEF PoolTypes
      <3> QED
        BY <3>2, <3>3, <3>4 DEF PoolTypes
    <2>2. SendersByPhase' /\ ReceiversOfWorkers' /\ WorkersNeverSeeClosed'
      BY <1>2
      DEF Join, queueVars, SendersByPhase, ReceiversOfWorkers, WorkersNeverSeeClosed,
          Usable
    <2>n. Len(workers) \in Nat
      BY LenProperties DEF PoolTypes
    <2>m. main \in {"pills", "join"} /\ wstate' = wstate
      BY <1>2 DEF Join
    <2>3. CASE joined < Len(workers)
      <3>1. /\ wstate[workers[joined + 1]] = "exited"
            /\ joined' = joined + 1 /\ main' = "join" /\ workers' = workers
        BY <1>2, <2>3 DEF Join
      <3>2. \A i \in 1..joined' : wstate[workers[i]] = "exited"
        BY <3>1, <2>m DEF WorkersByPhase, PoolTypes
      <3>3. WorkersByPhase'
        BY SMTT(30), <3>1, <3>2, <2>3, <2>m, <2>n DEF WorkersByPhase, PoolTypes, Elements
      <3> QED
        BY <2>1, <2>2, <3>3
    <2>4. CASE ~(joined < Len(workers))
      <3>1. main' = "shut"
        BY <1>2, <2>4 DEF Join
      <3>2. joined = Len(workers)
        BY <2>4, <2>m, <2>n DEF WorkersByPhase, PoolTypes
      <3>3. \A w \in Workers : wstate[w] = "exited"
        BY <3>2, <2>m DEF WorkersByPhase, Elements
      <3>4. WorkersByPhase'
        BY <3>1, <3>3, <2>m DEF WorkersByPhase
      <3> QED
        BY <2>1, <2>2, <3>4
    <2> QED
      BY <2>3, <2>4
  <1>3. CASE Destroy
    BY <1>3
    DEF Destroy, Q!DropSender, PoolTypes, SendersByPhase, ReceiversOfWorkers,
        WorkersByPhase, WorkersNeverSeeClosed, Usable, Elements
  <1> QED
    BY <1>1, <1>2, <1>3

\* Every step of the owner and of the workers keeps the invariant.
LEMMA NextKeepsPool == PoolInv /\ [Next]_vars => PoolInv'
  <1> SUFFICES ASSUME PoolInv, [Next]_vars PROVE PoolInv'
    OBVIOUS
  <1>1. CASE CopyArguments \/ MemberSender \/ Spawn \/ DropHandles
    BY <1>1, ConstructKeepsPool
  <1>2. CASE \E t \in Tasks : ExecuteOutside(t) \/ \E w \in Workers : ExecuteInTask(w, t)
    BY <1>2, ExecuteKeepsPool DEF ExecuteOutside, ExecuteInTask
  <1>3. CASE \E w \in Workers : \/ WorkerRecv(w) \/ WorkerSpurious(w) \/ WorkerTake(w)
                                \/ WorkerRun(w) \/ WorkerExit(w)
    BY <1>3, WorkerKeepsPool
  <1>4. CASE SendPill
    BY <1>4, ExecuteKeepsPool
  <1>5. CASE BeginShutdown \/ Join \/ Destroy
    BY <1>5, ShutdownKeepsPool
  <1>6. CASE UNCHANGED vars
    BY <1>6, PoolStutter DEF vars, queueVars, poolVars
  <1> QED
    BY <1>1, <1>2, <1>3, <1>4, <1>5, <1>6 DEF Next, Finished

\* The inductive invariant of the pool holds throughout.
THEOREM PoolCorrect == Spec => []PoolInv
  BY InitPool, NextKeepsPool, PTL DEF Spec

\* However many workers and tasks there are, no worker meets a closed channel:
\* the constructor, create(), shutdown() and the destructor together keep some
\* sender alive until the last worker is joined.
THEOREM WorkersNeverSeeClosedCorrect == Spec => []WorkersNeverSeeClosed
  BY PoolCorrect, PTL DEF PoolInv

\* execute() throws only when all workers are down.
THEOREM ThrowMeansWorkersDownCorrect == Spec => ThrowMeansWorkersDown
  <1>1. PoolInv /\ [Next]_vars =>
           [refused' # refused => \A w \in Workers : wstate[w] = "exited"]_vars
    <2> SUFFICES ASSUME PoolInv, Next, refused' # refused
                 PROVE  \A w \in Workers : wstate[w] = "exited"
      BY DEF vars, poolVars
    <2> USE DEF PoolInv
    <2>1. PICK t \in Tasks : ExecuteOutside(t) \/ \E w \in Workers : ExecuteInTask(w, t)
      BY DEF Next, CopyArguments, MemberSender, Spawn, DropHandles, WorkerRecv,
             WorkerSpurious, WorkerTake, WorkerRun, WorkerExit, BeginShutdown, SendPill,
             Join, Destroy, Finished, poolVars, vars
    <2>2. consumder_count = 0
      BY <2>1 DEF ExecuteOutside, ExecuteInTask, execute, Q!SendClosed
    <2>3. receivers = {}
      BY <2>2, ReceiverArithmetic DEF ReceiversOfWorkers
    <2>4. \A w \in Workers : wstate[w] \in {"none", "exited"}
      BY <2>3 DEF ReceiversOfWorkers, PoolTypes
    <2>5. Usable
      BY <2>1, <2>4 DEF ExecuteOutside, ExecuteInTask
    <2> QED
      BY <2>4, <2>5 DEF Usable, WorkersByPhase
  <1> QED
    BY <1>1, PoolCorrect, PTL DEF Spec, ThrowMeansWorkersDown

-----------------------------------------------------------------------------
(* What becomes of a task.                                                  *)

Items == Tasks \cup {Pill}

Taken == 1..Len(received)
Accepted == 1..Len(sent)

\* The queue is the part of what was sent that has not been received.
Flow ==
    /\ queue \in Seq(Items) /\ sent \in Seq(Items) /\ received \in Seq(Items)
    /\ Len(sent) = Len(received) + Len(queue)
    /\ \A i \in 1..Len(queue) : queue[i] = sent[Len(received) + i]

SentOnce == \A i, j \in Accepted : sent[i] = sent[j] /\ sent[i] # Pill => i = j

Runs(w, t) == wstate[w] = "running" /\ task[w] = t

\* What has left the queue is run by one worker or done, and nothing else is.
TakenIsRun ==
    /\ task \in [Workers -> Items]
    /\ \A i \in Taken : sent[i] # Pill =>
          sent[i] \in done \/ \E w \in Workers : Runs(w, sent[i])
    /\ \A w \in Workers : wstate[w] = "running" =>
          /\ task[w] # Pill /\ task[w] \notin done
          /\ \E i \in Taken : Runs(w, sent[i])
          /\ \A v \in Workers : Runs(v, task[w]) => v = w
    /\ \A t \in done : t # Pill /\ \E i \in Taken : sent[i] = t

\* The inductive invariant about tasks.
PlaceInv == Flow /\ SentOnce /\ TakenIsRun

Stopped == {w \in Workers : wstate[w] \in {"stopping", "exited"}}

SentPills == {i \in Accepted : sent[i] = Pill}
TakenPills == {i \in Taken : sent[i] = Pill}

\* A pill that was taken has stopped one worker, and shutdown() sends no more
\* pills than there are workers.
PillInv ==
    /\ pills \in Nat /\ pills <= Cardinality(Workers)
    /\ Cardinality(SentPills) <= pills
    /\ Cardinality(TakenPills) = Cardinality(Stopped)
    /\ main \notin {"shut", "destroyed"} => Len(workers) = Cardinality(Elements(workers))

-----------------------------------------------------------------------------
(* Where tasks are.                                                         *)

\* Nothing is sent or received before the channel exists.
LEMMA InitPlace == Init => PlaceInv
  <1> SUFFICES ASSUME Init PROVE PlaceInv
    OBVIOUS
  <1>1. Len(sent) = 0 /\ Len(received) = 0 /\ Len(queue) = 0
    BY DEF Init, Q!Init
  <1>2. Flow
    BY <1>1, EmptySeq DEF Init, Q!Init, Flow
  <1>3. SentOnce /\ TakenIsRun
    BY <1>1 DEF Init, SentOnce, TakenIsRun, Accepted, Taken, Items
  <1> QED
    BY <1>2, <1>3 DEF PlaceInv

\* A step that moves no task: the worker that changes does not run one before
\* or after it.
LEMMA PlaceStutter ==
    ASSUME PlaceInv, UNCHANGED <<queue, sent, received, task, done>>,
           \A w \in Workers : wstate'[w] = "running" <=> wstate[w] = "running"
    PROVE  PlaceInv'
  BY DEF PlaceInv, Flow, SentOnce, TakenIsRun, Runs, Accepted, Taken

\* push(): a task that was never sent, or a pill, goes behind the others.
LEMMA SendPlaces ==
    ASSUME PlaceInv, NEW v \in Items, v \in Tasks => v \notin Elements(sent),
           queue' = Append(queue, v), sent' = Append(sent, v),
           UNCHANGED <<received, wstate, task, done>>
    PROVE  PlaceInv'
  <1> USE DEF PlaceInv
  <1>1. /\ queue' \in Seq(Items) /\ Len(queue') = Len(queue) + 1
        /\ \A i \in 1..Len(queue) : queue'[i] = queue[i]
        /\ queue'[Len(queue) + 1] = v
    BY AppendProperties DEF Flow
  <1>2. /\ sent' \in Seq(Items) /\ Len(sent') = Len(sent) + 1
        /\ \A i \in 1..Len(sent) : sent'[i] = sent[i]
        /\ sent'[Len(sent) + 1] = v
    <2>1. sent \in Seq(Items)
      BY DEF Flow
    <2> QED
      BY <2>1, AppendProperties
  <1>3. Len(queue) \in Nat /\ Len(sent) \in Nat /\ Len(received) \in Nat
    BY LenProperties DEF Flow
  <1>4. Flow'
    BY <1>1, <1>2, <1>3 DEF Flow
  <1>5. SentOnce'
    BY <1>2, <1>3 DEF SentOnce, Accepted, Elements, Items
  <1>6. Taken \subseteq 1..Len(sent) /\ Taken' = Taken
    BY <1>3 DEF Flow, Taken
  <1>7. TakenIsRun'
    BY <1>2, <1>6 DEF TakenIsRun, Runs
  <1> QED
    BY <1>4, <1>5, <1>7

\* pop(): the first in the queue goes to the worker, which runs it if it is a
\* task and stops if it is a pill.
LEMMA TakePlaces ==
    ASSUME PoolInv, PlaceInv, NEW w \in Workers, wstate[w] = "loop", queue # <<>>,
           queue' = Tail(queue), received' = Append(received, Head(queue)),
           wstate' = [wstate EXCEPT ![w] = IF Head(queue) = Pill THEN "stopping"
                                           ELSE "running"],
           task' = [task EXCEPT ![w] = Head(queue)],
           UNCHANGED <<sent, done>>
    PROVE  PlaceInv' /\ Len(received') = Len(received) + 1
           /\ Head(queue) = sent[Len(received) + 1] /\ Len(received) < Len(sent)
  <1> USE DEF PlaceInv
  <1> DEFINE h == Head(queue)
             n == Len(received) + 1
  <1>1. /\ h \in Items /\ queue' \in Seq(Items)
        /\ Len(queue') = Len(queue) - 1
        /\ \A i \in 1..Len(queue') : queue'[i] = queue[i + 1]
    BY HeadTailProperties DEF Flow
  <1>2. Len(queue) \in Nat \ {0}
    BY EmptySeq DEF Flow
  <1>3. received' \in Seq(Items) /\ Len(received') = n
    BY <1>1, AppendProperties DEF Flow
  <1>4. Len(sent) \in Nat /\ Len(received) \in Nat
    BY LenProperties DEF Flow
  <1>5. h = queue[1]
    BY <1>2 DEF Flow
  <1>6. h = sent[n] /\ n \in Accepted /\ Len(received) < Len(sent)
    BY <1>2, <1>4, <1>5 DEF Flow, Accepted
  <1>7. Flow'
    <2>1. \A i \in 1..Len(queue') : queue'[i] = sent[Len(received') + i]
      <3>1. \A i \in 1..Len(queue') : i + 1 \in 1..Len(queue)
        BY <1>1, <1>2
      <3>2. \A i \in 1..Len(queue') : queue'[i] = sent[Len(received) + (i + 1)]
        BY <1>1, <3>1 DEF Flow
      <3> QED
        BY <1>2, <1>3, <1>4, <3>2
    <2>2. Len(sent) = Len(received') + Len(queue')
      BY <1>1, <1>2, <1>3, <1>4 DEF Flow
    <2> QED
      BY <1>1, <1>3, <2>1, <2>2 DEF Flow
  <1>8. SentOnce'
    BY DEF SentOnce, Accepted
  <1>9. Taken' = Taken \cup {n} /\ n \notin Taken /\ Taken \subseteq Accepted
    BY <1>2, <1>3, <1>4 DEF Taken, Flow, Accepted
  <1>10. h # Pill => h \notin done /\ \A v \in Workers : ~Runs(v, h)
    BY <1>6, <1>9 DEF SentOnce, TakenIsRun, Runs
  <1>11. /\ task' \in [Workers -> Items] /\ task'[w] = h
         /\ wstate'[w] = IF h = Pill THEN "stopping" ELSE "running"
         /\ \A v \in Workers \ {w} : task'[v] = task[v] /\ wstate'[v] = wstate[v]
    BY <1>1 DEF TakenIsRun, PoolInv, PoolTypes
  <1>12. TakenIsRun'
    <2>1. ASSUME NEW i \in Taken', sent[i] # Pill
          PROVE  sent[i] \in done \/ \E v \in Workers : Runs(v, sent[i])'
      <3>1. CASE i = n
        BY <2>1, <3>1, <1>6, <1>11 DEF Runs
      <3>2. CASE i \in Taken
        BY <2>1, <3>2, <1>11 DEF TakenIsRun, Runs
      <3> QED
        BY <3>1, <3>2, <1>9
    <2>2. ASSUME NEW v \in Workers, wstate'[v] = "running"
          PROVE  /\ task'[v] # Pill /\ task'[v] \notin done
                 /\ \E i \in Taken' : Runs(v, sent[i])'
                 /\ \A u \in Workers : Runs(u, task[v])' => u = v
      <3>1. CASE v = w
        BY <2>2, <3>1, <1>6, <1>9, <1>10, <1>11 DEF Runs
      <3>2. CASE v # w
        <4>1. wstate[v] = "running" /\ task'[v] = task[v]
          BY <2>2, <3>2, <1>11
        <4>2. task[v] # Pill /\ task[v] \notin done
          BY <4>1 DEF TakenIsRun
        <4>3. PICK i \in Taken : Runs(v, sent[i])
          BY <4>1 DEF TakenIsRun
        <4>4. Runs(v, sent[i])'
          BY <4>1, <4>3, <2>2 DEF Runs
        <4>5. ASSUME NEW u \in Workers, Runs(u, task[v])' PROVE u = v
          <5>1. CASE u = w
            BY <5>1, <4>1, <4>2, <4>5, <1>10, <1>11 DEF Runs
          <5>2. CASE u # w
            BY <5>2, <4>1, <4>5, <1>11 DEF TakenIsRun, Runs
          <5> QED
            BY <5>1, <5>2
        <4> QED
          BY <4>1, <4>2, <4>4, <4>5, <1>9
      <3> QED
        BY <3>1, <3>2
    <2>3. \A t \in done : t # Pill /\ \E i \in Taken' : sent[i] = t
      BY <1>9 DEF TakenIsRun
    <2> QED
      BY <1>11, <2>1, <2>2, <2>3 DEF TakenIsRun
  <1> QED
    BY <1>3, <1>6, <1>7, <1>8, <1>12

\* The task returns: what was run is done, and its worker runs none.
LEMMA RunPlaces ==
    ASSUME PoolInv, PlaceInv, NEW w \in Workers, WorkerRun(w)
    PROVE  PlaceInv'
  <1> USE DEF PlaceInv
  <1>1. /\ wstate[w] = "running" /\ wstate'[w] = "loop" /\ done' = done \cup {task[w]}
        /\ task' \in [Workers -> Items]
        /\ \A v \in Workers \ {w} : task'[v] = task[v] /\ wstate'[v] = wstate[v]
        /\ UNCHANGED <<queue, sent, received>>
    BY DEF WorkerRun, queueVars, TakenIsRun, Items, PoolInv, PoolTypes
  <1>2. Flow' /\ SentOnce'
    BY <1>1 DEF Flow, SentOnce, Accepted
  <1>3. TakenIsRun'
    <2>1. PICK k \in Taken : Runs(w, sent[k])
      BY <1>1 DEF TakenIsRun
    <2>2. \A v \in Workers : wstate'[v] = "running" => v # w
      BY <1>1
    <2>3. \A i \in Taken : sent[i] # Pill =>
             sent[i] \in done' \/ \E v \in Workers : Runs(v, sent[i])'
      BY <1>1 DEF TakenIsRun, Runs
    <2>4. \A v \in Workers : wstate'[v] = "running" =>
             /\ task'[v] # Pill /\ task'[v] \notin done'
             /\ \E i \in Taken : Runs(v, sent[i])'
             /\ \A u \in Workers : Runs(u, task[v])' => u = v
      BY <1>1, <2>2 DEF TakenIsRun, Runs
    <2>5. \A t \in done' : t # Pill /\ \E i \in Taken : sent[i] = t
      BY <1>1, <2>1 DEF TakenIsRun, Runs
    <2> QED
      BY <1>1, <2>3, <2>4, <2>5 DEF TakenIsRun, Taken
  <1> QED
    BY <1>2, <1>3

\* Every step of the pool moves each task at most once, to its next place.
LEMMA NextKeepsPlace == PoolInv /\ PlaceInv /\ [Next]_vars => PlaceInv'
  <1> SUFFICES ASSUME PoolInv, PlaceInv, [Next]_vars PROVE PlaceInv'
    OBVIOUS
  <1>1. CASE CopyArguments \/ MemberSender \/ DropHandles
    BY <1>1, PlaceStutter
    DEF CopyArguments, MemberSender, DropHandles, Q!CopySender, Q!CopyReceiver,
        Q!DropSender, Q!DropReceiver, Q!history
  <1>2. CASE Spawn
    <2>1. PICK w \in Workers \ Elements(workers) :
             Q!CopyReceiver(RP, w) /\ wstate' = [wstate EXCEPT ![w] = "loop"]
      BY <1>2 DEF Spawn
    <2>2. wstate[w] = "none"
      BY <1>2 DEF Spawn, PoolInv, WorkersByPhase
    <2>3. \A v \in Workers : wstate'[v] = "running" <=> wstate[v] = "running"
      BY <2>1, <2>2 DEF PoolInv, PoolTypes
    <2> QED
      BY <1>2, <2>1, <2>3, PlaceStutter DEF Spawn, Q!CopyReceiver, Q!history
  <1>3. ASSUME NEW t \in Tasks, execute(t) PROVE PlaceInv'
    <2>1. CASE Q!SendClosed(ST)
      BY <1>3, <2>1, PlaceStutter DEF execute, Q!SendClosed, Q!vars, Q!history
    <2>2. CASE Q!Send(ST, t)
      BY <1>3, <2>2, SendPlaces DEF execute, Q!Send, Unsubmitted, Items
    <2> QED
      BY <1>3, <2>1, <2>2 DEF execute
  <1>4. ASSUME NEW w \in Workers, WorkerRecv(w) \/ WorkerSpurious(w) PROVE PlaceInv'
    BY <1>4, PlaceStutter
    DEF WorkerRecv, WorkerSpurious, Q!CallRecv, Q!RecvWait, Q!SpuriousWakeup,
        Q!history, poolVars
  <1>5. ASSUME NEW w \in Workers, WorkerTake(w) PROVE PlaceInv'
    <2>1. CASE Q!RecvTake(w)
      <3>1. ~Q!RecvClosed(w)
        BY <2>1 DEF Q!RecvTake, Q!RecvClosed
      <3> QED
        BY <1>5, <2>1, <3>1, TakePlaces DEF WorkerTake, Q!RecvTake
    <2>2. CASE Q!RecvClosed(w)
      <3>1. \A v \in Workers : wstate'[v] = "running" <=> wstate[v] = "running"
        BY <1>5, <2>2 DEF WorkerTake, Q!RecvTake, Q!RecvClosed, PoolInv, PoolTypes
      <3> QED
        BY <1>5, <2>2, <3>1, PlaceStutter DEF WorkerTake, Q!RecvTake, Q!RecvClosed
    <2> QED
      BY <1>5, <2>1, <2>2 DEF WorkerTake
  <1>6. ASSUME NEW w \in Workers, WorkerRun(w) PROVE PlaceInv'
    BY <1>6, RunPlaces
  <1>7. ASSUME NEW w \in Workers, WorkerExit(w) PROVE PlaceInv'
    <2>1. \A v \in Workers : wstate'[v] = "running" <=> wstate[v] = "running"
      BY <1>7 DEF WorkerExit, PoolInv, PoolTypes
    <2> QED
      BY <1>7, <2>1, PlaceStutter DEF WorkerExit, Q!DropReceiver, Q!history
  <1>8. CASE SendPill
    <2>1. CASE Q!SendClosed(ST)
      BY <1>8, <2>1, PlaceStutter DEF SendPill, Q!SendClosed, Q!vars, Q!history
    <2>2. CASE Q!Send(ST, Pill)
      BY <1>8, <2>2, SendPlaces, PoolAssumption DEF SendPill, Q!Send, Items
    <2> QED
      BY <1>8, <2>1, <2>2 DEF SendPill
  <1>9. CASE BeginShutdown \/ Join \/ Destroy \/ UNCHANGED vars
    BY <1>9, PlaceStutter
    DEF BeginShutdown, Join, Destroy, Q!DropSender, Q!history, vars, queueVars, poolVars
  <1> QED
    BY <1>1, <1>2, <1>3, <1>4, <1>5, <1>6, <1>7, <1>8, <1>9
    DEF Next, Finished, ExecuteOutside, ExecuteInTask

\* The inductive invariant about tasks holds throughout.
THEOREM PlaceCorrect == Spec => []PlaceInv
  BY PoolCorrect, InitPlace, NextKeepsPlace, PTL DEF Spec

\* A set that holds one thing at most has at most one element.
LEMMA SingleOrNone ==
    /\ Cardinality({}) = 0
    /\ \A x : Cardinality({x}) = 1
  BY FS_EmptySet, FS_Singleton

\* An accepted task waits in the queue, is run by one worker, or is done, and
\* never two of these: no task is lost and none is run twice, whatever the
\* number of workers that call recv() at once.
THEOREM TaskInOnePlaceCorrect == Spec => []TaskInOnePlace
  <1> DEFINE Places(t) == {i \in 1..Len(queue) : queue[i] = t}
             Runners(t) == {w \in Workers : wstate[w] = "running" /\ task[w] = t}
  <1>1. ASSUME PlaceInv, NEW t \in Tasks \cap Elements(sent)
        PROVE  Cardinality(Places(t)) + Cardinality(Runners(t))
                 + (IF t \in done THEN 1 ELSE 0) = 1
    <2> USE <1>1 DEF PlaceInv
    <2> DEFINE places == Places(t)
               runners == Runners(t)
    <2>1. t # Pill
      BY PoolAssumption
    <2>2. PICK k \in Accepted : sent[k] = t
      BY DEF Elements, Accepted
    <2>3. Len(queue) \in Nat /\ Len(sent) \in Nat /\ Len(received) \in Nat
      BY LenProperties DEF Flow
    <2>4. \A i \in Accepted : sent[i] = t => i = k
      BY <2>1, <2>2 DEF SentOnce
    <2>5. Taken \subseteq Accepted
      BY <2>3 DEF Taken, Accepted, Flow
    <2>6. CASE k \in Taken
      <3>1. places = {}
        <4>1. ASSUME NEW i \in 1..Len(queue) PROVE queue[i] # t
          <5>1. queue[i] = sent[Len(received) + i] /\ Len(received) + i \in Accepted
            BY <2>3 DEF Flow, Accepted
          <5>2. k <= Len(received)
            BY <2>3, <2>6 DEF Taken
          <5> QED
            BY <2>2, <2>3, <2>4, <5>1, <5>2 DEF Accepted
        <4> QED
          BY <4>1
      <3>2. CASE t \in done
        <4>1. runners = {}
          BY <3>2 DEF TakenIsRun
        <4>2. Cardinality(places) = 0 /\ Cardinality(runners) = 0
          BY <3>1, <4>1, SingleOrNone
        <4> QED
          BY <3>2, <4>2
      <3>3. CASE t \notin done
        <4>1. PICK w \in Workers : Runs(w, t)
          BY <2>1, <2>2, <2>6, <3>3 DEF TakenIsRun
        <4>2. runners = {w}
          BY <4>1 DEF TakenIsRun, Runs
        <4>3. Cardinality(runners) = 1
          BY <4>2, SingleOrNone
        <4>4. Cardinality(places) = 0
          BY <3>1, SingleOrNone
        <4> QED
          BY <3>3, <4>3, <4>4
      <3> QED
        BY <3>2, <3>3
    <2>7. CASE k \notin Taken
      <3>1. \A i \in Taken : sent[i] # t
        BY <2>4, <2>5, <2>7
      <3>2. t \notin done
        BY <3>1 DEF TakenIsRun
      <3>3. runners = {}
        BY <3>1 DEF TakenIsRun, Runs
      <3>4. places = {k - Len(received)}
        <4> DEFINE n == Len(received)
                   j == k - n
        <4>1. n \in Nat /\ k \in Nat /\ k > n /\ k <= n + Len(queue)
          BY <2>2, <2>3, <2>7 DEF Flow, Taken, Accepted
        <4>2. j \in 1..Len(queue) /\ n + j = k
          BY <2>3, <4>1
        <4>3. queue[j] = t
          BY <2>2, <4>2 DEF Flow
        <4>4. ASSUME NEW i \in 1..Len(queue), queue[i] = t
              PROVE  i = j
          <5>1. n + i \in Accepted /\ sent[n + i] = t
            BY <2>3, <4>4 DEF Flow, Accepted
          <5>2. n + i = k
            BY <2>4, <5>1
          <5> QED
            BY <4>1, <5>2
        <4> HIDE DEF n, j
        <4>5. places = {j}
          BY <4>2, <4>3, <4>4
        <4> QED
          BY <4>5 DEF j, n
      <3>5. Cardinality(places) = 1
        BY <3>4, SingleOrNone
      <3>6. Cardinality(runners) = 0
        BY <3>3, SingleOrNone
      <3> QED
        BY <3>2, <3>5, <3>6
    <2> QED
      BY <2>6, <2>7
  <1>2. PlaceInv => TaskInOnePlace
    BY <1>1 DEF TaskInOnePlace
  <1> QED
    BY <1>2, PlaceCorrect, PTL

-----------------------------------------------------------------------------
(* What pills do.                                                           *)

\* The sets counted below are finite, and an element more is one more.
LEMMA Counted ==
    ASSUME PlaceInv, PoolInv
    PROVE  /\ IsFiniteSet(SentPills) /\ IsFiniteSet(TakenPills)
           /\ TakenPills \subseteq SentPills
           /\ IsFiniteSet(Stopped)
           /\ \A S, x : IsFiniteSet(S) /\ x \notin S =>
                 Cardinality(S \cup {x}) = Cardinality(S) + 1
           /\ \A S : IsFiniteSet(S) => Cardinality(S) \in Nat
           /\ Elements(workers) \subseteq Workers /\ IsFiniteSet(Elements(workers))
           /\ Cardinality(Elements(workers)) <= Cardinality(Workers)
  <1>1. Len(received) \in Nat /\ Len(sent) \in Nat /\ Len(queue) \in Nat
    BY LenProperties DEF PlaceInv, Flow
  <1>2. Taken \subseteq Accepted /\ IsFiniteSet(Accepted)
    <2>1. Taken \subseteq Accepted
      BY <1>1 DEF Taken, Accepted, PlaceInv, Flow
    <2>2. 1 \in Int /\ Len(sent) \in Int
      BY <1>1
    <2>3. IsFiniteSet(1..Len(sent))
      BY <2>2, FS_Interval
    <2> QED
      BY <2>1, <2>3 DEF Accepted
  <1>3. SentPills \subseteq Accepted /\ TakenPills \subseteq SentPills
    BY <1>2 DEF SentPills, TakenPills
  <1>4. IsFiniteSet(SentPills)
    BY <1>2, <1>3, FS_Subset
  <1>5. IsFiniteSet(TakenPills)
    BY <1>3, <1>4, FS_Subset
  <1>6. Stopped \subseteq Workers
    BY DEF Stopped
  <1>7. IsFiniteSet(Stopped)
    BY <1>6, FS_Subset, PoolAssumption
  <1>8. Elements(workers) \subseteq Workers
    BY ElementOfSeq DEF PoolInv, PoolTypes, Elements
  <1>9. IsFiniteSet(Elements(workers)) /\ Cardinality(Elements(workers)) <= Cardinality(Workers)
    BY <1>8, FS_Subset, PoolAssumption
  <1>10. \A S, x : IsFiniteSet(S) /\ x \notin S => Cardinality(S \cup {x}) = Cardinality(S) + 1
    BY FS_AddElement
  <1>11. \A S : IsFiniteSet(S) => Cardinality(S) \in Nat
    BY FS_CardinalityType
  <1> QED
    BY <1>3, <1>4, <1>5, <1>7, <1>8, <1>9, <1>10, <1>11

\* Nothing is sent and nobody has stopped.
LEMMA InitPill == Init => PillInv
  <1> SUFFICES ASSUME Init PROVE PillInv
    OBVIOUS
  <1>1. SentPills = {} /\ TakenPills = {} /\ Stopped = {} /\ Elements(workers) = {}
    BY DEF Init, Q!Init, SentPills, TakenPills, Accepted, Taken, Stopped, Elements
  <1>2. Len(workers) = 0 /\ pills = 0
    BY DEF Init
  <1>3. Cardinality(Workers) \in Nat
    BY FS_CardinalityType, PoolAssumption
  <1> QED
    BY <1>1, <1>2, <1>3, SingleOrNone DEF PillInv

\* A step that sends and takes nothing and stops nobody.
LEMMA PillStutter ==
    ASSUME PillInv, UNCHANGED <<sent, received, pills>>,
           UNCHANGED workers \/ main' \in {"shut", "destroyed"},
           main \in {"shut", "destroyed"} => main' \in {"shut", "destroyed"},
           Stopped' = Stopped
    PROVE  PillInv'
  BY DEF PillInv, SentPills, TakenPills, Accepted, Taken, Elements

\* A task that is sent is no pill.
LEMMA SendTaskPills ==
    ASSUME PlaceInv, PillInv, NEW t \in Tasks, sent' = Append(sent, t),
           UNCHANGED <<received, pills, workers, main, wstate>>
    PROVE  PillInv'
  <1>1. /\ Len(sent') = Len(sent) + 1
        /\ \A i \in 1..Len(sent) : sent'[i] = sent[i]
        /\ sent'[Len(sent) + 1] = t
    <2>1. sent \in Seq(Items) /\ t \in Items
      BY DEF PlaceInv, Flow, Items
    <2> QED
      BY <2>1, AppendProperties
  <1>2. Len(received) \in Nat /\ Len(sent) \in Nat /\ Len(queue) \in Nat
    BY LenProperties DEF PlaceInv, Flow
  <1>3. t # Pill
    BY PoolAssumption
  <1>4. SentPills' = SentPills
    BY <1>1, <1>2, <1>3 DEF SentPills, Accepted
  <1>5. TakenPills' = TakenPills
    BY <1>1, <1>2 DEF TakenPills, Taken, PlaceInv, Flow
  <1> QED
    BY <1>4, <1>5 DEF PillInv, Stopped, Elements

\* shutdown() counts each pill it tries to send, one per worker of the vector.
LEMMA SendPillPills ==
    ASSUME PoolInv, PlaceInv, PillInv, SendPill
    PROVE  PillInv'
  <1>1. /\ main = "pills" /\ pills < Len(workers) /\ pills' = pills + 1
        /\ UNCHANGED <<main, workers, wstate, received>>
    BY DEF SendPill, Q!Send, Q!SendClosed, Q!vars, Q!history
  <1>2. /\ Len(workers) = Cardinality(Elements(workers))
        /\ pills' \in Nat /\ pills' <= Cardinality(Workers)
    <2>1. Len(workers) = Cardinality(Elements(workers))
      BY <1>1 DEF PillInv
    <2>2. /\ Cardinality(Elements(workers)) \in Nat
          /\ Cardinality(Elements(workers)) <= Cardinality(Workers)
          /\ Cardinality(Workers) \in Nat
      BY Counted, PoolAssumption
    <2> QED
      BY <1>1, <2>1, <2>2 DEF PillInv
  <1>3. Len(received) \in Nat /\ Len(sent) \in Nat /\ Len(queue) \in Nat
    BY LenProperties DEF PlaceInv, Flow
  <1>4. /\ Cardinality(SentPills') <= pills'
        /\ TakenPills' = TakenPills
    <2>1. CASE Q!SendClosed(ST)
      <3>1. sent' = sent
        BY <2>1 DEF Q!SendClosed, Q!vars, Q!history
      <3>2. SentPills' = SentPills /\ TakenPills' = TakenPills
        BY <1>1, <3>1 DEF SentPills, TakenPills, Accepted, Taken
      <3>3. Cardinality(SentPills) \in Nat
        BY Counted
      <3> QED
        BY <1>1, <3>2, <3>3 DEF PillInv
    <2>2. CASE Q!Send(ST, Pill)
      <3>1. sent \in Seq(Items) /\ Pill \in Items /\ sent' = Append(sent, Pill)
        BY <2>2 DEF PlaceInv, Flow, Items, Q!Send
      <3>2. /\ Len(sent') = Len(sent) + 1
            /\ \A i \in 1..Len(sent) : sent'[i] = sent[i]
            /\ sent'[Len(sent) + 1] = Pill
        BY <3>1, AppendProperties
      <3>3. /\ SentPills' = SentPills \cup {Len(sent) + 1}
            /\ Len(sent) + 1 \notin SentPills
        BY <1>3, <3>2 DEF SentPills, Accepted
      <3>4. TakenPills' = TakenPills
        BY <1>1, <1>3, <3>2 DEF TakenPills, Taken, PlaceInv, Flow
      <3>5. Cardinality(SentPills') = Cardinality(SentPills) + 1
            /\ Cardinality(SentPills) \in Nat
        BY <3>3, Counted
      <3> QED
        BY <1>1, <3>4, <3>5 DEF PillInv
    <2> QED
      BY <2>1, <2>2 DEF SendPill
  <1> QED
    BY <1>1, <1>2, <1>4 DEF PillInv, Stopped, Elements

\* A worker that takes a pill stops, and one that takes a task does not.
LEMMA TakePills ==
    ASSUME PoolInv, PlaceInv, PillInv, NEW w \in Workers, WorkerTake(w), Q!RecvTake(w)
    PROVE  PillInv'
  <1> DEFINE n == Len(received) + 1
  <1>1. /\ wstate[w] = "loop"
        /\ wstate' = [wstate EXCEPT ![w] = IF Head(queue) = Pill THEN "stopping"
                                           ELSE "running"]
        /\ UNCHANGED <<main, workers, pills, sent>>
        /\ Len(received') = n /\ Head(queue) = sent[n] /\ Len(received) < Len(sent)
    <2>1. ~Q!RecvClosed(w)
      BY DEF Q!RecvTake, Q!RecvClosed
    <2> QED
      BY <2>1, TakePlaces DEF WorkerTake, Q!RecvTake
  <1>2. Len(received) \in Nat /\ Len(sent) \in Nat
    BY LenProperties DEF PlaceInv, Flow
  <1>3. SentPills' = SentPills
    BY <1>1 DEF SentPills, Accepted
  <1>4. CASE sent[n] = Pill
    <2>1. TakenPills' = TakenPills \cup {n} /\ n \notin TakenPills
      BY <1>1, <1>2, <1>4 DEF TakenPills, Taken
    <2>2. Stopped' = Stopped \cup {w} /\ w \notin Stopped
      BY <1>1, <1>4 DEF Stopped, PoolInv, PoolTypes
    <2>3. Cardinality(TakenPills') = Cardinality(Stopped')
      BY <2>1, <2>2, Counted DEF PillInv
    <2> QED
      BY <1>1, <1>3, <2>3 DEF PillInv, Elements
  <1>5. CASE sent[n] # Pill
    <2>1. TakenPills' = TakenPills
      BY <1>1, <1>2, <1>5 DEF TakenPills, Taken
    <2>2. Stopped' = Stopped
      BY <1>1, <1>5 DEF Stopped, PoolInv, PoolTypes
    <2> QED
      BY <1>1, <1>3, <2>1, <2>2 DEF PillInv, Elements
  <1> QED
    BY <1>4, <1>5

\* The vector of workers grows by a worker that is not in it.
LEMMA SpawnPills ==
    ASSUME PoolInv, PlaceInv, PillInv, Spawn
    PROVE  PillInv'
  <1>1. PICK w \in Workers \ Elements(workers) :
           /\ Q!CopyReceiver(RP, w)
           /\ workers' = Append(workers, w)
           /\ wstate' = [wstate EXCEPT ![w] = "loop"]
    BY DEF Spawn
  <1>2. main = "spawn" /\ UNCHANGED <<sent, received, pills>>
    BY <1>1 DEF Spawn, Q!CopyReceiver, Q!history
  <1>3. wstate[w] = "none"
    BY <1>2 DEF PoolInv, WorkersByPhase
  <1>4. Stopped' = Stopped
    BY <1>1, <1>3 DEF Stopped, PoolInv, PoolTypes
  <1>5. /\ Len(workers') = Len(workers) + 1
        /\ \A i \in 1..Len(workers) : workers'[i] = workers[i]
        /\ workers'[Len(workers) + 1] = w
    BY <1>1, AppendProperties DEF PoolInv, PoolTypes
  <1>6. Len(workers) \in Nat
    BY LenProperties DEF PoolInv, PoolTypes
  <1>7. Elements(workers)' = Elements(workers) \cup {w}
    <2>1. \A x \in Elements(workers') : x \in Elements(workers) \cup {w}
      BY <1>5, <1>6 DEF Elements
    <2>2. \A x \in Elements(workers) : x \in Elements(workers')
      BY <1>5, <1>6 DEF Elements
    <2>3. w \in Elements(workers')
      BY <1>5, <1>6 DEF Elements
    <2> QED
      BY <2>1, <2>2, <2>3
  <1>8. Cardinality(Elements(workers)') = Cardinality(Elements(workers)) + 1
    BY <1>1, <1>7, Counted
  <1>9. Len(workers') = Cardinality(Elements(workers)')
    BY <1>2, <1>5, <1>8 DEF PillInv
  <1> QED
    BY <1>2, <1>4, <1>9 DEF PillInv, SentPills, TakenPills, Accepted, Taken

\* Every step keeps the count of the pills.
LEMMA NextKeepsPill == PoolInv /\ PlaceInv /\ PillInv /\ [Next]_vars => PillInv'
  <1> SUFFICES ASSUME PoolInv, PlaceInv, PillInv, [Next]_vars PROVE PillInv'
    OBVIOUS
  <1>1. CASE CopyArguments \/ MemberSender \/ DropHandles
    <2>1. /\ main \notin {"shut", "destroyed"}
          /\ UNCHANGED <<sent, received, pills, workers, wstate>>
      BY <1>1
      DEF CopyArguments, MemberSender, DropHandles, Q!CopySender, Q!CopyReceiver,
          Q!DropSender, Q!DropReceiver, Q!history
    <2> QED
      BY <2>1, PillStutter DEF Stopped
  <1>2. CASE Spawn
    BY <1>2, SpawnPills
  <1>3. ASSUME NEW t \in Tasks, execute(t) PROVE PillInv'
    <2>1. CASE Q!SendClosed(ST)
      BY <1>3, <2>1, PillStutter DEF execute, Q!SendClosed, Q!vars, Q!history, Stopped
    <2>2. CASE Q!Send(ST, t)
      BY <1>3, <2>2, SendTaskPills DEF execute, Q!Send
    <2> QED
      BY <1>3, <2>1, <2>2 DEF execute
  <1>4. ASSUME NEW w \in Workers, WorkerRecv(w) \/ WorkerSpurious(w) PROVE PillInv'
    BY <1>4, PillStutter
    DEF WorkerRecv, WorkerSpurious, Q!CallRecv, Q!RecvWait, Q!SpuriousWakeup,
        Q!history, poolVars, Stopped
  <1>5. ASSUME NEW w \in Workers, WorkerTake(w) PROVE PillInv'
    <2>1. CASE Q!RecvTake(w)
      BY <1>5, <2>1, TakePills
    <2>2. CASE Q!RecvClosed(w)
      <3>1. /\ UNCHANGED <<main, workers, pills, sent, received>>
            /\ wstate[w] = "loop" /\ wstate' = [wstate EXCEPT ![w] = "threw"]
        BY <1>5, <2>2 DEF WorkerTake, Q!RecvTake, Q!RecvClosed
      <3>2. Stopped' = Stopped
        BY <3>1 DEF Stopped, PoolInv, PoolTypes
      <3> QED
        BY <3>1, <3>2, PillStutter
    <2> QED
      BY <1>5, <2>1, <2>2 DEF WorkerTake
  <1>6. ASSUME NEW w \in Workers, WorkerRun(w) \/ WorkerExit(w) PROVE PillInv'
    <2>1. UNCHANGED <<main, workers, pills, sent, received>>
      BY <1>6 DEF WorkerRun, WorkerExit, queueVars, Q!DropReceiver, Q!history
    <2>2. Stopped' = Stopped
      BY <1>6 DEF WorkerRun, WorkerExit, Stopped, PoolInv, PoolTypes
    <2> QED
      BY <2>1, <2>2, PillStutter
  <1>7. CASE SendPill
    BY <1>7, SendPillPills
  <1>8. CASE BeginShutdown \/ Join \/ Destroy \/ UNCHANGED vars
    <2>1. /\ UNCHANGED <<sent, received, pills, wstate>>
          /\ UNCHANGED workers \/ main' = "shut"
          /\ main \in {"shut", "destroyed"} => main' \in {"shut", "destroyed"}
      BY <1>8
      DEF BeginShutdown, Join, Destroy, Q!DropSender, Q!history, vars, queueVars, poolVars
    <2> QED
      BY <2>1, PillStutter DEF Stopped
  <1> QED
    BY <1>1, <1>2, <1>3, <1>4, <1>5, <1>6, <1>7, <1>8
    DEF Next, Finished, ExecuteOutside, ExecuteInTask

\* Pills and stopped workers balance throughout.
THEOREM PillCorrect == Spec => []PillInv
  BY PoolCorrect, PlaceCorrect, InitPill, NextKeepsPill, PTL DEF Spec

\* When shutdown() has returned every worker has taken its pill, so no pill is
\* left in the queue, and what was accepted before a pill has been taken and,
\* since nobody runs any more, is done.
THEOREM ShutdownRunsEarlierTasksCorrect == Spec => []ShutdownRunsEarlierTasks
  <1>1. PoolInv /\ PlaceInv /\ PillInv => ShutdownRunsEarlierTasks
    <2> SUFFICES ASSUME PoolInv, PlaceInv, PillInv, main \in {"shut", "destroyed"},
                        NEW i \in Accepted, NEW j \in Accepted,
                        i < j, sent[j] = Pill, sent[i] # Pill
                 PROVE  sent[i] \in done
      BY DEF ShutdownRunsEarlierTasks, Accepted
    <2>1. \A w \in Workers : wstate[w] = "exited"
      BY DEF PoolInv, WorkersByPhase
    <2>2. Stopped = Workers
      BY <2>1 DEF Stopped
    <2>3. Cardinality(SentPills) <= Cardinality(TakenPills)
      <3>1. Cardinality(SentPills) \in Nat /\ Cardinality(Workers) \in Nat
        BY Counted, PoolAssumption
      <3> QED
        BY <2>2, <3>1 DEF PillInv
    <2>4. TakenPills = SentPills
      <3>1. IsFiniteSet(SentPills) /\ TakenPills \subseteq SentPills
        BY Counted
      <3>2. Cardinality(TakenPills) \in Nat /\ Cardinality(SentPills) \in Nat
        BY Counted
      <3>3. Cardinality(TakenPills) <= Cardinality(SentPills)
        BY <3>1, FS_Subset
      <3> QED
        BY <2>3, <3>1, <3>2, <3>3, FS_Subset
    <2>5. j \in Taken
      BY <2>4 DEF SentPills, TakenPills
    <2>6. i \in Taken
      BY <2>5 DEF Taken, Accepted
    <2> QED
      BY <2>1, <2>6 DEF PlaceInv, TakenIsRun, Runs
  <1> QED
    BY <1>1, PoolCorrect, PlaceCorrect, PillCorrect, PTL
=============================================================================
