----------------------------- MODULE ThreadPool -----------------------------
(***************************************************************************)
(* ft::StaticThreadPool: workers that loop over recv() of one shared       *)
(* channel, a constructor that juggles copies of the channel's handles     *)
(* while the first workers already run, execute() from any thread, and a   *)
(* shutdown() that sends one empty task ("pill") per worker and joins.     *)
(*                                                                         *)
(* The channel is MpmcQueue, used through its own actions.  A worker and   *)
(* its Receiver are the same identity.                                     *)
(***************************************************************************)
EXTENDS Integers, Sequences, FiniteSets

CONSTANTS
    Workers,      \* the threads of the pool
    Tasks,        \* what execute() is called with, each at most once
    Pill,         \* std::nullopt as a std::optional<Task>
    S0, SP, ST,   \* senders: local of create(), parameter, member to_workers
    R0, RP        \* receivers: local of create(), parameter

ASSUME PoolAssumption ==
    /\ IsFiniteSet(Workers) /\ IsFiniteSet(Tasks)
    /\ Pill \notin Tasks
    /\ {R0, RP} \cap Workers = {}
    /\ R0 # RP
    /\ Cardinality({S0, SP, ST}) = 3

VARIABLES
    queue, producer_count, consumder_count, senders, receivers,
    pc, sent, received, sawClosed,     \* the channel
    main,      \* where the thread that owns the pool is
    workers,   \* the vector workers, in order of creation
    wstate,    \* where a worker thread is, outside recv()
    task,      \* the task a worker runs
    pills,     \* pills sent by shutdown()
    joined,    \* workers joined by shutdown()
    done,      \* history: tasks that were run to their end
    refused    \* history: tasks that execute() threw for

queueVars == <<queue, producer_count, consumder_count, senders, receivers,
               pc, sent, received, sawClosed>>
poolVars == <<main, workers, wstate, task, pills, joined, done, refused>>
vars == <<queueVars, poolVars>>

\* Every task and every pill is accepted at most once, so this bounds nothing.
MaxSends == Cardinality(Tasks) + Cardinality(Workers)

Q == INSTANCE MpmcQueue WITH
        Senders <- {S0, SP, ST}, Receivers <- {R0, RP} \cup Workers,
        FirstSender <- S0, FirstReceiver <- R0, Values <- Tasks \cup {Pill}

Elements(s) == {s[i] : i \in 1..Len(s)}

Unsubmitted == Tasks \ (Elements(sent) \cup refused)

\* The pool object exists and its constructor has returned.
Usable == main \in {"open", "pills", "join", "shut"}

-----------------------------------------------------------------------------
(* Broken forms of the operations below.                                    *)

\* The member keeps a reference to the parameter instead of a copy.
MemberSenderReference ==
    /\ main = "member"
    /\ main' = "spawn"
    /\ UNCHANGED queueVars
    /\ UNCHANGED <<workers, wstate, task, pills, joined, done, refused>>

\* shutdown() sends one pill for all.
SendPillOnce ==
    /\ main = "pills"
    /\ pills = 0
    /\ Q!Send(ST, Pill)
    /\ pills' = Len(workers)
    /\ UNCHANGED <<main, workers, wstate, task, joined, done, refused>>

\* The worker ends its loop as soon as there is a pill in the queue.
WorkerTakeSkips(w) ==
    /\ wstate[w] = "loop"
    /\ Q!RecvTake(w)
    /\ wstate' = [wstate EXCEPT ![w] = IF Pill \in Elements(queue) THEN "stopping"
                                       ELSE "running"]
    /\ task' = [task EXCEPT ![w] = IF Pill \in Elements(queue) THEN Pill
                                   ELSE Head(queue)]
    /\ UNCHANGED <<main, workers, pills, joined, done, refused>>

\* The worker counts a task as run when it takes it.
WorkerRunForgets(w) ==
    /\ wstate[w] = "running"
    /\ wstate' = [wstate EXCEPT ![w] = "loop"]
    /\ UNCHANGED <<main, workers, pills, joined, refused, task, done>>
    /\ UNCHANGED queueVars

\* The worker gives its receiver up before it runs the task.
WorkerTakeDetached(w) ==
    /\ wstate[w] = "loop"
    /\ pc[w] = "awake" /\ queue # <<>>
    /\ queue' = Tail(queue)
    /\ received' = Append(received, Head(queue))
    /\ pc' = [pc EXCEPT ![w] = "idle"]
    /\ receivers' = receivers \ {w} /\ consumder_count' = consumder_count - 1
    /\ wstate' = [wstate EXCEPT ![w] = IF Head(queue) = Pill THEN "exited"
                                       ELSE "running"]
    /\ task' = [task EXCEPT ![w] = Head(queue)]
    /\ UNCHANGED <<producer_count, senders, sent, sawClosed>>
    /\ UNCHANGED <<main, workers, pills, joined, done, refused>>
-----------------------------------------------------------------------------

Init ==
    /\ Q!Init
    /\ main = "copySender"
    /\ workers = <<>>
    /\ wstate = [w \in Workers |-> "none"]
    /\ task = [w \in Workers |-> Pill]
    /\ pills = 0
    /\ joined = 0
    /\ done = {}
    /\ refused = {}

(* create() and the constructor *)

\* create(): both handles of the channel are copied into the parameters.
CopyArguments ==
    /\ \/ main = "copySender" /\ main' = "copyReceiver" /\ Q!CopySender(S0, SP)
       \/ main = "copyReceiver" /\ main' = "member" /\ Q!CopyReceiver(R0, RP)
    /\ UNCHANGED <<workers, wstate, task, pills, joined, done, refused>>

\* to_workers(sender)
MemberSender ==
    /\ main = "member"
    /\ main' = "spawn"
    /\ Q!CopySender(SP, ST)
    /\ UNCHANGED <<workers, wstate, task, pills, joined, done, refused>>

\* Worker::create(receiver): the copy moves into the new thread, which runs at
\* once; the last one ends the loop of the constructor.
Spawn ==
    /\ main = "spawn"
    /\ \E w \in Workers \ Elements(workers) :
        /\ Q!CopyReceiver(RP, w)
        /\ workers' = Append(workers, w)
        /\ wstate' = [wstate EXCEPT ![w] = "loop"]
        /\ main' = IF Elements(workers) \cup {w} = Workers THEN "dropParams" ELSE main
    /\ UNCHANGED <<task, pills, joined, done, refused>>

\* The parameters, then the locals of create(), are destroyed; the pool that
\* was moved from has no workers and no queue, so its destructor does nothing.
DropHandles ==
    /\ main = "dropParams"
    /\ \/ \E s \in {S0, SP} : Q!DropSender(s) /\ (s = S0 => SP \notin senders)
       \/ \E r \in {R0, RP} : Q!DropReceiver(r) /\ (r = R0 => RP \notin receivers)
    /\ main' = IF senders' = {ST} /\ {R0, RP} \cap receivers' = {} THEN "open" ELSE main
    /\ UNCHANGED <<workers, wstate, task, pills, joined, done, refused>>

(* execute() *)

\* The task is accepted, or the channel is closed and execute() throws.
execute(t) ==
    /\ t \in Unsubmitted
    /\ \/ /\ Q!Send(ST, t)
          /\ UNCHANGED refused
       \/ /\ Q!SendClosed(ST)
          /\ refused' = refused \cup {t}
    /\ UNCHANGED <<main, workers, wstate, task, pills, joined, done>>

\* The owner of the pool or any other thread that is not a worker calls it.
ExecuteOutside(t) == Usable /\ execute(t)

\* A task that runs on a worker calls it.
ExecuteInTask(w, t) == wstate[w] = "running" /\ execute(t)

(* a worker *)

\* Inside recv(): entering it, and blocking over an empty queue.
WorkerRecv(w) ==
    /\ wstate[w] = "loop"
    /\ Q!CallRecv(w) \/ Q!RecvWait(w)
    /\ UNCHANGED poolVars

WorkerSpurious(w) ==
    /\ wstate[w] = "loop"
    /\ Q!SpuriousWakeup(w)
    /\ UNCHANGED poolVars

\* recv() returns: a pill ends the loop, a task is run, and "closed" ("not
\* normal situation") leaves the thread function with an exception.
WorkerTake(w) ==
    /\ wstate[w] = "loop"
    /\ \/ /\ Q!RecvTake(w)
          /\ wstate' = [wstate EXCEPT ![w] = IF Head(queue) = Pill THEN "stopping"
                                             ELSE "running"]
          /\ task' = [task EXCEPT ![w] = Head(queue)]
       \/ /\ Q!RecvClosed(w)
          /\ wstate' = [wstate EXCEPT ![w] = "threw"]
          /\ UNCHANGED task
    /\ UNCHANGED <<main, workers, pills, joined, done, refused>>

\* The task returns.
WorkerRun(w) ==
    /\ wstate[w] = "running"
    /\ wstate' = [wstate EXCEPT ![w] = "loop"]
    /\ done' = done \cup {task[w]}
    /\ task' = [task EXCEPT ![w] = Pill]
    /\ UNCHANGED <<main, workers, pills, joined, refused>>
    /\ UNCHANGED queueVars

\* The thread ends: its function object, and the receiver in it, go first.
WorkerExit(w) ==
    /\ wstate[w] = "stopping"
    /\ Q!DropReceiver(w)
    /\ wstate' = [wstate EXCEPT ![w] = "exited"]
    /\ UNCHANGED <<main, workers, task, pills, joined, done, refused>>

(* shutdown() and the destructor *)

BeginShutdown ==
    /\ main = "open"
    /\ main' = "pills"
    /\ UNCHANGED queueVars
    /\ UNCHANGED <<workers, wstate, task, pills, joined, done, refused>>

\* One pill per worker; a refused pill is ignored.
SendPill ==
    /\ main = "pills"
    /\ pills < Len(workers)
    /\ Q!Send(ST, Pill) \/ Q!SendClosed(ST)
    /\ pills' = pills + 1
    /\ UNCHANGED <<main, workers, wstate, task, joined, done, refused>>

\* Workers are joined in order; then the vector is cleared.
Join ==
    /\ \/ main = "pills" /\ pills = Len(workers)
       \/ main = "join"
    /\ IF joined < Len(workers)
       THEN /\ wstate[workers[joined + 1]] = "exited"
            /\ joined' = joined + 1
            /\ main' = "join"
            /\ UNCHANGED workers
       ELSE /\ main' = "shut"
            /\ workers' = <<>>
            /\ UNCHANGED joined
    /\ UNCHANGED queueVars
    /\ UNCHANGED <<wstate, task, pills, done, refused>>

\* ~StaticThreadPool(): a second shutdown() over no workers, then the members.
Destroy ==
    /\ main = "shut"
    /\ main' = "destroyed"
    /\ Q!DropSender(ST)
    /\ UNCHANGED <<workers, wstate, task, pills, joined, done, refused>>

Finished == main = "destroyed" /\ UNCHANGED vars

Construct == CopyArguments \/ MemberSender \/ Spawn \/ DropHandles
Shutdown == SendPill \/ Join

Next ==
    \/ CopyArguments \/ MemberSender \/ Spawn \/ DropHandles
    \/ \E t \in Tasks : ExecuteOutside(t) \/ \E w \in Workers : ExecuteInTask(w, t)
    \/ \E w \in Workers :
          \/ WorkerRecv(w) \/ WorkerSpurious(w) \/ WorkerTake(w)
          \/ WorkerRun(w) \/ WorkerExit(w)
    \/ BeginShutdown \/ SendPill \/ Join \/ Destroy
    \/ Finished

\* Threads are scheduled and tasks return; nobody has to call shutdown().
Fairness ==
    /\ WF_vars(Construct)
    /\ WF_vars(Shutdown)
    /\ \A w \in Workers :
        WF_vars(WorkerRecv(w) \/ WorkerTake(w) \/ WorkerRun(w) \/ WorkerExit(w))

Spec == Init /\ [][Next]_vars /\ Fairness

-----------------------------------------------------------------------------

TypeOK ==
    /\ main \in {"copySender", "copyReceiver", "member", "spawn", "dropParams",
                 "open", "pills", "join", "shut", "destroyed"}
    /\ workers \in Seq(Workers)
    /\ wstate \in [Workers -> {"none", "loop", "running", "stopping", "exited", "threw"}]
    /\ task \in [Workers -> Tasks \cup {Pill}]
    /\ pills \in 0..Cardinality(Workers)
    /\ joined \in 0..Cardinality(Workers)
    /\ done \subseteq Tasks
    /\ refused \subseteq Tasks

\* No worker is ever told that the channel is closed: some sender lives from
\* the first copy in the constructor until the last worker has been joined.
\* The code calls the opposite "not normal situation".
WorkersNeverSeeClosed == \A w \in Workers : wstate[w] # "threw"

\* execute() throws only when "all workers are down", as its comment says.
ThrowMeansWorkersDown ==
    [][refused' # refused => \A w \in Workers : wstate[w] = "exited"]_vars

\* An accepted task is in exactly one place: the queue, one worker, or done.
TaskInOnePlace ==
    \A t \in Tasks \cap Elements(sent) :
        LET places == {i \in 1..Len(queue) : queue[i] = t}
            runners == {w \in Workers : wstate[w] = "running" /\ task[w] = t}
        IN  Cardinality(places) + Cardinality(runners)
              + (IF t \in done THEN 1 ELSE 0) = 1

\* What was accepted before the last pill has run when shutdown() returns: the
\* queue is FIFO and every worker takes one pill and nothing after it.
ShutdownRunsEarlierTasks ==
    main \in {"shut", "destroyed"} =>
        \A i, j \in 1..Len(sent) :
            (i < j /\ sent[j] = Pill /\ sent[i] # Pill) => sent[i] \in done

\* A task accepted by a pool that is not shut down is run.
AcceptedTaskRuns ==
    \A t \in Tasks : (main = "open" /\ t \in Elements(sent)) ~> (t \in done)

\* shutdown() returns: every worker gets a pill, also the ones that were asleep
\* or busy when it was sent.
ShutdownReturns == (main = "pills") ~> (main = "shut")
=============================================================================
