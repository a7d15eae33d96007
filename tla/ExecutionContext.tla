-------------------------- MODULE ExecutionContext --------------------------
(***************************************************************************)
(* ft::io::ExecutionContext: the event loop, its epoll set and its table   *)
(* of one-shot handlers, with the handlers run by the workers of a thread  *)
(* pool, as in echo-serv-v2 and v3.  (WebServer is the same loop with      *)
(* handlers that it runs itself.)                                          *)
(*                                                                         *)
(* A handler is any code that keeps the discipline the callers keep: it    *)
(* owns the descriptor whose event it got, may open others, and closes or  *)
(* registers what it owns.  It captures its socket in a shared_ptr, and    *)
(* the task object the pool runs dies after the future is set: what the    *)
(* handler has not registered may be open for a while after it returned,   *)
(* and after the barrier, until the worker asks for its next task.         *)
(*                                                                         *)
(* A registered descriptor belongs to the handler in the table.  That a    *)
(* dying task object may have one more reference to it only delays its     *)
(* close, and is left out.                                                 *)
(*                                                                         *)
(* add_handler_for_event() holds _mutex; del_event() and get_handler() in  *)
(* the loop do not.  A search of the unordered_map while a worker inserts  *)
(* into it is a data race: the search may miss an entry, and the entry     *)
(* being inserted may be lost.                                             *)
(***************************************************************************)
EXTENDS Integers, Sequences, FiniteSets

CONSTANTS
    Fds,        \* descriptors
    Acceptor,   \* the one registered before loop() starts
    Workers,    \* the threads of the pool
    NoFd, NoThread,
    MaxOpens    \* bound: descriptors one handler opens

ASSUME ContextAssumption ==
    /\ Acceptor \in Fds /\ IsFiniteSet(Fds)
    /\ NoThread \notin Workers
    /\ NoFd \notin Fds
    /\ MaxOpens \in Nat

VARIABLES
    interest,    \* the epoll set: registered descriptors
    handlers,    \* the keys of _ev_storage.handlers
    mutex,       \* who holds _mutex
    inserting,   \* who is inside the insertion into handlers
    lpc,         \* where the loop is
    batch,       \* event_buf: the events not yet taken from it
    tasks,       \* handlers submitted to the pool and not yet started
    pending,     \* futures of this batch that are not complete
    serving,     \* per thread: the event whose handler it runs, or NoFd
    owned,       \* per thread: what its handler, or the task object left, owns
    arming,      \* per thread: the descriptor it registers, or NoFd
    opened,      \* per thread: how many descriptors its handler opened
    raced,       \* the loop searched handlers during the insertion
    addFailed    \* history: add_event() or del_event() threw

vars == <<interest, handlers, mutex, inserting, lpc, batch, tasks, pending,
          serving, owned, arming, opened, raced, addFailed>>
table == <<interest, handlers, mutex, inserting, raced, addFailed>>
threads == <<serving, owned, arming, opened>>

Elements(s) == {s[i] : i \in 1..Len(s)}

\* Descriptors that no part of the program knows.
FreeFds ==
    Fds \ (interest \cup handlers \cup Elements(batch) \cup tasks
           \cup UNION {owned[t] \cup {arming[t]} : t \in Workers})

\* All orders in which epoll_wait() may report a set.
Orders(S) ==
    {s \in [1..Cardinality(S) -> S] : Elements(s) = S}

-----------------------------------------------------------------------------
(* Broken forms of the operations below.                                    *)

\* The loop takes the handler and leaves the event in the epoll set.
DelEventSkipped ==
    /\ lpc = "next"
    /\ batch # <<>>
    /\ lpc' = "get"
    /\ UNCHANGED <<table, batch, tasks, pending, threads>>

\* The futures of a batch are not waited for.
NoBarrier ==
    /\ lpc = "next"
    /\ batch = <<>>
    /\ lpc' = "block"
    /\ pending' = {}
    /\ UNCHANGED <<table, batch, tasks, threads>>

\* A worker leaves the task it runs in the queue.
StartKeeps(t) ==
    /\ serving[t] = NoFd /\ owned[t] = {}
    /\ \E fd \in tasks :
        /\ serving' = [serving EXCEPT ![t] = fd]
        /\ owned' = [owned EXCEPT ![t] = {fd}]
    /\ opened' = [opened EXCEPT ![t] = 0]
    /\ UNCHANGED <<table, lpc, batch, tasks, pending, arming>>

\* The handler's future is never completed.
FinishSilently(t) ==
    /\ serving[t] # NoFd
    /\ arming[t] = NoFd
    /\ serving' = [serving EXCEPT ![t] = NoFd]
    /\ UNCHANGED <<table, lpc, batch, tasks, pending, owned, arming, opened>>
-----------------------------------------------------------------------------

\* The acceptor was registered before loop() was called.
Init ==
    /\ interest = {Acceptor}
    /\ handlers = {Acceptor}
    /\ mutex = NoThread
    /\ inserting = NoThread
    /\ lpc = "block"
    /\ batch = <<>>
    /\ tasks = {}
    /\ pending = {}
    /\ serving = [t \in Workers |-> NoFd]
    /\ owned = [t \in Workers |-> {}]
    /\ arming = [t \in Workers |-> NoFd]
    /\ opened = [t \in Workers |-> 0]
    /\ raced = FALSE
    /\ addFailed = FALSE

(* loop() *)

\* _listener.block(): any registered descriptors may be ready.
Block ==
    /\ lpc = "block"
    /\ \E ready \in SUBSET interest \ {{}} : batch' \in Orders(ready)
    /\ lpc' = "next"
    /\ UNCHANGED <<table, tasks, pending, threads>>

\* _listener.del_event()
DelEvent ==
    /\ lpc = "next"
    /\ batch # <<>>
    /\ interest' = interest \ {Head(batch)}
    /\ addFailed' = (addFailed \/ Head(batch) \notin interest)
    /\ lpc' = "get"
    /\ UNCHANGED <<handlers, mutex, inserting, raced, batch, tasks, pending, threads>>

\* _ev_storage.get_handler(): the entry is moved out and erased, or the search
\* fails and throws.  In a race it may fail though the entry is there.
GetHandler ==
    /\ lpc = "get"
    /\ \/ /\ Head(batch) \in handlers
          /\ handlers' = handlers \ {Head(batch)}
          /\ lpc' = "dispatch"
       \/ /\ Head(batch) \notin handlers \/ inserting # NoThread
          /\ lpc' = "threw"
          /\ UNCHANGED handlers
    /\ raced' = (inserting # NoThread)
    /\ UNCHANGED <<interest, mutex, inserting, addFailed, batch, tasks, pending, threads>>

\* futures::execute(): the pool gets a task.
Execute ==
    /\ lpc = "dispatch"
    /\ batch' = Tail(batch)
    /\ pending' = pending \cup {Head(batch)}
    /\ tasks' = tasks \cup {Head(batch)}
    /\ lpc' = "next"
    /\ UNCHANGED <<table, threads>>

\* collect(...).block_get(): the batch is over when every future is complete.
EndBatch ==
    /\ lpc = "next"
    /\ batch = <<>>
    /\ pending = {}
    /\ lpc' = "block"
    /\ UNCHANGED <<table, batch, tasks, pending, threads>>

(* a handler, on the thread that runs it *)

\* A worker takes a submitted handler; the task object before it is gone.
Start(t) ==
    /\ serving[t] = NoFd /\ owned[t] = {}
    /\ \E fd \in tasks :
        /\ tasks' = tasks \ {fd}
        /\ serving' = [serving EXCEPT ![t] = fd]
        /\ owned' = [owned EXCEPT ![t] = {fd}]
    /\ opened' = [opened EXCEPT ![t] = 0]
    /\ UNCHANGED <<table, lpc, batch, pending, arming>>

\* The handler accepts a connection, connects, or makes a pipe.
Open(t) ==
    /\ serving[t] # NoFd /\ arming[t] = NoFd
    /\ opened[t] < MaxOpens
    /\ opened' = [opened EXCEPT ![t] = @ + 1]
    /\ \E fd \in FreeFds : owned' = [owned EXCEPT ![t] = @ \cup {fd}]
    /\ UNCHANGED <<table, lpc, batch, tasks, pending, serving, arming>>

\* The last owner of a descriptor closes it: the handler, or its task object
\* when it is destroyed.
Close(t) ==
    /\ arming[t] = NoFd
    /\ \E fd \in owned[t] : owned' = [owned EXCEPT ![t] = @ \ {fd}]
    /\ UNCHANGED <<table, lpc, batch, tasks, pending, serving, arming, opened>>

\* add_handler_for_event(): under _mutex, first add_event() ...
AddEvent(t) ==
    /\ serving[t] # NoFd /\ mutex = NoThread
    /\ \E fd \in owned[t] :
        /\ arming' = [arming EXCEPT ![t] = fd]
        /\ owned' = [owned EXCEPT ![t] = @ \ {fd}]
        /\ interest' = interest \cup {fd}
        /\ addFailed' = (addFailed \/ fd \in interest)
    /\ mutex' = t
    /\ UNCHANGED <<handlers, inserting, raced, lpc, batch, tasks, pending, serving, opened>>

\* ... then set_handler() starts to insert ...
BeginInsert(t) ==
    /\ mutex = t
    /\ inserting = NoThread
    /\ inserting' = t
    /\ raced' = FALSE
    /\ UNCHANGED <<interest, handlers, mutex, addFailed, lpc, batch, tasks, pending, threads>>

\* ... and ends, giving _mutex up.  In a race the entry may be lost.
SetHandler(t) ==
    /\ inserting = t
    /\ \/ handlers' = handlers \cup {arming[t]}
       \/ raced /\ UNCHANGED handlers
    /\ inserting' = NoThread
    /\ mutex' = NoThread
    /\ arming' = [arming EXCEPT ![t] = NoFd]
    /\ UNCHANGED <<interest, raced, addFailed, lpc, batch, tasks, pending, serving, owned, opened>>

\* The handler returns and its future is set.  What the task object captured
\* outlives it.
Finish(t) ==
    /\ serving[t] # NoFd
    /\ arming[t] = NoFd
    /\ serving' = [serving EXCEPT ![t] = NoFd]
    /\ pending' = pending \ {serving[t]}
    /\ UNCHANGED <<table, lpc, batch, tasks, owned, arming, opened>>

HandlerStep(t) ==
    Close(t) \/ AddEvent(t) \/ BeginInsert(t) \/ SetHandler(t) \/ Finish(t)

Next ==
    \/ Block \/ DelEvent \/ GetHandler \/ Execute \/ EndBatch
    \/ \E t \in Workers :
          \/ Start(t) \/ Open(t) \/ Close(t) \/ AddEvent(t) \/ BeginInsert(t)
          \/ SetHandler(t) \/ Finish(t)

\* The threads run, and a handler comes to its end: it is not a loop.  Which
\* descriptors become ready is up to others.
Fairness ==
    /\ WF_vars(DelEvent \/ GetHandler \/ Execute \/ EndBatch)
    /\ \A t \in Workers : WF_vars(Start(t)) /\ WF_vars(HandlerStep(t))

Spec == Init /\ [][Next]_vars /\ Fairness

-----------------------------------------------------------------------------

TypeOK ==
    /\ interest \subseteq Fds /\ handlers \subseteq Fds
    /\ mutex \in Workers \cup {NoThread}
    /\ inserting \in Workers \cup {NoThread}
    /\ lpc \in {"block", "next", "get", "dispatch", "threw"}
    /\ batch \in Seq(Fds)
    /\ tasks \subseteq Fds /\ pending \subseteq Fds
    /\ serving \in [Workers -> Fds \cup {NoFd}]
    /\ owned \in [Workers -> SUBSET Fds]
    /\ arming \in [Workers -> Fds \cup {NoFd}]
    /\ opened \in [Workers -> 0..MaxOpens]
    /\ raced \in BOOLEAN
    /\ addFailed \in BOOLEAN

\* The assertion of CallbackStorage::get_handler: "Event must be here".
EventMustBeHere == lpc # "threw"

\* A descriptor is owned once: its event is registered, or in the batch, or
\* with one task, or with one handler.  So no two handlers run for it at once,
\* nobody opens a number that is in use, and epoll_ctl never fails, though
\* handlers of one batch open, close and register descriptors before the loop
\* has taken all of it.
FdOwnedOnce ==
    /\ ~ addFailed
    /\ \A fd \in Fds :
          LET owners == {t \in Workers : fd \in owned[t] \/ arming[t] = fd}
          IN  /\ Cardinality(owners) <= 1
              /\ fd \in tasks => owners = {}
              /\ fd \in Elements(batch) => owners = {} /\ fd \notin tasks

\* The barrier of loop(): while it blocks, no handler is queued or running, and
\* what the task objects not yet destroyed own is not registered.  So the next
\* batch meets only descriptors whose handlers have returned, and none that is
\* about to be closed.
BarrierHolds ==
    lpc = "block" => /\ tasks = {} /\ pending = {}
                     /\ \A t \in Workers :
                           serving[t] = NoFd /\ owned[t] \cap interest = {}

\* Every batch is served to its end: the loop gets back to epoll_wait().
LoopComesBack == (lpc = "next") ~> (lpc \in {"block", "threw"})
=============================================================================
