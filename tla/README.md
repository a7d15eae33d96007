# webserv, specified

A TLA+ development of [webserv](../src/README.md): a small HTTP server in
C++20, and `ft-async-core`, the library of queues, executors, futures and
event-driven io it is built on. Modules are checked by TLC on small instances;
the central theorems are proved by TLAPS for every instance.

## The system

| Component | State | Operations | Talks to |
|---|---|---|---|
| mpmc queue (`mpmc-queue/`) | linked list, mutex, condition variable, two handle counters | copy and drop of `Sender`/`Receiver`, `push`, `pop`, `try_pop` | threads of the pool |
| executors (`executors/`) | worker threads, a queue of optional tasks, a member `Sender` | `create`, `execute`, `shutdown`, destructor; `same_thread::execute` | queue; whoever submits |
| futures (`future/`) | shared state: value, callback, mutex, condition variable; container of `collect` | `set`, `on_complete`, `block_get`, `map`, `flatmap`, `collect`, `fastest` | callbacks that complete other futures |
| event loop (`io/out-of-context/`) | epoll set, table of one-shot handlers, mutex | `add_handler_for_event`, `loop` | executor; kernel |
| descriptors (`Socket`, `TCPAcceptor`, `Pipe`) | one descriptor each, closed by the last owner | accept, connect, pipe, read, write, close | kernel, event loop |
| future io (`FutRead.hpp`, `FutWrite.hpp`) | none of its own: the captures of continuations | `read_part`, `read_entity`, `write_part`, `write_all`, `write_entity` | descriptors, parsers, serializers |
| HTTP parsers and serializers (`http/parsers`, `http/writers`) | progress within one message | call with a part, `create_entity`; `get_data`, `state` | future io |
| server (`webserv.cpp`, `HttpConnection`, `HttpServer`) | one pipeline of futures per connection | `server_pipeline` | all of the above |
| CGI (`http/cgi`) | two pipes and a child, which inherits what is open | `object::from`, `send_request`, `get_response` | child process |
| configuration (`config-parser/`) | a tree of blocks, then servers and locations | `ServConf::from`, `Config::from`; `get_location` of the server reads it | server |
| coroutines (`coro/`) | promise and awaiters inside a coroutine frame | call, `co_await`, resumption, end | shared state of futures; the threads that complete them |

What is hard in it: threads meeting at the queue's mutex and its condition
variable; shutdown by "pills" while tasks still submit tasks; callbacks that run
under the mutex of one shared state and lock the next; handlers that close,
reuse and register descriptors while a batch of events is half served; pipelines
whose whole state is captured in a continuation; coroutines that are resumed
inside the section that sets the value they wait for; peers that hang up at any
step; children that inherit each other's pipes; descriptors running out; messages
cut anywhere by the network.

`PROJECT.json` lists every component with what is and is not modelled, and
every hazard with the line it bites at and the properties that watch it.

## Modules

`X.tla` models a component, `MCX.tla` declares its model values for TLC, the
`.cfg` files are the runs. Definitions under a comment "Broken form" are not
used by the specifications: each is a plausible bug of the code, kept to show
that a property notices it.

### Channel, MpmcQueue

`MpmcQueue` follows `mpmc_queue.hpp` critical section by critical section:
`Send` is `push()` with its `notify_one`, `RecvTake`/`RecvWait`/`RecvClosed` are
the outcomes of one turn of the loop of `pop()`, `DropSender` is the destructor
with its `notify_all`, and a condition variable may wake a sleeper by itself.
The state is the handles that are alive, in any order of copies and drops that
ownership allows: a handle is copied from a living one, and a receiver is not
dropped while its thread is inside `recv()`. `Channel` says what is promised: one FIFO, an atomic
blocking receive, "closed" once there are no senders and nothing left.
`ImplementsChannel` is that refinement, fairness included.

### ForwardList, QueueOnList, QueueOnListProofs

`ForwardList` is the list under the queue: nodes of a small heap that are
allocated, freed and reused, the dummy node, and the pointer to the last node.
`QueueOnList` composes it with `MpmcQueue`: each critical section together with
the call it makes of the list, down to the destructor when the last handle goes.
`ListHoldsQueue` says that the nodes from `head` are the variable `queue` of
`MpmcQueue`; `HeapIntact` that no freed node is touched, none is lost, and the
destructor leaves nothing. Since the composition runs the queue itself, its run
checks the properties of `MpmcQueue` as well.

### ThreadPool, ThreadPoolProofs

`StaticThreadPool` over `Q == INSTANCE MpmcQueue`: construction with the copies
of handles it makes, submission from outside and from inside tasks, one pill per
worker, joins, and destruction. The repository's queue is used step by step,
not its abstraction, because the question is whether any worker can meet a
closed channel.

### Collect, CollectProofs, Fastest

The shared states of the inputs, of the container and of the result, each with
its mutex, and the threads that set values while the caller registers
callbacks. Callbacks run with the mutex held, so a completing thread walks down
a chain of locks; `CallbacksEnd` and `CallerReturns` say that it gets back.
`Fastest` models the two ways to consume the future that `fastest()` returns.

### Coroutine, CoroutineProofs

Coroutines that return `ft::Future` and await one, as in echo-serv-v3: a chain in
which each awaits the one before and the innermost awaits operations that other
threads complete, either the workers of a pool or the handlers of the event loop.
A value resumes the coroutine that awaits it inside `set_value()` or
`set_callback()`, below the guard of the mutex, so the model keeps the stack of
every thread: the bodies it runs and the sections that called them. Promises and
futures are counted per state, because the last handle frees the state and the
mutex in it. A body may throw: `unhandled_exception()` drops the exception and the
result is never set.

### ExecutionContext, ExecutionContextProofs

The loop (`Block`, `DelEvent`, `GetHandler`, `Execute`, `EndBatch`), the
registration (`AddEvent`, `BeginInsert`, `SetHandler`, under `_mutex`) and
handlers that own, open, close and register descriptors, run by the workers of a
pool. A task object destroys the closure of its handler after `promise.set()`, so
what the handler still holds is closed when the barrier may have let the loop go on:
`Finish` completes the future, `Close` may come later, and only then is the number
free again. (With the `same_thread` executor the loop runs them itself: that is
`WebServer`.) The race between `find` and `operator[]` of the
table is modelled by its two visible outcomes: the search misses the entry, or
the insertion is lost.

### HttpService, WebServer, WebServerProofs

The whole server on one thread, started under one of several limits on open
descriptors (`limit`). A handler is one action from the event to its
return: it reads or writes once, and then registers the next continuation or
ends the pipeline. `handlers` holds the continuations with what they captured;
nothing else remembers a connection, as in the code. `endpoint` is the
descriptor table of the process; `Lowest(Free)` is how the kernel numbers. The
`Leaves` operator is what all handlers share: what was registered and what the
captures closed. Clients, CGIs and upstreams are the environment; a CGI child
that fails to start or hangs up and an upstream that does are `Flaky`, a client
that hangs up or reads slowly is `Rude`.

`Misread` are the clients whose request, or the answer to it, may be misread. A
message is when it is malformed, and nobody is to blame when it is well-formed and
the network cuts it within a line of its head (`http_parser_cut`). `HttpParser`
has each outcome byte by byte; here they are that the parser waits on, is READY,
refuses or ends the process, at any part and before the rest has come. That a
message which is cut at line ends, or in its body, is read whole and with its last
byte is what `CutsDoNotMatterCorrect` and `ReadyInTimeCorrect` prove of the parser;
`ReadRequest` and `ReadPeer` rest on them for everybody else. What is sent behind a
part that was misread is never read, and left out.

`inherited` holds what each CGI child has open besides its own: the client sockets
and the write ends of pipes to other children that were open when it was forked.
Through them a connection that the server has closed does not end for its client,
and a script that reads its request to the end of file waits for children forked
later. What clients and peers do when nobody can see it any more is left out
(`Attended`, `Awaited`). The infix `:>` and `@@`
are those of module TLC, defined anew because the prover cannot expand TLC's.

`HttpService` says what of this a client may rely on: its connection is accepted
once, no response begins before its request was sent, it receives the parts of one
response, its own, and the server gives its connection up with the last part. Before
that only a client that hung up, or one whose request is misread, loses its
connection, and the process ends only while it serves somebody who misbehaves, whose
peer does, or whose request or answer is misread. For a misread request "was sent"
can be no more than that a part of it was: the server refuses it, takes it for a
whole one or ends at the first line that is wrong, with the rest still to come. A
connection that was given up is "closed" for its client, or "kept" by children until
they leave (`Release`). `ImplementsService` is the refinement: `Presence`, `Asked` and
`Connection` read off `WebServer` who is there, who has sent what, and who has whose
socket; parts that were sent but not yet read, registrations, batches, continuations,
pipes and upstreams are invisible.

### CgiPipes, CgiPipesProofs

What `WebServer` takes as one descriptor that gets readable is two pipes and a
child that shares them. `Dispatch` is `object::from()`: pipes, fork, and a child
that inherits all the server has open and closes its own request's server ends
only. `holds` says which process has which end; a pipe ends for its reader when no
process has the other end. Data are positions in the request, so that
`write_all()`, which may get rid of any part of what it has, must go on from where
it was. Scripts differ in what they read before they answer, and in whether they
wait when a read finds nothing: the ends are O_NONBLOCK for the child too.

### HttpParser, RequestProofs

`RequestParser::operator()` and `ResponseParser::operator()`, which share their
text but for the first line and the rule of GET (`message.kind`). A turn of the
loop over lines is an action. Reads outside of the part (`line_end_it - 1` at its
first byte, the C string made of bytes without a terminator) have every
outcome the build can produce: an exact copy, garbage behind it, a runaway copy.
A message is lines of tokens and a body. `MessagesAssumption` says which there are:
no line but the one that ends the head is empty, a GET has no body, and the last
Content-Length of another, if it is a number, is the length of its body. Lines may
be malformed, and headers missing or repeated, in any way.

### ServConf, Config, RequestProofs

`ServConf` is `parse()`: a frame is an activation of it with its `curr_tokens`
and `nodes`, a turn of its loop is an action, an exception is a result of the
whole. The tokens are given: `tokenize()` itself is not modelled, and a comment is
one token. `Config` goes on with `Config::from()`, its errors and its defaults, and
with `get_location()` of `webserv.cpp`. A path is a sequence of numbers, since its
prefixes and its place in the `std::map` matter (`Before` is the order of
`std::string`); every other word is a string. `PathOf` is assumed to know the
paths that locations use.

## Runs

| Run | Question and answer | Bounds |
|---|---|---|
| `queue_on_list` | Is the queue a channel, and does the list under it hold it? Yes, liveness included. | 2 senders and 3 receivers, each receiver with its thread, 3 sends: two sleepers and a third receiver that overtakes them; a heap of 4 nodes: the dummy, empty, full, reuse |
| `thread_pool` | Is every task run that came before the last pill, and does shutdown end? Yes. | 2 workers, 3 tasks, one submitting from inside |
| `collect` | Does the result come once, complete, and without a circle of mutexes? Yes, for every `n_expected`. | 3 inputs |
| `fastest_wins` | Is the first value delivered? No: later values replace it. | 3 inputs |
| `event_loop_pool` | Are descriptors owned once while a batch is half served, and does the barrier hold for the registered ones? Yes. | 3 descriptors, 2 workers |
| `event_loop_race` | Does each event have its handler when workers insert meanwhile? No. | as above |
| `webserver` | One client is rude, its peers fail and its messages are misread, descriptors suffice or run out: what becomes of the other client? With descriptors enough it is answered, unless the process is ended or its script is held up by the other's, which inherited its pipe; and with its own response whatever their number. To its clients the server is an `HttpService`; only a step of the connection that is rude, flaky or misread ends it, and the loop never throws. Descriptors are lost by failed connects only, and the acceptor waits without any. | 2 clients, 2 parts per message, limits of 3 and of 9 descriptors |
| `http_parser` | Is a message read as sent when its head arrives in whole lines? Yes, to the last byte of the body. | 18 messages, among them two with a header twice and four with no space behind a colon; every such cut |
| `http_parser_cut` | And when a cut is anywhere? No: between `\r` and `\n` the line keeps its `\r`. | every cut |
| `config` | Which files are accepted, is what they say kept, and does a request get the longest location that accepts it? Those that are well-formed or repaired silently; yes; yes. | every file of up to 6 tokens over two words and the marks; a port with two servers, the first with one or two locations in any order, and six odd files; 60 requests |
| `coroutine` | Does every coroutine get its value once and end, and does the state outlive the section that resumes it? Yes, with the event loop; a body that throws leaves those above it suspended. | 3 operations awaited by the innermost of 3 coroutines, on a pool or the loop; at most one body throws |
| `cgi_pipes` | Do request, answer and end of file get where they should? Yes, unless a script answers as it reads and both pipes fill up, or leaves before it has read. | 2 requests for any two of the scripts, pipes of one part, bodies of 0 and 3 parts, answers of 2 |

Two of a kind is what the properties need: a second sleeper to lose a wakeup by,
a second client to confuse the first with, a second descriptor to reuse. Three
inputs or receivers add the one that comes between the two. Nine descriptors are
the acceptor, two connections, the two pipe ends one CGI keeps, and the four a
second one needs while it is started: nothing fails for want of one there,
everything can with three, which are the acceptor, one connection and one more.
`MaxOpens` bounds what one handler opens; one is enough for a number to be freed
and taken again within a batch. Six tokens are a block within a block with an
operator and no closing bracket, or one block with an operator and a word too
many: each error of the parser occurs at depth 0 and within a block.

Three operations let a coroutine be resumed within the resumption it is in, and
three coroutines have one between the first and the last. A pipe of one part is
full after one write, and a body of three parts cannot hide in the pipe and the
hands of the child; two requests are what inheritance needs.

`TypeOK` documents the ranges of the variables; for `MpmcQueue` it is proved
(`TypingCorrect`), and the inductive invariants of the other proof modules contain
what is needed of it.

Where a run does not check for deadlock the system may stop: a server whose
clients are all silent, a queue whose threads have finished, a process that
has ended, a file that was refused.

### Fairness

- `MpmcQueue`, `ThreadPool`: threads that hold or can take the mutex go on, and
  the mutex is given to each waiting thread in the end. Nobody is assumed to
  send, to copy or to drop a handle.
- `Collect`: running threads go on; which input completes when is free.
- `ExecutionContext`: loop and handlers go on, and a handler returns. No event
  is assumed to come.
- `WebServer`: the loop goes on (`LoopStep`); a client that is not rude sends its whole
  request; a peer that is not flaky leaves when it has sent its whole answer, and sends
  it if nobody else has the pipe to it. More is not given: a script may read its
  request to the end of file, which does not come while a child forked later has the
  write end of its pipe, and that child may wait for another (`HeldUp`).
  `PatientAnswered` therefore has "held up from some point on" among its outcomes;
  `CgiPipes` shows the case with each kind of script. epoll reports all ready
  descriptors (at most 100 fit into one call, far more than the model has), so a
  connection that is ready for ever cannot starve another.
- `HttpParser`: what was sent arrives, in some cut.
- `Coroutine`: a thread that has something on its stack goes on, and an operation
  that was started completes.
- `CgiPipes`: the loop serves a pipe that is ready (it reports all that are), and
  a child that is not blocked runs. A child blocked for ever is the script's doing.

## Proofs

`QueueOnListProofs` is about `MpmcQueue`, and the list composed with it, for any
sets of handles, values and nodes and any bounds, under `HandleAssumption` (the sets
of handles are finite and hold the first pair), `BoundAssumption` (a natural) and `NodesAssumption`.

- `Typing` is the inductive basis: types, and that the counter of each side is
  the number of living handles (`HandleArithmetic` is the lemma that adding or
  removing a handle changes the cardinality of its finite set by one).
  `TypingCorrect` and `CountsCorrect` follow.
- `NoLostWakeup` (while someone sleeps, at least as many receivers are awake in
  `pop` as values are queued) is inductive given the types: a push adds a
  value and wakes a sleeper, a pop takes a value and a receiver, and
  falling asleep needs an empty queue.
- `FifoExactlyOnce` is inductive over the history: what was accepted is what was
  delivered followed by the queue.
- `ClosedReleasesWaiters` needs the wakeup argument and the count; `ClosedInv`
  (after "closed" there is no sender and no value) strengthens `ClosedIsFinal`,
  an action property.
- `ChannelSafetyCorrect`: initial states map to initial states and every step to
  a step of `Channel` or a stutter.
- `ListImplementsQueue`: every step of `QueueOnList`, the destructor included, is
  one of `MpmcQueue` or a stutter, so what is proved of the queue holds of the
  composition.
- `ListInv`, by its part `OnList`: there is a chain of distinct nodes from `head` to `tail`, each linked to
  the next, whose nodes are all that are allocated and whose values are the queue.
  What a walk meets is defined by recursion; that the n-th node of the walk is the
  n-th of the chain is shown by the least n for which it is not. `HeapIntactCorrect`
  and `ListHoldsQueueCorrect` follow.

`RequestProofs` is about what happens to a request before it is served: it is read
by the parser and finds its location in a configuration that came from a file.

- The parser, for any tokens and messages under `ParserAssumption` and
  `MessagesAssumption`, and parts that end behind a line while the head lasts
  (`~ CutInLine`, a hypothesis of each theorem: without it `http_parser_cut` shows
  them false). The head is defined by flattening; `JoinsExist` and `FlattenIsJoin`
  take the fold apart by the least length at which it goes wrong, and `StartsRight`
  finds the place on the wire where each line starts (`Layout`). `ParserInv` then says
  where the parser is: `Handed` (the part is the end of what was fed, and that ends
  behind a line), `AtLine` (the rest of the part begins with line k, and the lines
  before k are parsed: of a repeated header the last counts), `InBody` (the body has
  the bytes before the rest of the part, and one at least is missing) and `Outcome`.
  `LineInPart` is the core: a rest that is not empty holds the next line whole, and
  its end is the first `\n` in it, so that nothing is ever kept and a line end is
  never at the first byte of a part. `LengthRight` gets the Content-Length back from
  the table of headers, `BodyGrows` and `ReadsBody` count the bytes.
  `CutsDoNotMatter` and `ReadyInTime` are read off the invariant; `SkipsCR` takes one
  more step.
- Routing, for every configuration, under `ConfigAssumption` (paths are sequences of
  characters, and distinct words have distinct ones). `get_location()` never compares
  lengths: it keeps the last match of an iteration. `PrefixesNest` (two prefixes of
  one string are prefixes of each other) and `LongerIsNotBefore` (the order of the map
  puts a string behind its prefixes) make the last match the longest
  (`LastIsLongest`); `LastExists` finds it by well-founded descent, so that nullptr
  means that nothing matched. `RoutingInv` adds to the property that no request is
  answered before the configuration is in place, without which `Configure` could
  change the servers under an old answer.
- Which files are accepted, for any set of files under `FilesAssumption` (a file is a
  sequence of tokens). `AcceptsRepairable` says it of a repaired text, and the parser
  never sees that text. So the proof goes by `Fit`, which says of each token of the
  text as it is what has to be before it. `ConfigInv` is about the frames of
  `parse()`: `FramesOk` (there is one, and what it has are words), `TokensLeft` (what
  is left is the end of the file) and `Reading` (what was read fits, a frame is open
  for each block that is, the current one has words if a word was read last, and
  nodes if the end of an operator or block was read, apart from words). While the
  activations return at the end of the file the frames are fewer than the open
  blocks, and then there is nothing left to read. Each turn of the loop gets over a
  token if and only if the token fits (`DoesNotFit`, `FitsIf`), so `ConfigInvCorrect`
  gives "accepted if and only if fit". That a text fits if and only if the repaired
  one is well-formed (`FitIfRepairable`, `RepairableIfFit`) has nothing to do with the
  parser: repairing moves tokens but keeps their order (`KeptInOrder`,
  `KeptComesFrom`), drops words only, and so opens as many blocks before each token
  as there were (`OpenKept`).

`ThreadPoolProofs` is about any numbers of workers and tasks, under `PoolAssumption` (both are finite, and the handles the pool makes are
distinct).

- `PoolInv`: which senders are alive follows from how far the owner is
  (`SendersByPhase`), which receivers from the workers that run
  (`ReceiversOfWorkers`), which workers from the vector and the joins
  (`WorkersByPhase`). So a sender is alive while a worker is: no worker sees a
  closed channel, and `execute()`, which throws when no receiver is left, throws
  only when all workers have exited.
- `PlaceInv`: `Flow` (what was sent is what was taken followed by the queue),
  `SentOnce` and `TakenIsRun` give each task one place.
- `PillInv`: as many pills were taken as workers have stopped, and no more are sent
  than there are workers. When `shutdown()` returns all workers have stopped, so no
  pill is left; what is before a pill in the queue was taken before it, and by then
  it has run.

`CollectProofs` is about any number of inputs (`NAssumption`: a natural).
`CollectInv` says which mutexes are held by whom, from who runs which callback
(`Held`), what each thread has behind it (`Progress`), that a callback adds its
input's value once (`AddedOnce`) and the result is set by the one that completes the
set (`SetOnce`). `Barrier` then counts: the values of the result map one to one
into the inputs that completed.

`CoroutineProofs` is about any depth of coroutines and any number of operations,
completed by a pool or by the loop (`CountsAssumption`: both at least one).
`CoInv` fits together the stacks of the threads and the frames that are suspended:
`Progress` and `Awaiting` say of each coroutine which values it has had and which it
is the callback of, `OneFrame` that a body runs on one stack or is suspended,
`Sections` that a thread that is setting the value of a state still has its promise, and `OneThread` that with the loop nothing else runs meanwhile.
`SettersKeepTheState`, `LoopIsSafe` and `OneResumption` are read off it.

`ExecutionContextProofs` is about any workers and descriptors
(`ContextAssumption`). `BatchInv`: each descriptor is in the batch once, and still
registered until the loop takes it. `OwnerInv`: what a handler holds is neither
registered, nor queued, nor ahead in the batch, also after its future completed.
`PendingInv`: what the barrier waits
for is what is queued and what runs. `MutexInv`: only the holder of `_mutex`
registers. They need each other: that a number is not opened while it is ahead in
the batch follows from its still being registered and so open. It is the same for
any choice of events that `epoll_wait()` makes.

`CgiPipesProofs` is about any requests, capacities and lengths
(`PipesAssumption`). `PipeInv` fits together what the child has read, what its pipe
holds and the position of `write_all()`, which gives `RequestIntact`. `EndsInv` ties
the ends a process has open to the stage of its pipeline and to the order of the
forks: an end of the server's in a child belongs to a child forked later
(`EndsAccounted`). `AnswerInv` says of each stage what the child may have done, so
that 503 and SIGPIPE need a script that was missing or left early
(`FailureHasCause`).

`WebServerProofs` is about any clients, rude or not, peers, flaky or not, messages,
misread or not, limits and lengths of messages (`ServerAssumption`). `ServerInv` has five parts: `Tables`
(each continuation waits for the descriptor its stage says, and that, its connection
and what it will read belong to one client), `Accounted` (an open descriptor has
one owner, or is of a failed connect), `BatchInv` (an event not yet served is
registered, once), `Environment` (a client that is not rude does not hang up) and
`PeersWait` (a peer that is not flaky waits for its request). `LeavesKeeps` is the
core: a handler that registers continuations for what it had or what was free, and
closes the rest, keeps all of it, and `add_event()` does not throw. Each handler is
then an instance. `DescriptorsAccounted` is a part of it; `DownForACause` follows,
since SIGPIPE needs a client that hung up or a peer that is gone, an uncaught
exception a message that is misread, and the loop has
the registration and the handler of every event it took. On top of `ServerInv`,
`ReplyInv` says that a client has at most one connection, after it was accepted,
that a continuation past the request knows whose request it read and has sent
nothing before it responds, and that what is left of a response is what its client
has not received (for a rude client it may be less). `LeavesSays` carries it through
every handler, since two continuations that wait have different clients
(`OthersClients`). From it follow `OwnResponseOnly` of `HttpService` and `PatientNotDropped`: the
continuation that must exist is the only one with that connection.

`RequestInv` adds what the promises of `HttpService` rest on: what a continuation has
left to read is what its client has not sent or what waits in its socket, a
continuation past the request has nothing left of it, what is left of a response is
what its client has not received, and what `leaked` keeps open is no client's. An open
socket of a client is then that of the continuation that serves it (`SocketServes`),
so what a child takes with it when it is forked is open at that time (`ForkKeeps`), and
a connection that was given up is never kept anew. With it `ImplementsServiceCorrect`
takes each handler, and each step of the environment, to a step of `HttpService` or a
stutter.

What stays with TLC: liveness (and with it the fairness part of
`ImplementsChannel`), and that the tree `parse()` builds has every operator of the
file (`KeepsEveryOperator`), since the tree, and the list of what is in it, are
recursion over data.

## What the runs found

- `fastest()` hands out a slower value if nobody looked in between (README.md:13
  of the repository calls it "like any").
- With a pool as executor the loop's lookup races with registrations and can
  end in the exception "CallbackStorage: Event must be here".
- The request and response parsers lose their place when a part ends between
  `\r` and `\n`: a comment says that the `\r` is skipped, and there it is the `\n`.
  It takes such a part: with others no line holds a `\r` (`SkipsCRCorrect`).

Seen and modelled, with no statement in the repository to hold against it: end of
file is not told to the parsers, so a client or an upstream that closes early
keeps its connection, and the loop, busy; a write to a peer that is gone raises
SIGPIPE; an absent Content-Length ends the process; the value of a header begins two
places behind its colon, so one without a space loses its first byte; a failed connect keeps its
descriptor; an input of `fastest()` that completes after a callback took the
result finds that callback moved out of its optional, and calling it throws. With a
pool, a value that comes between `await_ready()` and `await_suspend()` resumes the
coroutine inside `set_callback()`, and the body drops the last reference to the
mutex that is held there (`LoopIsSafe` is stated for the event loop, where it
cannot happen); the stack grows with every operation that was complete when it was
awaited; an exception in a body is dropped, and whoever awaits it waits for ever.
The answer of a CGI is read only after the whole request is written, so a script
that answers as it reads and the server may each wait for the other; a script reads
from a pipe that is O_NONBLOCK, and one that leaves before it has read ends the
server by SIGPIPE; a child keeps the pipes and client sockets it inherited, so an
earlier script sees the end of its input, and a client the end of its connection,
when the later child has exited. What the second finding does to a well-formed request
that is cut within a line can be a refusal without an answer or the end of the
process, for which no client is to blame. A
configuration file may end inside its blocks, and words before a `}` that no `;`
ends are dropped: `tests/unit/config/error5.conf` tests an operator that is not
closed at the top level only. A location without `accepted_method` accepts
nothing, and its requests end as errors.

## Not modelled

- Formatting of messages, contents of files, addresses (the address in a `listen`
  operator included), log output, `tokenize()`: data that no property is about.
- The kqueue and poll listeners: one is for another platform, the other is not
  built. The event word: two packings without state (its mask is two bits too wide,
  which the truncation to the enumeration hides).
- echo-serv-v1 and -v2, and with them the blocking `read_vec` and `write_all` of
  `Socket`; `with_executor`, which nobody calls and which does not compile.
- `Result`, `move_only_func`, the log streams and the buffer per thread: values.
- Threads that cannot be created, and the time a blocking `connect()` takes:
  `StartProxy` is one step.

## Plan

What is left is a refinement of what `StaticThreadPool` promises: a task that was
accepted before the last pill runs once.
