# Verification of myOwnWebserver

TLA+ models of the web server in `src/`, in the style of muduo: one event loop
per thread, HTTP connections driven by edge-triggered epoll, a timer per loop
that reclaims idle connections, and a double-buffered asynchronous log. The
modules are translated from the code as it is. Where the code does something
else than its documents say, the model does what the code does and a run shows
the difference.

Contents: [the system](#the-system), [the modules](#the-modules),
[the runs](#the-runs), [fairness](#fairness), [what was found](#what-was-found),
[proofs](#proofs), [abstractions](#abstractions),
[not modelled](#not-modelled), [plan](#plan).

## The system

### Threads and how they meet

```
  acceptor's thread                        each loop's thread
  -----------------                        ------------------------------------
  Acceptor::handleNewConn                  EventLoop::loop, while looping_:
    accept, new HttpData                     EPollPoller::poll   (epoll_wait)
    loop = EventLoopThreadPool::getNextPool  Channel::handleEvents for each event
    loop->queueInLoop(newEvent) ---------->    HttpData::handleRead, handleConn
       pendingFunctors_ under mutex_,        doPendingFunctors  (newEvent)
       then a write to the eventfd           EPollPoller::handleExpired  (Timer)

  any thread: LOG << ...                   logging thread
    AsyncLogging::append, under mutex_ --->  AsyncLogging::threadFunc: take the
    currentBuffer_, bufferPtrs_              buffers, write, flush, hand back two
```

Connections cross from the acceptor's thread to a loop once, as a functor; after
that only their loop touches them. What loops still share is the kernel's
descriptor table: a descriptor closed by `~HttpData` in one loop is handed out
by the next `accept` and may go to another loop.

The main thread starts the loop threads one by one (`threadPoolInit`), each of
which builds its `EventLoop` on its own stack and opens a latch once its address
is stored; the pool's destructor sends every loop a `quit()` and detaches the
thread. The first log statement of the program creates the log and its thread,
behind two latches; `stop_thread()` ends it.

### Inventory

| Component | State | Operations | What makes it correct |
|---|---|---|---|
| `EventLoop` | `looping_`, `pendingFunctors_`, `callingPendingFunctors_`, `activeChannels_`, eventfd | `loop`, `quit`, `runInLoop`, `queueInLoop`, `wakeUp`, `handleRead`, `handleConn`, `doPendingFunctors` | never asleep over queued work or a quit; functors called once, in order; every wakeup read |
| `EPollPoller` | `channels_`, `httpdatas_`, epoll set, `timermanager_` | `poll`, `fillActiveChannels`, `addChannel`, `updateChannel`, `removeChannel`, `handleExpired` | maps and epoll set agree; an event finds its own channel; a descriptor is served by one loop |
| `Channel` | `events_`, `revents_`, callbacks, weak `http_` | `handleEvents`, `update` | callbacks run on live objects; no state from which a connection cannot be reclaimed |
| `HttpData`, life | `connectionState_`, `error_`, weak `timer_`, socket | `newEvent`, `handleConn`, `handleClose`, `seperaterTimer`, destructor | closed once, for one of the two reasons in `readme.md:23-25`, never while in use |
| `HttpData`, protocol | `inBuffer_`, `outBuffer_`, `method_`, `url_`, `state_` | `handleRead`, `parseURL`, `parseHeaders`, `analysisRequest`, `handleWrite`, `handleError`, `reset` | one answer per request, in order, complete; nothing after an error page |
| `Timer`, `TimerNode` | min-heap, `expiredTime_`, `deleted_`, `ownHttp_` | `addTimer`, `clearHttp`, `isVaild`, `handleExpiredEvent` | never early, never after a clear, eventually |
| `AsyncLogging`, `FixedBuffer` | four buffers, `bufferPtrs_`, `running_` | `start`, `append`, `threadFunc`, `stop` | `start()` returns; nothing lost or reordered; `stop()` drains; a buffer is always there |
| `LogFile`, `FileUtil` | stdio buffer, count of appends | `append`, `flush` | written lines reach the disk |
| `Logger`, `LogStream` | the line being built, the one logger | `operator<<`, `output`, `once_init`, `stop_thread` | a line is whole, or cut inside its buffer |
| `Acceptor` | listening socket and channel | `start`, `handleNewConn`, `handleThisConn` | no connection stays in the socket unnoticed; each goes to a running loop |
| `EventLoopThreadPool`, `EventLoopThread`, `CountDownLatch` | `loops_`, `next_`, `ownloop_`, `latch_` | `threadPoolInit`, `threadStart`, `threadFunc`, `getNextPool`, destructor | a handed-out loop runs, in turn; the destructor ends it |
| `mimeType`, `Util`, wrappers of pthreads, `Main` | little | tables, system calls, glue | see [not modelled](#not-modelled) |

### What is hard here

* **Wakeups.** `queueInLoop` reads `callingPendingFunctors_` and writes the
  eventfd after it released the mutex; `quit()` clears a plain `bool` that the
  sleeping loop reads only after `epoll_wait`; an edge-triggered eventfd is
  reported once.
* **Ownership.** A channel's callbacks hold a raw `this`. What keeps an
  `HttpData` alive is a timer node, an entry of `httpdatas_`, a queued functor
  or the acceptor's local variable, and the callbacks themselves take three of
  these away and give them back.
* **Reuse.** Descriptors and loops interleave; `handleNewConn` still holds a
  connection while the loop may already have served and closed it.
* **Segments.** TCP may cut requests anywhere, pipeline them, take responses in
  parts, fail or close at any point; the same `handleRead` is both the read and
  the write callback.
* **Time.** The timer compares readings of a clock that starts again at 0 every
  10000 seconds; deleted nodes stay in the heap until they come to its top.
* **Buffers.** The log's callers and thread move four buffers around by hand.
* **Start and end.** Threads publish objects on their stacks and in each other's
  heap; creation may fail, `quit()` may come before `loop()`, a destructor may
  overtake the thread it is about, log statements may overtake the logger's end.

`PROJECT.json` lists these hazards one by one, at their lines, with the
properties that would catch them.

## The modules

| Module | Models | Builds on |
|---|---|---|
| `TaskQueue` | the promise of `queueInLoop`/`runInLoop`: once, in order | |
| `EventLoop` | one loop, its callers, the eventfd, edge-triggered epoll | implements `TaskQueue` |
| `EventLoopProofs` | proofs about `EventLoop` | `EventLoop`, `TaskQueue` |
| `Descriptors` | the promise about descriptors: one connection, one loop | |
| `ConnLifetime` | acceptor, pollers, channels, life of `HttpData`, timers as owners | implements `Descriptors` |
| `ConnLifetimeProofs` | proofs about `ConnLifetime` | `ConnLifetime`, `Descriptors` |
| `LoopPool` | the threads: start-up, acceptor, round robin, destruction | |
| `LoopPoolProofs` | proofs about `LoopPool` | `LoopPool` |
| `HttpSession` | the protocol of one `HttpData` against a peer and a network | |
| `HttpSessionProofs` | proofs about `HttpSession` | `HttpSession`, `FlattenFacts` |
| `LogPipe` | the promise of the log: an ordered, duplicate-free prefix | |
| `FixedBuffer` | a buffer of a given size: what was put in it, how full it is | |
| `LogStream` | how a log statement becomes a line: `LogStream`, `Logger` | `FixedBuffer` |
| `AsyncLogging` | start, callers and thread of the log, `LogFile`, `FileUtil` | `FixedBuffer`, implements `LogPipe` |
| `Logging` | `Logging.cpp`: a program's log statements and `stop_thread()` | composes `AsyncLogging` and `LogStream` |
| `FlattenFacts` | induction over sets of numbers; what `FlattenSeq` computes | |
| `AsyncLoggingProofs` | proofs about `AsyncLogging` | `AsyncLogging`, `FlattenFacts` |
| `LoggingProofs` | proofs about `Logging` and `LogStream` | `Logging`, `AsyncLoggingProofs` |
| `Timer` | `Timer`, `TimerNode` over the wrapping clock | |
| `TimerProofs` | proofs about `Timer` | `Timer` |
| `MC...` | instances for TLC: parameter values and symmetry | the module of that name |

Variables carry the fields' names (trailing underscores included), actions the
handlers' names in TLA+ capitals; `PROJECT.json`'s `map` gives the lines behind
each definition. An operator named `X_Y` is `X` with the plausible defect `Y`.
None of the specifications uses it: each shows that some property would notice
that defect.

**`EventLoop`.** A step is a critical section of `mutex_`, one system call, or
one access of `looping_`. `pc` follows `loop()`: `check`, `poll`, `events` (with
`handler` and `wakeConn` inside callbacks), `run` and `body` (functors),
`expire`. A caller's `queueInLoop` or `quit` is two steps: the update, then, for
those that need it, `WakeUp`. The eventfd is its counter and whether it is on the
epoll instance's ready list: a successful write puts it there, `epoll_wait` takes
it off, and `EPOLL_CTL_MOD` (from `handleConn`) looks again. The write fails when
the counter is full, which `wakeUp` ignores. `dispatches`, chosen in `Init`, says whether
`poll()` reaches `fillActiveChannels`. In the committed code it does not
(`while (false)`, `EPollPoller.cpp:31`).

**`LoopPool`.** `pc` is the main thread: `create` and `latch` (`threadPoolInit`),
`poll`, `accept`, `rearm`, `serve` (its own loop with the listening socket),
`destroy` and `wake` (the destructors). `tpc[t]` is loop thread `t`: `started`,
`constructed` (its address is in `ownloop_`), `entering` (the latch is open),
`check`, `poll`, `run` (its loop, of which only `looping_`, the eventfd's edge and
the number of waiting functors are kept), `left`, `ended`. An access to an
`EventLoopThread` that was freed, or to a loop that has left its stack, either
goes unnoticed or crashes the process (`Access`). `listening` says whether
`acceptChannel_` has callbacks and a poller, as `readme.md:18` has it, or not, as
committed: then there is no `edge`, and nothing is ever accepted.

**`ConnLifetime`.** A step is one callback of a loop thread, or one phase of
`loop()`, since no other thread touches a registered connection; `handleNewConn`
is three, at the points where its hold on the connection changes. `Held` is the
count of `shared_ptr`s, and `Destroy` runs the destructor as soon as it is zero
at the end of a step. What the bytes say is reduced to what `handleRead` can make
of them for the channel (`Outcomes`): an error, a wait, an answer with or
without a rest to write. Every assertion and every dereference that could fail
adds its name to `failed`.

**`HttpSession`.** The byte stream is a sequence of tokens: what is in a line,
`\r` and `\n`. Of a line's contents the model keeps what the parser sees of it:
whether it has the two blanks `parseURL` wants, whether it has the colon
`parseHeaders` wants, what method its first word is and what file its second word
leads to. So a header whose value has a blank passes for a request line where
`parseURL` meets it, and a request line with a colon in its URL for a header where
`parseHeaders` does. A line is never looked at before its end is there, so
delivering up to any token is delivering up to any byte. Responses are `head` and
`body` units numbered by answer, which `write` takes in full, in part or not at
all. The stages of `handleRead` (`read`, `url`, `headers`, `analysis`, `end`,
`conn`) are the actions; its recursion on pipelined input is a loop. Where
`method_` was never assigned, `MethodRead` yields any number. A header that ends at
its colon is the end of the process (`crashed`). An error page is a `400` or `404`
unit and a `page`, written past `outBuffer_` by two `writen` calls of which each
may take its part or not. Of what headers say, the model keeps whether the request
asks for keep-alive, which shows in the head of its answer (`kept`). A scenario,
chosen in `Init`, fixes the peer's requests, whether segments may end anywhere, and
which troubles (short write, reset, end of file, expiry) may strike, at any moment.

**`AsyncLogging`.** `stage` is the thread in `start()`, from `new` over the two
latches to `up`. `append` is one critical section. The thread's `pc` goes from
`born` and `entering` (before and inside `threadFunc`, where the latches open) to
its round, `check`, `lock`, `waiting`, then (with the mutex released) `backlog`,
`write`, `recycle`; after the loop `final`, `finalWrite`. A moved-from
`shared_ptr` is `Null` or `FALSE`, and dereferencing it sets `crashed`; so does,
perhaps, an append that overlaps the last write, which runs without the mutex.
`lost` remembers that a message was given up: `FixedBuffer::append` drops what
fills a buffer exactly, the backlog rule erases buffers, `fwrite` fails.

**`LogStream`, `Logging`.** A log statement is a sequence of pieces, each with
its kind and length: time and level, what the program adds, file and line number.
`Line` folds `operator<<` over them, with `kSmallBuffer` and `kMaxNumericSize` as
in the code; pieces that do not fit are left out one by one. `Logging` runs a
script of statements: the first one creates and starts the log, each hands its
line to `append`, and `stop_thread()` may come at any moment, the first included,
when there is no log yet.

**`Timer`.** `now` is the clock's reading, modulo `Wrap`, and advances at any
moment, also inside `handleExpiredEvent`. `age` is the true time since a node was
added, known to the properties only. The heap is the set of its nodes, and its
top any node of least `expiredTime_`.

## The runs

States are distinct states of the complete search. `IInv` (`LogIInv`) is the
inductive invariant of the [proofs](#proofs); the type invariant is a part of it.

| Run | Instance | States | What it shows |
|---|---|---|---|
| `event_loop` | 3 functors, 2 callers and the loop thread, all may quit, eventfd limit 3, both builds of `poll()` | 42 945 | `NoLostWakeup`, `PostedRuns`, `QuitStops`, `WakeupRead`, refinement of `TaskQueue`, `IInv` |
| `loop_undispatched` | 1 functor, 1 caller, as committed | violation | `WakeupHandled` fails: the eventfd's callback never runs |
| `loop_pool` | 0 to 2 loop threads, 3 connections, listening or not, failing thread creation, destruction at any moment | 74 135 | handed-out loops run and take turns, nothing is stranded in a registered listening socket or in a loop, `start()` returns, the destructor's `quit()` ends what it reaches; `IInv` |
| `conn_safety` | 3 connections, 2 descriptors, 2 loops | 218 510 | no assertion fails, callbacks run on live objects, one timer node each, closed only for the readme's reasons, refinement of `Descriptors`, `IInv` |
| `conn_live` | 2 connections, 2 descriptors, 1 loop, one peer falls silent at any moment | 55 912 | its descriptor is closed in the end |
| `http_session` | 8 peers of 2 to 5 pipelined requests: whole requests undisturbed and with all troubles, all segmentations with all troubles; GET of a file, of none, of an empty one, HEAD, POST, unknown methods; headers with one word, two and none; lines that pass for others | 183 933 | right answers, in order, once, each by its own headers; under troubles nothing that is not the peer's own; nothing after an error page; a line for each answer; `IInv` |
| `http_split` | 2 requests, any segmentation | violation | a split request line is answered 400 |
| `http_slow` | 2 requests, short writes | violation | a response taken in part is never completed |
| `logging` | 3 scripts of up to 8 statements, lines of 4000 bytes as in the code, buffers of 5000, backlog limit 1, failing `fwrite` and `pthread_create`, `stop_thread()` at any moment | 43 621 | nothing lost or reordered except by design, `append` always finds a buffer, lines are sound, `start()` returns, stop drains or the process crashed; `LogIInv` |
| `log_rotation` | one script, limit 25 as in the code | violation | the first round after a rotation crashes |
| `timer_safety` | 3 nodes, timeouts 1 and 3, cycle of 4 | 818 720 | never early, never after a clear, a pass drains what has not seen a wrap, `IInv` |
| `timer_wrap` | 2 nodes, timeouts 2 and 3, cycle of 5 | violation | a node that has seen a wrap may stay overdue |

Why these bounds. *Loop:* what matters is one functor in the running batch, one
queued behind it, and one more posted at any point of the round, by any thread,
while a quit is under way; the eventfd's limit (2^64 - 2 in the kernel) is small
so that it is reached. *Connections:* three connections over two descriptors force
a descriptor to be reused, and two loops let the second user live in the other one;
a connection never meets more than one other holder of its descriptor. Each
`HttpData` is created once, so the runs end in states where the loops only poll.
*HTTP:* a request is eight tokens, so every place where parsing can stop is a
place where a segment can end; up to five requests give a first, middle ones (whose
leftovers `reset` must remove) and a last; the keep-alive request comes before
others that do not ask for it. The peers whose segments end anywhere send lines
that pass for others first, where what comes before them may be cut off, and again
behind a request that was answered. *Pool:* two threads are the fewest that take
turns, none and one the special cases of `getNextPool`; three connections make
the turn come round. *Log:* one script's lines overflow a buffer again and again
(rotation), and two rotations happen within one round, which the backlog limit of
1 turns into the backlog branch; one fills a buffer exactly (dropped); one has
lines at the end of their own 4000 bytes: without a line number, without their
text, without room for the newline, with a double as the last thing that fits.
*Timer:* a cycle of 4 with timeouts 1 and 3 puts a node
before, at and after the wrap, with another behind it; `age` stops at `Wrap`,
beyond which no timeout lies.

`CHECK_DEADLOCK FALSE` is given where the system may stop: a loop that has quit
(`EventLoop`), a pool that is destroyed, a session that is closed, has crashed or
whose peer has sent all it had, a log that has been stopped or has crashed.

## Fairness

* `EventLoop`: the loop's thread and the threads between an update and its
  `wakeUp` are scheduled. Neither `epoll_wait`'s 30 second timeout nor another
  channel's event is relied upon, so that liveness is the wakeup's doing.
* `ConnLifetime`: loops and acceptor are scheduled. `SF` of `ExpireNode`: a round
  comes at least every `EPOLLTIME`, and a node that stays in the heap is at some
  round found expired. This is the timer with a clock that does not wrap: a node
  added less than its timeout before the wrap has an `expiredTime_` that no reading
  reaches, and stays (`timer_wrap`). `QuietCloses` is about everything else that
  could leave a connection without a node.
* `LoopPool`: every thread is scheduled. `epoll_wait`'s timeout is not relied upon,
  no one has to connect, and nobody has to destroy the pool.
* `HttpSession`: the loop dispatches ready events and the peer sends all of its
  requests. The peer's close, expiry, and which part of a write succeeds are not
  assumed.
* `Logging`: the logging thread is scheduled and `waitForSeconds` ends; the thread
  in `once_init` is scheduled. Callers and `stop_thread()` need not come.
* `Timer` has safety properties only.

## What was found

1. `loop_undispatched`: `poll()` puts its dispatch in `while (false)`, so no
   channel's callback ever runs, against `readme.md:22`. What still works is the
   functor queue: each write to the eventfd is a new edge and wakes the loop.
2. `http_split`: `parseURL` returns `PARSE_URL_AGAIN` for an incomplete request
   line, `handleRead` goes on to parse headers, and the rest of the line is a bad
   header: 400, against `readme.md:37`.
3. `http_slow`: `EPOLLOUT` runs `handleRead`, which after `reset()` parses an
   empty `inBuffer_` as a request for an empty URL: a 404 page in the middle of
   the response, and the connection is closed, against the comment at
   `HttpData.cpp:177`.
4. `log_rotation`: after a rotation the round finds both spare buffers missing,
   assigns to `newBuffer1` in the branch for `newBuffer2` and dereferences the
   latter (`AsyncLogging.cpp:108`), against the final write of `readme.md:54`.
5. `timer_wrap`: `(tv_sec % 10000) * 1000` is compared as if it never wrapped, so
   a connection whose timeout spans the wrap is not closed when it is due,
   against `readme.md:11`.

Two more disagreements are in the models but have no run of their own, because
reading the lines is enough to see them. `Acceptor::start` (`Acceptor.cpp:38`)
neither gives `acceptChannel_` its callbacks nor adds it to the poller, so
`handleNewConn` is never called and every connection stays in the backlog, against
`readme.md:18`: this is `listening = FALSE` in `LoopPool`, of which `EdgeKept` says
nothing. And `parseHeaders` takes an empty `inBuffer_` for the end of the headers
(`HttpData.cpp:390`), so a segment that ends with the request line is answered at
once and the headers that follow are parsed as the next request, against
`readme.md:33`; `LinePerAnswer` bounds what comes of it.

Read in the code on the way, and not stated as properties, since we found no
document that speaks of these cases: `handleWrite`'s error branch cannot be taken
(`writen` returns a `size_t`), so a failed write counts as a rest to be written; a
client that closes its side right after a whole request is answered 400, as `readn`
returns -1 at the end of file; a file that cannot be mapped discards the earlier
responses still in `outBuffer_`; an unknown method counts as GET, which `reset`
leaves behind, or, in the first request, as whatever the uninitialized `method_`
holds;
a header that ends at its colon gives `parseHeaders` an iterator range that runs
backwards (`HttpData.cpp:417`), which ends the process; a `quit()` before `loop()`
is forgotten, so a pool destroyed early leaves a thread that never ends; a
`pthread_create` that fails in `AsyncLogging::start` leaves the first log statement
waiting for ever, one that fails in the pool leaves a null loop in its place for
`handleNewConn`'s assertion; a descriptor whose `fcntl` fails is not closed;
`stop_thread()` before the first log statement, or during an append, dereferences a
null pointer. All of these are in the models. That a POST is never answered is
what `readme.md:40` says.

## Proofs

TLAPS proves what follows for all values of the constants: every invariant and
every action property that the runs check, and the three refinements. It assumes
of the constants only what is named here, and TLC evaluates each assumption in
the runs of its module.

| Assumption | Says |
|---|---|
| `LoopAssumption` | `LoopThread` is not a caller, quitters are threads, the eventfd's limit is positive, the builds are Booleans |
| `TimerAssumption` | `Wrap` is a natural number, timeouts lie in `1 .. Wrap` |
| `PoolAssumption` | the bounds are natural numbers, thread numbers within theirs, the builds Booleans |
| `ConnAssumption` | who may fall silent is a connection, `None` is none of the others |
| `SessionAssumption` | a scenario is a sequence of the modelled kinds of requests, a Boolean, a set of the modelled troubles |
| `LoggingAssumption` | a `FixedBuffer` has a size, messages are not empty and shorter than it (`kSmallBuffer < kLargerBuffer`) |
| `StreamAssumption` | the widest number is at least one byte and fits a line's buffer |
| `ScriptsAssumption` | what a statement adds has a length, a double's below `kMaxNumericSize` (`snprintf`); `Lens` has the lengths of the lines |

**`EventLoopProofs`** (309 obligations).

* `TypeCorrect`: `Spec => []TypeOK`.
* `CoverInvariant`: `Spec => []IInv`. `NoLostWakeup` speaks of `pc = "poll"` only
  and is not inductive: the loop gets there from other phases. `IInv` adds
  `WakeCovers`, which states the same obligation for every phase in which the next
  `epoll_wait` comes before the next swap, with a counter that is not zero as one
  more way to be covered when `poll()` dispatches; `EdgeKept`, that such a counter
  is on the ready list or its channel is about to be handled; `NotDrained` for a
  `poll()` that does not dispatch; and `Phases`, which ties `activeChannels_`,
  `functors` and `callingPendingFunctors_` to `pc`. The delicate step is
  `queueInLoop` from a functor: it is covered because
  `callingPendingFunctors_` holds exactly in `run` and `body`.
* `NoLostWakeupHolds`: from `CoverInvariant`.
* `LoopImplementsTaskQueue`: every step is a `TaskQueue` step or a stutter under
  `queue <- functors \o pendingFunctors_`; the swap is a stutter because
  `Phases` makes `functors` empty before it.

**`TimerProofs`** (169 obligations).

* `TypeCorrect`, and `ClockInvariant`: `Spec => []IInv`. `NeverEarly` speaks of
  closed nodes; to preserve it one must know what `expiredTime_ <= now` says about
  a node's age. `ClockAgrees` is that fact: while a node's age is less than a
  cycle, `expiredTime_ + age` is `now + timeout`, or that plus one cycle. In both
  cases a reading at or past `expiredTime_` means the age has reached the
  timeout, and an age of a cycle is past every timeout. `OwnersAgree` ties
  `deleted_` and `ownHttp_` to each node's history.
* `NeverEarlyHolds`, `OwnerPresentHolds`: from `ClockInvariant`.
* `ClearedNeverClosesHolds`: a cleared node owns nothing when it is popped.
* `PassDrainsHolds`: when the loop of `handleExpiredEvent` breaks, the top is
  valid, hence every node's `expiredTime_` is past `now`; an overdue node then has
  seen a wrap.

**`LoopPoolProofs`** (474 obligations): `PoolInvariant`, and from it
`TypeCorrect`, `HandedLiveHolds`, `BalancedHolds`, `EdgeKeptHolds`.

* `HandedLive` needs to know, for each thread, that a latch is open only when the
  thread's loop is known to the pool's object (`ThreadsAgree`), and how far the pool
  has come (`MainAgrees`).
* `Balanced` says that two loops' shares differ by at most one, which a turn does
  not preserve by itself. `TurnKept` does: the loops before `next_` have had exactly
  one connection more than those from there on.
* `EdgeKept` is about `epoll_wait`, and about a socket that is registered.
  `EdgeRaised` is about every phase outside `accept` and its epilogue: whichever
  failure of `accept` or `fcntl` ended the loop, `handleThisConn` has raised the edge
  again if there is something to report. Without a registration there is no edge.

**`ConnLifetimeProofs`** (1830 obligations): `ConnInvariant`, and from it
`TypeCorrect`, `NothingFailsHolds`, `CallbacksLiveHolds`, `OneTimerHolds`, the
action property `ClosedForAReasonHolds`, and the refinement
`DescriptorsImplemented`, for any number of connections, descriptors and loops.

* `Agreement` says who holds a connection, where it is on its way to its loop
  (`QueuesAgree`), what its fields are then and later (`StatesAgree`), that
  `channels_` and `httpdatas_` hold exactly the registered connections, each at its
  descriptor (`MapsAgree`), and that events and callbacks are those of registered
  connections, in their own loop (`EventsAgree`). Aliveness of a callback's
  object follows, since a registered connection is held by the maps.
* `BatchServed` is needed for one step only: at the end of a batch of functors
  their holds are dropped, and no connection may be destroyed that is not yet
  registered. It holds because only its own loop could have closed it.
* The other loop's steps, which may reuse the descriptor, leave it alone: lemmas
  `...Keeps`, from which the stages of `Descriptors` follow.

**`HttpSessionProofs`** (3835 obligations): `SessionInvariant`, and from it
`TypeCorrect`, `RightAnswersHolds`, `OwnAnswersHolds`, `ErrorIsLastHolds`,
`LinePerAnswerHolds`, `MethodAssignedHolds`, for any sequence of requests.

* `Agreement` holds whatever happens, in any segmentation. `LinesAgree` counts lines
  with two blanks: those behind the answers given, the one in hand and those in
  `inBuffer_` were all read from the stream, hence `LinePerAnswer`; it is `reset`,
  which empties `url_`, that keeps a line from being counted twice. `MethodAgrees`
  says that as long as `method_` is uninitialized no file is named, so nothing is
  served, and that `inBuffer_` still holds the stream's beginning until the first
  line is parsed. `ErrorsAgree` ties the error page to the end of the session.
* `Turns`, for whole requests, says for each stage of `handleRead` which tokens of
  the current request are still in `inBuffer_`, counted in a stream of eight tokens
  to a request, and what `method_`, `url_` and the headers are by then. What was sent
  and what is in `outBuffer_` together are the replies so far, until a write fails
  or an error ends it; then what was sent is a beginning of them, with at most a
  page behind it. That is `OwnAnswers`: through short writes, failed writes, ends of
  file and the parse of an empty buffer that `http_slow` shows.
* `Calm` adds that with nothing to disturb it the session never parses an empty
  buffer, keeps nothing in `outBuffer_`, and only a file that is not there is an
  error: then what was sent is exactly what is owed so far, `RightAnswers`.

**`AsyncLoggingProofs`** (1770 obligations): `LogInvariant`, `TypeCorrect`,
`BufferForAppendHolds`, `NothingLostHolds` and the refinement `PipeImplemented`,
for messages appended in any number and order of lengths.

* `Phases` ties the latches and the spare buffers to where the thread is:
  `newBuffer1` is there whenever it may lock, so `currentBuffer_` is replaced; it
  goes only after `running_` has become `FALSE`.
* `Stored` is the file, the buffers of the round, the full ones and the current one,
  one behind the other. Each step moves messages along it, appends one at its end,
  or thins it, by an `fwrite` that fails or the backlog's `erase`, and then `lost` is
  set. `InOrder` says that it is increasing whatever was lost, which is what
  `LogPipe` promises of the file, a part of it.

**`LoggingProofs`** (824 obligations): the same for `LogSpec`, a program's log
statements: `LoggingInvariant`, `LoggingBufferForAppend`, `LoggingNothingLost`,
`LoggingPipe`, and `LinesSoundHolds`. Each step of `Logging` is one of
`AsyncLogging`'s, or the `stop_thread()` that comes before there is a log. What is on
disk was appended, hence is a statement of the script (`Logged`), and lines are sound
for any statement: by induction over its pieces, the line stays within its buffer, and
as long as what was inserted leaves room for the widest number, no piece was left out.

**`FlattenFacts`** (249 obligations) is what the last three rest on. Their sequences
have any length, and `FlattenSeq` and `FoldLeft` are defined by recursion. The
library's induction theorems take an operator as a parameter, which the installed
provers cannot instantiate; induction is done for the *set* of the numbers of which
something holds instead (`SetInduction`), and its proof is that a set of numbers has a
least element. A recursive function is a `CHOOSE`: the lemmas show that a function
with its equation exists, and read off the equation.

Only model-checked: the liveness properties (`PostedRuns`, `QuitStops`, `WakeupRead`,
`GivenIsTaken`, `PoolStarts`, `QuitEnds`, `QuietCloses`, `AllAnswered`,
`LoggerStarts`, `StopDrainsOrCrashes`, `AllReachDisk`), since TLAPS's backends do
not handle fairness and `ENABLED`. No module declares a `RECURSIVE` operator.

## Abstractions

* Message text, file contents, the lines of a request and log lines are members of
  small sets; a write or an append moves whole units.
* `GivenIsTaken` is about the pool: `LoopPool` takes `queueInLoop`'s push and its
  `wakeUp` as one step (`Hand`). What may come between them is `EventLoop`'s subject
  (`NoLostWakeup`, `PostedRuns`).
* `fflush` succeeds. `FileUtil::flush` (`FileUtil.h:18-21`) ignores its result, so on
  a full disk a round would end with lines that `AllReachDisk` calls durable still in
  stdio's buffer; `fwrite`'s failures, which are the lost lines, are modelled.
* The eventfd's counter has a small limit in the runs. The kernel's, 2^64 - 2, is out
  of reach of a run of the server. Full and never read, in a `poll()` that does not
  dispatch, it would take no further write and wake no one: `NoLostWakeup` excuses
  that (`Saturated`).
* `LoopPool` keeps of a loop what its threads see of each other: that every edge of
  the eventfd ends its `epoll_wait`, and every round runs all that is queued, is
  what `EventLoop` shows in full. `ConnLifetime` in turn abstracts `getNextPool` to
  any loop; the order of the active channels within a round,
  and of `newEvent` calls within a batch, is arbitrary. `EventLoop` shows what the
  order of functors is.
* A timeout in `ConnLifetime` may pass in any `handleExpired`; `Timer` says when it
  does. Cleared nodes are not counted there, since popping them does nothing.
* The connections of `ConnLifetime` are those of a poller that dispatches; the
  committed `poll()` is the sub-behaviours in which nothing is ever reported.
* `gettimeofday` does not go back. `age` stops at `Wrap`, which no timeout exceeds.
* What is undefined goes unnoticed or crashes the process: an access to a freed
  `EventLoopThread` or an ended loop, an append that overlaps the log's last write.
  A vector torn by two threads' `push_back` is not told from these.
* Log statements are appended in the order of the script, whichever threads they
  come from; `append` is a critical section, so there is such an order. In one
  round of the log at most one buffer meets a failing `fwrite`. `stop_thread()`
  does not come while the logger is being created.
* `threadFunc` also prints each buffer to the terminal; a buffer that was reset and
  not cleared has no terminating NUL then (`AsyncLogging.cpp:90`). That is left out.
* A crash of the process stops the log's actions; what was on disk stays there, any
  prefix at least as long as the last flush.
* A socket whose write failed reports `EPOLLHUP` and no readable data, so its
  channel calls nothing until the timer closes it.

## Not modelled

* `mimeType`: a table, and with it the wording of responses.
* `MutexLock`, `Condition`, `CurrentThread`: thin wrappers, present as the
  atomicity of steps and as waits that end at any time. Of `Thread`, names, tids and
  the destructor's detach.
* `Util`'s socket options, `socket_bind_listen`: system calls without state of the
  program. `readn(int, std::string &)` and `LogStream.cpp`'s `convert` have no caller.
* `log/wanju`: an older copy of the log and thread classes, not built into the
  server.
* Formatted responses, the hello page (no URL reaches it), a failing `fopen` and a
  failing `fflush`, the name of the log's file.

## Plan

The model is as wide as the code, and its safety is proved. What is left:

1. The liveness properties, in so far as they rest on steps that decrease
   something: state these steps as invariants and action properties that can be
   proved, so that only the fairness itself is left to TLC (for `PostedRuns`: what is
   queued only moves towards `ran`; for `StopDrainsOrCrashes`: once `running_` is
   `FALSE` the thread's phases only go on).
2. The readings of `Timer` that `ConnLifetime` abstracts to an arbitrary expiry: a
   composition of the two, and of `LoopPool` with `EventLoop`.
