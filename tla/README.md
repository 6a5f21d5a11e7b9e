# RealtimeRank-WebServer: models, checks and proofs

This directory holds TLA+ models of the C++ web server in `src/code` and of the
scripts of its pages in `src/resources/js`, the TLC configurations that check them on
small instances, and TLAPS proofs for every value of the constants. Line numbers refer
to files under these two directories.

    tlc -config MCReactor.cfg MCReactor.tla       # one run
    tlapm ReactorProofs.tla                       # the proofs of one module

## 1. The system

A server for static pages, a login form and a ranking kept in Redis. One **main
thread** runs an epoll loop, a **pool of worker threads** does all reading,
parsing and writing of connections, and a **log thread** writes the log file. An
updater thread started by `main` changes scores once a second. In the browser a page
runs seven scripts, three of them its own.

| Component | State | Operations | Talks to |
|---|---|---|---|
| WebServer (`server/webserver.*`) | `users_` (one HttpConn per descriptor, never removed), `listenFd_`, event modes, `timeoutMS_` | `Start`, `DealListen_`, `AddClient_`, `DealRead_`, `DealWrite_`, `ExtentTime_`, `CloseConn_`; in workers `OnRead_`, `OnProcess`, `OnWrite_` | Epoller, HeapTimer, ThreadPool, HttpConn |
| Epoller (`server/epoller.*`) | registrations in the kernel, `events_` | `AddFd`, `ModFd`, `DelFd`, `Wait` | kernel |
| HttpConn (`http/httpconn.*`) | `fd_`, `isClose_`, two buffers, `iov_`, static `userCount` | `init`, `Close`, `read`, `write`, `process` | HttpRequest, HttpResponse, Buffer |
| ThreadPool (`pool/threadpool.h`) | queue, `isClosed`, mutex, condition | `AddTask`, worker loop, destructor | called by WebServer |
| HeapTimer (`timer/heaptimer.*`) | `heap_`, `ref_` | `add`, `adjust`, `doWork`, `tick`, `pop`, `GetNextTick`, `clear` | its callbacks are `CloseConn_` |
| SqlConnPool, SqlConnRAII (`pool/`) and `HttpRequest::UserVerify` | `connQue_`, a semaphore, a mutex | `GetConn`, `FreeConn`, guard object | MySQL |
| Log, BlockDeque (`log/`) | `fp_`, `toDay_`, `lineCount_`, `buff_`; `deq_`, two conditions | `write`, `flush`, `AsyncWrite_`, `~Log`; `push_back`, `pop`, `full`, `Close` | file; every component logs |
| HttpRequest (`http/httprequest.*`) | parse state, method, path, header, form | `parse` and its parts | UserVerify |
| HttpResponse (`http/httpresponse.*`) | code, path, mapped file, body | `MakeResponse` and its parts | file system |
| Buffer (`buffer/`) | vector, two positions | append, retrieve, `ReadFd`, `WriteFd` | sockets |
| RankingService (`ranking/`) | one `redisContext` | `getTopN` (workers), `getRange`, `updateScore` (updater), `getRank` (nobody) | Redis |
| page scripts (`custom.js`, `smoothscroll.js`, `magnific-popup-options.js`) | preloader, menu, bar, position of the window, running scroll | handlers of load, scroll, click, ready | jQuery, Bootstrap, the browser |

### What is hard

* **Who holds a connection.** A connection passes from epoll (EPOLLONESHOT)
  through an event to the pool's queue, a worker, and back by `ModFd`, or is
  closed. Timer callbacks close connections in the main thread meanwhile; descriptors
  are reused at once and key `users_`, the timers and the registrations.
* **Wake-ups.** Between the look at a queue and the wait (ThreadPool,
  BlockDeque), between the last `read` and `ModFd`, and for an edge-triggered
  listener with a backlog.
* **Several locks and none.** `Log::write` reads `toDay_` and `lineCount_` before it
  locks; `flush` uses `fp_` without a lock; `GetConn` looks at the queue before it
  locks, and sees its two ends at different times; semaphore and queue of SqlConnPool change in separate steps.
* **One connection to Redis.** Workers and updater use one `redisContext` at once, without
  a lock: they race inside hiredis, and a reply says nothing of who asked.
* **Scripts that are lost, events that are early.** A script that did not arrive takes
  the methods of the others with it, an exception in one handler keeps the next from
  running, scroll events come late or before there is a handler, images move the targets
  of links, and two handlers answer one click.
* **Time.** Milliseconds are truncated, a difference of times is kept in a `size_t`,
  the clock is read twice and may be set back.
* **Failures in the middle.** Partial writes, peers that reset, queries that fail,
  exit with lines on the way to the file.

For each component the properties that make it correct: a connection is in exactly
one hand and is neither leaked nor closed twice; a task runs exactly once and no
worker sleeps beside it; heap and index agree and a wait outlasts no deadline that was
still ahead when its length was computed;
each pooled connection serves one worker and none is lost; each line is written
once and nearly in order; a request that has arrived is consumed and a response
leaves whole; whoever gets which reply of Redis, calls that do not race leave the context
clean; a link leads where it says, whatever else of the page failed.

## 2. Plan

Done, in this order: `TaskPool`/`ThreadPool`, `Reactor`, `TimerSet`/`HeapTimer`,
`SqlConnPool`, `AsyncLog`, `HttpRequest`/`HttpConn`, `Page`, `RankingService`, with their
proofs (section 5).

Next, the most important first:

1. The reactor with the deadlines of `TimerSet` instead of a set of armed timers,
   which needs both in one state space.
2. `HttpConn` as an implementation of one connection of `Reactor`: both abstract
   `process`, and `BufferSpent` is what the reactor takes from it.
3. `Buffer`: `MakeSpace_` and `ReadFd` against a queue of bytes.

## 3. The modules

### ThreadPool, with TaskPool as its promise

`TaskPool` is the abstract specification: one queue, tasks handed out in order, each
in one worker until it is run. `ThreadPool` has the code's steps: a critical
section of `AddTask` (`Emplace`) and its notification after the unlock
(`NotifyOne`), the worker's loop (`Take`, `Exit`, `Sleep`), the task's end
(`Return`), the destructor (`SetClosed`, `NotifyAll`) and spurious wake-ups. Every
access to `tasks` and `isClosed` is under the mutex, so a critical section is one
action. `ThreadPool` implements `TaskPool`; the reactor uses `TaskPool`.

### Reactor

One module for WebServer, Epoller and the life cycle of HttpConn, since they share
every state. `stage[t]` is the program counter of thread `t`. A step ends where
another thread can see or change what the code touched.

* Kernel: `sock` (open sockets and their peers), `interest` (registrations; `"off"`
  is a registration EPOLLONESHOT has disabled), `backlog`, `edge` (something arrived
  at an edge-triggered listener). `Ready` is what `epoll_wait` may report. Clients
  connect, send, read, shut down and, if `Resets`, abort, as often as they like: what
  bounds a client is the receive buffer (`RcvBuf`). If `Again`, a client whose connection
  was closed may come back, without end. Who waits to be accepted waits in a queue.
* `Wait` returns with events (`WaitEvents`) or because its time is over (`WaitTimeout`).
  Nothing says that the second ever happens: the time may be negative although timers are
  set (`heaptimer.cpp:137`; `HeapTimer` shows how).
* `CloseConn_` is four steps, `Del`, `Check`, `Mark`, `Shut`, because another
  thread may run it at the same time. `Shut` closes whatever the descriptor names then.
  `Mark` sets `isClose_` and counts `userCount` down at once (`httpconn.cpp:40-41`);
  between the two, `accept` could only turn one more client away, as just before them.
* `AddClient_` is one step (`AcceptClient`): the descriptor is reported to nobody
  before `AddFd` at its end, and no worker touches a descriptor that is free.
* `read` takes everything edge-triggered, and some of it level-triggered.
  `process` makes a response of what is there; how much of the buffer `parse`
  consumes and what it says of keep-alive is open.
* `write` fills the send buffer; level-triggered it may give up with `LowWater`
  bytes left (the 10240 of `httpconn.cpp:103`).
* `timer` is the set of descriptors with a node in the heap. `TickFire` may choose
  any of them, since deadlines are not kept; what `ExtentTime_` does to a deadline is in
  the fairness (`Extended`, `Expires`). **`SlowTasks = FALSE` says that a
  task is over before the timer of its connection, moved when the task was submitted,
  expires**; with the 60 s of `main.cpp` that is the normal case. `SlowTasks = TRUE`
  drops this, and `reactor_slow` shows what follows.

### HeapTimer, with TimerSet as its promise

The heap and the index move through `SwapNode_`, `siftup_`, `siftdown_` and
`del_` as in the code, as operators over the pair of both. A loop is a function of the
number of its rounds (`UpRound`, `DownRound`), which can be proved about. The clock moves at any
time, and in particular inside `GetNextTick` between `tick` and the second
look at it (`Delay`). `timeMS` is the `int` that reaches `epoll_wait`. `TimerSet`
is a set of deadlines: `tick` fires what is due, in order, and leaves nothing due.

### SqlConnPool

The steps of `GetConn` (unlocked test, `sem_wait`, critical section), `FreeConn`, the
guard object and `UserVerify`. The test is two steps, because `empty()` of a deque compares
its two ends and a connection may come or go between the reads: `Look` sees where the
next connection goes, `Test` where the first one is. `left` is how much of what `Look` saw is
still there, and `given` is a history variable: the connections that have been in some
hands since. A null result of `mysql_store_result` ends the process (`SelectNoResult`). `httprequest.cpp:243` makes the guard a temporary, so
the connection is returned before it is used (`Release`) and again at the end
(`Free`). MySQL answers from `table`; a query on a connection that another thread uses
too may be answered with anything, which stands for all that such a use can do.

### AsyncLog

The macros call `write`, then `flush`. `mtx_` is a variable because `write` holds it
over several steps; BlockDeque's mutex is not, because each method is one critical
section. What is read without a lock is read in a step of its own: `CheckFile`,
`NameFile`, `Flush`. `AsyncWrite_`, spurious wake-ups, midnight and the destructor run
beside. In `NameFile` the two reads and the write of `toDay_` are one step.

### HttpConn, with HttpRequest

The other view of a connection: not who holds it, but what goes through it. Since
the reactor's proofs say that one thread has a connection at a time, a handler is one
action, except that each `writev` of `write` is one.

* `HttpRequest` is `parse` over a sequence of lines, the last of which may lack its
  CRLF. A line is one of the texts that `parse` tells apart. `Round` is a turn of the
  loop, `Parse` the loop, and `Paths` the page asked for, where `UserVerify` may answer
  either way.
* In `HttpConn` the client sends whole requests, one after the other or several before
  the first answer; the network delivers any part, also of a line (`CutOf`). `Responses`
  is `MakeResponse` for every kind of file, with `open` and `mmap` failing or not, and
  `OnProcess` is `process` with the handler that calls it.
* Bytes are pairs of a source and a position, so that an iovec is the sequence of bytes
  it covers, a lost, doubled or misplaced byte shows, and the bytes behind an entry that
  is not mapped cannot be sent (`Sendable`).

### RankingService

`redisCommand` is a sequence of library routines on the shared context, and none of them
is atomic, so each that uses a buffer is two steps: a command is joined to what the
context holds (`Issue`, `Join`), a reply that is there is picked and dropped (`Look` or
`Take`, `Drop`), everything appended is written and removed (`Write`, `Trim`), and what has
come is fetched and given to the reader (`Read`, `Feed`). `held` and `fetched` are what a
routine has in its hands meanwhile. Other threads come in between, as the code lets them:
commands are lost, sent twice, or removed unsent, replies are taken twice.

Two threads inside routines on one buffer are a data race (`Meeting`; the history variable
`met` remembers it). Besides what the interleaved steps do, it may garble what was read
(`Garble`: the context fails), make Redis close the connection (`Lose`) or end the process
(`Die`, as does SIGPIPE on a connection that is lost). Replies that parse but name members
Redis never sent are left out.

The updater's loop is `GetRange` and `UpdateScore`, chosen by the list it holds; workers call
`GetTopN`. Scores are left out: no decision depends on them. `by` and `to` name the thread
a command and its reply belong to; Redis and the context have no such field, and no action
reads it.

### Page

One page in one browser window. `Script` runs, or loses, the next of the seven scripts.
A script that finds no jQuery leaves nothing behind (`Needs`, `Ran`), and the `ready`
callback of `magnific-popup-options.js` throws without its plugin, which keeps the one of
`custom.js` from binding (`PopupsThrow`, `OursBound`). `Click` is the whole dispatch
of a click: the menu's handler, localScroll's and `custom.js`'s, in this order, an
exception in one ending it (`Aborted`), and then what the browser does with a link whose
default nobody prevented (`Follow`). A running scroll is a target (`anim`) and
frames that put the window anywhere until the last (`Frame`, `LastFrame`), while the user
scrolls as well (`Wheel`). A scroll event is owed after the window has moved, and one
event may stand for several moves (`ScrollEvent`). Bootstrap's collapse ignores what it is
told while it moves (`Hide`, `Toggle`).

Every page of the site links to other pages only (`PageLink`). `smoothscroll.js` and
`custom.js` are written for links into the page, so the model has them (`InPage`), and links
to elements that are not there; what is shown of these is about the scripts, not about a
page of the repository, and no hazard is listed for it. `SniffRight` says whether localScroll guessed right which element scrolls
the window; `TopNow` is where a target is while images are missing, or after.

## 4. The runs

All bounds are constants of the models: numbers of threads, clients, tasks, calls, lines
and days, buffer sizes, `MaxOnWay` and `MaxClock`. Symmetry is used where only safety is
checked and the names are interchangeable.

| Run | What it shows |
|---|---|
| `reactor_et` | The mode `main.cpp` selects. `OneThreadPerConn`, `NoOrphan`, `NothingStale`, `SocketMatchesConn`, `UserCountExact`, `TimerCovers`, `NoTruncation`. Two clients that come back without end use two descriptors, so a descriptor is reused while timers and tasks of the other are alive; peers may abort; responses need two writes. 2.3 million states. |
| `reactor_lt` | Level-triggered, one user at a time with two descriptors, so that clients are turned away; one event per wait, so that the other waits. `IInv`, which contains `TypeOK` and from which the safety properties of `reactor_et` follow, and for every behaviour: `EventuallyClosed` (a connection ends, unless its timer is moved for ever or the server sleeps past it) and `NobodyStranded` (nobody waits in the backlog for ever). |
| `reactor_serve` | Timeouts off, so nothing rescues a lost wake-up: `NoLostRequest` and `ResponsesLeave`. |
| `reactor_slow` | `SlowTasks = TRUE` violates `OneThreadPerConn`. |
| `thread_pool` | `ExactlyOnce`, `WorkConserving`, `ExitOnlyDrained`, `EveryTaskRuns`, `PoolStops`, and that the pool implements `TaskPool`, fairness included. Three workers and four tasks: more tasks than workers, and several asleep at once. |
| `heap_timer` | `RefExact`, `HeapOrdered`, `WakesInTime`, and that heap and index implement `TimerSet`. Five timers make three levels, so that a removed node is replaced from another branch. `Delay` reaches two milliseconds, from where on a wait may be negative: `WakesInTime` says that this takes a deadline that passes inside `GetNextTick`. |
| `sql_pool` | Two connections and three workers: `SemMatchesQueue`, `BusyOnlyWhenTaken`, `NoneLost`, `EveryVerifyEnds`. With three workers one can look at the queue while another takes a connection and a third returns one. |
| `log` | Queue of one, four lines of two threads, midnight, a full file, exit: `LineOnce`, `PushNeverWaits`, `OvertakeBounded`, `EveryLineWritten`. Four lines are the fewest that can fill the queue, the thread's hands and overtake one too many. |
| `http` | Seven requests in pairs (kept or not, HTTP/1.1 or not, a form, the ranking, two malformed ones), cut anywhere; files that are there, empty, hidden, missing or directories; `open` and `mmap` failing. `Framed`, `MappingCovers`, `BufferSpent`, `WholeAnswered`. A header of two bytes and a page of three let `writev` stop inside each entry, between them and several times; two requests let one be answered while the next is in the buffer. |
| `http_pieces` | A request cut in its first line is answered: `UnendedWaits` fails. |
| `rank` | A worker, the updater and two products, over a connection that may be lost, with at most two commands on their way (`MaxOnWay`) when another is issued: `LeftByMeeting` and `MembersFixed`. Two threads are the fewest that race and that take each other's replies. |
| `page` | Five links (two to pages, one of them outside the menu; two to elements, one that has `smoothScroll`, lies in the menu and moves while images load; one to nothing), any of the 128 losses of scripts, positions on both sides of 50 and at the end: `PageLinksLeave`, `LandsOnTarget`, `BarFollows`, `Uncovers`. One target lands at 51, and at 50 while images are missing, where the bar differs; the other lies above 49, where the window stops at its top. |

`CHECK_DEADLOCK FALSE` stands where the system really rests: clients, tasks,
calls or lines are used up, the pool has stopped, a page has been left, threads wait
for a reply that another took, or a failed assertion or a signal has ended the process. `HeapTimer` never stops and is checked for deadlock.

Each operator named `Bug_...` is a form of an action as a plausible slip would have
left it. `PROJECT.json` pairs it with the property it breaks; no specification uses it.

### Fairness

* Reactor: the main thread and each worker take steps if they can (weak fairness): the
  scheduler runs them, and the only call that blocks is `epoll_wait`. Of that nothing is
  assumed when there is no event, so the main thread may stay in it for ever, timers or
  not. When there are events it reports them in turn, as epoll's ready list does, so that
  the listener comes up (strong fairness of `WaitListen`). A timer expires if `tick` comes
  round again and again *and* the timer is not moved again and again: `Expires(fd)` is
  strong fairness of `TickFire(fd)` unless events of `fd` are handled without end. Of
  clients nothing is assumed, except in `CooperativeSpec` (used by `reactor_serve`), where
  they read what they are sent.
* ThreadPool: the owner finishes `AddTask` and the destructor it began, each
  worker runs, and tasks return (they do not block). Nobody has to submit or to close.
* SqlConnPool: threads run and MySQL answers, if only with an error.
* AsyncLog: threads run. Nobody has to log or to exit, and no wait is assumed to end by
  itself.
* Page: each script and image comes or fails in the end, and the browser dispatches the
  events and timers that are due. The user does nothing he does not want to.
* RankingService: threads run and Redis executes what has come (used only for
  `EveryCallReturns` in `MCRankingServiceShared.cfg`; the run checks safety).

### What the violated runs show

Each of the two states what a comment of the code says, and `PROJECT.json` quotes it.

* `reactor_slow`: EPOLLONESHOT keeps two *workers* from one connection, but not the
  main thread, whose timer callback closes the connection under the worker's hands.
* `http_pieces`: `parse` keeps nothing between calls. What has come of a line is taken for
  the line, and `process` answers it, with 404 for a piece of a request line, and closes.

### Further disagreements

These configurations are kept beside the runs; in each, TLC finds the named property
violated. Most state comments of the code too; `NoFileLeftOpen`, `HeapOrdered`,
`NoneLeftOver`, `UnsentBounded`, `EveryCallReturns`, `NeverDead`, `MenuYields`, `BarRight` and
`LandsOnTarget` state what the code is evidently for. A configuration that is named
more than once has the others of its properties as comments: TLC stops at the first
one it finds violated, so they are checked one at a time.

| Configuration | Property | What happens |
|---|---|---|
| `MCReactorDoubleClose.cfg` | `UserCountExact` | With slow tasks, main thread and worker both find `isClose_` false (`httpconn.cpp:39`): `userCount`, "当前连接数" (`httpconn.h:61`), is counted down twice. |
| `MCReactorTruncate.cfg` | `NoTruncation` | Level-triggered, `write` returns a positive count with up to 10240 bytes left and `OnWrite_` closes (`webserver.cpp:269`). |
| `MCReactorSignal.cfg` | `ServerSurvives` | SIGPIPE is neither ignored nor handled, so one reset connection may end the server (`webserver.cpp:269` says the connection is closed). |
| `MCReactorStranded.cfg` | `NobodyStranded` | At the limit of users an edge-triggered `DealListen_` returns early (`webserver.cpp:192`), and whoever else waits is not reported again. |
| `MCReactorStranded.cfg` | `SilentClosed` | If `epoll_wait` is given a negative time (`MCHeapTimerStall.cfg`), the server sleeps until somebody else's event and a silent client stays (`webserver.cpp:164`). |
| `MCThreadPoolClose.cfg` | `NoTakeAfterClose` | Workers drain the queue after the pool is closed; `threadpool.h:53` says they take nothing more. |
| `MCHeapTimerStall.cfg` | `NeverOversleeps` | A deadline that passes inside `GetNextTick` gives a negative time; `res < 0` (`heaptimer.cpp:137`) is never true of a `size_t`, and `epoll_wait` waits for an event for ever instead of "距离下一个定时器到期的时间" (131). |
| `MCHeapTimerBack.cfg` | `HeapOrdered` | `adjust` only moves a timer down; if the clock is set back it has to go up. |
| `MCSqlConnPoolIdle.cfg` | `GivenIdle` | The guard of `httprequest.cpp:243` is a temporary, so a connection in use is in the queue and two threads talk over it; `sqlconnpool.cpp:48` says that an idle one is taken ("一个空闲的 MySQL 连接"). |
| `MCSqlConnPoolBusy.cfg` | `BusyNow` | `empty()` is called without the lock (`sqlconnpool.cpp:51`): while one connection is taken and another returned it may find the queue empty that never was, and `assert(sql)` ends the server although `sem_wait` would have got one. |
| `MCSqlConnPoolGrows.cfg` | `PoolBounded` | Each verification returns its connection twice: the queue outgrows `MAX_CONN_` (`sqlconnpool.h:35`). |
| `MCSqlConnPoolRegister.cfg` | `RegisterTold` | A failed INSERT is reported as success (`httprequest.cpp:293`, `295`). |
| `MCAsyncLogJoin.cfg` | `JoinReturns` | `pop` looks at `isClose_` only after a wait that may begin after `Close` has notified: `~Log` then joins a thread that waits for ever; `log.cpp:200` says `pop` is false once the queue is closed. |
| `MCAsyncLogFiles.cfg` | `DayOfFile` | Two threads change files around midnight in opposite orders; `toDay_` is not the day of the file (`log.h:53`). |
| `MCAsyncLogFiles.cfg` | `FileBounded` | The test of `lineCount_` is not atomic with its count; a file outgrows `MAX_LINES` (`log.h:45`). |
| `MCAsyncLogFiles.cfg` | `FlushesOpenFile` | `flush` reads and uses `fp_` without `mtx_` (`log.cpp:192`), which "保护共享资源" (`log.h:80`); another thread may have closed the file. |
| `MCHttpConnSends.cfg` | `AnnouncedSent` | The ranking is appended to the header (`httpresponse.cpp:79`) and put into the iovec (`httpconn.cpp:151`): it is sent twice, and announced once. |
| `MCHttpConnSends.cfg` | `NextRequestWaits` | A form has no CRLF after it, so `parse` does not remove it, and after the answer to a kept connection it is parsed as the next request, answered 404 and the connection closed (`webserver.cpp:259` says the connection gets ready for the next request). |
| `MCHttpConnSends.cfg` | `NoFileLeftOpen` | An empty file, or a failed `mmap`, leaves the descriptor open (`httpresponse.cpp:182`). |
| `MCRankingServiceShared.cfg` | `OwnReply` | Without any race, two threads are between the write and the read of one context, and the first to read takes the reply of the other: a worker sends the updater's hundred for its ten, or none; the updater takes a score for "排行榜前100个商品" (`main.cpp:22`). |
| `MCRankingServiceShared.cfg` | `NoneLeftOver` | Two threads inside `redisBufferWrite` send the same commands, and the reply to the second copy stays for later calls, which take it for their own. |
| `MCRankingServiceShared.cfg` | `EveryCallReturns` | Without any race, one thread reads both replies off the socket; the other has looked before they came and waits in `read` until somebody asks again. With nobody asking, a worker is gone. |
| `MCRankingServiceLost.cfg` | `UnsentBounded` | A context that has failed still appends each command to its buffer and is never replaced: rankings stay empty, and memory grows with every request. |
| `MCPageLost.cfg` | `MenuYields` | A link followed while the menu opens does not close it: `collapse('hide')` (`custom.js:13`) is ignored during a transition. |
| `MCPageLost.cfg` | `NeverDead` | Without the popup plugin, `custom.js`'s click handler is never bound; localScroll prevents the default and animates an element that does not scroll (where its guess at `smoothscroll.js:18` is wrong): the link is dead. |
| `MCPageLost.cfg` | `BarRight` | A window that was scrolled before `custom.js` ran, as by a reload, has a clear bar over its content until the next scroll. |
| `MCPageKeys.cfg` | `LandsOnTarget` | With the keyboard a link can be followed under the preloader, while images are missing or before `ready`: the window ends elsewhere. |

## 5. What is proved

The theorems hold for any number of threads, clients, descriptors, requests, lines and
any sizes that satisfy the named assumptions of the modules; the assumptions say that
names differ, sets that are counted are finite, and sizes are natural numbers.

Every safety invariant and every action property that a passing run checks is proved, and
with them the safety part of both refinements.

**Reactor** (`ReactorProofs`). `TypeCorrect` needs nothing
else. `Ownership` is `IInv`, provided that tasks end before their timers
(`SlowTasks = FALSE`, a hypothesis of each of these theorems; `reactor_slow` shows that
they need it, and the proof uses it for `TickFire` only). The safety properties are not
inductive: that a worker is alone with its
connection follows from where it came from. `IInv` therefore follows the connection
round: a registration that is armed means an open connection and nothing on its way
(`Registered`); an event or a queued task means that the registration is disabled,
and that no other event, task, worker or closing by the main thread has the
same connection (`EventsDistinct`, `TasksDistinct`, `HandedOver`, `OneThreadPerConn`);
a worker's registration is disabled until it re-arms or deletes it as its last act.
`Phases` keeps timers apart from events in hand, and `CloseFlags` ties `isClose_` to the
step of `CloseConn_`, which makes the second look at it safe and the count
exact. From it: `OneThread`, `NoneForgotten`, `NoneStale`, `SocketsMatch`, `CountExact`,
`Timed`. `NeverTruncates` is an action property of the edge-triggered mode
(`ConnET = TRUE`) and does not need the assumption on tasks.

**ThreadPool** (`ThreadPoolProofs`). `PoolCorrect` is the inductive invariant: the safety
properties, which support one another, and `Consistent`, which says where a worker can
be and that the owner's step tells whether the pool is closed. `WorkConserving` is the
heart of it: while a worker sleeps there is an awake worker for each queued task,
or a notification about to come for it. `TasksOnce`, `NoLostWakeUp` and `ExitsDrained` follow.
`Refines` shows that each step maps to a step of `TaskPool` or a stutter.

**HeapTimer** (`HeapTimerProofs`). What a loop does is proved round by round. The
induction theorems of the library take a predicate, which the installed provers cannot
instantiate, so `Least` first derives from the well-foundedness of the natural numbers that
a set of them has a least element, and `Rounds` says of a *set* what induction says of a
predicate: applied to the set of rounds after which a claim holds, it gives the claim for
the last. `UpRounds` and `DownRounds` show in this way that the recursive functions are what
they are written to be, `SiftUp` and `SiftDown` what they do: nodes and index stay
(`Sound`, `Same`), and a heap that is in order but for one place (`ButAbove`: node and
parent; `ButAround`: its children too) comes out in order. `PutIs`, `AdjustIs` and
`Deleted` say what the operations do to the deadlines.

* `HeapSound` and `IndexExact` need no hypothesis: the index is right whatever the clock
  does and whatever times are asked for.
* `NoneHides` needs `Steady`: the clock does not go back and all timers get one timeout, as
  in `webserver.cpp:166` and `221`. Then no timer ends later than one that is set now
  (`InOrder`), which is what makes it enough that `adjust` moves a node down only. Without
  it TLC finds a counterexample (`MCHeapTimerBack.cfg`).
* `Wakes` needs `Steady` only, whatever time `GetNextTick` loses between its two looks at
  the clock: the wait ends before every deadline, unless a deadline that was ahead at the
  first look has passed by the second; only then may the time be negative. That it then *is*
  a wait without end is `MCHeapTimerStall.cfg`.
* `Implements`: under `Steady` every behaviour of `HeapTimer` is one of `TimerSet`. Neither
  has fairness, so this is the whole refinement. Its heart is that the first node, which
  `tick` looks at, is the earliest of all (`FirstLeast`).

**SqlConnPool** (`SqlConnPoolProofs`). `PoolSound` is `IInv`. The semaphore equals the length
of the queue less the workers between `sem_wait` and the critical section; the proof counts
these claims. `SemExact` is the reason why `front()` never meets an empty queue. `NoneLost`
follows each connection from the queue into the hands of a worker and back. `Seen` is what
the look without the lock needs: among the first `left` places of the queue, or in `given`,
is every connection; takings shorten the one and fill the other, returnings go behind.
So if the test finds nothing, every connection has been in hands since the first look
(`BusyIsTaken`). That all are in hands *now* does not follow and is false (`BusyNow`).

**AsyncLog** (`AsyncLogProofs`). `Held`: `mtx_` has the worker that is between `full()`
and the release, and no one else adds to the queue, so room once seen stays
(`RoomKept`). `NeverBlocks` follows: the wait in `push_back` never happens, which would
hold the mutex the log thread needs.

`LinesOnce` counts the lines in their four places; since the holder of `mtx_` is the only
writer with a line in hand, the hands of all writers are one place, and since `Exit` waits
for the writers, `Close` clears an empty queue.

`OvertakesLittle` uses both. When a line is given to `fputs`, an older one that is not in
the file is queued or in the hands of the log thread, because the holder of `mtx_` is the
only other place (`Overtaken`); the queue stays within its capacity because room once seen
stays (`RoomFilled`); and what is said of a place in the file stays true of it because the
file only grows (`PlacesStay`).

**RankingService** (`RankingServiceProofs`). `RankingSound` is `IInv`: until two threads meet in
routines on one buffer, a thread inside has it as it read it (`Unshared`), and while the
connection lives, the commands and replies in `obuf`, `wire`, `socket`, `reader` and the hands
of a reader are exactly as many as the threads that wait for a reply, whoever takes which
(`Balanced`). A command that has been sent and not yet removed is counted once. `NothingLeft`
follows: without a race, mixing up replies does not outlive the calls that overlap. The
code has nothing that keeps two threads from meeting, so this is where the harm stops, not
that there is none. `SameProducts` holds in a race too.

**Page** (`PageProofs`). `IInv` says that the preloader ties the links to the rest: without
the keyboard nothing is followed before every script has run and every image is in place,
and the running scroll is always aimed at the link followed last (`Aimed`). From it
`LinksLeave` and `BarExact`, for any links, layouts and losses, and `Lands`, whose
hypothesis `~Keyboard` is needed (`MCPageKeys.cfg`).

**HttpConn** (`HttpConnProofs`). `ResponseKept`: in every state the bytes the client has
got, followed by those that can still be sent, are the response as it was made. `Framed`
alone is not inductive: that the next byte sent is the right one depends on how both
entries were adjusted before. The lemmas cut sequences where `writev` stopped, in either
entry. From it `ResponsesFramed` and `MappingsExact`, for requests of any form, any
lengths, both trigger modes and every failure; what `parse` finds is not used.

`NothingStranded` and `WholeUnderstood` are about `parse`, whose loop is followed turn
after turn as those of `HeapTimer` are (`ParseTurns`). `Taken`: past the request line
`parse` has removed a line or left its loop, so a header means that the buffer is shorter;
this is why a client that sends several requests at once is answered finitely often.
`Reading`: after `n` lines of a bodiless request `parse` has collected exactly their
headers and the rest is in the buffer. `TypeCorrect` is what remains of the types.

**Only model-checked.** Liveness and the fairness part of the refinement of `TaskPool`
(`EveryTaskRuns`, `PoolStops`, `EventuallyClosed`, `NobodyStranded`, `NoLostRequest`,
`ResponsesLeave`, `EveryVerifyEnds`, `EveryLineWritten`, `Uncovers`) are beyond the prover,
as are facts about ENABLED. What is violated is of course not proved; `reactor_slow` and the
configurations above show which theorems need their hypotheses.

## 6. Not modelled

* Buffer: planned, see section 2. One thread uses a buffer at a time (the reactor's
  proofs), and the modules that need one say what is in it. The reactor takes any result
  of `parse` and a response of one fixed length.
* The bytes of Redis' protocol: what a race makes of them is `Garble`, `Lose` or `Die`.
* `getRank`, which nobody calls, scores, and the text of the ranking.
* Popups: no page has an `.image-popup`, so nothing opens; only their set-up, which may
  throw, is in `Page`. Boxes that appear (`wow.min.js`), the script in `rank.html`, which
  fetches and shows the ranking, and the inside of the vendored, minified libraries.
* How a line is split into words, the decoding of a form, content types and the order of
  repeated headers: `HttpRequest` starts from the texts that `parse` tells apart. A body
  of several lines is not sent.
* A second client of the same HttpConn object in `HttpConn`: `Init` is the state after
  `init`, and `process` sets all that it does not (the reactor models the reuse).
* `InitSocket_` failing and `ClosePool`: they end the program before it serves.
* The synchronous mode of Log, `push_front`, `pop` with a timeout and other members that
  nobody calls; `HeapTimer::clear`, called only by the destructor.
* A `localtime` structure torn between threads, and `vsnprintf` past the end of the
  buffer (`log.cpp:101`, `154`).
* The arguments of `main` and `config.h`: constants of the runs. `test`, `webbench-1.5`,
  pages and styles: a driver, a vendored benchmark and static files.
