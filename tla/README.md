# A formal model of leopard and dsc

This directory specifies in TLA+ the message layer `leopard/` (a C++ client and
server over TCP, epoll and detached handler threads), the stream computation
`dsc/` that runs on it (Kafka to mappers to reducers, started by a driver), and
the log of `core/`. TLC checks the modules on small instances, TLAPS proves the
main results for every instance.

## 1. The system

### 1.1 Parts, their state and how they interact

| Part | Where | State | Operations |
|---|---|---|---|
| Framing buffer | `leopard/src/BufferStream.cpp`, `prot/LeopardStream.cpp` | buffer, `pos`, `_size`, `capacity` | `puts`, `isEnd`, `pick` |
| Connection, receiving | `Connection.cpp` `acceptRecive`, `Runway.cpp`, `Socket.cpp` | `inStream`, `closed`, the epoll registration | `recv` loop, `epoll_mod_in`, `close` |
| Connection, sending | `Connection.cpp` `push`, `send`, `Bullet.cpp` | `bullets`, `wr`, `mut`, each bullet's `pos` | `push`, `send`, `writable` |
| Bullet queue | `Queue.hpp` | a linked list: `header`, `tail`, `_size`, `mut` | `push`, `empty`, `front`, `pop` |
| Runway | `Runway.cpp`, `Epoll.cpp` | one epoll and one thread for many connections, the listening socket of a server | `run`, `__run`, `__acceptEvent`, `acceptSocket`, `create` |
| Leopard | `Leopard.cpp` | the runways, `running` | `start`, `stop`, `create` |
| Client | `LaneClient.cpp`, `ClientConnection.cpp`, `ClientWaitor.cpp` | connections in turn, waiters by message id | `invoke`, `wait`, `close` |
| Protocol | `prot/LeopardProtocal.cpp`, `LeopardHeader.cpp`, `TcpRequest.cpp`, `TcpResponse.cpp` | the id counter, callbacks and functions by path | `csend`, `caccept`, `saccept`, `regist` |
| Counters | `Qps.cpp`, `Metrix.cpp` | atomic counters, sampled every second | `generate`, `write` |
| Driver | `dsc/driver/Driver.cpp`, `dsc/core/NodeConfig.cpp` | where reducers and mappers are, `NodeConfig::index` | `startJob`, `nextNode` |
| Kafka stage | `dsc/kafka/` | static `KafkaDCO::input`, the consumers, a window of records each | `start`, `accept`, `toMaps` |
| Map stage | `dsc/map/` | `MapSchedule::maps` | `start`, `map`, `send` |
| Reduce stage | `dsc/reduce/` | static `input` and `reducer`, its window and totals | `start`, `accept` |
| Log | `core/log.cpp`, `core/logconf.cpp` | the open file, `this_day`, the thread that removes files | `logger`, `rm_history_task` |
| core | `core/` | JSON, clock, ids nobody uses | cjson, Stopwatch, Snowflake |
| Others | `epp/`, `bishou.cpp`, `inc/`, `scripts/`, `data/` | | independent tools, vendored headers, data |

A message travels like this. A caller's `LaneClient::invoke` builds a stream
with a header (length, message id, path), `csend` pushes it as a bullet on a
connection and calls `Connection::send`, which drains the queue under
`Connection::mut` for as long as the kernel takes everything. What is left goes
out when the runway thread sees `EPOLLOUT`. On the other side the runway thread
reads the socket, collects bytes in the connection's `BufferStream`, and starts
a detached thread for each whole message. On a server that thread runs
`saccept`: it calls the function registered for the path and pushes the answer,
with the same id, on the same connection. On a client it runs `caccept`: it
finds the waiter by id, runs the callback registered for the path and notifies
the waiter.

A job of `dsc` is nothing but such messages. The driver's node asks the others,
in turn and one at a time, to start reducers, then mappers (which are told where
the reducers are), then one consumer per Kafka partition (which is told where
its mappers are). From then on a consumer sends its mappers a batch per second,
and a mapper sends every reducer a batch per batch, each on a client made for it
and dropped after `invoke`. A reducer writes a row to its file when a window of
its own ends.

So each connection is shared by its runway's thread, by handler threads and,
on a client, by the callers. The mutexes are `Connection::mut` (who drains) and
`Queue::mut` (list surgery); `wr`, `closed`, the waiter map and the callback
map are shared without one.

### 1.2 What is hard here, and what must hold

* **Receiving.** Edge-triggered events: a loop that stops early must be woken
  again. `Socket::recv` passes `sizeof(buf)`, the size of a pointer, so bytes
  come eight at a time; `pick` shifts the rest with `memcpy` and records a
  capacity that may not be the allocation's. Messages must come out whole, in
  order, once; a close by the peer must not lose what it wrote before.
* **Queue.** `pop` writes `tail == nullptr` and so leaves `tail` dangling;
  `empty` and `front` take no lock.
* **Sending.** Several threads finish each other's bullets. Bytes must not be
  lost, repeated or mixed, and no bullet may be left with nobody to send it;
  but the runway writes the flag `wr` between a sender's own write and its test.
* **Invocation.** The waiter is registered after the request is sent, callbacks
  are kept by path, ids are drawn in two steps, maps are read while written; what
  a function or a callback throws is caught and logged, and nobody is answered.
* **Lifecycle.** `Connection::close` ends with `delete this`, while other
  threads hold the pointer. With edge-triggered events one accept per event and
  an accept that throws leave clients in the backlog. Open connections must be
  counted once, whichever thread closes them, and an end of stream must not be
  overlooked.
* **Placement.** `Leopard::create` looks for the smallest runway with a
  comparison that says "different", while others create connections. The driver
  deals nodes in turn, goes on when an answer is late, and a node's input is
  static.
* **Batches.** Windows are split by integer division; a mutex is kept on an
  exception; senders do not wait; a window can close on an empty batch.
* **Log.** Midnight, restarts, a file that fails to open, two removers, one
  buffer of `gmtime` for all threads, and a start that opens the first file
  without the mutex beside a thread that may be writing already.

`PROJECT.json` lists these hazards one by one, with the line where each bites
and the properties that cover it.

## 2. The modules

| Module | What it models | Depends on |
|---|---|---|
| `BufferStream` | `puts`, `isEnd`, `pick` as operators on a record | |
| `ReceivePath` | `acceptRecive` with the kernel, epoll and the peer | `BufferStream`, `MessageChannel` |
| `MCReceivePath` | the instance for TLC | `ReceivePath` |
| `MessageChannel` | abstract: a first-in first-out channel | |
| `Queue` | `Queue.hpp`, pointer by pointer | `MessageChannel` |
| `SendPath` | `push`, `send`, `Bullet::send`, `EPOLLOUT` | |
| `Invocation` | `invoke`, `saccept`, `caccept`, ids, waiters, callbacks | |
| `MCInvocation` | the instance for TLC | `Invocation` |
| `ServerRunway` | a server's runway with its handlers, from accept to `delete this`, and its counters | |
| `RunwayChoice` | `Leopard::create` and `LaneClient::create` by several threads | |
| `Driver` | `startJob`, and what each node keeps of the requests | |
| `Batches` | a message from the consumer to the reducer's row | |
| `MCBatches` | the symmetry of the devices for TLC | `Batches` |
| `DailyLog` | the log files over days and restarts | |
| `MCDailyLog` | a bound for TLC | `DailyLog` |
| `ReceivePathProofs`, `QueueProofs`, `SendPathProofs`, `InvocationProofs`, `ServerRunwayProofs`, `RunwayChoiceProofs`, `DailyLogProofs` | the theorems | the module named |
| `DscProofs` | the theorems | `Driver`, `Batches` |

`MessageChannel` is the interface between them: `Queue` is proved to implement
it, so `SendPath` may use a plain sequence for `bullets`; `SendPath` shows that
the bytes on the wire are the bytes pushed in order, which is what
`ReceivePath` assumes of its peer's stream; `ReceivePath` is proved to implement
the channel again, message by message; and `Invocation`, where every answer is
handled by a thread of its own, needs only that each message comes once.
`ServerRunway` takes the inside of receiving and sending as single steps, proved
or checked elsewhere, and looks at who holds a connection and for how long.
`RunwayChoice` is the client's side of the same counters. `Driver` ends where
`Batches` begins: `ReadyBeforeConsuming` and `OwnPartition` say when a consumer
is as `Batches` assumes it, alone on its node and with its mappers in place.

Definitions whose comment begins with "Mutation:" are not part of the model.
They are plausible errors in the code, kept beside the definition they replace
to show that a property would notice.

### 2.1 BufferStream and ReceivePath

Bytes are numbers, the position in the stream the peer writes. The buffer record
carries `pos`, `size` and `capacity` as in the code, and two history fields:
`alloc`, the true size of the allocation, and `head`, the number of the first
byte it holds. `content` becomes other than `"stream"` if a copy overlaps or
leaves its allocation; `BufferIntact` says it never does. Unsigned subtraction
is modelled over the integers, and the type invariant requires the results to
stay naturals. `int` and `size_t` do not wrap within the lengths in use.

`runway` is where the runway's thread is: waiting in epoll, at `recv`, or in
the `isEnd` loop. `recv` may return any number of bytes up to `RecvLimit`
(`sizeof` of a pointer, `PtrSize`), or any of its errors; `EINTR` can come at any
call. The length read by `isEnd` is the truth if the buffer starts at a message
and anything otherwise. `EpollModIn` re-arms: epoll queues an event at once if
the descriptor is readable. After `close` nothing else happens to the
connection: the use of the deleted object is not modelled here.

### 2.2 Queue

`heap` numbers every node ever allocated, `freed` holds the deleted ones. Each
assignment to `header`, `tail`, `next` is a step of its own, so that the unlocked
reads of `empty` and `front` can fall between any two. There is one consumer,
because `Connection::send` drains under `Connection::mut`.

### 2.3 SendPath

`pc` is where each thread is in `Connection::send`: waiting for the mutex
(`send`), at the loop test (`loop`), between the system call and the store of
its result in `wr` (`sent`), between that store and the test of `wr` (`test`), and
before the mutex is released (`unlock`). The test reads the member again: `wr` is a
plain `bool`, and the build is a debug build without optimisation
(`src/CMakeLists.txt:8-10`). The runway thread sets `wr` without the mutex
(`AcceptSend`); where it does so between a sender's store of `false` and its test,
the test passes and a bullet of which only a part was sent is popped and deleted.
`stream` is the history of the pieces of the byte stream, those the kernel
accepted and those deleted unsent (`Torn` are their bullets), and `overwrote` of the
bullets whose sender met such a write. `nospace` is the
kernel's note that a sender was refused, `outEvent` the `EPOLLOUT` event it leads
to. `AcceptRecive` is the receive path seen from here: an event that also has
`EPOLLIN` is treated as that alone, its `EPOLLOUT` is dropped, but `epoll_mod_in`
queues a new one.

### 2.4 Invocation

Each access of `invoke` to shared state is a step: `regist`, `seq++`,
`seq.load()`, `csend`, `crateWaiter`; `After` is their order. A call carries where
its message has come (`at`), the status of its waiter, the waiter its answer
found and the call whose callback it ran. Callers have a `LaneClient` each, which
is how `dsc` and `test-client` use it; the counter and the callbacks are static
and shared. The two maps are read and written without a lock, which is
undefined; the model lets a lookup miss during an insertion and leaves out a
crash. When a callback is missed `caccept` closes the connection: the lane is
`lost`, and what the caller then does with its pointer is not
modelled. The server's function may throw, and so may the callback: both run under
the catch clauses of `Connection.cpp:98-102`, which log and end the thread. Such a
call is `unanswered`, respectively `thrown`, and its waiter stays as it is.
`LaneClient::wait` only polls the status, so it needs no action.

### 2.5 ServerRunway

`pc` has the runway's thread and one handler thread for each message; the places
are the points between which another thread can act: before and after each
system call, each counter, each use of the pointer. The kernel's side is the
`backlog`, whether the listening socket has an event (`edge`), and for each
descriptor what is unread, whether it is `watched` and whether it is `ready`.
`Wait` takes everything that is ready, in any order, and the runway works through
it, so that an event can be stale when its turn comes. `conn` follows the object:
none, a bare descriptor, the `Connection`, deleted. A thread that is at a place
where it follows its pointer and finds it deleted takes `UseDeleted`, after which
the model stops, for the program's behaviour is undefined; `stale` keeps who used
it and who had deleted it. What a second `::close` of a descriptor does is
modelled up to reuse of its number: it fails with `EBADF`. `opens` and the others
are `uint32_t` but small; that their difference is reported as a huge number when
it falls below zero is the printing's business.

### 2.6 RunwayChoice

`min_element` reads the sizes one by one (`it`, `best`), so that another thread
can create a connection in the middle of a scan. A size is `Qps::opens`, which
only grows, so that the choice is by the connections ever made. `disturbed` and
`raced` are history: which scans another creation fell into, and who used one.
A failed `connect` throws through `LaneClient::create`, whose destructor closes
the connections made before.

### 2.7 Driver

`Turns`, `NextNode`, `Invoke`, `Answered` and `TimedOut` are the loops of the
three `start_` functions, which differ in the request only. A request is handled
by a thread of the node, in one step for a reducer or a mapper; in two for a
consumer, because `KafkaDCO::start` parses into the static `input` and then makes
the consumer copy from it, and a third step later is that of the consumer's own
thread, which reads the index. `late` remembers that the driver has gone on
without an answer. Lists of mappers are sets: only membership has an effect. A
worker exists at least; with one node in `conf.json` `nextNode` reads past the
vector.

### 2.8 Batches

One consumer with `MapSize` mappers and `Split` reducers, each on a node of its
own, which `OwnPartition` grants when there are nodes enough. A record is its
number, its device and which copy it is; `NoDid` stands for a line from which
`ReduceRecord::fromJson` returns false. Only in `mapRecords` does the order matter,
because `toMaps` cuts by position; behind it vectors are sets of records, which
loses nothing since a record that is there twice is there as two copies. Windows
end whenever the clock says so, which is any time. Every send may fail with an
exception (what is unsent then is `lost`) and every batch on the way may be lost or
come in any order. `due` holds the records there ought to be: those that passed the
filter, and a second copy of the last one dealt in a window, since the tail starts
on it; a window shorter than the mappers goes to `lost`. The sums of delays are
left out.

### 2.9 DailyLog

Days are numbers; `MonthDays` cuts them into two fields, so that a date read
while another thread writes `gmtime`'s buffer can be of half of each. Two actors
generate a file's name and open it: the start of the program (`start`) and the one
call of `logger` inside the mutex (`call`). The start takes no mutex, and by then
the history thread runs: `Restart` creates it, `Initalized` comes later, and
`create_file` (`ThisDay`, `DateDay`, `FileName`, `DeleteOld`, `CreateFile`, `StoreFp`)
later still. What the history thread logs meanwhile may generate the same name and
open the same file. A name half written, or cleared by the other's `memset`, is
`Odd`, and so is a file opened by it; a name may also be mixed from two. `opened`
is what the start's `fopen` has returned and not yet stored over the call's `fp`;
the call tests `fp` again after opening (`Opened`), and a line it writes just before
the start's store may stay in memory (`Write`).
`task` is the history thread outside of `logger` (its `usleep` sleeps for
microseconds, so it may wake at any time); other threads call `logger` when the start
is over, and ask for the time elsewhere (`Elsewhere`: `Metrix.cpp`, `LinuxMatrix.cpp`,
`Reducer.cpp` call `gmtime` outside the mutex).
A file that is unlinked while open stays open (`Gone`) and what is written to it
is no longer found. `raced` says that a mixed date has been read, or that a start
and a call have met with midnight between them. `Crash` comes
at any time, which includes the `fprintf` to a null file after a failed `fopen`.
A start and a call last less than a day. `logName` may have a `-` in it.

## 3. What is checked

| Run | Instance | Distinct states | Shows |
|---|---|---|---|
| `receive` | 3-byte length field, 4-byte unit, lengths 3 and 9, 3 messages, 1 `EINTR` | 84 633 | section 2.1's properties, the refinement of `MessageChannel`, and that what arrives is picked |
| `queue` | 3 pushers, 5 pushes | 75 682 | no dead pointer, the right bullet popped, the channel |
| `send` | 2 senders and the runway, lengths 1 and 3, a 2-byte kernel buffer, 3 bullets | 222 896 | order on the wire and whose bytes may be missing, no bullet without a thread, everything sent if the peer also writes |
| `send_stalls` | the same, the peer only reads | | a bullet stays queued for ever |
| `invoke` | 2 callers with one connection each, 2 paths, 2 + 1 calls | 401 241 | section 2.4's properties |
| `overtaken` | the same | | an answer handled before its waiter exists |
| `by_path` | the same | | an answer given to another call's callback |
| `server` | 2 clients, 2 messages in all, 1 failed accept | 433 828 | section 2.5: who is stranded, counted and closed, and by whom a connection is deleted |
| `runways` | 2 threads, clients of 2 connections, up to 3 runways, 5 sockets | 681 153 | what the comparison chooses, that the load is even all the same, and what a failed connect leaves |
| `driver` | 1 to 3 workers, 0 to 3 mappers, 1 to 2 reducers, 1 to 3 partitions, 1 late request | 499 774 | when a node has its partition to itself, that mappers are dealt once and are there in time, and that the driver ends |
| `batches` | 2 devices, 2 mappers, 2 reducers, every second of 6 messages, counter modulo 3 | 1 301 890 | that every record is accounted for, and the rows add up |
| `daily_log` | 4 days of 2-day months, 1 day kept by the thread, 1 or 2 by the option, 2 starts | 1 733 209 | where lines are, what is removed, what a restart loses |

**The properties.** `TypeOK` (`BatchesTypeOK`) in every module. Receiving: `BufferIntact`,
`DeliversInOrder` (implements `MessageChannel`), `QuietMeansDelivered` (an idle
runway with no event pending has picked everything that arrived),
`NormalCloseLosesNothing`, `ArrivedIsPicked` (liveness). Queue: `PointersAlive`,
`PopsWhatFrontReturned`, `EmptyIsTrue`, `FirstInFirstOut`. Sending: `WireInOrder` (the pieces of the stream
follow one another, and only a bullet whose sender's `wr` was overwritten before its
test lacks its end), `WritableIsDrained`, `PushedIsSent` (liveness, with the same
exception). Invocation: `SucceedIsAnswered` (a
waiter told `succeed` has its own answer, its callback returned, even when two
callers drew the same id), `HintUnlessRacing` (an action property: a connection is
closed for want of a callback only while another path is being registered),
`AnswerEnds` (liveness: the waiter is notified unless the answer missed it, the
connection is lost, or this call's own function or callback threw). Server:
`BacklogLaw` (no event of the listening socket is lost with the connections handled
along with it; it counts the clients stranded by merged arrivals and by failed
accepts, and does not say that there are none), `ActiveLaw` (opens -
closes - errors is the number of open descriptors, one too low for every double
close), `StaleOnlyThroughOthers` (a deleted connection is only used by a thread
that did not delete it, and the runway deletes under a handler only after the
stream has ended), `EndedIsClosed` (liveness). Choice: `ChoosesLastGroup` (an
undisturbed scan ends at the first runway of the last group of equal sizes),
`Balanced` (sizes differ by one at most until a disturbed scan is used),
`ConnsCountsLost`. Driver: `OwnPartition`, `EachMapperFedOnce`,
`ReadyBeforeConsuming`, `DriverEnds` (liveness). Batches: `EachRecordOnce`
(a record is at one place only: the consumer's window, a batch, a reducer's window,
a row, or thrown away), `RowsAddUp`; a consumer that stops for ever, its mutex locked by an exception, keeps
both. Log: `LineInItsFile` (a line is in the file of its day, also while the start and
the history thread generate the name together), and the action properties
`RemovedIsOld` and `LinesKept`. The first two say nothing once dates have been mixed,
`RemovedIsOld` nothing of names with a `-`, and `LinesKept` not that a restart keeps the
lines of its day: those are the hazards `PROJECT.json` lists without a property.

**Bounds.** `MaxMsgs`, `MaxIntr`, `MaxPushes`, `MaxCalls`, `MaxFails`, `MaxOpens`,
`MaxLate`, `MaxDay` and `MaxStarts` are the only bounds on behaviour and appear in
guards; `MaxRunways`, `MaxWorkers`, `MaxReducers`, `MaxMappers`, `MaxPartitions` and
`MaxDays` bound the configurations that are tried. The receive instance scales the 8-byte length
field and the 4096-byte unit down together: messages are as short as the length
field, so that two can arrive together, or more than two units long, so that
`puts` grows the buffer twice and `pick` shrinks it. A 2-byte kernel buffer
makes a 3-byte bullet need two sends at least. In the queue, five pushes let it
run empty and fill again while `tail` dangles. Two calls on one connection make
waiters share a map; two callers make ids collide. Two clients are needed for
arrivals to merge into one event, and two messages for a handler to close a
connection under another one. Three runways and five sockets let a race leave
the last group larger than the rest, which `Balanced` excludes. In the driver there
are configurations with fewer, as many and more partitions than workers, and
more than mappers. Six messages with a filter of two make windows of none, one,
two and three records for two mappers: fewer than the mappers, even, and with a
tail. The counter of `push` starts again within them. Two days of history, a
midnight and two starts bring every remover to every kind of file; once dates were
mixed or a start met a call around midnight, which leaves little to be said,
`Followed` has TLC go on in the first start only, with one day kept and a plain name.

**Deadlock** is not checked: every system here stops when the bounded number of
messages has been handled or the connection is closed.

**Fairness.** Weak fairness of the runway's steps (`__run` polls for ever with a
timeout of a second and its loops do not block) and of each thread inside `send`,
`invoke` or a handler (the scheduler runs every thread). The mutexes need
no more: a thread that drains the queue finds it empty after finitely many
pushes. Nothing is asked of a caller that could start something new. In
`SendPath` the peer reads (`Drain`); `TwoWaySpec` adds that it also writes. In
`ServerRunway` only the runway's thread is fair: handlers may take for ever, peers
need not do anything. In `Driver` only the driver's thread is, for `connect` and
`wait` end by themselves. `RunwayChoice`, `Batches` and `DailyLog` state safety only.

## 4. What the code does otherwise

Three runs end in a violation, on purpose: each states what a comment or a log line
of the code says and shows where the code departs from it.

1. **A lost wake-up in `send`** (`Connection.cpp:145`). A sender's system call takes
   a part of the bullet; before the thread stores `false` in `wr`, the peer drains
   the buffer and the runway, woken by `EPOLLOUT`, writes `true`. The store then
   overwrites it. The runway's own `send` waits for the mutex, finds `wr` false and
   returns; no further event comes. (Where the runway's write comes after the store
   and before the test, at line 146, the rest of the bullet is lost instead:
   `WireInOrder` says that nothing else loses bytes.) `AcceptRecive` heals the stall, because
   `epoll_mod_in` makes epoll report `EPOLLOUT` again: hence the two specifications
   `FairSpec` and `TwoWaySpec`. Theorem `RefusedIsNoted` says that there is always
   room, or a report of it due, when this happens.
2. **An answer without a waiter** (`LaneClient.cpp:38`). `csend` comes before
   `crateWaiter`; the answer to the log line's question "when is it null?", and by theorem
   `NullOnlyWhileFiling` the only one.
3. **Callbacks by path** (`TcpRequest.cpp:9`). `std::map::insert` keeps the first
   callback of a path; `TcpRequest.hpp:25` already says the key should be the
   message id. Theorem `PathsShareACallback` says that the path is respected.

## 5. What is proved

The proofs hold for every value of the constants that satisfies the `ASSUME` of
the module, which TLC also evaluates. Each proof module defines an inductive
invariant `IInv`, one lemma per action or group of actions, and derives the
properties from it. Every safety property that a passing run checks is proved.

* **ReceivePathProofs** (`ReceiveAssumption`, `BufferAssumption`; the essential
  part is `PtrSize <= LenField`: a read brings no more than a length field). `IInv`
  adds to the type invariant that the messages lie end to end, that the buffer
  starts where the messages picked so far end, that at most a short rest follows a
  whole message, and that between two waits something re-arms the descriptor.
  Without the first two the header could not be trusted; without the third the
  `memcpy` of `pick` could overlap. Proved: `TypeCorrect`, `BufferStaysIntact`,
  `NormalCloseIsComplete`, `NothingLeftBehind`, `ReceiveRefinesChannel`.
* **QueueProofs**. Nodes are numbered in the order of allocation, and the mutex
  makes it the order of the list: the list is always an interval of numbers, from
  the first not popped to the last pushed. `tail` is the last one whenever `header`
  is not null and nobody is pushing, which is why the dangling `tail` is never
  followed. Proved: `NoDeadPointer`, `PopsTheFront`, `EmptyTestIsTrue`,
  `QueueRefinesChannel`.
* **SendPathProofs**. The mutex excludes; the queued bullets lie end to end on
  the stream; only the first has been begun, and it continues where the pieces end; a
  thread past the system call still has its bullet at the front, and at its test
  finds `wr` set over an unfinished one only if the runway overwrote it. A layer on top,
  `NotedInv`, follows the flag: a thread is in the loop only with `wr` set, and
  whenever `wr` is false, or a thread is about to make it so, the kernel has room or
  has been asked to report it. Proved: `TypeCorrect`, `BytesInOrder`,
  `NoneLeftBehind`, and `RefusedIsNoted`, which bounds what goes wrong in
  `send_stalls`: a report of room is lost, but never is the buffer full with none
  requested.
* **InvocationProofs**. The ids one caller draws grow from call to call, whatever
  the others do, because the counter is raised by the caller before it is read. So
  an id names one call among those of a connection, and the waiter found by it is
  that call's own, even when two callers were given the same id. A second layer,
  `CallbackInv`, follows the callbacks: a registration is never undone, and a call
  past `regist` has one for its path; a lookup misses only what is being inserted.
  `FiledInv` follows the waiters in the same way: a call past `crateWaiter` has its
  waiter on the connection it was sent on, and nothing takes it out. `FirstInv` and `RanInv` say that a registration is of a call
  of its path and that what ran is what is registered. Proved: `TypeCorrect`,
  `SucceedHasItsAnswer`, the action properties `HintIsThere` and
  `NullOnlyWhileFiling`, and `PathsShareACallback`. The last two are the positive
  sides of the runs that end in a violation: how far the departures of section 4 go.
  They, and `RefusedIsNoted`, are stated in the proof modules and are not among the
  runs' properties.
* **ServerRunwayProofs** (`RunwayAssumption`). `IInv` says where the runway can be
  and that handlers have messages from one on (`PcInv`), how objects, descriptors
  and places go together (`ConnInv`), that a batch has each descriptor once
  (`BatchInv`), that whoever deleted a connection is past it (`DeletedInv`), and
  that the runway is at a close only after an end of the stream or another's close
  (`EndInv`); the laws themselves are the rest. `BacklogAccounted` is that an event once
  reported is accepted, not that nobody is stranded. The counting laws are moved by
  lemmas on the cardinality of the threads at a place. Proved: `TypeCorrect`,
  `BacklogAccounted`, `ActiveAccounted`, `OnlyOthersDelete`.
* **RunwayChoiceProofs** (`ChoiceAssumption`). An undisturbed scan has found the
  first runway of the last group among those it has seen (`ScanInv`), and until a
  race the sizes are two neighbouring numbers, of which the larger come first
  (`LevelInv`): choosing the first of the last group keeps it so. `HeldInv` gives
  each connection one holder, so that the connections in use can be counted when a
  client goes over from making to holding them or drops them all. Proved:
  `TypeCorrect`, `LastGroupIsChosen`, `LoadIsEven`, `ConnsAreInUse`.
* **DscProofs**, on `Driver` (`DriverAssumption`). The request k turns ago went to the
  node k places back (`TurnInv`), so two requests of a stage on one node are a whole
  round apart (`DistinctInv`), which no stage with at most as many turns as workers
  has. The other parts say what each node keeps of the requests it has handled, and
  that without a late answer a stage is complete before the next begins
  (`ReadyInv`). On top of it stands `FedInv`: a job that was not refused has at
  least as many mappers as partitions (`EnoughInv`), a node is asked for one
  consumer while partitions are not more than workers (`OnceInv`, `AloneInv`), that
  consumer has the share of its partition (`FilledInv`), and each partition asked
  for in time has one (`MadeInv`, `AllMadeInv`). Two shares are disjoint and together
  all mappers by the arithmetic of strides (`DealtApart`). Proved: `TypeCorrect`,
  `EachOnItsOwn`, `ReadyFirst`, `FedOnce`.
* **DscProofs**, on `Batches` (`BatchesAssumption`). `DealCuts` shows that the deal cuts a
  window, and the second copy of its last record dealt, into disjoint batches that
  leave nothing out; the division is left to a few bounds on `PerMapper`.
  `WindowInv` says that numbers in the window are distinct, of first copies, and not
  due otherwise, so that the cut is of records found nowhere else; `HomeInv` that a
  reducer has the devices of its hash; `SumInv` counts. Each action then moves a
  set of records from one place to another, and `EachRecordOnce` is kept by set
  algebra. Proved: `BatchesTypeCorrect`, `NoRecordTwice`, `TotalsAgree`.
* **DailyLogProofs** (`DailyLogAssumption`). `ClockInv` says how far the days of a
  start, a call and the file can be apart, `StartInv` what there is of the log before,
  in and after the start. While nothing has raced, a start and a call that meet are of
  one day (`DateInv`), so that whatever they do to each other's name and file it is of
  that day, or no file's name at all (`NameInv`, `FileInv`); the dates of the history
  thread are those it computed itself (`TaskInv`), and `LinesInv` follows the lines.
  Proved: `TypeCorrect`, `LinesGoWhereTheyBelong`, and the action properties
  `HistoryIsKept`, `LinesStay`.

Only model-checked: the liveness properties (`ArrivedIsPicked`, `PushedIsSent`,
`AnswerEnds`, `EndedIsClosed`, `DriverEnds`), which rest on fairness and are out of
the prover's reach.

## 6. What is not modelled, and the plan

Left out for good: JSON conversion and the reading of configuration files, the
wrappers of system calls apart from those named above, console output and CSV
layout, the sampling of counters by `Metrix` (whose product is a report), the
delays in a reducer's rows, the reading of `/proc`, `SnowflakeIdGenertor.hpp`
(nothing includes it), `epp`, `bishou`, scripts and data. The vendored headers of
librdkafka and the JSON library in `core/cjson.cpp` are two thirds of the lines
in the repository. Undefined behaviour is modelled up to the point where it
begins: the use of a deleted `Connection`, maps read while written to. Also left
out are the kernel's reuse of descriptor numbers, `LaneClient::close` and a client
that outlives its server's connection, `Leopard::stop` (nobody calls it), several
reducers or consumers sharing a node in `Batches`, a `dId` that is no string, and
the -1 that `MapDCO::start` returns when it cannot start its thread
(`MapDCO.cpp:30-36`), which the driver's answer reports as a success.
`PROJECT.json` lists each part.

Planned, in this order:

1. **SharedNode**: `Batches` with two consumers and two reducers on a node, where the
   static `counter`, `input` and `reducer` are shared.
2. **LongClient**: a `LaneClient` kept over the end of its connections, with `next`,
   `close` and the destructor.
3. A composition of `SendPath` with `ReceivePath` through the kernel.
