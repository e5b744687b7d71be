# Verification of lynetx

lynetx is a small C++ library for TCP servers on Linux: `base/` holds threads,
queues, locks, logging and an epoll wrapper, `net/` a TCP service built on
them, and `examples/TcpService` a program that starts one. This directory
holds TLA+ modules of its core, the configurations TLC checks them with, and
proofs that TLAPS checks. Paths below are relative to the repository; a
reference such as `TcpService.cpp:295` is a line of `net/src/TcpService.cpp`.

    tlc -workers 2 -config MCTcpService_waiting.cfg MCTcpService
    tlapm TcpServiceProofs.tla

## 1. The system

### Components

| component | state | operations | runs on |
|---|---|---|---|
| `CMsgDeque` (base/src/MsgDeque.h) | elements, semaphore `m_sNotEmpty`, `m_bAbort`, mutex, bound | PushBack, PushFront, Insert, PopFront, PopBack, Front, Back, Swap, AbortWait, Clear | whoever calls |
| `CThreadObject` (base/src/ThreadObject.cpp) | deque of tasks, `busying`, `status`, semaphore `m_ReadyRunning` | AddThreadTask, CancleThreadObject, ThreadObjectWaitquit; thread_proc, clean_func | its own thread; the pool's callers |
| `CThreadPool` (ThreadPool.cpp) | `m_Threads` (turns), `m_ThreadPool` (thread -> object) | CreateThreadPool, GetBestThread, AddTask, RemoveThreadObject, ClearThreadPool | epoll thread |
| `CEpollWatch` (EpollWatch.cpp) | epoll and wake-up descriptors, `maxNumbers`, `vEvents` | EpollAdd, EpollDel, SafeChangeEvents, EpollWakeup | epoll thread, workers, main |
| `CTcpService` (TcpService.cpp) | `m_bEpollWait`, `m_ServiceStarted`, the pool | Start, Stop, IoEpollWait, recv_message, clean_func | main, epoll thread, workers |
| connection tables (TcpConnectionPool.h, InetConnectionPool.h over TMap.h) | `m_TcpConnection`: host -> connection, `m_Sockfd2InetAddr`: descriptor -> host | set, find, remove, get_all_values, clear | epoll thread, workers |
| `SendPacket`, `CTcpConnection::Write` (SendPacket.cpp, TcpConnection.h) | deque of packets, sender threads | PushSendPacket, WriteSendPacket, send_proc, Stop | callers, sender threads |
| `CLog` (Log.cpp) | deque of bytes, file, date of the file, semaphore | log_puts, log_open, log_write, clean_proc | everybody; writer threads |
| `CTimeout`, `CMsgTime` | a start time, a broken-down date | elapse, timeleft, comparisons | - |
| `CIOBufferPtr` | bytes, read and write positions | Read, Write, skip, Resize, Swap | - |
| `CInetTable`, `CTMap`, `CMutex` | pointers by name; a map and its lock; `m_blocked` | Add/Remove/Get; set/find/swap/remove; lock/unlock | - |
| addresses, character sets, helpers | - | - | - |

### How they interact

The main thread calls `Start`, which creates the pool and the epoll thread.
The epoll thread accepts connections, adds each to the epoll object and to the
two tables, and for every readable descriptor asks the pool for the thread
whose turn it is (`GetBestThread`) and queues a `recv_message` task at it
(`AddTask` -> `AddThreadTask` -> `PushBack`). The thread sleeps in `PopFront`
until it has a task, reads the socket until it is empty, then delivers what it
read or unregisters and closes the socket and removes it from the tables.
`Stop` clears a flag and writes to the wake-up descriptor; the epoll thread
leaves its loop, cancels the pool's threads one by one and waits for each, and
closes what is still listed.

Independently of that, clients of the library may queue packets at a
`SendPacket`, whose threads write them to the connections of the table, and
everything logs through the global `CLog`, whose writer thread empties a buffer
into a file that changes with the date. Both are built of the same parts: a
deque or a buffer under a mutex, a semaphore, threads with a loop.

### What is hard in it

* A push or a pop is not one step. The mutex covers the elements, the
  semaphore counts them, `m_bAbort` is tested outside the mutex, `Clear` empties
  the elements outside it.
* `busying` and the argument of `SetThreadStatus` are read and written by two
  threads without a lock.
* The end of a worker: a flag, one token, a task in progress, a queue dropped
  without a lock, a wait of 30 seconds whose result is ignored, and then the
  object is destroyed.
* A connection is described by three tables (the kernel's descriptors,
  `m_TcpConnection`, `m_Sockfd2InetAddr`) that are updated one after another by
  different threads, while descriptors are reused at once.
* Starting and stopping are not synchronised: `Start` returns while its thread
  is still making the epoll object, and `Stop` either wakes that thread or cancels
  it, by a flag the thread sets.
* Failures are half handled: `socket`, `bind` and `listen` each end `Start`
  differently, `fopen` and `fwrite` may fail while the log is being rotated.
* epoll is edge-triggered: what is not read, or not looked at, when its edge is
  reported will not be reported again. One socket's edges go to different
  workers.

`PROJECT.json` lists the hazards line by line, each with the properties that
would catch it, or with the reason why none does.

### What makes each component correct

* Deque: an element is taken once, in order, and by a consumer that has its
  token; nothing is left without a token; a full deque refuses; an abort
  releases the consumer; `back()` is never called on an empty deque.
* Thread pool: every thread has one turn and comes round in order; no caller is
  left without a thread; a call that asks for a thread returns.
* Thread object: a task is run once and in order until the cancel; a cancel
  always ends; nothing is touched after it was destroyed.
* Start and stop: a stop ends the thread and what it owns; no descriptor is
  closed by somebody it does not belong to.
* Senders: a packet is taken once; a stop reaches every sender.
* Buffer: nothing is written outside the vector; what was put in comes out; a
  message is complete.
* Log: what is logged reaches a file, once; a day gets a file named for it; no
  closed file is written to.
* Name table: an address has one owner, from `new` to `delete`.
* Service: what a peer sends is delivered once, in order and as coming from
  that peer; a connection is closed when its peer ended it and not before; an
  open connection is watched and can be found; the tables agree; a stop ends and
  leaves nothing open.

The code keeps several of these only with exceptions: when a timed wait runs
out, a host comes back early, threads meet in an unlocked function, or two
changes of one name overlap. A property then names its exception by what
happened in the behaviour (`expired`, `early`, `torn`, `met`, ...), never by an
assumption that it does not happen; the runs reach these cases.

## 2. The modules

| module | what it is |
|---|---|
| `TaskQueue` | abstract bounded queue: put, take, close, drain, each in one step |
| `MsgDeque` | `CMsgDeque`, every call interleaved at the steps where threads can meet |
| `MsgDequeProps`, `MCMsgDeque` | its properties; the call profiles TLC runs it under |
| `MsgDequeProofs` | theorems about it |
| `ThreadObject` | EXTENDS `MsgDeque`: a worker and its callers, the worker's queue being that deque |
| `ThreadObjectProps`, `MCThreadObject`, `ThreadObjectProofs` | the same for the thread object |
| `ThreadPool` | EXTENDS `MsgDeque`: the pool, that deque being `m_Threads`, its callers, and who creates and removes |
| `ThreadPoolProps`, `MCThreadPool`, `ThreadPoolProofs` | its properties; two callers and a main thread; theorems |
| `StreamService` | abstract service: one stream per host, each message sent and delivered in one step |
| `TcpService` | the service once started: peers, kernel, epoll thread, workers, tables |
| `TcpServiceProps`, `MCTcpService`, `TcpServiceProofs` | the same for the service |
| `ServiceLifecycle`, `ServiceLifecycleProps`, `MCServiceLifecycle`, `ServiceLifecycleProofs` | Start, Stop and the life of the epoll thread, repeated and with failing calls |
| `SendPacket`, `SendPacketProps`, `MCSendPacket`, `SendPacketProofs` | EXTENDS `MsgDeque`: packets, sender threads, `CTcpConnection::Write` |
| `IOBuffer`, `IOBufferProps`, `MCIOBuffer` | `CIOBufferPtr`, and the loop of `recv_message` that fills one |
| `Log`, `LogProps`, `MCLog` | `CLog` with its writer threads, the clock, failing calls and exit |
| `BufferProofs` | theorems about both of these buffers |
| `TMap` | `CTMap` over `CMutex`, an object whose calls take several steps |
| `InetTable`, `InetTableProps`, `MCInetTable`, `InetTableProofs` | EXTENDS `TMap`: `CInetTable`, with the heap it allocates from |

Each `Props` module begins with a type invariant. Where it is not among the
properties of a run it documents the state and is what a proof starts from.

A definition whose comment says *Mutant* is a deliberately wrong variant of the
definition that follows it. No specification uses it; it is there so that each
property can be seen to fail on the mistake it guards against
(`PROJECT.json`, "mutants").

### MsgDeque

`deque`, `notEmpty`, `aborted`, `mutex` are `m_deque`, `m_sNotEmpty`,
`m_bAbort`, `m_mutex`. `pc[t]` and `op[t]` say where thread `t` is in which
call: `check` (about to test `m_bAbort`), `sem` (in `sem_wait`), `woke`,
`lock`, `body` (in the critical section), `clear` (in `Clear`, after
`AbortWait` and outside the lock). The tests of `m_bAbort`, `sem_wait`, the lock
and the body of each call are separate steps. Elements are numbered as they
arrive. A thread in `Pollers` passes a finite timeout, so its wait may also run
out or be interrupted. `sem_post` happens inside the critical section in the
code and in the model. `Swap` is modelled with a fresh deque at the other side,
which is the only way `ThreadPool.cpp:122` uses it.

### ThreadObject

`at[t]` is the statement thread `t` is at outside the deque. `busying` has a
width (`BusyMod`), its `++` and `--` are a read and a write, and so is the
argument of `SetThreadStatus`. The owner may cancel, wait and destroy; its wait
of 30 seconds may run out whenever it waits, which the code ignores and
`expired` remembers: the worker then goes on in an object that may be destroyed,
and the model goes on as if nothing else had taken its memory. `listed` is the entry in
`m_ThreadPool`, without which nobody can begin another `AddTask`.

### ThreadPool

`at[t]` is the statement thread `t` is at and `thread[t]` its local variable of
that name; `listed` is the key set of `m_ThreadPool`. The deque numbers what is
pushed, and `names[n]` is the thread the n-th push was of. A dispatch is
GetBestThread (pop the first turn, look the thread up, push the turn back, or,
without a turn, schedulingHRP) and AddTask, which looks the thread up again.
`PopFront` is called with a timeout of zero, so dispatchers are pollers. What a
thread does with its tasks is left to `ThreadObject`, and with it the load that
schedulingHRP compares: as those counters drift (section 5), it may choose
any listed thread. `Dump` is the TRACE_DUMP of `ThreadPool.cpp:29`, which calls
exit. RemoveThreadObject swaps `m_Threads` with a new deque and pops from that:
it has the elements and no token, so the loop that should put the other
threads' turns back ends at once (`Swapped`).

### TcpService

The environment is what `src/` relies on: `sock[f]` is the connection open at
descriptor `f` with its unread data and whether its peer has closed (`fin`) or
reset (`rst`) it; `backlog` is the listen queue; `watched` and `ready` are the
epoll object and its edges. accept gives the lowest free descriptor. epoll
checks an edge again before reporting it, reports any `maxNumbers` of them, and
forgets a closed descriptor by itself. A reset is reported by every read of the
socket (Linux reports it once and then the end of the stream, which
`recv_message` treats alike). An address can connect again when its last
connection was closed by the server or reset by itself; `early` are the hosts
that did so before the service had closed the old connection and taken it off
the tables. accept fails when no descriptor is left, and may fail with a peer
waiting (a signal, a connection reset in the queue, which may be gone with it):
the loop ends, its edge is used up, and the peers still in the backlog
(`refused`) wait until another one connects.

`ep` is the statement of the epoll thread, `wpc[w]` that of worker `w` in
`recv_message`. The epoll thread's `batch` and `served` are the reported events
it has not looked at and the loop's `i`. Each table update, each epoll_ctl, each
close, each read is a step of its own. The thread pool's round is `threads`, a
worker's queue `tasks[w]`: one step for what `ThreadObject` shows to behave like
a queue whose tasks are run one by one and dropped on a cancel.

In this module data is a sequence of numbers per host, read as a whole or not
at all; the buffer and its growth are in `IOBuffer`; the 30 seconds the cleanup
waits for a worker are taken not to run out (`ThreadObject` has that case); the
service is started and both its descriptors are registered in the initial state
(how they come to be is in `ServiceLifecycle`); `Stop` is called at most once.
`MaxConnects` and `MaxSent` bound each host by itself; `early` and `refused` are
history: no step depends on them.

`StreamService` is what peers see of it. Its `live` hosts are those with a
connection in `sock` or `backlog` that they have not ended (`LivePeers`), its `up` is that the
cleanup has not reached its end, `sent` and `received` are the same variables.

### ServiceLifecycle

`caller` is the statement of Start or Stop the main thread is at, `at[n]` that of
the thread the n-th Start created; sockets have the number of their Start.
`m_socket`, `m_timeout`, `m_bEpollWait`, `m_enableWakeup` and `epollfd` are the
members of that name and survive from one start to the next, as does the epoll
object. `written` and `edge` are the eventfd and what epoll has to report of it:
adding a descriptor that is ready gives an edge, adding it twice fails. socket,
bind, listen and epoll_create1 may fail (`MaxFaults`). Nothing in Start waits for
an earlier thread, so a Start may come while earlier threads are at any
statement (`overlapped` remembers that one did), and several of them may be in
`CloseSocket` at once: its test, its close, which reads `m_socket` again, and its
assignment are three steps, and `torn` says that two threads met there or that
one was cancelled in there. `epoll_pwait` gets the epoll object and the timeout
by value when the thread goes to sleep (`waiting[n]`), so a later Stop does not
shorten that wait. A cancel acts where the thread waits or logs and runs
`clean_func` from its start; in a `clean_func` run by the pop of its handler
there is no handler left, so the thread ends where it is.

### SendPacket

`at[t]` is the statement outside the deque, `packet[t]` the packet a sender has in
hand, `lentmp[t]` the local of `Write`, `done[n]` how often the n-th packet was
dealt with, which grows by an entry with each packet the deque accepts. Who is
connected is a choice at the lookup. The bytes are left out, and with them what
`write` returns: the code ignores a short count, EAGAIN or an error, so its rounds
depend on the length alone and the packet counts as dealt with either way. `Start`
creates the senders one by one; `Stop` is `AbortWait`. `PopFront` is called with a
timeout of zero, so senders are pollers.

### IOBuffer

`base`, `rd_pos` and `wr_pos` are those of `mmset`. Bytes are numbers and integers
are sequences of them, so that what `htonl` does to a value of 1, 2, 4 or 8 bytes
is computed, not assumed. `items` remembers what was written where and `last`
what was read of it. A client works on a buffer of `Size` bytes; or `recv_message`
makes one of `Offset` bytes and fills it while more bytes (`arrived`) come in. A
client may resize its buffer to less than the write position, and `skipAll` moves
that position by the length of the data wherever it ends: `overrun` remembers
both. The room is an unsigned difference, so it is huge from then on and anything
"fits". Bytes that land outside the vector are lost to the model, which records in
`spilled` that there were some; what they hit is not modelled. `late` says that
data came in after a read that was not a full one.

### Log

A message is a sequence of cells; `buffer` is `m_deque` with new messages at its
front, `offset` the place of its first byte in its block of the deque, `Memory(n)`
what n bytes from that address are. `at[t]` is the statement of a writer thread,
of the caller of `log_open`, and of a thread that logs or, after `log_dump`, runs
exit and the destructor. `open` are the open files, `files` their contents,
`today` the clock. `log_open` reads the clock twice, for the name of the file
(`named`) and, after fopen, for `m_FileTime`; `straddled` says that the day ended in
between. fopen and fwrite may fail (`MaxFaults`); a failing fwrite leaves
a part of the chunk in the file. `crashed` says that a file was used that is not
open. Clearing the buffer in the destructor without the mutex is a data race
while a writer is in its critical section: either outcome is possible.

### TMap and InetTable

`Call(t, op, k, v)` begins a call of thread t, `MapStep` takes it through `m_blocked`,
the mutex and the body, `ret[t]` is its result. `InetTable` makes two such calls in
each of its functions, and any thread may call any of them for any name at any
time, as nothing holds the two calls together. `hand[t]` are the addresses in a
thread's locals, `alive` the allocated ones, `faulted` says that one was deleted
or written to that was not. `met` and `metDelete` remember that two calls that
change the same name have overlapped (ClearIpAddr changes every name), and that
one of them deletes what it finds.

## 3. What the runs check

| run | question | bounds |
|---|---|---|
| `deque_any` | every operation, up to the first Swap, one thread polling: `back()` is safe, the bound holds, the mutex has its owner | 3 threads, capacity 3, 3 pushes, 3 tokens |
| `thread_alone` | one worker and its owner: nothing lost, repeated, reordered; the cancel ends; the worker leaves nothing behind; the destroyed object is not in use, unless the wait for the worker ran out; the deque still implements `TaskQueue` through an abort and a clear | capacity 2, 3 tasks, `busying` modulo 8 |
| `pool` | one turn each, in order, no fallback and no lost task until a removal or a clear; never two turns, and every dispatch ends, also after one | 2 callers, 2 threads, 3 dispatches, 1 removal or clear |
| `tcp_waiting` | peers that wait until their last action is handled: the streams, the tables, the epoll bookkeeping, who closes, what a stop leaves | 2 hosts, one of which connects twice and sends twice, 2 descriptors, 2 workers |
| `tcp_served` | the same under fairness: delivery, forgetting, stopping | 2 hosts that connect once, 2 descriptors, 1 worker, 1 message each |
| `lifecycle` | stops at every moment of a start, starts that fail, and a second start at every moment of the first thread: what is closed, and that a stop ends | 2 starts, 2 failing calls |
| `send` | tokens and packets, senders that poll one queue, a stop | 2 senders, 1 client, 2 packets of 1 or 3 units, chunk of 2 |
| `buffer` | writes outside the vector, values that come back, messages that are complete | a buffer of 9 bytes, resized to 3 and 10, 4 integers of 1 to 8 bytes and a string; reads of 3 bytes, 8 arriving |
| `log` | each cell once, open files only, draining, a file a day | 1 writer, 2 clients, 2 messages of 1 or 3 cells, 3 dates, 1 failing call |
| `tables` | what overlapping calls do to the addresses, the flag of the mutex | 2 names, 2 threads that add and remove them, 2 calls each, one of which may clear, 1 reader |
| `tcp_healthy`, `log_memory` | expected violations, see Findings | the smallest that show it |

Every bound is a constant: `MaxSize` (the code's `m_maxSize`), `MaxPush` (pushes
begin only below it), `MaxTokens` (aborts begin only below it), `BusyMod` (2^w),
`MaxDisturb` (removals and clears), `MaxStarts`, `MaxFaults`,
`MaxLogged`, `MaxArrive`, `MaxPos` (how far a client moves the write position),
`MaxCalls`, `MaxConnects`, `MaxSent` (what peers do), `MaxQueue` (a worker's queue, 50000 in
the code), `EventStep` (the step of `vEvents`, 1000 in the code), `Chunk` (1024 bytes),
`Block` (512 bytes), `HighWater` (1 MB), `Offset` (1 MB).

Why they are enough. In the deque three threads give every pair of calls that
can meet with a third that waits for the mutex, and a capacity of 3 with 3 pushes
gives full and empty; the state constraint `UpToFirstSwap` ends a behaviour
after its first Swap, whose effect `pool` follows further; the correspondence of tokens and elements, the order and
the refinement are proved for any number of producers and consumers. A worker's tasks matter in pairs (the one in hand and the next), and
3 tasks over a queue of 2 also give a refused one. `thread_alone` has the
owner as the only caller, as in the service; that tasks are conserved and the
destroyed object is not in use with any number of other callers is proved
(`TasksConservedCorrect`, `FreedIsUnusedCorrect`). In the pool two callers and
two threads let every turn be in a caller's hand at once, three dispatches bring
a thread round again, and one removal or clear can fall between any two of their
steps. In the service the conflicts
are between two connections that use a descriptor one after the other, two
workers on one socket, and a worker and the epoll thread. In `tcp_waiting` one
host connects a second time, early or not, which is where an entry can be taken off that is
another connection's, and sends one message on each connection or both on one;
the other host is in the way: it takes the descriptor and the worker, loses no
entry of its own, and need not send for that. The run takes the workers as
interchangeable (`SYMMETRY`) and does not tell apart states that differ only in
variables of an accept or a task that is over or has not set them (`View`): no
step reads those before they are written, no property of the run looks at them,
and none of its properties is a liveness property. The service's safety properties are
proved for any number of connections. In `lifecycle` a second start meets the first
thread at any statement, or what a first failed or stopped one left. Two senders and two packets
let both be in hand at once; a packet of 3 units takes a round of the chunk loop.
In the buffer three reads of 3 bytes make it grow twice. In the log a message of
3 cells is above a chunk of 2, two messages are above the high-water mark, the
three dates cross the end of a month and of a year, and the one failure can hit
any call. In the table two calls of each thread are an add and a remove, an overwrite, or
a change that meets another, of the same name, at each of its steps.

`Ahead` separates two kinds of peers. With `Ahead = TRUE` a peer may send, close
or reset while the service still works on what it did before, and then the
property that only ended connections are closed fails (`tcp_healthy`), and with it
most of what the tables promise; what survives, the count and the watch of
descriptors, and that data and waiting peers are looked at, is proved for both. With `Ahead = FALSE` a peer waits, as a
request-response client does (`recv_message` calls `_MessageRecv`, which only logs,
whatever SetMessageFunc was given, line 315: today nothing tells a peer when its
turn has come, so this is what slow peers happen to do), connections are
closed only when they ended, and the service implements `StreamService`, in
which each host's data arrives in order. The tables then agree and a stop
closes everything, but for the hosts in `early`. These lines are the
main result about the service: it is correct for clients that take turns and
not for others, and a client that comes back too early can be dropped from the
tables, to its own cost only.

That a host waits for its turn also keeps it to one message under way, so two
tasks that carry data of one socket never meet in these runs: order among the
messages of a host that does not wait is claimed nowhere.

`Overrun` and `refused` name what the service does not handle, and the liveness
properties except it: a full queue drops the event, the loop over events can end
early, and an accept that fails leaves the others waiting (section 5).

### Fairness

A thread that can take a step eventually does (weak fairness per thread): the
kernel schedules every thread. In the deque a thread that keeps asking for the
mutex or for a token eventually gets it (strong fairness on those steps), as the
kernel's queues for both provide. Nobody is obliged to call anything: no push,
abort or stop is fair, and no peer has to act. For the timed wait of a poller
the timeout is fair, the signal that interrupts it is not. In the pool a thread
that waits at the semaphore either takes a token or times out (one strong
fairness for both). In the service the
epoll thread and each worker are weakly fair, and so are the epoll threads of
`ServiceLifecycle` and a call of Start or Stop that was begun. Senders and the log's
writers are fair like other threads, with strong fairness for the mutex. The
log's wait is one step that ends with a token or at its timeout, and weakly fair
because the timeout always comes; no day, message or exit is.

### Deadlock

Deadlock checking is off in every configuration: a bounded run ends when its
bounds are reached, a worker that has left does nothing more, and a consumer
whose deque stays empty rightly sleeps for ever; the process of `Log` ends with
exit or a crash. That nobody is stuck who should
not be is what the liveness properties say.

## 4. What is proved

For every value of the constants that the named assumptions allow
(`DequeAssumption`, `ThreadAssumption`, `PoolAssumption`, `SendAssumption`,
`ServiceAssumption`, `ClosedAssumption`, `LifecycleAssumption`, `BufferAssumption`,
`LogAssumption`, `MapAssumption`, `TableAssumption`; these say what kind of thing a
constant is and which thread makes which call), by TLAPS. Each theorem follows
from an inductive invariant that TLC checked on the component's run before it was
proved, with one lemma or case per action:

* `MsgDequeProofs`. `TypeCorrect` includes mutual exclusion. `TokensNeverExceed` and
  `TokensMatch` rest on one lemma about counting the holders of tokens and a case
  per action; tokens equal elements only if every call is a PushBack, PopFront,
  AbortWait or Clear, and never exceed them if nobody calls Swap. `BackSafe`
  follows, since a thread in the body of Back or PopBack is itself a holder.
  `BoundedCorrect` needs nothing else. `AbortWakesTheWaiter` holds with one waiting
  thread only. `Refinement`: each step of the deque is a step of `TaskQueue` or a
  stutter; `FirstInFirstOut` follows from it.
* `ThreadObjectProofs`. `UsesDeque` shows that a step of the thread object is a step
  of the deque's general client, so every theorem above applies to it
  (`TasksHaveTokens`); `TasksAreQueued` carries the refinement over: to its callers
  and its worker the queue of tasks is the atomic `TaskQueue`.
  `TasksConservedCorrect` needs in addition where the worker's last result is (in
  hand, or already run). `FreedIsUnusedCorrect` needs the order cancel, abort, wait,
  destroy of the owner, that `m_ReadyRunning` is posted last, and that the owner
  gets past its wait only with that token or by `expired`.
  `CleanExit` (the property `ExitIsClean`) assumes that the owner is the only
  caller, which is how the service uses it.
* `TcpServiceProofs`, in seven parts. The first two and most of the seventh hold
  whatever the peers do, the others for peers that wait (`~Ahead`); all of them for
  any number of connects.
  1. `CountCorrect`: an epoll object only ever grows through EpollAdd, which counts
     when it succeeds; close shrinks it without counting, so the inequality is all
     that holds, and it is inductive by itself with the finiteness of the set.
     `OpenIsWatchedCorrect`: inductive once the domains of the descriptor and worker
     tables are added; the step that matters is that a worker goes from EpollDel
     straight to close of the same descriptor, while the epoll thread goes from
     accept straight to EpollAdd.
  2. `ServiceTypeCorrect`: `TypeInv` adds to the types what each statement implies
     (`PlacesOK`): a worker inside recv_message has a descriptor, the epoll thread
     at its end has no batch, workers have left at the end. That every thread keeps
     one turn in `m_Threads` is a lemma about rotating a sequence.
     `StopIsSeenCorrect` is the safety of `StopEnds`: after a stop the epoll thread
     waits only with the edge of `m_wakeupfd` still there, which no worker's
     EpollDel or close can take, and with room to be told of it (part 1).
  3. `OnlyEndedAreClosedCorrect`: `Flow`. Each event of a socket is in one place
     (ready, batch, one worker's queue, one worker's hand), there is a reason for it
     (data, or an ended connection), and a worker at `read`, `deliver`, `del` or
     `close` knows as much of its socket. A waiting peer adds an event only where
     there is none, so a second task never finds an empty socket.
  4. `OneLive` (a host has one connection that was not reset) and `DataOK`: of each
     host one number at most is under way, at a socket, in the backlog or in a
     worker's buffer, and it is the next to deliver. Part 6 needs both.
  5. What is listed is open, or being taken off by the worker that closed it
     (`ListedAlways`). A host that was never `early` (`Settled`), however often it came
     back, has one connection at a time, which waits, is open or was closed by a
     worker (`Once`), so no entry is taken off that is another's; its open
     connection is listed and a stop closes it, whatever the hosts do that came
     back early. These are `TablesAgreeCorrect` and `StopClosesListedCorrect`;
     section 5 says how an early host loses its entry.
  6. `ImplementsStreamsCorrect`: each step is a step of `StreamService` or is not
     seen. A connect, an act of a peer, a delivery and the last step of the cleanup
     are seen; accept, every read, close and table update are not. That a peer has
     its turn when it acts, and that a delivery is of the next message of a host
     that is still connected, is part 4; that no close is seen is part 3.
  7. No event is lost but by an overrun: the safety of `SentIsDelivered` and
     `EndedIsForgotten`. Data in a watched socket has an edge, is among the events,
     is queued, or is with a worker that reads until there is none
     (`DataComesCorrect`, whatever the peers do); so has the end of a connection,
     until its socket is closed (`EndComesCorrect`, of peers that wait), and so has
     a peer in the backlog that no failed accept has left there (`PeersComeCorrect`).
     Each is a fact of the initial state
     and an action property: a step ends it only in a state of `Overrun` or, for
     sockets, while the service cleans up. Needed besides the types: that a reset
     leaves nothing to read (`ResetsOK`), for `getPeerAddr` turns a worker away from
     a reset socket, and that no queue is longer than `MaxQueue`, so that `Overrun`
     has every event that a full queue drops. `EndComes` leaves out resets, for
     those can be lost (section 5).
* `ServiceLifecycleProofs`. `LifecycleTypeCorrect` and `ClosedOnceCorrect` hold for
  starts that overlap, too. The second is strengthened by `OneCloses`: until a
  `CloseSocket` was `torn`, one thread at most is between its test and its
  assignment, and `m_socket` is an open socket or none but for the moment between
  close and assignment. `LifeInv` is about starts that found no thread running
  (`~overlapped`): only the thread of the last start runs, each start is stopped at
  most once, `m_socket` is the socket of the last start while that is open, and a
  thread past `PushWakeup2Epoll` has the wake-up descriptor watched if there is an
  epoll object. The two halves of the safety of `StopCloses` follow:
  `NoLostWakeupCorrect` (a woken thread that waits has something to return with: the
  flag was cleared before the write, so it can only wait if it had tested the flag
  before) and `EndsClosedCorrect` (a thread that ended uncancelled joined its
  workers and closed its socket).
* `ThreadPoolProofs`. The pool's steps are steps of the deque's general client as
  well. `Control` ties a thread's statement to the deque operation it is in and says
  that what is listed was created; with it `PoolTypeCorrect` is inductive.
  `TurnsApart` (every turn is in the deque, in the hand of one caller, or gone with
  a swapped deque, and no two of these have the same name) gives
  `OneTurnEachCorrect`, also through removals and clears. `CalmOK`, which is about
  pools that nobody has disturbed, adds that every listed thread still has a turn
  and that turns are taken in the order they were put back; `TurnsConservedCorrect`
  and `FirstComeFirstServedCorrect` are parts of it. `NothingFailsCorrect` (no
  caller is left without a thread while there are at least as many threads as
  callers) is a count: a caller that found no token leaves as many turns outside the
  deque as there are other callers with one in hand, which are fewer than the
  threads.
* `SendPacketProofs`. A step of the senders is a step of the deque's general client,
  which brings `PacketTokens` (tokens equal packets, with consumers that poll) and
  `PacketsAreQueued` (the queue is the atomic `TaskQueue` to all of them).
  `SendControl` says what each statement implies about the deque's operation,
  `HandsOK` that a packet is queued, in one sender's hand or done, and only one of
  these: `PacketsConservedCorrect`.
* `BufferProofs`, `CIOBufferPtr`. `BufferInv` says that each item that was written
  and not cut off lies at its place in its stored form, below the write position
  and inside the vector, and while `recv_message` fills the buffer that what was
  read is at its front and that, until a read was not a full one, there is room for
  the next. `WritesInsideCorrect`, `ReadsBackCorrect` and `RecvKeepsAllCorrect`
  follow. The lemmas about `htonl` (what it does to each width, that it is its own
  inverse where it is one) and about growing a buffer are stated once.
* `BufferProofs`, `CLog`. `NothingTwiceCorrect`: until a call has failed, the cells
  in the buffer and in the files are all different (`Once`); it is inductive with
  the fact that a message gets its number from a counter when it is formatted and
  goes to the front of the buffer once, and that a part is taken off the front in
  the step that appends it to the file, between lock and unlock.
  `WriterHasFileCorrect` is for one writer (`log_open`'s default, `Log.h:37`):
  between CloseFile and the next OpenFile that one thread is the only one that could
  use `m_pLogFile` (`FileOpen`). `LogTypeCorrect` is what both start from. None of
  them assumes fairness, or a bound on messages or dates.
* `InetTableProofs`. `BlockedSettlesCorrect`: from `LockInv`, that the owner is the
  one thread between lock and unlock and that somebody is in a call of the map while
  the flag is true. Each function of the table is a call or a step of the map, so
  the proof has one lemma for each and a case per function. `OwnedOnceCorrect`, with
  nothing assumed of who calls what: `Shape` says what each statement implies of the
  call of the map a thread is in. Until a removal or a clear has met another change
  of its name, who deletes is alone with the name (`DeletesAlone`, `ClearsAlone`), an
  address belongs to one name and is allocated while the map or an add knows it
  (`SafeInv`). Until any two changes have met, each is alone, and what is allocated is in the
  map or in a hand (`KeptInv`).

Every safety invariant and action property of the runs has a theorem. Model-checked
only: the ten liveness properties (`TasksRun`, `CancelEnds`, `SentIsDelivered`,
`EndedIsForgotten`, `StopEnds`, `DispatchEnds`, `SendersEnd`, `PacketsHandled`,
`BufferDrains`, `NewDayNewFile`), `StopCloses` beyond its two safety halves, and the
fairness part of `ImplementsTaskQueue`: liveness under fairness is out of the
prover's reach. That the queues of the workers do not overflow and the other cases
of `Overrun` are excepted there and in part 7 of `TcpServiceProofs`, and matter to
nothing else that is proved (an event that is lost delays data for ever, it does not
reorder it). `FilesHoldTheBuffer` is
refuted (section 5).

## 5. Findings

* `tcp_healthy`: two events of one socket become two tasks. The first reads
  everything, the second reads nothing, and `0 == allReadLen`
  (`TcpService.cpp:295`) takes that for a closed connection.
* `log_memory`: `fwrite(&m_deque[0], wsize, ...)` (`Log.cpp:301`) takes up to 1024
  bytes from the address of the first byte of a `std::deque`, which is contiguous
  in blocks of 512 bytes only: past the end of a block the file gets other memory.

Known from reading the code and writing the models, with no run that claims the
opposite:

* The unlocked `++busying` / `--busying` lose updates (`ThreadObject.cpp:70`), so an
  idle worker can stay "busy" for the scheduler.
* `_Disconnection` removes the host's entry whichever connection it is by now
  (`TcpService.cpp:301`): a host that connects again after a reset, or as soon as its old
  socket is closed, and is listed before the worker that closed it gets to this
  line, is taken off `m_TcpConnection` though it is open, and a stop does not close
  it. `TablesAgree` and `StopClosesListed` except such hosts (`early`); without the
  exception TLC finds the behaviour at once, with one host. The address of a live descriptor can be removed by the worker that closed its
  predecessor (`TcpService.cpp:300`); `i<m_object.maxNumbers` bounds the loop over
  reported events (149) while workers decrement it, so edges are skipped; `vEvents`
  can be smaller than `maxNumbers` after a burst of connections (`EpollWatch.h:53`).
* A peer that sends and closes at once: if both are there when the edge is reported,
  the one task reads the data, then the end, and delivers, because `allReadLen` is
  not 0 (`TcpService.cpp:295`); nothing looks at the socket again, and it stays open
  and listed. TLC finds it as a step that ends `EndComes` with `Ahead = TRUE`.
* `recv_message` gives up without closing when a reset socket has no address in the
  table (`TcpService.cpp:274`), which the removal at line 300 can bring about: the
  descriptor stays open.
* A packet longer than 1024 bytes is written from its first byte again and again
  (`TcpConnection.h:83`).
* Start returns 0 when it got no socket or could not bind it (`AsyncSocket.cpp:52,
  54`); when listen fails the socket and the workers stay (`TcpService.cpp:90`). A Stop
  that cancels (108) can end the thread inside `clean_func`, with the socket open.
  After a Stop a second Start runs a loop that ends at once.
* A function given to SetMessageFunc is never called (`TcpService.cpp:315` calls
  `_MessageRecv`).
* accept can end its loop with peers still waiting, on any errno but EAGAIN
  (`TcpService.cpp:158`): its edge is used up, so they wait until somebody else
  connects.
* `recv_message` may read past its buffer when data comes in after a read that was
  not a full megabyte (283). A Resize below the write position (`IOBufferPtr.cpp:68`)
  or a skipAll past the end (`IOBufferPtr.h:74`) leaves a position from which
  everything is written outside the vector; nothing in `src/` calls either so.
* Nothing keeps a second Start from running while the first thread still ends, and
  `CloseSocket` is not locked: two threads can close the same number, by then maybe
  another descriptor (`AsyncSocket.cpp:59-62`).
* When the wait of `ThreadObjectWaitquit` runs out, which it ignores, the object is
  destroyed under its worker (`ThreadObject.cpp:48`).
* A day that ends between the two readings of the clock in `log_open` gets no file
  of its own (`Log.cpp:99, 108`).
* Two AddIpAddr of a new name leak an address; a RemoveIpAddr or ClearIpAddr that
  meets another change of the name can delete twice (`InetTable.cpp:39, 54, 66`).
* Integers of 1 and 2 bytes do not survive `htonl` (`IOBufferPtr.cpp:24, 39`), of 8
  bytes the low half does.
* `log_open` always returns false; new messages go to the front of the buffer, so
  the file has them in reverse; a short fwrite is repeated from its start; a failed
  fopen at the change of date makes the next round call `fclose(NULL)`; level 0
  messages are never logged, whatever the level log_open was given; the
  destructor waits for no writer.
* `GetIpAddr` returns nothing to its caller (`InetTable.cpp:29` fills a parameter
  passed by value); `m_blocked` may be false while the mutex is held.
* `thread_proc` logs that all tasks were processed when it leaves some to be
  dropped (`ThreadObject.cpp:116`).

## 6. The order of the work

`MsgDeque` with `TaskQueue` came first, for everything else runs on it; then
`ThreadObject`, `TcpService` with `StreamService`, `ThreadPool`, `ServiceLifecycle`,
`SendPacket`, `IOBuffer`, `Log`, `TMap` and `InetTable`. The proofs went the same
way, and last the log, the hosts that come back, the safety of the two stop
properties and of the events, and the abstract queue inside its users. What a next step would add:

1. From when on a host that came back early is as good as one that did not: what
   `Once` keeps of it between its connect and the removal of its old entry.
2. `_Disconnection` with a test that the entry is still its own (section 5): whether
   `TablesAgree` then holds without its exception.

## 7. Not modelled

Addresses and their formatting, the character-set conversion, directory and
string helpers, logging macros and the example program keep no state that
changes after it was set up; build files have no behaviour. The operations no
code calls are named in the notes of `PROJECT.json`: SafeClose, SetMaxQueueSize,
ResetInit after an abort, EpollModify, DisableWakeup, GetTimeoutSocket,
trylock, islocked, findex, remove_free.
`CTimeout` and `CMsgTime` are in the models where they decide something: the date
comparison and the timed wait in `Log`, the timed waits in `MsgDeque` and
`ThreadObject`. Their own arithmetic on clock values is not; what else uses it
(the idle time of a connection) has no caller.
The destructor of `CTcpService` frees members that its detached epoll thread may still
use; that is not modelled: a service lives as long as its threads here. Nor is what
`write` takes of a packet, or a connection that is closed between its lookup by a
sender and the write.
Where pthread_cancel hits a worker, which only RemoveThreadObject uses (and
nothing calls that), is left out: `ThreadPool` records that it was cancelled.
`TRACE_DUMP` and `log_quit` are modelled as the end of the process in `ThreadPool`
and `Log`, and not combined with the other threads' work.
