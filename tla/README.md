# Verification of linux_program_study

TLA+ models of the concurrent programs of this repository, the TLC runs that
check them on small instances, and TLAPS proofs for any size. The repository is
a course on Linux programming: each directory under `src/` is a program of its
own, many of them a sequence of system calls with nothing to get wrong between
them. The models are of the programs that have a state to keep: pools, servers,
timers, protocols.

1. Inventory - 2. Modules - 3. Runs - 4. Findings - 5. Proofs - 6. Not
modelled - 7. What could follow

## 1. Inventory

What each part keeps, does, and has to get right.

| Part (source) | State | Operations | Interacts with | Hard behaviour | Model |
|---|---|---|---|---|---|
| `thread_pool<T>`, `locker.h` (85) | `_queue`, mutex, semaphore, `_stop` | `append`, `run`, destructor | producers and detached workers share the queue | posts outside the lock, several woken workers, the bound tested under the lock | ThreadPool, WorkQueue |
| HTTP server (85 `main.cpp`, `http_conn.h`) | `users[]` by descriptor, epoll table, `_user_cnt` | accept, read, append, process, write, `close_conn` | main thread and workers share `users[]`; epoll decides who is next | EPOLLONESHOT as a lock, descriptors reused by accept, an unsynchronised counter | HttpServer |
| Request parser and answers (85 `http_conn.h`, 78) | read buffer, indices, state, iovec | `parse_line`, request line, headers, content, `do_request`, `process_write`, `write` | called by a worker on what `read` has taken | requests cut anywhere, short writes, a second request in the buffer | HttpConn |
| `process_pool<T>` (85) | `_sub_process[]`, round-robin index, `_stop`, signal pipe | fork, `run_parent`, `run_child`, `sig_handler` | a pipe per child, signals, the shared listening socket | one notification per edge, merged SIGCHLD, children that die | ProcessPool |
| Pthread pool (04) | list, counter, mutex, condition variable, `shutdown` | `pool_add_worker`, `thread_routine`, destructor | one owner, many workers | spurious and stolen wake-ups, `shutdown` set without the mutex | CondPool, WorkQueue |
| Thread demonstrations (04, 48, 84) | mutexes, semaphores, counters | lock order, fork with a held mutex, cancellation, ping-pong, pairs under one lock | two threads, or parent and child | deadlock, lost updates, a mutex whose holder is gone | ThreadPrograms |
| Idle-connection server (81) | `users[]`, sorted list of timers, alarm, signal pipe | accept, read, `tick`, `alarm` | SIGALRM through a pipe, one loop | the loop bound `ret` overwritten by `recv`, descriptors and addresses reused | IdleServer |
| Time wheel, time heap (81) | slots with rotations; a heap with deletion marks | add, delete, tick, top, pop | a caller's clock | a boundary value a turn early or late; deleted timers above live ones | TimeWheel, TimeHeap, TimerService, TimerPair |
| Shared-memory chat (83) | `users[]`, `sub_map_idx`, shared segments, `server_stop` | accept and fork, relay, SIGCHLD, SIGTERM; `child_run` | a process per client, a socket pair each, shared memory | slots moved under children that know their old index, signals at every stage of a child's life | MultiProcess |
| UDP chat room (09) | vector of clients | login, chat, quit | datagrams of clients, and of a child that speaks for the server | datagrams that overtake one another or are lost; who is in the list when | UdpRoom |
| File service (09) | what is being sent or received, `buf` | list, get, put | one TCP stream each way | `recv` cuts the stream where it likes; the word that ends a file | FileTransfer |
| Thread-per-client chat (48) | `clt_socks[]` under a mutex | accept, message, disconnect | main and a detached thread per client | a descriptor passed by address, removal from the array | ThreadChat |
| Poll chat (79) | `fds[]`, `users[]` with pointers into each other's buffers | accept, read, write, remove | one process, poll | entries that move while the results of poll are walked | PollChat |
| Event loops (47, 79, 42) | epoll or select sets | accept, echo, one-shot worker | clients, threads (one-shot) | edge-triggered events left unread, re-arming, descriptors passed by address | EpollServers |
| Fork-per-client server (40) | none but its children | accept, fork, SIGCHLD handler | children | merged SIGCHLD | ForkServer |
| Semaphores and shared memory (06) | a semaphore set, one line of shared memory | create, initialise, P, V, read, write | a writer and a reader, started in any order, killed and restarted | initialisation in several calls, a set that outlives its users | SemPair |
| Stress tester (86) | epoll table, one request per connection | connect, write, read | a server that answers in pieces, or closes | edge-triggered reading of one piece, writing to a closed connection | StressTester |
| `cgi_conn` (85), message queue chat (06), record locks (02), unified event source (80) | see section 6 | | | | not modelled |
| Examples (01, 03, 05, 07, 08, 10, 31-39, 41, 43-46, 71-77, 87) | none between operations | one scenario each | - | - | not modelled |
| libevent (82), SQLite (11) | inside the vendored library | callbacks, SQL | - | - | not modelled |

What makes each modelled part correct:

* the pools: a request is neither lost, run twice nor overtaken, and is run; a
  woken worker finds work; the pool ends when it is told to;
* the HTTP server: a connection has one owner at a time; nothing that was queued
  for a connection outlives it; a client is answered or disconnected, and
  answered what it asked;
* the process pool, the chat and the fork server: connections are announced and
  accepted; a parent leaves after its children and because of them; the tables
  that describe children are exact, and the dead are accounted for;
* the timers: a timer is called back by the first tick that finds it due, once;
  silent connections are closed, and only they;
* the chats and the file service: what is said is heard once by those it is for;
  what is received is what was sent;
* the event loops: nothing that was sent stays unread, no connection is lost or
  served by two threads; the load of the tester does not dry up.

## 2. Modules

| Module | Stands for |
|---|---|
| `WorkQueue` | abstract: a bounded FIFO whose elements are each taken by one worker |
| `ThreadPool`, `CondPool` | `thread_pool.h` with `locker.h`; `ThreadPool` of `04_thread/main.cpp`. Both implement `WorkQueue` |
| `HttpServer` | `http_conn_test` and `http_conn` of 85; composed with the pool through `WorkQueue`'s actions, which ThreadPool is shown to implement |
| `HttpConn` | one connection's parser and answers, in 85 and in 78 |
| `ProcessPool` | `process_pool.h`: parent and children |
| `MultiProcess` | `83_multi_process/main.cpp`: parent and children |
| `IdleServer` | `timeout_server_test` with `sort_timer_list` (81) |
| `TimerService` | abstract: a set of timers with add, delete and tick |
| `TimeWheel`, `TimeHeap` | `time_wheel`, `min_heap_timer` (81). Both implement `TimerService` |
| `TimerPair` | the wheel and the heap given the same timers |
| `SemPair` | `sem_test2` and `sem_test3` (06) |
| `ThreadPrograms` | nine small programs of 04, 48 and 84 |
| `EpollServers` | seven epoll servers and a select server (47, 79, 42) |
| `ThreadChat`, `PollChat` | `chat_server` (48), `chat_room_server` (79) |
| `ForkServer` | `multi_process_server` (40) |
| `FileTransfer`, `UdpRoom` | the two services of 09, servers and clients |
| `StressTester` | `connect_test` (86) and a server |
| `Timers_proofs` | theorems about TimeWheel, TimeHeap and TimerPair |
| `Programs_proofs` | theorems about ForkServer, UdpRoom, EpollServers, StressTester, ThreadChat, PollChat, SemPair and FileTransfer |
| `HttpServer_proofs` | theorems about HttpServer and HttpConn |
| the other `*_proofs` | theorems about the module they are named after |
| `MC*` | instances for TLC |

How state and actions correspond to the code:

* **ThreadPool.** `queue`, `owner`, `stat`, `stop` are `_queue`, `_queue_lock`,
  `_queue_stat`, `_stop`; `pc` is the line a thread is at. `append` is
  `AppendLock`, `AppendSize`, then `AppendRefuse` or `AppendPush` and
  `AppendPost`; `run` is `RunWhile` ... `RunProcess`. The destructor is
  `DestroyBody` (`_stop = true`), then `DestroyMembers`.
* **CondPool.** `Test` is the `while` of line 629, `CondWait` the release and
  sleep of `pthread_cond_wait` (one step, as POSIX has it), `Spurious` its
  licence to return unasked. The critical section of `pool_add_worker` is one
  step, since everything it touches is read under the same mutex; the destructor
  takes no mutex and is two steps, `SetShutdown` and `Broadcast`.
* **HttpServer.** `sock[f]` is the kernel's side of descriptor `f` (peer, unread
  data, end of stream, how epoll has it armed), `slot[f]` is `users[f]`. The main
  thread takes one event of its batch at a time; `close_conn` in a worker is
  three steps, because accept in the main thread can come between `close`,
  `_fd = -1` and `_user_cnt--`, and the last is a read and a write; `init` is three
  as well (`Accept`, `InitAdd`, `InitCount`), because a worker's `_fd = -1` can come
  before `add_fd2`. Clients in `backlog` may send and hang up before they are
  accepted, and one accept is made per edge of the listening socket. Requests are
  abstracted to nothing, part and whole.
* **HttpConn.** A token stands for the text of a line, a CR, an LF, or a byte of
  content. A session `asked` is any sequence of requests (`IsRequest`: a line, a
  line end, headers, and two bytes of content if a header says so), of which the
  client has begun to send `asking`; `rest` is what is left of the last one, `wire`
  what the socket holds, `buf` what `read` has taken, `chk` and `start` the marks of
  the line parser. `LineFound` is `parse_line`, with the
  different return positions of 78 and 85; `ParseLine`, `ParseContent` and
  `ParseMore` are one turn of `process_read`; `WriteSome`, `WriteEnd` and
  `WriteFromStart` are `write()`, whose iovec never advances and which counts twice;
  with SO_LINGER as `main.cpp:62-63` sets it, closing may discard (`discarded`) what
  has been written.
* **ProcessPool.** `pending`, `sigpipe`, `sigbuf` are the stages of a signal:
  with the kernel (where equal signals merge), in the pipe, read by the loop.
  `Dispatch` is the round robin and the notification; `ChildAccept` one `recv` of
  the pipe followed by one `accept`. A child is "unborn", "starting" (SIGTERM
  kills it), "running", "zombie", "reaped".
* **MultiProcess.** `users` is the array as a sequence of pids, `submap` is
  `sub_map_idx`, `up` and `down` are the two directions of a socket pair, `seg`
  the shared memory. `Reap` is one turn of the `waitpid` loop, with the swap of
  line 390. A child is "forked" (it still has the parent's handler and pipe),
  "deaf" (it has closed that pipe), in its "loop", a "zombie", "reaped".
* **IdleServer.** `evs`, `filled`, `pos`, `ret` are the array of events, how many
  entries this call filled, and the two variables of the loop; `list`, `heap`,
  `left`, `data`, `timer` are the sorted list, the allocated `util_timer` objects,
  what is left until they expire, and the pointers between timers and users.
  Addresses are reused as an allocator may reuse them.
* **TimeWheel.** `slots`, `time_slot`, `circle_num`, `cur_slot` are the members of
  `time_wheel` and `tw_timer`. `WheelLeft(t)` is the number of ticks before the one
  that calls `t` back, which the refinement shows to the service.
* **TimeHeap.** The priority queue is a set; which of several timers that expire
  first is on top is open, as in the library. `HeapTop` purges deleted timers,
  `HeapTick` calls back while the top has expired. `TimerPair` calls every
  operation on both containers and ticks every `si` seconds.
* **SemPair.** `sem` is the set, or none; `OpenSet`, `SetRead`, `SetWrite` are the
  calls that create and initialise it, `SemDown`/`SemUp` the two operations.
  `Kill` ends a process between any two calls; it is started again.
* **ThreadPrograms.** A thread is the sequence of its synchronising calls and of
  its reads and writes of shared variables; one small machine (`LockMutex`,
  `Load`, `Store`, `Fork`, `CancelThread` ...) runs `deadlock_test`,
  `parent_child_lock` with `pthread_atfork`, `thread_test4`/`5` with
  and without lock, `sem_test`, `data_test`, `lock_test` and `clean_test`. Loops of
  a fixed length are two turns.
* **EpollServers.** `kind` says which of the servers runs: level or edge triggered,
  one read or reads until EAGAIN, one accept per event or all, one-shot with a
  thread per event. `edge` is the ready list, `batch` the events of this
  `epoll_wait`; `Serve` is the body of the loop, `Worker*` the thread of 79.
* **ThreadChat.** A section of the code that holds the mutex is one step.
  `CreateHandler` passes the address of `clt_sock`, `HandlerStart` reads it;
  `RemoveFd` is the loop of line 265; `astray` are the descriptors whose entry stays
  or goes although it should not.
* **PollChat.** `table` is `fds[1..user_cnt]`; `unheard`, `write_buf` are the
  buffers and the pointers into them; `RemoveUser`, `ReceiveText`, `SendText` are
  the branches of the walk over the results of poll. A `recv` that fails closes the
  connection as `RemoveUser` does, one step earlier, and POLLERR puts an entry off:
  both branches (lines 512-520, 489-497) are left out.
* **ForkServer.** `pending` is the one SIGCHLD the kernel keeps, `inHandler` the
  handler between its entry and `waitpid`, `merged` counts signals that became one.
* **FileTransfer.** A stream is a sequence of tokens; a `recv` takes any number of
  those that were sent, from one up to its buffer, so that files and lists are cut
  anywhere. `**OVER**` is two tokens, so that it can be cut as well; a command and
  `NO_EXIST` are one token and arrive whole. `piece` keeps what earlier calls left in
  `buf`, where `strstr` finds it. A file may be missing or not to be opened on the
  server, and a get may not be able to create its own (`unwritable`).
* **UdpRoom.** `net` is a set of datagrams: they are delivered in any order, and
  lost if `lossy`. `clients` is the server's vector, `members` what it should be;
  `DoLogin`, `DoChat`, `DoQuit` are the handlers, `SendTo` their loop of `sendto`.
* **StressTester.** `mode` is what epoll is asked for, `ready` epoll's ready list,
  `owed`/`coming`/`came` requests, and pieces of answers on their way and arrived.

### The overwritten loop bound

The loops of 81 and 83 assign the result of `recv` to `ret`, the variable that
bounds the loop over the events. After a `recv` the loop may end before the
events of this call have been handled, or run on into entries left over from
earlier calls. Events are edge-triggered: one that is dropped is not repeated.
IdleServer keeps the array exactly. MultiProcess lets every entry beyond those of
this call be anything the loop could react to; its passing properties therefore
hold for more behaviours than the program has. A child of the chat may drop any
event: nothing is assumed of the ones it handles.

### How the small programs share a run

`MCPrograms` and `MCPools` put modules that have nothing to do with one another
side by side: the variable `chosen` says, once and for all, which of them a
behaviour runs, and the others do not move. Each is explored to the end, as if it
had a run of its own; nothing is said of two of them together.

## 3. Runs

Passing runs exhaust their state space. Deadlock checking is off because the
programs legitimately become idle, or end, once the clients and signals of the
instance are used up; waiting that should end is a property instead.

| Run | Instance | Properties | Shows |
|---|---|---|---|
| `pools` | semaphore pool: 2 producers, 2 workers, 2 requests and the null pointer, `_max_request` = 1; condition pool: 3 workers, 3 tasks | `WakeAccounting`, `WokenFindsWork`, `ImplementsWorkQueue`, `EveryRequestRuns`; `TakeFindsTask`, `CondImplementsQueue`, `EveryTaskRuns`, `DestroyEnds` | no wake-up is lost, none is spurious; both implement one FIFO; what is accepted is run; `~ThreadPool` of 04 returns but for one race |
| `http` | 3 clients, 3 descriptors, 2 workers, `_max_request` = 1, 1 piece from each client | `OneOwner`, `NothingStale`, `LostOnlyByReuse`, `OnlyRacesMiscount` | EPOLLONESHOT works as a lock with refused appends and reused descriptors, up to the race inside `close_conn`; that race is the only way a descriptor is lost; the count of users goes wrong only where an update is overwritten |
| `http_live` | 3 clients, 2 descriptors, 1 worker; 2 pieces from one client, 1 from another | `RequestSettled` | a client that sent a whole request is answered or disconnected, unless its append was refused, its descriptor was reused in the race, or it is left in the backlog because its edge was used up by another accept, or by one that failed (85 `main.cpp:88-100`) |
| `process_pool` | 2 children, 3 clients, 2 crashes, one SIGTERM | `ParentLeavesLast`, `EveryClientAccepted`, `TermEndsPool`, `ParentFollows` | notification, reaping, termination |
| `process_pool_doc` | the same | `ParentAlwaysFollows` (violated) | finding 2 |
| `chat` | 3 clients, 2 slots, 2 messages, one SIGTERM | `TableIsExact`, `ServerStopsLast`, `NoEchoUnmoved` | the table stays exact while slots are freed, moved and reused; before a move no client is sent its own data, of other data nothing is said |
| `chat_term` | 2 clients, 2 slots, 1 message | `TermEndsServer` | SIGTERM ends the server, but for the races it names |
| `chat_echo` | as `chat` | `NoEcho` (violated) | finding 3 |
| `idle` | 2 clients, 2 descriptors, 3 addresses, 1 message, TIMESLOT = 1 | `TimersMatch`, `OnlyTheIdle`, `NothingOverdue`, `IdleIsClosedIfTold` | timers and connections correspond, the silent are closed |
| `idle_doc` | the same | `IdleIsClosed` (violated) | finding 4 |
| `programs` | the smaller programs, below | the 15 properties below | |
| `room_quit` | as `programs` | `QuitIsForgotten` (violated) | finding 1 |

The properties of `programs`, and their instances:

| Property | Instance | Says |
|---|---|---|
| `WheelImplements`, `HeapImplements` | 2 timers, timeouts 0, 1, 3, 4, 7, a wheel of 2 slots of 2 seconds | each container is a `TimerService` |
| `WithinOneTick` | the same, until second 6 | the wheel and the heap call a timer back within one tick of each other |
| `LinesInOrder` | 4 lines, 3 kills | lines are read once, in order, and the pair does not block, unless a process was killed while it owed the other a `semop` |
| `ThreadsFinishRight` | the nine programs | results are right where a lock or a semaphore promises it, and threads wait for ever in two ways only; three comments say otherwise (findings 6 to 8) |
| `AnswersAreRight`, `UnansweredHasReason` | every kind of request, and two or three in a row; a buffer of 12 tokens | each request gets its answer however it is cut; who gets none has one of the named reasons |
| `AllIsRead`, `OneThreadEach` | eight servers, 2 clients, 3 pieces of data, 2 threads | nothing stays unread, nobody is closed early or served twice, but by the servers and races it names (findings 9 and 11) |
| `HeardOnce` | 3 guests, 3 descriptors, 3 threads | a message is heard once by everyone served, bystanders of a removal included, but for those whose entry the removal mistakes (finding 10), and until a thread is given the wrong descriptor |
| `ZombiesCounted` | 3 connections, one failed fork | zombies are exactly the merged signals and those still to be handled |
| `LastIsHeard` | 4 users, 3 descriptors, a table of 3, 2 texts | entries that move confuse nobody; the last text reaches everyone |
| `TransfersWhole` | any two jobs in a row: list, get, put; 0 to 5 pieces; buffers of 3 and 5 | a file received is the file sent, nothing is left undone, but where `recv` cut the end word or joined what the code takes apart, or a get could not create its file |
| `RoomIsHeard` | 2 talkers, 2 names, 2 messages, loss or none | see UdpRoom |
| `LoadGoesOn` | 2 connections, room for 2 requests | the tester keeps every open connection loaded, and closes none itself |

### Why the bounds are enough

* *pools*: two producers and two workers are the smallest numbers for which two
  threads race on either side; with `_max_request` = 1 the queue reaches its
  limit, passes it by the one request the test lets in, and an append is refused.
  Three workers and three tasks let a worker's task be taken by one that was not
  asleep while a third sleeps. The safety properties are proved for any number.
* *HTTP*: three clients on two or three descriptors make accept reuse a
  descriptor while a worker is still closing it; two workers and a queue of one
  make the pool refuse a connection. In `http` every client sends one piece, a part
  or a request, so that the three clients fit; the proofs take any number. In
  `http_live` one client may send two: a part and the rest of a request, or a second
  request on the connection that was kept; a second client one, and the third only
  connects, and finds no descriptor or a server that counts itself busy.
* *HttpConn*: every request is cut at every place. Twelve tokens hold the longest
  request and a part of a second, so that the buffer is also met full. The header
  of an answer is longer than the file: the loop of `write()` can end in it. The
  proofs take any session and any sizes.
* *process pool*: with two children the round robin wraps, skips a dead child, and
  loses its last one; both may crash, at any point of their life.
* *chat*: three clients for two slots are the fewest with which a slot is freed,
  another user is moved into it, and the slot that user left is given to a third
  client. `Signals` bounds the bytes in the signal pipe when freshly forked
  children pass SIGTERM back to the parent through the handler they inherited;
  without a bound a child that never leaves that window would fill the pipe.
* *idle*: two clients keep two timers in the list, or use one descriptor after
  each other. A read of more bytes than there are entries in `evs` is the same as
  one of exactly as many, since the entries behind them hold nothing. TIMESLOT = 1
  gives a lifetime of three alarms.
* *timers*: a turn of the wheel is 4 seconds; the timeouts are zero, below a tick,
  between ticks, a whole turn, and nearly two.
* *chats and event loops*: in PollChat and ThreadChat an entry is moved, with a
  third user to notice, and in PollChat, which has one user more than descriptors, a
  descriptor is used again. In ThreadChat three guests can meet before one of them
  leaves, or follow one another on one descriptor. PollChat's table overflows by one. In EpollServers two clients are enough for one event to
  be in a batch while the other changes; three pieces are read in one, two or
  three calls.
* *files*: sizes below, at and above one buffer, read in pieces of every size, and a
  word of two tokens that ends on, before and across its end; a second job follows each, to meet what the first
  one left.

### Fairness

* A thread or process that can take a step eventually takes one: weak fairness of
  each worker, of the producer inside `append`, of the main loop and of each
  child. Nothing in the code can block these steps other than what their guards
  say. `MCPools` asks the same of the pool that runs.
* Strong fairness of taking a mutex (`RunLock`, `Lock`, `AddPush`): a thread that
  asks for a mutex which is released again and again gets it. POSIX leaves the
  order open; Linux futex mutexes do not starve a waiter for ever in practice.
* Strong fairness of `WriteEnds`: a client that stays connected does not refuse
  an answer for ever.
* Weak fairness of the clock (`Elapse`): time passes.
* None for what the environment chooses: clients need not send, hang up or even
  connect, users need not send signals, wake-ups need not be spurious, a child of
  the chat need not handle an event.
* The small programs are checked without fairness: where something must not wait
  for ever, an invariant says that whatever rests is done (`AllIsRead`,
  `UnansweredHasReason`, `TransfersWhole`, `LinesInOrder`, `LoadGoesOn`).

## 4. Findings

1. QUIT in the UDP room removes everyone but the talker that quits (09
   `udp_room_server.h:104`, the predicate of `remove_if` is inverted); line 95
   says that the quitter is removed (`room_quit`).
2. Children that all end before the parent has installed its SIGCHLD handler leave
   it in `epoll_wait` for ever, where 85 `process_pool.h:282` says it exits
   (`process_pool_doc`).
3. After a slot has been moved, its child goes on using the segment of its old
   slot, which the next client is given as well; a client is sent its own data,
   where `83_multi_process/main.cpp:427` says it is not (`chat_echo`).
4. One byte of data, or a hang-up, handled before the signal pipe's event ends the
   loop of `timeout_server_test`; the alarm is then never set again and no silent
   connection is closed (`idle_doc`).

Findings 5 to 11 are disagreements of the code with a comment which have no run of
their own: the run named checks a property that states what the code does, and
the disagreement is the case the property excepts by name (5 and 9 to 11: without
the exception, or with the comment's bound, TLC finds the property violated), or
what the property itself says (6 to 8).

5. The queue of `thread_pool` takes one request more than `_max_request`
   (`thread_pool.h:47` tests with `>`), which lines 10 and 85 call the largest number
   allowed (`pools`: `ImplementsWorkQueue` holds with `Capacity` = `MaxRequest` + 1;
   `QueueWithinMax` of ThreadPool is what the comments say).
6. The child of the fork in 84 takes the mutex and goes on, because `pthread_atfork`
   has it released; `main.cpp:172-175` says that it blocks for ever (`programs`,
   `ThreadsFinishRight`).
7. `thread_test5` of 48, which locks, always ends with the right sum; `main.cpp:184`,
   copied from the function that does not lock, says it will be wrong (the same).
8. The thread cancelled in `clean_test` of 04 unlocks in its cleanup handler and
   nobody blocks; `main.cpp:387`, copied from the version without handler, says that
   the cancellation causes a deadlock (the same).
9. Two threads can serve one connection of the one-shot server: they are passed one
   address (79 `main.cpp:350`), where line 258 expects one thread at any time
   (`programs`, `OneThreadEach`; exception `misled`).
10. A client that leaves the chat of 48 stays in the array, unless it was last, and
    the one behind it is taken out (`main.cpp:265`), where line 261 says that the
    client is removed (`programs`, `HeardOnce`; exception `astray`).
11. `epoll_et_server` of 47 reads once per edge and leaves data unread; the comment
    at `main.cpp:243`, copied from the level-triggered server, says that reading
    continues, against line 140 (`programs`, `AllIsRead`; exception `kind` "et").

The other exceptions named by passing properties contradict no comment or test we
found. The properties hold but for them, which means that these hazards are known
and not caught:

| Where | What the code does | Exception |
|---|---|---|
| 85 `main.cpp:107` | a refused `append` leaves its connection without an owner | `stranded` |
| 85 `http_conn.h:90` | a descriptor accepted again inside a worker's `close_conn` loses its slot | `raced`, the one way of `LostOnlyByReuse` |
| 85 `main.cpp:88` | one accept per edge: a client that connects with another is not accepted before the next connects | `LeftBehind` |
| 85 `main.cpp:62` | closing an answer that is not kept discards what has not left the socket | `~keep` in `AnswersAreRight` |
| 85 `http_conn.h:162` | a short write truncates or repeats the answer | `short` |
| 85 `http_conn.h:91` | updates of `_user_cnt` overwrite one another | `OverwritesUpdate` |
| 85 `http_conn.h:230` | content that comes in a second read is not found | `bodyCut` |
| 85 `http_conn.h:166` | a request sent before the last answer is discarded | `early` |
| 85 `process_pool.h:256` | two arrivals under one edge leave a connection unannounced; a child dies with its announcements | `merged`, `dropped` |
| 04 `main.cpp:689` | `shutdown` is set without the mutex: the destructor does not return | `missed` |
| 84 `main.cpp:102`, 04 `main.cpp:334` | opposite lock orders; a thread cancelled before its cleanup handler | `LockOrder`, `Cancel` |
| 81 `main.cpp:301` | a left-over event deletes the timer of another connection at the same address | `stale` |
| 48 `main.cpp:302` | a thread takes another one's descriptor | `mixed` |
| 48, 79, 86 | writing to a peer that has gone, or that was turned away (79), kills the process by SIGPIPE | `dead`, `ended`, `alive` |
| 79 `main.cpp:500` | a buffer is given to another user's text while it is pointed to | `replaced` |
| 79 `main.cpp:665` | `handle_tcp_udp` takes EAGAIN for an error: it closes what it has read and leaves the loop over its events | `kind` "tcpudp" |
| 40 `main.cpp:251` | merged SIGCHLD leave zombies | `merged` |
| 06 `main.cpp:352` | a process killed between its `semop`s leaves the set wrong for the next | `torn` |
| 09 `file_client.h:75` | the end word cut, or taken together with what follows; a file the server cannot open is not reported | `cutWord`, `joined`, `denied` |
| 09 `file_client.h:82` | a get that cannot create its file leaves the rest of the answer to the next job | `abandoned` |
| 86 `main.cpp:143` | buffers full of requests keep the tester from reading | `owed = Room` |

## 5. Proofs

Every proof module has an inductive invariant, one lemma per action that
disturbs it (actions that touch nothing it speaks of share one), and a theorem
that follows from three facts: the initial states satisfy the invariant, every
step keeps it, and it implies the property.

* **ThreadPool_proofs**, for any sets of producers, workers and requests and any
  `_max_request`. `WakeAccounting` is nearly the whole argument: the queue is as
  long as the semaphore, the producers about to post and the workers past `wait()`
  together. It is not inductive alone: that `front()` and `pop_front()` return the
  same request needs the mutex (`MutualExclusion`, `HoldsFront`), and that a push
  does not pass the limit needs what the producer saw under the same lock
  (`SawRoom`). From it follow `TypeCorrect`, `QueueIsGuarded`, `NoWakeupLost`,
  `NoSpuriousWakeup` (the early return of `run` is dead code), `QueueIsBounded`
  and `PoolImplementsWorkQueue`.
* **CondPool_proofs**, for any number of workers and tasks. `TakeFindsTask` needs
  `Guarded` (a worker from its test to its decision owns the mutex), so that no
  other worker empties the list in between; the refinement also needs `Counted`
  (a task in the list has been added, so that the abstract bound is never met) and
  `InHand`. `AddSignal`, `Broadcast`, `SetShutdown` and `Join` are one lemma,
  `WakingStep`: all they do to a worker is to wake it.
* **HttpServer_proofs**, for any number of clients, descriptors, workers and
  requests, and any queue: `NothingStale`, `LostOnlyByReuse`, `OneOwner` and
  `OnlyRacesMiscount`. The places a connection can be in (armed in epoll, in the
  batch, with the main thread, in the queue, with a worker) exclude one another:
  `Apart` says that a descriptor is in one of them at most, `Placed` that an open
  one is in one at least or is `stranded`, `Single` that batch and queue hold no
  descriptor twice. Together they are `Owned`, true until a worker's `close_conn`
  has `raced` with accept. A step either leaves all places as they are
  (`QuietStep`) or moves one descriptor (`MoveStep`). `OneOwner` counts the
  places, and follows from `Apart` by cardinalities. For the count of users, `Gap`
  is `_user_cnt` less what it should be; a step changes it only by overwriting an
  update (`GapStep`).

  HttpConn, for any sessions of any number of requests, any number of headers, and
  any sizes of buffer, header and file: `AnswersAreRight` and `UnansweredHasReason`.
  `HttpConnInv` says what the server is busy with (`Serving`): until the client
  asks `early`, the answers are those to the first requests, and of the next one
  buffer, socket and client hold consecutive parts (`InFlight`). What the parser's
  members are is a function of the words it has passed (`ParserAt`): the line's
  mark is on the request line, at the `k`th header with `_linger` and
  `_content_length` as the `k` headers before it say (`Seen`), or behind the blank
  line. `IsText` says which word is at which place of a request; from it,
  `WhenFound` and `WhenNotFound` say that what `parse_line` returns on any prefix
  of a request is the line that is there, or that one is missing, and `AllRead`
  that a parser which waits for more with nothing left to come has one of the
  reasons named. A parser goes back to `read` only while words are missing
  (`NotAll`), because the line end is a wrong one, or because the content came in
  two reads (`bodyCut`): its mark has then moved into the content, and the
  invariant no longer says where it stands.
* **IdleServer_proofs**, for any number of clients and descriptors and any
  lifetime: `TimersMatch`, `OnlyTheIdle` and `NothingOverdue`. `TimersRight` is the invariant:
  an open connection has a timer on the heap that points back at it, and how long
  it has been silent and what is left of the timer make up the lifetime
  (`Owned`); the list holds timers of open connections and of failed accepts (`Listed`), those of all open
  connections unless a left-over event made one `stale` (`AllListed`), and in the
  order in which they expire (`Ordered`). That `add_timer` and `adjust_timer` keep
  the order is proved of the position they insert at, and the timers a tick calls
  back are a prefix of the list because it is ordered (`DueAreFirst`), so that
  stopping at the first timer that is not due misses none. `RoomLeft` says that
  accept finds a descriptor.
* **Timers_proofs**, for any wheel, timers, lifetimes and timeouts.
  `WheelIsTimerService`: the invariant only says that a timer lies in its own
  slot; the argument is the arithmetic of the circle. `Ahead` is the distance from
  the current slot, `AheadOfSum` what it is after an addition modulo `N`,
  `AheadAfterTick` that a tick makes it one less, or `N - 1` for the slot just
  visited, of which one rotation is then taken off. `HeapIsTimerService`: purging
  removes marked timers only (`PurgedAreMarked`), so that adding, deleting,
  looking, popping and ticking are the operations of the service on the live ones.
  `WheelAndHeapAgree` is `WithinOneTick` of the two together: with `NextAt` the
  time of the next tick, `WheelAt(t)`, `NextAt` plus the ticks before the one that
  calls `t` back, does not change while `t` is on the wheel; `Close` ties it to
  the heap's `expire`, and a timer on one of them only is due within a tick.
* **ProcessPool_proofs**, for any number of children, clients and crashes:
  `ParentIsLast`, with the types of all variables. `PidMatchesChild` says that
  only what `waitpid` returned is -1, `AllForked` that the loop starts when every
  child has a pid, so that a connection which finds no live child
  (`NobodyLeft`) finds them all reaped; `StopMeansGone` joins the two.
* **MultiProcess_proofs**, for any number of clients, slots and messages:
  `TableStaysExact` and `ServerIsLast`, with the types of all variables, in
  particular that no child writes outside the shared segments. `SlotsLeadBack`
  states the table and the map as a pair of inverse maps, which accept extends at
  the end and the swap of line 390 cuts by one; `WaitOnce` (who waits waits once
  and has no child yet) is needed for the former; `StopIsLast` says that
  `server_stop` is set with an empty table, or that a client came in behind it.
  `NoEchoUnmoved` needs to know whose a segment is (`OwnSegments`): a child writes
  only the segment of the slot it was forked for, announces no other, and is told
  of none that it could write itself. Until a slot is moved, two children have
  different slots because table and map are inverse and a child's `idx` is what
  the map says.
* **Programs_proofs**, about eight of the small programs.
  * *ForkServer*, for any number of connections: `ZombiesCounted`. The count
    changes by one with every death, merged signal and `waitpid`; the invariant
    ties a process to its connection, so that a death adds one zombie.
  * *UdpRoom*, for any talkers, names and messages: `RoomIsHeard`. Whom the list
    names and is in the room is a member (`ListedAreMembers`), and until a QUIT has
    been handled it names all of them (`MembersAreListed`): what is sent to a list
    that lies between is heard by those it is owed to (`SentAndOwed`).
    `NewAreUnknown` and `QuitsAreGone` are what the order of datagrams cannot
    break.
  * *EpollServers*, for any clients, threads and amount of data: `AllIsRead` and
    `OneThreadEach`. A known connection with something to read is on the ready
    list, in the batch, or in the hands of a thread that will go on reading or
    re-arm it (`ArmedOrInHand`); for the one-shot servers it is in one hand at a
    time (`OneHand`), unless a thread was misled.
  * *StressTester*, for any connections and any room: `LoadGoesOn`. What epoll would
    report is on its ready list or among the events at hand (`Reported`), and a
    connection that waits for input has an answer coming.
  * *ThreadChat*, for any guests, descriptors and threads: `HeardOnce`. Unless a
    descriptor was `mixed` up or the process is `dead`, each thread has a connection
    of its own, and the audience of a message is still served when it is relayed.
    The array has as many entries as there are connections that should be in it
    (`Listed`), and exactly one for each whose descriptor has not gone `astray`
    (`ArrayIsRight`): a removal shifts the entries behind the one that goes, and if
    that one is not the leaver's both descriptors go astray. That the array has
    room is a count of its entries (`ArrayHasRoom`).
  * *PollChat*, for any users, descriptors and texts: `LastIsHeard`. The table is
    right between any two steps of the walk (`TableIsRight`), and what poll said of
    the entries not yet visited is true of who is in them now (`RoundIsRight`),
    although `remove` moves them; a text is sent once (`SentOnce`) because the
    buffers pointed to are of different texts (`TextsDiffer`, `BuffersAreRight`)
    until one is `replaced`;
    of what comes after that the theorem says only that the table is right.
  * *SemPair*, for any number of lines and kills: `LinesInOrder`, that the pair
    does not block included. There is one turn (`OneTurn`): it lies in one of the two
    semaphores, or is owed by the process that will post it, or was lost with a
    process that was killed (`torn`). `LinesRead` says which lines have been read,
    from where the turn is.
  * *FileTransfer*, for any requests, files of any length and buffers of any size:
    `TransfersWhole`. What may follow what in a stream (`May`, `Linked`) is enough:
    a piece is followed by the next one or by the word, the word by its second
    half, that by a command. A receiver that has taken `m` tokens (`Received`)
    therefore has the `m+1`st, or the word, coming next (`Receives`), and
    `RestOfFile` says by a least counterexample what the whole of the stream must
    then be, so that `PiecesTaken` and `WordTaken` can say what one `recv` of any
    length leaves in the buffer and in the file, although the buffer still holds
    what earlier calls left there. Beside it the invariant says what a client that
    waits is waiting for (`ClientAt`) and that a file put is saved, being received,
    or on its way (`NothingForgotten`). It holds as long as no `recv` has cut the
    word, or taken it or a command together with more, and no get was `abandoned`.

The assumptions are those of the modules (`PoolAssumption`, `CondPoolAssumption`,
`ServerAssumption`, `HttpConnAssumption`, `IdleAssumption`, `WheelAssumption`, `HeapAssumption`,
`SameTimers`, `ForkAssumption`, `ChatAssumption`, `RoomAssumption`,
`EpollAssumption`, `TesterAssumption`, `ThreadChatAssumption`,
`PollChatAssumption`, `SemAssumption`, `FileAssumption`): finite sets of threads
and clients, positive limits, names that differ, sessions made of requests, a
server that can open the directory it runs in. The constructors check them or the callers guarantee them,
and TLC evaluates them for the instances. `TypeOK`,
`MutualExclusion` and `QueueBound` of ThreadPool and `CondTypeOK` of CondPool are
proved and no longer run.

Only model-checked:

* the liveness properties `EveryRequestRuns`, `EveryTaskRuns`, `DestroyEnds`,
  `RequestSettled`, `EveryClientAccepted`, `TermEndsPool`, `ParentFollows`,
  `TermEndsServer` and `IdleIsClosedIfTold`: temporal fairness is out of the
  prover's reach;
* `ThreadsFinishRight`: ThreadPrograms has no constants, so that TLC's run is
  already every case.

`RECURSIVE` operators are used nowhere.

## 6. Not modelled

* **Vendored code.** Half of the repository's lines are the headers of libevent
  (82) and SQLite (11); the source behind them is not there, and the examples are
  callbacks and SQL statements given to them.
* **Examples without state** (01, 03, 05, 07, 08, 10, 31-39, 41, 43-46, 71-77,
  87, the demonstrations beside the modelled functions of 02, 04, 06, 40, 79, 83,
  84): a sequence of calls, each shown once, with nothing kept between them that
  an interleaving could break. They are the rest of the program lines.
* **Programs whose control is modelled elsewhere.** 80 is the handler, pipe and
  loop of IdleServer and ProcessPool with nothing to act on; the servers of 09
  `main.cpp` and of 41 are the loops of ForkServer and EpollServers; `sem_test` of
  04 is the one of 48; `child_end` of 40 is `child_exit`.
* **`cgi_conn`** (85): one buffer, one program run per request.
* **The chat over a message queue** (06): each side sends to, and receives, one
  type; a message queue neither loses nor reorders.
* **Record locks and the shared FIFO file** (02): the producer's writes of one byte
  are whole and in order with or without the lock.
* **`cond_test`** (04): its wait has no predicate; it promises nothing.

Within the modelled programs:

* What a request or an answer says beyond its kind. In HttpServer a request is
  nothing, a part or the whole, and a short write one "again" step; HttpConn has
  both in detail for one connection. The two are not composed. `mmap`, `stat` and
  an overflow of the answer's header are left out.
* Use of the pool of 85 after its destructor: the workers are detached and use
  freed members, which is undefined; `DestroyMembers` ends the behaviour.
* `pthread_create`, `mmap`, `socketpair` and `new` do not fail. `fork` may fail in
  the chat (the connection is closed; the socket pair it leaks is not counted) and
  in the fork server.
* `add_sig` sets flags in an uninitialised `sa_flags`. The handlers are taken to
  be installed as the call intends.
* The write to `users[-1]` after a failed `accept` (81) is out of bounds. It is
  taken to hit nothing; the timer it creates is modelled. Entries of `evs` that no
  call has filled are uninitialised: they are taken to hold nothing in IdleServer
  and anything in MultiProcess.
* Signals other than SIGCHLD, SIGTERM (with SIGINT, handled alike), SIGALRM and
  SIGPIPE; a signal that reaches a parent before its handlers ends the program.
* In the chat of 83 a SIGCHLD is a byte of its own, although pending ones can
  merge: `Reap` collects every zombie, so that fewer bytes are a subset of the
  behaviours. The zeros `memset` leaves until `recv` returns are not told apart
  from the data.
* FileTransfer does not cut a command or `NO_EXIST`.
* EpollServers does not reuse descriptors, and leaves the UDP socket of
  `handle_tcp_udp` out.
* Calls that only format, print or log.

## 7. What could follow

1. HttpServer with HttpConn's parser in place of its "part" and "whole".
2. The message queue of 06 and `cgi_conn`, with processes that are killed.
