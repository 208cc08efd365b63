# A verification project for rsyscall

rsyscall makes system calls in other processes: a Python program holds handles
to processes, file descriptors and memory somewhere else, and a tiny server in
each of those processes performs the system calls it is sent. This directory
holds TLA+ models of the parts of rsyscall whose correctness rests on the order
of events, the TLC runs that check them and the TLAPS proofs about them. Paths
below are relative to `src/python/rsyscall/` unless they start with `src/`.

## The system

| Component | State | Operations | What makes it correct |
|---|---|---|---|
| dneio continuations (`src/python/dneio/core.py`) | the stack of running coroutines, `_under_coro_runner` | `shift`, `reset`, `Continuation.send/throw` | every shift returns once, with what was sent to it |
| dneio queues (`src/python/dneio/concur.py`) | queues of (value, continuation) pairs, Events, Futures | `request/get_one/get_many/close`, `Event.wait/set`, `run_all` | a request is in one place until it is answered |
| Syscall connection (`tasks/connection.py`) | `request_queue`, the batch being written, `response_queue`, the read buffer | `syscall`, the coroutines `_run_requests` and `_run_responses`, `close_interface` | answers go to the callers that asked; errors are permanent; every caller is answered |
| rsyscall server (`src/c/src/rsyscall.c`) | the request being read, the response being written | read, perform, respond; accept a new connection when the old one ends | syscalls are performed once, in order |
| Persistent connection (`tasks/persistent.py`) | current connection, callers waiting for a new one | `syscall` with retry, `shutdown_current_connection`, `reconnect`, `set_new_conn` | no syscall lost, reordered or performed twice across a reconnection |
| Child process monitor (`monitor.py`, `handle/process.py`) | `death_state`, `unread_siginfo`, `in_use`, `next_sigchld`, the signalfd's `next_signal`; parents, groups, namespaces | `waitpid`, `kill`, `killpg`, `setpgid`, `clone`, the signalfd reader | a pid is not used after the kernel freed it; a death is not lost; no SIGCHLD is missed |
| Epoller (`epoller.py`) | registered numbers, event counters, readiness masks, waiters; the activity fd | `register`, `wait_for`, `consume`, `delete`, the read/write/accept/connect loops | whoever waits for an fd that is ready is woken, and the waiter never blocks the thread's syscalls |
| AsyncReadBuffer (`epoller.py`) | the bytes read ahead | `read_length`, `read_line`, netstrings, structs | a stream is parsed alike however it is cut |
| Allocator (`memory/allocator.py`) | arenas and their sorted allocation lists | `allocate`, `split`, `merge`, `free`, bulk `malloc` with `mmap` | live allocations are disjoint, aligned and inside their mapping |
| Pointers, RAM, transports (`memory/`, `handle/pointer.py`) | ownership and validity of pointers, bytes in the data socket | `ptr`, `malloc`, `perform_batch`, `split`, `merge`, `borrow`, remote read and write | a byte has one owner; each read gets its own bytes |
| FD tables (`handle/fd.py`) | handles per fd number and table, inherited handles | `for_task`, `move`, `inherit`, `invalidate`, `close`, gc, `unshare_files` | an fd is closed once, and not while a handle to it is valid |
| Cloning (`tasks/clone.py`) | ctid futex, its monitor process | `clone_child_task`, the shutdown coroutine | the end of the child becomes an EOF on its connection |
| Signals, inotify, connections (`signal.py`, `inotify_watch.py`, `network/connection.py`) | tracked sigmask; watches and waiters; fd passing | `sigprocmask`; `Watch.wait`; `open_async_channels` | tracking agrees with the kernel; events reach the right watch; both ends of a channel match |
| Bootstraps (`tasks/stdin_bootstrap.py`, `tasks/stub.py`, `tasks/ssh.py`, `src/c/`) | sockets that are bound, connected and described | the handshakes | the thread that is returned is of the process that serves it |
| Environment (`environ.py`, `thread.py`) | variables, their array in memory, the cache of PATH | `as_arglist`, `inherit`, `which`, `exec` | a program gets the environment of its thread |
| Structs and wrappers (`sys/`, `linux/`, `struct.py`...) | C layouts | `to_bytes`, `from_bytes`, calls that split their buffers | the code and the kernel mean the same bytes |

How they interact: a caller's `syscall` suspends it with `shift` and hands its
continuation to a queue of the connection; the connection's coroutines resume
it. The connection writes and reads its socket through the epoller, and puts a
batch into memory through RAM. `waitid` and `kill` are syscalls of a task and so
go through its connection; the siginfo they leave in memory is read through the
memory transport, which for a remote task is itself made of syscalls. A
persistent connection replaces the connection under all of them.

The behaviours that are hard: callers, two coroutines and a remote server
interleave on two byte streams that carry no message identification; either
stream can end at any byte, with requests that may or may not have been
performed; a signal can arrive between any two of the steps that look for it;
trio can cancel a coroutine between a syscall with a side effect and the read
of its result. `PROJECT.json` lists the hazards one by one, each at its line.

## Modules

**SyscallConnection** models one connection and its server byte by byte.
`Syscall` is a caller making a syscall (queued, or handed straight to
`_run_requests` when that waits in `get_many`); `PtrDone`, `WriteByte`,
`ForwardRequests` and `SendError` are `_run_requests` from await to await;
`ReadResponse`, `Return` and `Hangup` are `_run_responses` with its
`AsyncReadBuffer`; `ServerRead`, `ServerPerform`, `ServerWrite` and
`ServerReturn` are the C server; `ServerCloseInfd` and `ServerCloseOutfd` are
what happens to its ends afterwards. `ShutdownToFd`, `ShutdownFromFd`,
`ServerDies` and `ConnectionLost` end a connection; the constant `Faults` says
which of them a run allows. A syscall is abstracted to its number in the order
of calls, the bytes of its request and response to distinct numbers, and its
result to the syscall that produced it, so that any mix-up is visible.
A syscall is shielded from cancellation in the code, so callers do not leave.

**SyscallInterface** is the abstract specification: what
`SyscallInterface.syscall` promises its callers. SyscallConnection implements it
with the same variables (`ImplementsInterface`). It leaves out the one promise
the connection does not keep (see the findings).

**ChildMonitor** models one child: the kernel's view (`ChildChanges`,
`OtherChildChanges`, `WaitidPerform`, `KillPerform`), the signalfd reader
(`SigfdRead`, `SigfdSet`, `SigfdFails`) and coroutines in `waitpid` (`Waitpid`,
`SigchldWake`, `WaitidSend`, `WaitidReply`, `ReadOld`, `ReadNew` and the error
paths) or in `kill` and `killpg` (`Kill`, `KillReads`, `KillRead`, `KillReply`).
`Cancel` is trio's cancellation, which reaches every await except a syscall;
`Hangup` is a `SyscallHangup` thrown to a syscall that was or was not performed.
An Event of the signalfd is its number, and is set when it is below
`next_signal`. `WaitidReply` waits for earlier memory reads when `ReadsFirst`
holds: a read of local memory takes no time, and one through a socket is made
of a syscall of the same task, whose data is there before the answer of a later
one. With a transport whose local end is itself remote this need not be so.

**PersistentConnection** puts connections, each as SyscallConnection makes it,
under `PersistentSyscallConnection` and `reconnect`, with
`rsyscall_persistent_server` at the other end. Its actions are `Syscall` and
`WaitForBreak`, the coroutines of each connection (`Connection(k)`: take a batch,
write it, answer, hang up), `Reconnect` and `ConnectAndSend`, `SetNewConn` with
`Setting` (callers are resumed one by one, and may make further syscalls before
the next is), and the server's accept, serve and shut down. `Break` ends a
connection, `PartialWrite` fails a batch of two or more half way, `Die` kills the
process.
**PersistentInterface** is what its callers rely on; the detailed module
implements it (`ImplementsInterface`) as long as no batch fails half way.

**Epoller** has a kernel with edge-triggered readiness, EpollWaiter with its
queue and `number_to_cb`, an EpolledFileDescriptor per registration (mask, event
counts, what a syscall made obsolete) and coroutines in `read`, `write`,
`accept`, `connect` and `wait_for_rdhup`. Answers of the fd's thread and of the
epoll thread are processed in any order. **ActivityFd** is EpollWaiter in a
thread that blocks in `epoll_wait` and is woken through the activity fd of its
connection, while the connection is replaced. **WaitReadable** is the trio system
task that waits for the local epollfd, over several calls of `trio.run`.
**InotifyWatch** is the coroutine of an Inotify and those that wait for its
Watches, with the kernel's queue of events. **ReadBuffer** is AsyncReadBuffer:
each call parses a stream that arrives in pieces, and may be cancelled. No byte is
lost then, but a call that is cancelled after it took the length of a record leaves
the next one to start in the middle of that record: the property says that a call
starts where the last one stopped, not that it starts at a record.
**Subsequences** has the selection from a list that Epoller and InotifyWatch use, as
a recursive function.

**Allocator** is the arenas, the coroutine of UnlimitedAllocator with its queue
and the `mmap` it awaits, and owners that free, split and merge meanwhile.
**Pointers** is every method of Pointer and its subclasses that changes state,
with coroutines that await a write, a read, a system call that only reads the memory
(`Use`), or one that stores to it (`Fill`, `Store`, `Filled`): it consumes the pointer,
as `pread` does, or returns it as it is, as `getsockname` does.
**Batch** runs a program on pointers through `perform_batch`: the counting pass,
the bulk allocation, the second pass, the deferred writes. **SocketTransport** is
write and read of remote memory over one socket, with the local and the remote
system calls in the order they are submitted.

**FDTable** has the kernel's tables and files below the handles of two tasks, or
of a task and the child it clones: open, share, borrow, close, garbage
collection, unshare, execve and exit, each syscall a step of its own between the
step that submits it and the one that takes its answer. **ProcessTree** has the
handles of many threads, monitors that are shared and `CLONE_PARENT`, process
groups, pid namespaces, orphans and numbers that are used again. **SignalMask**
has the tracked and the kernel's mask, blocks, clone and exec. **CloneChild** has
a child, its futex helper and the coroutine that shuts its socket down.
**Environ** has exec and `which` with what they cache.

**Bootstrap** (stdin and stub) and **SshBootstrap** have our side and the C
programs of the handshakes. **Channels** is FDPassConnection and
ListeningConnection opening channels for several threads.

**Continuations** is `shift` and `reset` for native coroutines and trio tasks that
resume each other; **Concur** is RequestQueue, Future and `run_all` under that
synchronous resumption.

**FuseCodec**, **Codecs**, **RecordLists** model serialization. A byte string is a
sequence in which the first byte of a struct stands for the struct, so that a
slice off by one finds none; a field holds its own name, so that one that is
dropped or swapped shows; the kernel's reading of the same bytes is external.
**Transfers** is the splitting of buffers by what the kernel transferred.

**SyscallConnectionProofs**, **ChildMonitorProofs** and **FDProofs** hold the proofs
about SyscallConnection, ChildMonitor and FDTable. **CallProofs**, **MemoryProofs**,
**SetupProofs**, **ThreadProofs** and **EventProofs** extend the suite of that name and
hold the proofs about its other components and about the suite; ThreadProofs
instantiates FDProofs for the tables of its suite.

**MCCalls, MCWaiters, MCSetup, MCEvents, MCMemory, MCThreads, MCData** instantiate
the components for TLC, those together that answer one question. They stand side
by side: `running` is chosen at the start and names the instance that runs, the
variables of the others keep their initial values. So the reachable states are
the union, not the product, of the components' states, a property is the
conjunction of what it says of each component, and the fairness of a component is
that of its steps while it runs. Instances of one module with different constants
(an allocator whose mmaps fail, say) share their variables; in MCEvents such an
instance has the record of its constants as a parameter (`Poll(Io)`, `Poll(Delete)`),
so that what is proved is proved once. Of the components
that are proved about, the bounds are CONSTANTS of the suite, which the cfg gives
values to; where one module is instantiated several times the instance has a
parameter: `Boot(kind)`, `Chan(kind, overlap, fail)` and `Clone(mayDie)` in MCSetup;
`Ptr(c)` in MCMemory and `Mask(c)`, `Env(c)` and `Tree(c)` in MCThreads, with a
record `c` of what the run is about (`Kept` and `Shared`, `Failing` and
`Overlaps`, `Orphans` and `Sessions`...). Where components
depend on each other, the detail of one is an action of the other, checked in its
own module: PersistentConnection and ActivityFd use connections as
SyscallConnection makes them, SocketTransport the order of syscalls,
Pointers allocations that are disjoint, ProcessTree waits and kills that exclude
each other.

Operators commented as mutants in the modules are wrong versions of the
definition that follows them; no specification uses them. Replacing the
definition by one of them makes TLC report the property `PROJECT.json` pairs it
with.

## Runs

| Run | Checks | Result |
|---|---|---|
| `conn_faults` | a connection byte by byte: type, own results, order of execution, permanence of errors, callers held once, refinement of SyscallInterface, under `close_interface`, death of the server and a broken transport | holds |
| `child_monitor` | type, no freed pid used, no death lost, no SIGCHLD missed, under cancellation, hangups and a failing signalfd | holds |
| `calls` | every syscall is answered, over connections that break, are shut down, are replaced, or carry the calls of a thread that blocks in `epoll_wait`; reconnects, transfers of memory and of lists of buffers, `run_all` and waits for the epollfd end. Syscalls written before a shutdown return; requests are held once; every shift gets its own answer; bytes are accounted for | holds |
| `waiters` | who waits for a file that is ready, a watch that was removed, a child that is dead is resumed | holds |
| `setup` | a bootstrapped thread is of the process that serves it; the ends of channels match; a child's stack and socket are let go only when it is out of them; all of it ends | holds |
| `events` | readiness is not lost to an EAGAIN that is processed late; events find their callback, once and in order; syscalls that waited for a connection are not overtaken; refinement of PersistentInterface | holds |
| `memory` | arenas ordered, allocations owned, a byte in one pointer, written pointers hold their value, batches return what single calls do, transfers move their own bytes | holds |
| `threads` | handles have their files, pids their processes, tracked masks are the kernel's, programs get their environment, `which` finds the first | holds |
| `data` | FUSE messages, structs and record lists round-trip and mean the same to the kernel; a stream is parsed alike however it is cut | holds |
| `conn_stall` | every caller is answered, with a batch larger than the buffers | violated |
| `pers_retry` | a syscall is performed once, when a batch may fail half way | violated |
| `fd_unshare_fails` | a handle has its file, when `unshare` may fail | violated |

No run checks for deadlock in TLC's sense: once all syscalls of the bound are
answered, or the child is reaped and everyone is idle, there is nothing to do.
Liveness properties say what must not get stuck.

Bounds. Each is named in the constants of its module, and the suites give the
values.

* *Connection.* Structs of two bytes are the smallest that can be cut in the
  middle. A `ToFdCapacity` that is no multiple of the struct makes partial writes;
  a `FromFdCapacity` above two responses makes AsyncReadBuffer read ahead into
  the middle of a third. Three syscalls are needed for one to be answered, one to
  be in the batch and one to be queued, and four let a batch of two fail while
  another is queued.
* *Persistent.* Three syscalls and three connections: one that breaks, one that
  replaces it and breaks while callers are being resumed, one more.
* *Child monitor.* Two coroutines are the fewest that race for a child; three
  state changes let it stop, continue and die.
* *Epoller.* One fd that two coroutines use, with every kind of operation and two
  changes of readiness: an EAGAIN and an event can cross in both orders. Two
  registrations of one fd number, one after the other, are when a number could be
  given away too early.
* *Inotify.* Two watches, two waiters, three events in reads of up to two.
* *Memory.* Pages of 4 bytes, two arenas, three allocations and batches of two
  sizes with different alignments make gaps, a full arena and an mmap. Memory of
  two bytes and three pointers is what a split and a merge need. Four transfers
  of up to two bytes by three coroutines interleave reads and writes.
* *Threads.* Two tasks, two fds, two handles and two files: a number is closed and
  used again while the other task has a handle. Four processes and three numbers:
  a number is used again. Two signals besides SIGCHLD, two coroutines, three calls.
  Three directories looked at two at a time.
* *Set-up.* Two processes and two calls; three users of a connection of which one
  shares the fd table; two children of which one shares it.
* *Data.* Lists of four records (one control message), three packets, paths of every length
  up to all of `sun_path`, all streams of five bytes over a few symbols, all sets of six bits.

Model values for coroutines, tasks and values are permuted in `events`, `memory`
and `threads`, whose modules treat them alike; runs that check liveness use no
symmetry.

What the bounds leave out, the proofs cover for the safety properties listed
under Proofs.

Fairness is weak, and given to steps that nothing but the scheduling of a
coroutine, a process or the kernel delays: the event loop resumes a coroutine
whose descriptor is ready or whose answer has come; the server is a process the
kernel schedules. Nobody is obliged to make a call and no fault to happen, and a
transport that loses bytes also ends both streams, as a socket does. Three more
obligations: that `reconnect` is called once the thread has been found
disconnected (PersistentConnection; the callers of a persistent thread do it);
that trio tasks call `shift` (WaitReadable; they do to wait for anything);
`epoll_wait` need not return while there is nothing to report.
`EveryCallAnswered` of a connection needs `FromFdCapacity` to hold the responses
of what can be written at once, and `conn_stall` shows what happens without.

## Findings

* `conn_stall`: `_run_responses` is told of a batch only when all of it is
  written, so a batch larger than what the sockets hold stops both ends.
* `pers_retry`: a batch of two or more whose write failed half way gets
  `SyscallSendError` as a whole, although the docstring says such a syscall "was not
  sent and was not executed"; the persistent connection makes it again, and those that
  had been written are performed twice.
* `fd_unshare_fails`: `unshare_files` gives the task a fresh FDTable before the
  system call and keeps it when that fails, and the task closes fds that others
  use.

### Further disagreements the models show

The modules have the code as it is; the passing runs leave the cases below out by
their constants, and TLC reports the invariant named with the constants given
(the rest as in the suite).

Connection and children.
* SyscallConnection, `SendErrorNotPerformed`, Faults `{"shutdown"}`: syscalls of a
  batch that failed half way are performed (`tasks/connection.py:161`).
* PersistentConnection, `GlobalOrder`: a syscall whose `SyscallSendError` comes
  after `set_new_conn` is made again behind newer ones (`tasks/persistent.py:171`,
  against the comment at :134). So a syscall that is retried twice can be
  overtaken by one made behind it, with `{"break"}` and four connections:
  `WaitersNotOvertaken` is about who waited when a syscall was last made.
* PersistentConnection, `BreakCbSingleShot`, `{"break"}` and three connections:
  `_break_cb` is not cleared and resumed twice (:175).
* PersistentConnection, `ReconnectEnds`, `{"die"}`: `_connect_and_send` takes no
  notice of EOF and reads for ever (:247).
* ActivityFd, `WaiterSurvives`: `get_activity_fd` raises while disconnected,
  outside the `try` of EpollWaiter (`epoller.py:171`).
* ChildMonitor: a `waitid` that hung up may have reaped the child; nothing in the
  code records it (`handle/process.py:138`), and the pid is used again. `PidIsOurs`
  and `DeathNotLost` except this case by the history variable `unseen_death`.
* ChildMonitor, `PidIsOurs`, `ReadsFirst = FALSE`: `parse_waitid_siginfo` clears
  `unread_siginfo` even when it is a newer buffer (`handle/process.py:147`).
* ProcessTree, `CloneIsMonitorable`, RootMayDie: with `CLONE_PARENT` the child is
  that of whoever is our parent now (`handle/process.py:246`).
* ProcessTree, `ChildJoinsGroupAsked`, Groups: `ChildProcess.setpgid` passes its
  own group instead of the one it is given (`handle/process.py:129`).

Epoller and streams.
* Epoller, `NoLostReadiness`, Arrivals with `"ERR"`, or an unconnected fd with
  `{"connect"}`: an error is taken for the end of readiness (`epoller.py:485`,
  `:601`); `ConnectedWhenSaid`, Ops `{"connect"}`: the OUT of the unconnected
  socket, processed late, counts as the end of the handshake (`:603`).
* ReadBuffer, `EndIsEOFError` and `LineEndIsNone`: an EOF inside a string becomes
  UnboundLocalError (`:724`), and None is never returned (`:766`).
* InotifyWatch, `EventsFindWatch` with `{"overflow"}`: an overflow has wd -1 and
  ends the reader (`inotify_watch.py:147`); `EventsOnceInOrder` with `{"cancel"}`:
  events go to a cancelled waiter (`:51`); `MatchKept` with `{"until"}`: matching
  events after the first are thrown away (`:81`).

Memory.
* Allocator, `FreshArenaSuffices`, a batch of sizes (5,1), (4,4), (7,1): the sum
  of rounded sizes is too small for aligned starts (`memory/allocator.py:237`);
  `MmapOnlyWithoutSpace`, two pairs: one allocation per arena and batch (`:218`);
  `EveryAllocationOwned`, `{"cancel"}`: a cancelled caller's memory is lost (`:212`).
* Pointers, not Exclusive: `OneOwner` and `LinearReadOnce` with `"linear"`:
  `linear_read` does not look after its await whether the pointer is still valid, so
  two that overlap both read, and both make a pointer for the allocation
  (`handle/pointer.py:391`); `BorrowPins`, a borrowed pointer can be freed (`:195`).
* Pointers, `WrittenHoldsValue`: without its exception for `stale` and with `"keep"`:
  `getsockopt`, `getsockname`, `getpeername` and `accept` (`sys/socket.py:501-549`)
  store to the WrittenPointer they are given and leave it valid, as the TODO at
  `handle/pointer.py:433` says, and so do calls that store to any pointer they are
  given and return it (`sys/stat.py:121`, `sys/timerfd.py:82`, `sched.py:125`); with
  `"cancel"`: a write or a system call that is cancelled, or hangs up, after the store
  leaves the old WrittenPointer valid (`handle/pointer.py:83`).
* Pointers, `EndAligned`, Size 5 and Alignment 4: the padding is computed from the
  wrong end (`handle/pointer.py:228`).
* Batch, `NotCalledNondeterministic`, a split followed by a `like`:
  NullAllocation.split swaps the halves (`memory/ram.py:180`).
* SocketTransport, `OwnBytes`: with `"cancel"`, with `"delay"`, or after a partial
  write, bytes are left for the next operation (`memory/socket_transport.py:155`,
  `:138`); `EveryOpEnds` with a Size above Capacity: the remote write blocks
  before the local read begins (`:151`).
* Transfers: `FirstIsWritten`, the middle iovec (`sys/uio.py:68`); `RestIsWritten`
  with a Size of 0 (`:30`); `InsideBuffer` with NameLens above NameSize
  (`sys/socket.py:458`).

Threads.
* FDTable, `HandleHasFile`: `"drop"`, a handle dropped during unshare
  (`handle/fd.py:416`); `"late"`, the snapshot of inherited handles is taken after
  an await (`tasks/clone.py:157`); `"again"`, a handle is inherited twice
  (`handle/fd.py:332`). `CloseHitsOwnFile`, `"hangup"` with two tasks and two calls: a
  close was performed, its answer is lost, `_close_fd` puts the fd back for another
  task, which closes the number again after it was reopened (`:247`).
  `OwnUseHits`, Ops `"use_own"` (`:139`); `BorrowNotFreed`
  and `OpensReturn` with `"overlap"` (`:162`, `:292`); `OpenGivesHandle` with
  `"hangup"` (`:247`); `ManipulatingEnds` with `"exec"` (`handle/__init__.py:280`).
* SignalMask: `BlockWitness` with ExecFails, the mask is not restored
  (`thread.py:481`); `InSync` with CloneOverlaps, the mask is copied after an
  await (`tasks/clone.py:160`); `RefusedWhileRunning` with Hangups,
  `sigprocmask_running` stays set (`signal.py:272`).
* Channels, `ChannelsMatch` with Overlap or MayFail: concurrent or abandoned
  calls take each other's ends (`network/connection.py:131`, `:203`).
* Environ: `ProgramGetsEnviron` with ChangeAfter, the array is stale
  (`environ.py:163`); `FindsFirst` with OpenFails, any error counts as absence
  (`environ.py:60`).

Data.
* FuseCodec: RELEASE loses `lock_owner` (`linux/fuse.py:586`), GETXATTR its name
  (`:673`), the answer to GETATTR has no decoder (`:997`), that to READDIRPLUS reads
  a field that is not there (`:1127`). `ResponsesReach` and `ResponsesRoundTrip` with
  READDIR or READDIRPLUS in OutOps: the names of a directory are sent twice, in the
  flexible array that `ffi.buffer` shows (`linux/dirent.py` and its test rely on that)
  and once more behind it (`:1064`, `:1110`), and `namelen` counts the null and the
  padding, which the kernel takes for a part of the name (`:1061`). The suite's
  instances leave both answers out.
* Codecs: Itimerspec drops its value (`time.py:91`), Timespec of a Decimal swaps
  quotient and remainder (`time.py:60`), CpuSet reads CPU 64 as 0
  (`sched.py:110`), Stat keeps `st_mode` an integer (`sys/stat.py:100`).
* RecordLists: `ListDecoded` without Terminated, a path of all 108 bytes has no null
  in its address, and `strlen` reads on behind it, as the TODO says (`sys/un.py:61`).
  The suite has such paths, with Terminated: `from_bytes` gets a `bytes` object, and
  CPython ends these with a null that their length does not count. `ListDecoded` with
  Abstract, unnamed and abstract addresses gain a
  null (`sys/un.py:68`); `KernelAgrees` with two control messages, no padding
  between them (`sys/socket.py:369`).

## Proofs

Everything is proved from the named assumptions on the constants alone (sets
are sets, sizes are natural numbers, and where it matters positive or finite).
A theorem about a component assumes in addition what it says, and the cases that
this leaves out are those under "Further disagreements". A theorem `Spec => []P`
of a suite is about a property `P` of its run, for every value of the constants
the suite declares; it follows from the theorems about the components `P` speaks
of, since the variables of a component change only while it is the one that runs.

*Connection* (`SyscallConnectionProofs`): `TypeCorrect`, `OwnResult`, `InOrder`,
`Permanent` and `HeldOnce` prove the five invariants of `conn_faults` for any
number of syscalls, any struct sizes, any socket buffers and any faults. None of
them is inductive: whose result a caller gets depends on bytes that are still in
two kernel buffers. The inductive invariant `IInv` says that there is a number
`f` of syscalls forwarded to `_run_responses` such that

* the queues hold consecutive callers (`QueuesInv`), and a caller's place
  determines its status (`StatusInv`);
* the bytes the server has of a request, followed by those in the socket, are
  one run without a gap from the byte the server expects to the byte
  `_run_requests` writes next (`RequestInv`); the same for responses, from the
  next caller to answer to the byte the server writes next (`ResponseInv`);
* after a failed write nothing is written any more (`SendFailedInv`), and after
  a hangup nothing is read any more (`HungUpInv`).

`DecodeStruct` then shows that a whole struct at the front of a run is the one
of the next syscall. There is one lemma per action, and `NextInv` puts them
together. `Implements` is the refinement of SyscallInterface: with `IInv` every
step of the connection is a call, a performance or an answer of the interface, or
changes none of its variables. `WrittenReturn` is about a connection that is only
shut down: a syscall that was written is not told of an error; the suite's
`WrittenCallsReturn` (`CallProofs`, `ShutdownReturns`) is an instance of it.

*Child monitor* (`ChildMonitorProofs`): `TypeCorrect` and `WakeupNotLost` hold
for any faults. `NoLostWakeup` is made inductive by saying the same of the Event
a coroutine saved before a `waitid` that found nothing (`SavedIsEnough`).
`DeathKept` and `PidSafe` assume `ReadsFirst`, which is needed (see the
disagreements above), and except only the case that the one answer that reported
the death hung up (`unseen_death`); their invariant adds that one waitid or kill
is under way at a time (`OneInFlight`), only while no death is known or unread
(`BorrowedAlive`), and that those who read a siginfo buffer all read the unread
one (`ReadersAgree`).

*Queues and continuations.* `RequestsHeldOnce` (`CallProofs`) holds for any number
of callables and requests. That a request is somewhere once says nothing of
where it will go: `RunInv` ties the place of a request to the status of who made
it, the receiver to the server's waiting (there is no request while it is set),
and the results collected so far to the first callables. `ContinuationsHeldOnce`
adds the epoller's continuation over any number of `trio.run` calls.
`ShiftsReturnOnce` and `OwnAnswers` (`CallProofs`) say that every shift returns
once, with its own answer. The invariant `CoInv` is about the stack of runners:
nobody is on it twice, a frame restores the kind of the frame below it, and a
continuation that somebody holds is the one its coroutine waits in.

*Memory* (`MemoryProofs`): `PointersOwn` and `OwnedPointers` (`OneOwner`) hold where
coroutines keep their hands off pointers others use, and where they free, split, merge,
convert, write and borrow them, if none calls `linear_read`; with that it is not so (see
the disagreements above). The invariant `PtrInv` says that
the valid pointers own the live allocations, one each, and that these are apart;
what a call in progress may rely on (`UseInv`) is needed because it frees or
replaces its pointer only after its await. `PointersPinned`, `WrittenMemory` and
`KeptPointers` (`WrittenHoldsValue`) assume that coroutines keep their hands off
pointers others use. The last two also assume that no call is cancelled or hangs up,
and except a WrittenPointer that a call stored to and returned as it is; writes, and
calls that fill a buffer and consume its pointer, are covered. `MemInv` adds what memory
holds between the store of a write and its return. What a step does to pointers
and allocations is stated once (`Exchanges`, `Consumes`), with the actions as
instances. `TransfersOwn` (`OwnBytes`) says that operations over one socket each move
their own bytes, however many there are, while nobody is cancelled, no bytes are late and
the socket has room for all that is written. `SockInv` ties each call that is
under way to the coroutine that waits for it, and says that the bytes of an
operation are all there, in one piece, until they are taken, and in the order in which
recvs and local reads will be performed; a write finds room because the coroutines that
have still to write leave it (`RoomInv`).

*Set-up* (`SetupProofs`): `ChildNotCutOff` and `ChildStacks` rest on `ChildInv`, which
ties the futex to the end of the child and the helper's exit to the futex.
`SshThreadServed`, `SshSocksMatch`, `ThreadOfItsProcess` and `BootstrappedThreads`
rest on `Stream`: what is still to be sent, what is under way and what has been
taken together are what one process sends, in order. `EndsAreDistinct` holds
whatever overlaps or fails; `ChannelsEndToEnd` is for one call after the other
and no failure. `ChannelEnds` has both, as the suite's instances have.

*Threads* (`ThreadProofs`): `MaskTracked` and `MaskReadBack` exclude a `sigprocmask`
that overlaps a clone, and allow hangups and execs that fail; `BlocksWitness` the
other way around; `MasksTracked` (`TrackedIsTrue`) has both. The belief is right when a
call returns because `sigprocmask_running` kept others out since it began, so
`MaskInv` says that one coroutine at a time is in a call of a task (`Alone`) and
what that call has read (`CallInv`). `ProgramEnvironment` and `ProgramsGetEnviron` are
about the cached array (`ArrayInv`) and the one an exec in progress holds;
`WhichFindsFirst` and `LookupsFindFirst` about a lookup of any number of directories
in chunks of any size, of which no earlier chunk has the executable
(`LookupInv`). `HandlesHitTheirOwn` and `ProcessesHit` (`HitsOwn`) hold for any tree of
processes: the numbers in use differ (`NumbersDiffer`, where a group keeps the
number of its dead leader in use), and as long as the owner of a handle
lives it is the parent, so that nobody else reaps the child (`OwnedInv`).

*File descriptor tables* (`FDProofs`, `ThreadProofs`): `TablesKept` is about any number
of tasks, fds, handles, files and calls under way; `HandlesHaveFiles` (`HandleHasFile`)
has it for the three ways the suite runs the tables. That a handle has its file is not
inductive: a close, a collection or an unshare that is under way could take the number
from under it. `FdInv` therefore says of each table that is still in use (`Served`,
until the connection of one of its tasks is lost) that a number is tracked or belongs to
one call that closes or returns it, and never to two of these; that what is tracked, or
about to be closed, is open; and that handle and close mean the file the number has
(`TableInv`). While the system call of an unshare is under way, the client's new table
stands for the kernel's old one, which the other tasks go on using and collecting. None
of them closes a number this task has a handle for, because the old table keeps the
handle, too, until the call has returned (`Kept`). A child's copy of the table has the
files of the handles it may inherit because answers are handled in order and the
snapshot is taken before the next: what was opened by then was opened before the kernel
copied the table (`CopyInv`, `NewInv`, `InheritInv`). What a step may change, of keys,
calls and files, is stated once (`TableStep`), and each action is shown to be such a
change.

`TableCfg` excludes the disagreements above: `unshare` does not fail, no handle is
dropped while its task unshares or is inherited twice, and the snapshot is not late. A
lost connection, a failing `execve` and a use of one's own fd in between are covered.
Where connections are lost, or a child is cloned, one task has the first table: with
two, a close that was performed and not answered is put back and performed again by the
other (`CloseHitsOwnFile` above; the induction failed there), and FDTable has one clone.

*Persistent connection* (`EventProofs`): `NotOvertaken` (`WaitersNotOvertaken`) and
`ConnectionImplements` (`ImplementsInterface`) hold for any number of syscalls, and of
connections that break, while callers are being resumed too. `PersInv` says
in which place a syscall is, among those who wait, those the loop of
`set_new_conn` has still to resume, the requests, what is written, what is
answered (`PlaceInv`); that the answers of a connection are to the first it expects,
and the rest is still in its stream unless it is closed (`WireInv`), so that
the step that returns or hangs up does so for the right one; and that there are
waiters only while there is no connection (`WaitInv`). The refinement follows step by step: a syscall told of
`SyscallSendError` stays pending and is nowhere but in a line, so making it again is
no step of the interface; what is still in a stream was not performed, and what
is returned was.
The order is not inductive as the property
has it, which is about syscalls performed; `BehindInv` says of a syscall, wherever it is,
that those it waited behind are ahead of it, or will not be performed any more. The
proof showed that this is true of who waited when a syscall was *last* made,
not of the first time.

*Epoller* (`EventProofs`): `ReadinessKept` (`NoLostReadiness`) and
`EventsReachTheirCallback` (`EventsFindTheirCallback`) have the epollers of the suite
with any number of coroutines, registrations and arrivals; `AnyEpoller` says both of any
epoller at all. That events find their callback rests on `Numbers`: a number is of one
registration until `remove` is done with it, and the ready list and what `epoll_wait`
answered have only those of registrations with a callback. That `allocate_number` finds a
number nobody has is a counting argument (`NumberFree`). Readiness is harder. A
file is ready and the mask does not say so while an event is on the ready list or in an
answer (`Coming`); otherwise what is known says it, and goes on saying it when
every EAGAIN under way has been processed (`Believed`), because an EAGAIN whose syscall
was performed before the event carries counts that are lower than the event's. So the
invariant is about what will be believed, not about what is (`Known`), and it needs
that counts only grow (`Counts`) and that every EAGAIN under way was performed before
a write that failed (`Order`). After a hangup OUT is in the file and may be
missing from the mask: then ERR is in it, which a write waits for, too (`HungUp`).
`Peaceful` excludes the disagreements above: unconnected sockets, errors, closing.

*Inotify* (`EventProofs`): `EventsInOrder` (`EventsOnceInOrder`), and the part of
`EventsReachTheirCallback` about Watches, for any number of watches, coroutines and
events and any size of the buffer. Events are numbered as they happen. `Sequence` says
that what a watch has seen, what a read has and what the kernel has queued follow each
other in that order, without one missing (`Covered`); `Found`, that an event's wd has
a Watch or its `add` is processed before the event (`Reached`), and that IN_IGNORED is the last of
its wd (`Last`). Both assume that no event is lost to an overflow or a cancelled waiter;
`Lists`, about the lists of waiters, does not.

Only model-checked:

* The liveness properties: fairness is out of the prover's reach.
* `ArenasOrdered` and `EveryAllocationOwned` of Allocator, `Accounted` of Transfers and
  `BatchReturnsDirect` of Batch are about what recursive functions compute over
  lists of any length, and need induction over data, which the installed provers
  cannot do. So do `RoundTrip` and `KernelAgrees`, which moreover are
  about finitely many kinds of struct: TLC goes through all of them.
* `ParsedAsWhole` of ReadBuffer compares it with a parse of the whole stream, and is
  with TLC for the same reason.

## Not modelled

* Wrappers under `sys/`, `linux/`, `unistd/` that pass their arguments to one
  system call and return its result have neither state nor control. Their
  structs are in Codecs, RecordLists and FuseCodec; `ffibuilder.py` only lists
  C declarations.
* `clone_persistent` and `prep_for_reconnect`, and the rest of `thread.py`,
  `nix.py` and the command helpers, are straight-line code over the
  components above.
* `EpolledFileDescriptor.modify` has no caller. `UnlimitedAllocator.close` unmaps
  everything at the end of a process.
* The loops of a FUSE file system (`FuseFS`) answer one request after the other;
  what they can get wrong is the messages, which FuseCodec has.
* Applications, shells, tests, documentation, packaging and `research/` use or
  discuss the library. The kernel, ssh, cffi and trio are external: the models
  have what the code relies on of them.
