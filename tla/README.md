# A formal model of the Boxedwine kernel

Boxedwine emulates an x86 PC with a Linux kernel inside one host process: guest
processes, threads, futexes, sockets, signals and files are C++ objects, and in
the multi-threaded build every guest thread is a host thread. The kernel is
therefore a concurrent program whose locks, conditions and tables are its own,
and that part is what this directory models in TLA+: six components, each
model-checked with TLC on small instances, with theorems that TLAPS checks
for every size.

Paths below are relative to `src/`. Contents: the system and its inventory, the
modules and how they correspond to the code, the runs, the bounds and the
fairness, the proofs, behaviours without a run, what is left out, next steps.

## The system

Guest code runs on a CPU core (interpreter or JIT). A system call enters
`syscall.cpp` or `syscall64.cpp`, which decode arguments and call `KProcess`,
`KThread` or `KSystem`. Everything those touch is shared by host threads:

| Component | State | Operations | Shared with, and what is hard |
|---|---|---|---|
| 64-bit futex (`source/kernel/kthread.cpp`) | `system_futex[]`, a condition per slot, `gPendingWakes[]` and its mutex (the bucket lock) | WAIT, WAIT_BITSET, WAKE, WAKE_BITSET, `clear_child_tid64` at exit | Guest words, signals, `terminateOtherThread`. A WAKE between the compare and the registration; slots given back on every path; a kick that misses a sleeper |
| 32-bit futex, robust lists (`kthread.cpp`) | its own loop over the same kind of table | WAIT, WAKE, requeue, robust list walk at exit | As above, without pending wakes |
| Threads and clone (`kthread.cpp`, `kprocess.cpp`) | `KProcess::threads`, `terminating`, `waitingCond` | clone, exit, cleanup | The table is read and changed by exit, exit_group, kill and execve at once |
| End of a process, waitpid (`kprocess.cpp`, `ksystem.cpp`, `source/emulation/cpu/normal/normalPlatformMultiThreaded.cpp`) | the thread table, `terminated`, `exitCode`, `KSystem::processes` | exit, exit_group, execve, SIGKILL, host thread unwinding, `reapChild` | Several threads end the process at the same time, a parent reaps it meanwhile |
| fork, vfork, exec, descriptors (`kprocess.cpp`, `kfiledescriptor.cpp`) | `KProcess::fds`, `fdsMutex`, `exitOrExecCond` | dup, close, fork, vfork, execve | Copies of a table that others change; vfork's one wait |
| poll and parents of conditions (`source/kernel/kpoll.cpp`, `source/util/synchronization.cpp`) | `pollCond` of each thread, two parent slots in each condition | `internal_poll` (poll, select, epoll_wait), `signal`, `signalAll`, `wait` | A poller sleeps on its own condition and is woken through the objects' conditions: lock order, missed wakes, slots |
| eventfd, signalfd (`kevent.cpp`, `ksignal.cpp`) | a counter; the pending signals of a process | read, write, `signalFd` | Readers and writers on one condition; signals posted under the descriptor table |
| Unix sockets (`kunixsocket.cpp`, `ksocket.cpp`, `ksocketobject.cpp`) | receive buffer, `inClosed`, `outClosed`, `connecting`, `pendingConnections`, the peer, all weak pointers | connect, listen, accept, read, write, shutdown, destruction | Two ends with a lock each, taken one after the other; a destructor that runs beside any call |
| Signals (`kthread.cpp`, `kprocess.cpp`, `ksignal.cpp`, `syscall64.cpp`) | `pendingSignals`, masks, `sigWaitCond`, `foundWaitSignal` | kill, tgkill, sigsuspend, sigtimedwait, delivery | Arming against waiting, per-thread against per-process |
| epoll (`kepoll.cpp`) | an interest list keyed by descriptor | ctl, wait | Not cleaned when a descriptor is closed |
| Timers (`ktimer.cpp`, `kscheduler.cpp`) | a list of timers, `timerMutex`, timerfd counters | setTimes, run, read, SIGALRM | `timerMutex` and `fdsMutex` in both orders; a timerfd cannot be armed, since `timerfd_settime` accepts signalfds only (`kprocess.cpp:2955`) |
| Cooperative scheduler (`kscheduler.cpp`) | run queue of the single-threaded build | schedule, wait, wake | Conditions that re-enter a system call |
| Record locks (`source/io/fsnode.cpp`, `kfile.cpp`, `kfilelock.cpp`, `kfiledescriptor.cpp`) | ranges per node, and a condition all waiters share | set, set and wait, get, unlock, the end of a descriptor | Which ranges are in conflict; one waiter is woken at a time; a call that outlives its descriptor |
| Guest memory (`kmemory.cpp`, `kmemory64.cpp`, `source/emulation/softmmu/`) | page tables, counts of host pages, the cache of file pages | mmap, munmap, mprotect, faults, fork, exec, exit | Host pages that several processes point at, each with a lock of its own; stores without a lock |
| System V shared memory (`ksystem.cpp`) | counted segments | get, attach, detach, remove | Pages held by segments and page tables; removal while attached |
| Netlink, native sockets | a fixed answer; host sockets and a polling thread | | The host's behaviour |
| System call tables, loaders, files, device/proc/sys nodes | | | Decoding, parsing, host I/O |
| CPU cores and JIT, OpenGL and Vulkan bridges, X11 server, user interface, vendored libraries | | | Data transformation, marshalling, display |

What makes the modelled components correct:

* *Futex*: a wake is never lost, whether it meets the waiter before, during or
  after its registration; slots are owned by exactly the threads that wait; a
  released or terminated waiter returns.
* *End of a process*: the thread that declares the process terminated is the
  last one; one waitpid reaps it; whoever waits for any of it is woken.
* *Poll*: a poller does not sleep over a ready object unless someone is already
  on the way to wake it; the slots that polls leave behind do not add up; blocked readers and writers wake.
* *Unix sockets*: the two ends of a pair agree on each other and on the directions that
  are closed; the end of one reaches the other; nobody is queued or accepted twice;
  nobody sleeps over a queue.
* *Guest memory*: programs see private, shared and copied pages as mmap and fork promise;
  no host page is freed while something points at it; a private page is nobody else's.
* *Record locks*: no byte is locked by two processes; locks go with the last descriptor;
  the release of the last one wakes somebody.

`PROJECT.json` lists every component with its sources and status, and every
hazard with its line and the properties that watch it.

## Modules

| Module | What it is |
|---|---|
| `WakeBridge` | What the 64-bit futex promises to edge-triggered guests: a wake is owed from the call until it has released a waiter or is banked, nobody waits over a banked wake, and only a terminated thread leaves a wake undone |
| `Futex64` | The futex as the code has it; `ImplementsBridge` maps it to `WakeBridge` |
| `MCFutex64` | Instances for TLC |
| `Futex64Proofs` | Types, the inductive invariant and its consequences; that the table suffices and nobody sleeps on a word that moved |
| `BridgeProofs` | That `Futex64` implements `WakeBridge` |
| `ProcessEnd` | exit, exit_group, execve, SIGKILL, unwinding, waitpid |
| `MCProcessEnd` | Instances for TLC |
| `ProcessEndProofs` | Types, single reaping, that exit_group ends alone, that who runs is listed |
| `Poll` | `internal_poll`, parents of conditions, eventfd, signalfd, connected sockets |
| `MCPoll` | Instances for TLC |
| `PollProofs` | Types, that a panic over parent slots takes more pollers than slots, and that no poller misses an object that becomes ready |
| `SocketPairs` | What connected sockets promise to programs: pairs that are made, closed and ended in one step |
| `UnixSocket` | connect, accept, shutdown, close and the destructor of connected sockets; `ImplementsPairs` maps it to `SocketPairs` |
| `MCUnixSocket` | Instances for TLC |
| `UnixSocketProofs` | Its safety properties, and that it implements `SocketPairs` |
| `AddressSpaces` | What mmap, stores, fork and exit promise to programs |
| `GuestMemory` | Page tables, host pages and the handlers that fill pages in; `ImplementsSpaces` maps it to `AddressSpaces` |
| `MCGuestMemory` | Instances for TLC |
| `GuestMemoryProofs` | Types, that counts cover holders, that private pages are alone |
| `SpacesProofs` | That shared mappings are one page, that a fork leaves waiters where they are, and that `GuestMemory` implements `AddressSpaces` |
| `RecordLocks` | What record locks promise to programs: bytes that are granted and freed at one moment |
| `FileLock` | Record locks on one file; `ImplementsRecordLocks` maps it to `RecordLocks` |
| `MCFileLock` | Instances for TLC |
| `FileLockProofs` | Its safety properties, and that it implements `RecordLocks` |

`PROJECT.json` maps every definition that stands for code to the lines it stands for.

### Futex64

One action is one critical section.

| State | Code |
|---|---|
| `word` | guest memory at the futex addresses |
| `futexes` | `system_futex[]`: owner, address, wake flag, mask, whether it has a deadline |
| `pending` | `gPendingWakes[]`, as a count per process and address, capped at 2 |
| `bucket`, `scanPos`, `woken` | owner of `gPendingWakeMutex` during a WAKE, its loop index, its count |
| `pc`, `call` | where each thread is in `futex64`, and its arguments |
| `signalled`, `terminating` | `pendingSignals`, `KThread::terminating` |
| `kick`, `kickSlot` | the progress of `terminateOtherThread` and the condition it read |
| `cleanups` | how often `internalCleanup` will still run for a thread |

A WAIT is `Compare` (no lock), `ConsumePending` or `Register` (bucket lock),
`SetMask` (BITSET only, after the lock is released), `Park` (the first turn under
the slot's condition, with the second read of the word), `Sleep`, and `Resume`
after a notify, a timeout or a spurious wake (`Stir`). Calls that fail the
compare return and change nothing, so they are not steps. A WAKE is `WakeBegin`,
one `WakeVisit` per slot (which needs the slot's condition), `WakeEnd`, which
records a pending wake if nobody was woken. Thread exit stores zero and calls the
same WAKE. The environment stores to words before a WAKE (`StoreThenWake`) or
does not (`Alert`), sends signals, clones, and terminates threads.

### ProcessEnd

| State | Code |
|---|---|
| `threads` | `KProcess::threads` |
| `pc` | where each thread is: guest code, exit, exit_group, the three steps of `platformThread`'s end |
| `victims`, `victim` | the copied ids of `iterateThreadIds`, and the one `terminateOtherThread` waits for |
| `code`, `exitCode`, `terminated`, `erased`, `memory` | the argument of exit_group and the fields of `KProcess`, its entry in `KSystem::processes`, `KProcess::memory` |
| `waiting`, `status` | threads of the parent in `reapChild`, and what they were told |

`exit` stores the code and counts the threads (`Exit`), and leaves the table in
`Leave`; the last one goes on as `exit_group`. `ExitGroup`, `Exec`, `SelfKill`
and `Kill` copy the ids and then, one id at a time, mark (`Pursue`) and wait until
it is out of the table (`Caught`). `SetTerminated`, `ClearThreads`, `SetExitCode`
and `WakeParent` are the rest of `exitgroup` in its order. `Unwind`, `Cleanup`,
`DeleteThread`, `FreeMemory` and `EraseOrphan` are the end of the host thread.
`Reap`, `NoChild` and `Block` are `reapChild` under `processesCond`.

### Poll

| State | Code |
|---|---|
| `level` | counter of an eventfd, bytes of a socket, or whether a signal is pending |
| `hungUp`, `dead` | `inClosed`/`outClosed` after the peer went, sockets whose last descriptor is closed |
| `parents` | `BoxedWineCondition::parents` of each object's `lockCond` |
| `pollLock`, `fdsLock`, `objLock` | the mutex of each `pollCond`, `fdsMutex`, the mutex of each `lockCond` |
| `now` | the requests of a poll, with the objects its descriptors lead to at this moment |
| `polled`, `todo`, `found` | those it registered in this turn of its loop, those still to come, whether one was ready |
| `call`, `walk` | the other call a thread is in, and its place in the loop of `signal` |
| `early` | not in the code: objects whose last change came with a load of `parentCount` that missed a parent |

`LockPoll`, `LockTable`, `Register` and `Look` (one request each), `Looked`,
`Rewake` and `ClearPoll` are `internal_poll`. A descriptor of the poll may be closed or
reused at any point where the table is free (`Renumber`): `ClearPoll` looks the numbers up
again, as `clearPollData` does, and leaves behind the slot of an object they no longer lead to. `Write`, `Read`, `Post`, `HangUp`,
`GiveUp`, `Block` and `TakeSignals` are what objects do under their lock, and
`PickParent`, `SignalParent`, `Notify` are `signal` and `signalAll`: the walk over
the slots takes each parent's lock in turn while the object's own is held.
`Resume` is the end of `BoxedWineCondition::wait`, which signals the parents once
more. `signal` loads `parentCount` without its mutex; with `InOrder = FALSE`
(`LoadEarly`) the load may come before the store of what the call changed.

### UnixSocket

What `Poll` says of a connected pair, this module says of how pairs come and go.

| State | Code |
|---|---|
| `life`, `open` | whether the object exists and where its destructor is; sockets a descriptor refers to |
| `connection`, `connecting`, `pending` | the weak pointers `connection`, `connecting`, `pendingConnections` |
| `connected`, `inClosed`, `outClosed` | the flags of the same names |
| `pc`, `on`, `with` | where each thread is, and the sockets its call holds strong pointers to |
| `aborted` | an exception left a destructor, and `std::terminate` ended the emulator |

A socket is destroyed as soon as nobody holds it strongly: no descriptor and no
call (`Strong`, `Holds`). `Connect` is what connect tests without a lock, `Claim` the store to
`connecting`, also without one, `Queue` the push under the listener's lock, `ConnectWait` the test and wait under the client's, and
`ConnectWoken` what follows the wait; the second branch of `connect`, for a
client that is already queued, loops through `again`. `Look`, `Pair` and `Link` are
`accept`: `Pair` to `Link` keeps the client's lock (`Free`), and the descriptor of the new
socket is visible in between. If somebody closes it there, and nobody else holds it, `accept`
destroys it before it gives the lock up, and its destructor waits for that lock (`"stuck"`).
`Stir` is the return of a condition that nobody signalled. `Shutdown` and `ShutdownPeer` take the two locks one after
the other. `HangUp`, `LeaveQueue` and `Drain` are the three parts of the destructor.

`SocketPairs` has no locks, queues, calls or destructors: two sockets become a pair, a
direction is closed for both ends, and the end of one ends the pair. The refinement maps the
two pointers to a pair once both are set and both sockets are alive (`Paired`), so `Link` is
the abstract `Pair`, and `Pair` of the module is not to be seen. A direction is closed for
both as soon as it is at either end (`Closed`), so `Shutdown` is the abstract step and
`ShutdownPeer` adds nothing. `HangUp` is `End`, whether it still finds the other end or
the other end's destructor has not come that far; who is left and can still be used shows the
flags it really has, so the abstract step demands that it was told.

### GuestMemory

| State | Code |
|---|---|
| `mmu` | `KMemoryData::mmu`: type, host page, file, flags of each guest page |
| `count`, `data` | `RamInfo::refCount` of the host pages, and their contents (one value each) |
| `cache`, `segment` | `MappedFileCache::data`, `SHM::pages` |
| `lock` | the thread that holds `KMemory::mutex` of each process |
| `pc`, `at` | the handler each thread is in, the page, value and host page of its access |

`Map`, `Unmap`, `Protect`, `Attach`, `NewSegment` and `Execute` (the decoder makes a page a code
page) are the calls. An access begins with the handler that the type of the page picks
(`Begin`, `Handler`). `LookCow` looks at the count under the lock and decides, `Copy` or
`TakeOver` acts; other processes, with their own locks, run in between. `LookFile` takes
the page from the cache or reads it, `FillFile` enters it in the table and the cache.
`Resolve` takes the address of the word and `Store` stores to it, with no lock held
in between. `Fork`, `ForkPage` (one guest page at a time), `Forked` and `Leave`, `LeavePage`,
`Left` are fork, and exec or exit. With `MultiThreaded = FALSE` no thread runs while
another is inside a handler.

`AddressSpaces` has no page tables: a page is a process's own or a page of a file, and
a store changes the one or the other. The refinement maps an entry that is still a
file page, or points at the cached page, to the file.

### FileLock

| State | Code |
|---|---|
| `locks` | `FsNode::locks` of one file |
| `table`, `dying` | its descriptors in `KProcess::fds`, and those `cleanupProcess` has taken out of it |
| `pc`, `desc`, `want` | where each thread is, the descriptor its call holds, the range it asked for |

`Fcntl` decodes the call and takes a strong pointer to the descriptor; `AddLock`,
`AddLockAndWait` and `Unlock` are the three commands under `locksCS`, `Stir` a wait that ends
without a wake; `Drop` is the end of the call, which runs the destructor if it held the last
pointer. `Close` and `Remove` are the two steps of `close`, between which the number may come
to name another descriptor. `Exit`, `CleanupProcess` and `Destroy` are the end of a
process, `UnlockAll` what the destructor does.

`RecordLocks` knows the bytes that each process has locked and its descriptors. The refinement
maps the list to the bytes of its ranges, and counts a descriptor as long as somebody holds a
pointer to it (`Live`): a lock that is granted to a sleeper after the close of its descriptor
goes with the call. An unlock may take more of the process's own bytes than it names, since
the code drops whole ranges.

## Runs

All instances are small: two to four threads, one to three processes, one to four
objects.

| Run | Instance | What it shows |
|---|---|---|
| `futex64_alert` | 2 threads in one process and 1 in another, a word that never moves, timed waits, 3 slots, a pending table of one entry, symmetry | `SlotOwnership`, `NoTableExhaustion`: no slot leaks and the table suffices; `NoParkOverPending` and the refinement `ImplementsBridge`: no WAKE returns before it has released a waiter or banked its wake, and none is lost between compare and registration |
| `futex64_join` | a joiner that gets signals and is terminated, two threads that exit over one id word, fair | `FutexInv` (the inductive invariant), `NoStaleSleeper`: nobody sleeps on a word that moved unless a WAKE is about to reach the slot; `FlaggedReturns`, `KickedLeaves`: who is flagged or kicked returns |
| `futex64_missed_kick` | 2 threads, one of them terminated, fair | a *violation* of `TerminatedLeaves`: `terminateOtherThread` reads `waitingCond` just before the target sleeps |
| `process_end_group` | 3 threads: two may call exit_group, two exit, one execve and SIGKILL to itself; a SIGKILL from outside; two waiting parents | `TypeOK`, `AloneWhenTerminated`, `ReapedOnce` |
| `process_end_live` | 3 thread ids, two started, the third cloned; they exit, one calls exit_group, a SIGKILL from outside, one waiting parent, fair | `RemovedNotRunning`: what runs guest code is in the table; `WaitersWake`; `KillReturns`: a SIGKILL returns if marked threads leave (`MarkedLeave`) |
| `process_end_last_exit` | 2 threads that exit | a *violation* of `LastExitEnds`: both count two |
| `poll_mixed` | eventfd, signalfd and a socket pair; two pollers, one of which also polls for writing, times out, and has its descriptors closed and reused; a thread that reads, writes, signals, closes, and loads `parentCount` early or not | `TypeOK`; `NothingMissed`: nobody sleeps over a ready socket, or over another object that it alone polls; `SlotPerThread`: no panic, whatever polls leave behind |
| `poll_live` | a poller of a socket that also reads an eventfd; a thread that blocks in reads of the socket and of the eventfd; one that writes to both, blocks at the limit of the eventfd, and closes, fair | `PollReturns`; `BlockedWakes`: notify_one suffices for one blocked reader and one blocked writer |
| `unix_socket_pairs` | a blocking and a non-blocking client, each connected by a thread of its own, a listener, two accepting threads, two sockets to create, signals, spurious wakes, everything closed at any time | `PeersMutual`, `HangUpReaches`, `HalfClosesAgree`, `QueuedOnce`, `NoSleepOverQueue`, `TypeOK`, and the refinement `ImplementsPairs` |
| `guest_memory_fork` | single-threaded build, 2 processes of 2 threads, 1 guest page, 3 host pages, a file, two values | the refinement `ImplementsSpaces`; `OneFileImage`: shared mappings are one page; `ForkKeepsFutex`: a fork leaves the page of a waiter where it is |
| `guest_memory_threads` | multi-threaded build, 2 processes of 2 threads, a file, a segment, blind writes to file pages | `TypeOK`, `NoDangling`, `PrivateAlone` |
| `file_lock_handover` | 3 processes with one descriptor each, one of them with a second thread that does not ask for locks, two ranges with one byte in common | `TypeOK`, `Exclusive`, `LocksHaveDescriptor`, `NotAllAsleep`: nobody sleeps over a file without locks unless somebody is woken, and the refinement `ImplementsRecordLocks` |

Each property of a passing run has a mutant in `PROJECT.json`: a changed
definition (a missing lock, a forgotten slot, a wake that is not sent) under
which the same run fails. The mutated forms stand beside the originals and are
marked as mutants.

### Bounds

* *Threads*: the races need a waiter and a waker, or two threads that end each
  other; the third is the bystander that takes the wake, the slot or the lock.
* *Slots*: `futex64_alert` has as many as threads, so that one leaked slot exhausts the
  table when all wait; the others have two.
* *Pending table*: one entry, so that the code gives up one key's record for
  another (two processes make two keys). The cap of 2 per key is the code's.
* *Word values*: two are enough to move a word away and back.
* *Cleanups*: the code runs `internalCleanup` up to four times per thread, as
  `futex64_alert` does; `futex64_join` allows one, since a later one zeroes the id of
  a new thread on the same stack (`RunningNotJoined` below).
* *Exit codes*: one; two in `process_end_last_exit`, where the threads may exit differently.
* *Objects of Poll*: `Limit` (the counter's maximum, and a cap on bytes in a socket) is 1
  in `poll_mixed` and 2 in `poll_live`; both are met, and in `poll_live` a writer blocks there.
  `MaxParents` is 2 as in the code.
* *Sockets*: `Accepted` bounds the accepts that succeed, one for each client; a client
  may be closed before, during and after. Each client has one thread that connects it, as often as
  it likes: `connect` tests and sets without a lock, and two threads that connect one socket
  break what is checked here (below).
* *Memory*: one guest page per process meets every handler, since handlers look at one page
  at a time. Three host pages: one cached, one held by a process, one to copy to. With all in
  use an allocation waits. Contents are values 0 and 1, the file holds 1 on disk.
* *Locks*: ranges `[0, 2)` and `[1, end)` meet in one byte and are neither within the
  other; `Top` is 4 in place of 0xFFFFFFFF. Three processes, so that a wake can go to the
  wrong one; a second thread in one of them to close and unlock beside a waiter. With a second
  descriptor in that process (`Opens <- TwoAndOne`, `Desc = {d1, d2}`) the invariants hold as
  well, in seven times as many states, and the refinement on two processes; the proofs are for
  any number.
* *Symmetry* is used in safety runs only: between threads of one process that make the same
  calls, waiting parents, sockets to create, host pages, and two processes of `file_lock_handover`. The
  properties do not tell these apart.

Deadlock is not an error in these runs (`CHECK_DEADLOCK FALSE`): a guest may stop
calling, sleep in a futex nobody wakes, or exit, and then nothing is left to do.

### Fairness

Weak fairness of the steps of host threads inside the kernel: a thread that
holds a lock, was notified, cleans up or walks a loop keeps running, because it is a
host thread that the operating system schedules. That a thread marked as terminating leaves
guest code or the system call it is in is *not* among them: the kick may be missed
(`TerminatedLeaves`), and `kevent.cpp:84` and `fsnode.cpp:188` never test the mark. So
`KillReturns` is an implication whose hypothesis, `MarkedLeave`, is in its statement. Nothing is assumed of guest code,
of signals, timers or other processes, nor of who wins a contended mutex. `Poll`
also defines `FairLockSpec` (strong fairness, locks that starve nobody), which
serves below to show that a deadlock is not starvation. In `poll_live` the eventfd is not
polled, since without lock fairness a thread that polls in a loop may keep its own
`pollCond` from whoever signals it (with the eventfd polled, `BlockedWakes` holds under
`FairLockSpec` only). `UnixSocket` defines
`FairSpec` in the same way (calls go on, destructors run) for the statements below.

## Proofs

All proofs are for every value of the constants that satisfies the modules'
assumptions (`FutexAssumption`, `EndAssumption`, `PollAssumption`, `KindsDiffer` and
`CallsAssumption`, `GuestMemoryAssumption`, `SpacesAssumption`, `LockAssumption`: functions
have their types, the null values are not members, sizes are positive; futexes in copied pages
only in the single-threaded build). TLC evaluates them in every run.

| Theorem | Statement | Argument |
|---|---|---|
| `Futex64Proofs!TypeCorrect` | `Spec => []TypeOK` | inductive |
| `InvCorrect` | `Spec => []FutexInv` | inductive with `TypeOK` |
| `SlotsCorrect` | `Spec => []SlotOwnership` | a conjunct of `FutexInv` |
| `BridgeHolds` | `Spec => []NoParkOverPending` | a conjunct of `FutexInv` |
| `TableSuffices` | no more threads than slots imply `Spec => []NoTableExhaustion` | pigeonhole over `SlotOwnership` |
| `NoStaleSleeperCorrect` | `WakesEveryone` implies `Spec => []NoStaleSleeper` | `SleepInv` |
| `BridgeProofs!BridgeImplemented` | `Spec => ImplementsBridge` | step simulation under `TypeOK` and `FutexInv` |
| `ProcessEndProofs!TypeCorrect` | `Spec => []TypeOK` | inductive |
| `ReapedOnceCorrect` | `Spec => []ReapedOnce` | with: who has reaped has erased |
| `AloneCorrect` | `Started = Thread` implies `Spec => []AloneWhenTerminated` | `AloneInv` |
| `RemovedNotRunningCorrect` | `Execers = {}` implies `Spec => []RemovedNotRunning` | `RemovedInv` |
| `PollProofs!TypeCorrect` | `Spec => []TypeOK` | with `WalkInv` |
| `SlotPerThreadCorrect` | finitely many threads imply `Spec => []SlotPerThread` | pigeonhole over `AskedInv`, `OneSlotInv`, `PanicInv` |
| `NothingMissedCorrect` | `Spec => []NothingMissed` | `MissInv` |
| `UnixSocketProofs!TypeCorrect` | `Spec => []TypeOK` | with `ArgInv` |
| `NoSleepOverQueueCorrect` | `Spec => []NoSleepOverQueue` | with `ArgInv` |
| `PeersMutualCorrect`, `HangUpReachesCorrect`, `HalfClosesAgreeCorrect`, `QueuedOnceCorrect` | `OneListener` and `OneConnector` imply `Spec => []` of each | consequences of `Inv` |
| `PairsImplemented` | `OneListener` and `OneConnector` imply `Spec => ImplementsPairs` | step simulation under `Inv` and `SeenInv` |
| `GuestMemoryProofs!TypeCorrect`, `NoDanglingCorrect`, `PrivateAloneCorrect` | `Spec => []TypeOK`, `[]NoDangling`, `[]PrivateAlone` | consequences of `IInv` |
| `SpacesProofs!OneFileImageCorrect` | `~MultiThreaded` implies `Spec => []OneFileImage` | `FilesInv` |
| `ForkKeepsFutexCorrect` | `~MultiThreaded` implies `Spec => ForkKeepsFutex` | `Waiting` |
| `SpacesImplemented` | `Plain` implies `Spec => ImplementsSpaces` | step simulation under `IInv`, `FilesInv` and `BegunInv` |
| `FileLockProofs!TypeCorrect`, `LocksHaveDescriptorCorrect` | `Spec => []TypeOK`, `[]LocksHaveDescriptor` | inductive |
| `ExclusiveCorrect` | `NoneWithin` implies `Spec => []Exclusive` | inductive, with the lemma `OverlapMeets` |
| `NotAllAsleepCorrect` | `Spec => []NotAllAsleep` | inductive with `TypeOK` |
| `RecordLocksImplemented` | `NoneWithin` implies `Spec => ImplementsRecordLocks` | step simulation under `TypeOK` and `DyingAlone` |

*Futex.* `NoParkOverPending` is not inductive: a WAKE that ends with a count of zero
banks a wake, so one must know that no unwoken waiter of its key exists at that
moment. `FutexInv` says so for the part of the table the scan has passed
(`NothingLeftBehind`); registration cannot happen behind the scan because the
bucket lock is held exactly by the thread that scans (`BucketOwner`); and slots
carry the address their owners wait on (`SlotAddress`). `WakeVisit` and `Register`
are the two steps with content. The refinement uses the same facts: a plain WAKE owes its
wake from the call (`Owes`), pays it when it flags its first waiter or, at its end, into the
bank, which is only open if nobody waits on the key; a WAIT takes its abstract step when it
registers or consumes.

`NoStaleSleeperCorrect` asks of the program (`WakesEveryone`) what joins, condition variables
with broadcast and barriers do: one process, a WAKE after each store that counts at least
`MAX_FUTEXES` and a mask that meets those of the waiters; no terminated threads, and no
waits on a word that the end of a thread clears. `SleepInv` says that a thread that
has stored wakes with such a call (`CallsInv`, `MaskInv`), that its count cannot run out
before the scan ends (`CountInv`), and that each stale sleeper has a WAKE about to visit it
or is flagged (`StaleInv`). `futex64_join` checks the same property for cleared words, where
the exit is the WAKE.

*End of a process.* `AloneInv` says that a thread that runs is listed, that a chasing
exit_group still has every other listed thread among its victims, current or
to come, and that past `SetTerminated` nobody else is listed or running. It needs
`Started = Thread`: a thread cloned after the ids were copied is among nobody's
victims, and the property fails (below). `RemovedInv` needs no execve, which drops the same
thread from the table.

*Poll.* `NothingMissed` speaks of sleepers; `MissInv` speaks of the whole poll. Once a
request is registered, the thread holds a parent slot of its object
(`RegisteredInv`). Once it is looked at and not ready, either it is still not
ready, or another request was found ready, or a walk over its object's slots is under way
that will reach the poller (`CoveredInv`). A change starts its walk in the step that makes it,
from the first slot, so a registered poller is ahead of it; the walk cannot pass the
poller's slot without its lock, which the poller holds until it sleeps. `signal`
stops at the first parent for eventfds and signalfds, so the argument, like the property, is
for those that one thread polls (`Sole`): by `AskedInv` no other ever has a slot, not even
one left behind. Sockets use `signalAll` and need no such bound. A call that loaded
`parentCount` early has no walk, and excepts its object until the next change
(`early`, `Early`). For the panic: who holds a slot of an object may poll it or its other end
(`AskedInv`), no thread holds two (`OneSlotInv`: `addParentCondition` finds the one that was
left), and who panics found all of them taken by others (`PanicInv`).

*Unix sockets.* The properties speak of two sockets at a time; `Inv` says what kinds of
sockets point at which (`Kinds`), that live ones point at live ones but for the end being
linked (`Living`, `Mutual`), that a client is in one queue once and not once it is paired
(`Once`, `Remembered`), that calls hold both ends they work on (`HoldsEnds`), and that flags of
the two ends agree outside a shutdown (`Agreed`, `Clean`). `OneListener` is needed: a client
whose listener is gone may turn to a second one while the first accept is still
linking it (below). So is `OneConnector`, that no two threads connect one client: what
`Connect` tested is still so when `Claim` sets `connecting` because only the client's own thread
writes there (`ClaimShape`). `TypeOK` and `NoSleepOverQueue` need no such assumption.

For the refinement, `SeenInv` adds what ties the flags to the past: an accepted socket that
was linked says so (`connected`), one that was not has nothing closed, and a socket in use that
was the end of a pair, and is no longer, has both directions closed. From these `ClosedInv`
follows: what a program sees closed does not depend on who holds a pointer, so a step
that only takes or drops pointers is not to be seen (`Unseen`). What is left are the five steps
with content: `Pair` (nothing yet, `PairSeen`), `Link`, the two halves of a shutdown, and
`HangUp`, where the destructor and its peer's may each find the other gone.

*Guest memory.* Counts are compared with the number of holders: entries, pages about to be
filled in, the cache and segments (`Bounded`). `PrivateAlone` is not inductive, since a fault
looks at the count and acts later: `SoleAlone` says that an entry about to be taken over has
no other holder, and `Control` that whoever is inside a handler holds the lock of its
process. A handler of another process may only take holders away meanwhile. `OneParent`
says that a process being forked is filled in by one thread and nobody else.

What programs see is proved of the build with one host thread, where no two threads are inside
a handler (`Solo`), so that what a handler found is still so at its next step (`Found`).
`OneFileImage` needs that the cache and the entries agree: a shared entry of a cached page
is that page, and what points at a cached page is an entry of its file (`FileEntries`,
`CacheApart`). `ForkKeepsFutex` needs `Waiting` only, that the mark on a waiter's page stays
as long as it waits; it is stated of one host thread because with several the mark is or-ed
in without the lock (`kmemory.cpp:909`), a wait that `GuestMemoryAssumption` leaves out. `SpacesImplemented` maps each entry to its backing, as
under GuestMemory above; `BegunInv` says how far a handler has come: the pages a fork has passed
are copies of the parent's (`CopyOf`), the page about to fill a file entry holds what is on
disk, and a store goes to the page its entry points at. Each conjunct of `Plain` excludes
mappings for which the promise does not hold, or is not made:

* `~MultiThreaded`: a store that has its address is overtaken by a fork (below).
* `~BlindWrites`: a first access that writes changes the cached page of a private file mapping (below).
* `Segment = {}`: segments are attached without `PAGE_SHARED`, so a fork copies them
  (`ksystem.cpp:785`).
* `Cached = File`: a file page that is not cached is read again by each process.
* `OnlyFilesShared`: an anonymous shared page that was not touched before a fork becomes two
  (`kmemory.cpp:924`).

*Record locks.* `OverlapMeets`: if no range lies strictly within another, ranges that overlap
are found in conflict, whichever of them is held. `NotAllAsleep` needs no such
assumption: each step that may take the last lock off the list signals the condition, which wakes a
sleeper if there is one (`Signalled`), and a woken thread that sleeps again has found a lock. Which
sleeper is woken is the condition's choice, so no theorem says that it is one whose way is free
(`NoLostTurn`, below).
For the refinement, ranges that the test does not find in conflict have no byte in common
(`NotMet`, from `BytesApart`), so a grant is on free bytes; and a process whose descriptors
`cleanupProcess` destroys has no thread left (`DyingAlone`), so each of them is the abstract
`Close` of a process that does nothing else.

Model-checked only: the liveness properties (`FlaggedReturns`, `KickedLeaves`, `WaitersWake`,
`KillReturns`, `PollReturns`, `BlockedWakes`), which TLAPS cannot prove under fairness, and
`NoStaleSleeper` for words that exits clear.

## Behaviours without a run

The modules also state what some comments of the source promise and the code, as
modelled, does not keep, and some properties above hold on part of the inputs only. These
have no run of their own; TLC refutes each with the changes given to the named
configuration, whose properties are replaced by the one named.

| Property | Configuration | What happens |
|---|---|---|
| `WakeNotSwallowed` | `Futex64MissedKick.cfg`, `Killable = {}`, `Spec` | The wait loop delivers a signal before it looks at the wake flag (`kthread.cpp:725`): a WAKE that counted the waiter is dropped with its slot |
| `RunningNotJoined` | `Futex64Join.cfg`, `Killable = {}`, `Cleanups = 2`, `Spec` | `clear_child_tid64` is never reset (`kthread.cpp:77`): a later cleanup zeroes the id of a new thread on the same stack |
| `ParkedSignalDelivered` | `Futex64MissedKick.cfg`, `Killable = {}` | `tgkill64` arms a signal and wakes nobody (`syscall64.cpp:3240`) |
| `ExitGroupEnds` | `ProcessEndLastExit.cfg`, `Exiters = {}`, `GroupExiters = {t1, t2}`, `FairSpec` | Two threads in exit_group wait for each other (`kprocess.cpp:2029`) |
| `ReapedStatus` | `ProcessEndLastExit.cfg`, `Exiters = {}`, `GroupExiters = {t1}`, `Waiter = {w1}`, `ParentLives = TRUE`, `OnlyProcess = FALSE` | The parent reaps between `terminated` and `exitCode` (`kprocess.cpp:2033`) |
| `CleanupHasMemory` | as for `ReapedStatus` | The last thread deletes the memory while a sibling has left the table but not its cleanup (`kprocess.cpp:338`) |
| `AloneWhenTerminated` | as for `ReapedStatus`, with `Thread = {t1, t2, t3}` | A thread cloned after the ids were copied runs on (`kprocess.cpp:2013`) |
| `RemovedNotRunning` | `ProcessEndLive.cfg`, `Exiters = {}`, `GroupExiters = {}`, `Execers = {t1}`, `Killed = FALSE`, `Waiter = {}`, `Spec` | The same thread, dropped from the table by `threads.clear()` in execve (`kprocess.cpp:188`) |
| `PollersWoken` | `PollLive.cfg`, `Polls <- EventPolls`, `Calls <- EventCalls`, `Spec` | `signal` stops at the first live parent (`synchronization.cpp:71`): of two pollers of an eventfd the second sleeps over it, although poll gathers locks "so that we don't miss one" (`kpoll.cpp:49`) |
| `PollersWoken` | the same with `Polls <- OnePoll`, `InOrder = FALSE` | The load of `parentCount` passes the store of the counter (`synchronization.cpp:60`): nobody is told |
| `SlotsInUse` | `PollLive.cfg`, `Polls <- EventPolls`, `Calls <- EventCalls`, `Renumbered = {t1}`, `Spec` | The descriptor is closed before `clearPollData` looks it up (`kpoll.cpp:28`): the poll returns and its slot stays taken, on an object that has other descriptors |
| `PollReturns` | `PollLive.cfg`, `SignalFd = {f}`, `Polls <- SignalPolls`, `Calls <- SignalCalls`, `FairLockSpec` | `signalFd` holds the table and wants `pollCond`, the poller the reverse (`kprocess.cpp:3176`) |
| `SlotsSuffice` | `PollLive.cfg`, `Polls <- WritePolls`, `Calls <- NoCalls`, `Spec` | Polls for writing leave a parent at the peer (`kunixsocket.cpp:173`) until `addParentCondition` panics |
| `BlockedWakes` | `PollLive.cfg`, `Calls <- TwoReaders`, `Limit = 1`, `FairLockSpec` | Two threads block in reads, one in a write: a reader that got the counter wakes the other reader (`kevent.cpp:103`), which blocks again, and the writer sleeps beside an empty counter |
| `LeavesQueue` | `UnixSocketPairs.cfg` | A client destroyed while its listener's queue is not empty calls `shared_from_this` in its destructor, once per entry (`kunixsocket.cpp:74`), which throws; it "should remove itself from this list" (`kunixsocket.h:103`) |
| `AcceptedConnects` | `UnixSocketPairs.cfg`, `Client = {c1}`, `NonBlocking = {}`, `Connects <- OneConnects`, `Accepts <- OneAccepts`, `Uses <- Nobody`, `FairSpec`, no symmetry | The accept links and signals between the push and the wait (`kunixsocket.cpp:637` to 647), and does not reset `connecting`: the client waits for good |
| `ClosedRefuses` | the same with `Uses <- CloseUses` | `connect` holds the listener strongly while it waits, so that its destructor, which would wake it, does not run |
| `PeersMutual`, `HangUpReaches`, `HalfClosesAgree`, `QueuedOnce`, `ImplementsPairs` | `UnixSocketPairs.cfg`, `Connects <- BothConnect` | Two threads that connect one client both find `connecting` empty (`kunixsocket.cpp:607`) before either sets it (633): it is queued twice, and accepted twice |
| `AcceptReturns` | `UnixSocketPairs.cfg` | Another thread closes the new descriptor between its creation and the end of `accept` (`kunixsocket.cpp:716`): the socket's destructor asks for the client's lock (line 53), which the same thread holds |
| `WokenMeansAccepted` | `UnixSocketPairs.cfg` | The first wait of `connect` has no loop (`kunixsocket.cpp:647`): when the condition returns although nobody signalled it, the client is refused, and stays in the queue |
| `PeersMutual`, `HangUpReaches`, `HalfClosesAgree`, `QueuedOnce` | `UnixSocketPairs.cfg`, `Listener = {srv1, srv2}`, `Client = {c1}`, `NonBlocking = {c1}`, `Connects <- OneConnects`, `Accepts <- TurnAccepts`, `Uses <- TurnUses` | A client whose first listener went away queues at a second, while an accept of the first is still linking it: it is accepted twice |
| `ImplementsSpaces` | `GuestMemoryFork.cfg`, `MultiThreaded = TRUE`, `Waits = {}` | A store that had its host address before the fork lands in the page after it became copy-on-write, and the child sees it (`kmemory.cpp:915`) |
| `ImplementsSpaces` | `GuestMemoryFork.cfg`, `BlindWrites = TRUE` | The first access to a private file page is a write: `FilePage` makes the page copy-on-write and stores into the cached page of the file (`soft_file_map.cpp:30` and 64) |
| `OneFileImage` | `GuestMemoryFork.cfg`, `MultiThreaded = TRUE`, `Waits = {}` | Two processes fault one page of a file: the second overwrites the cache slot of the first (`soft_file_map.cpp:101`), whose shared mapping is no longer the file |
| `Exclusive` | `FileLockHandover.cfg`, `Range <- Nested` | The test for a conflict looks for an end of the held range within the wanted one (`fsnode.cpp:235`): a held range that contains the wanted one is not seen |
| `NoLostTurn` | `FileLockHandover.cfg`, `Range <- Apart` | One waiter is woken (`fsnode.cpp:169`, 213), which another lock stops, while one that could go on sleeps until the next release |

What no property states, seen while modelling:

* *Ends.* A process killed by SIGKILL never sets `terminated`, so its parent's waitpid does
  not return (`kprocess.cpp:3133`).
* *Futex.* A plain WAIT stores an empty mask, so WAKE_BITSET never matches it
  (`kthread.cpp:672`, 791).
* *Sockets.* A second connect of a client that was already accepted loops without end, since
  `connecting` stays set as long as the listener lives (`kunixsocket.cpp:610`). A read may
  return EPIPE between the end of its peer and the flag that says so (line 413). `connect` does
  not look whether its target listens.
* *Memory.* `CodePage::onDemmand` keeps the reference of `ramPageAlloc` (`soft_code_page.cpp:27`):
  the page is never freed, as the extra count in `WriteCode` says. A shared anonymous page
  that was not touched before a fork becomes two pages (`kmemory.cpp:924`). Segments are
  attached without `PAGE_SHARED` (`ksystem.cpp:785`) and become copy-on-write at a fork. A
  futex in a page that is already copy-on-write is known by a host address that the next
  store leaves (`kthread.cpp:444`). `PAGE_FUTEX` is or-ed in without the lock
  (`kmemory.cpp:909`). Nothing calls `eraseFileCache`, and a count has 14 bits.
* *Record locks.* Ranges that only touch are in conflict, and so are two read locks. F_UNLCK
  drops every lock that meets its range, whole. `l_whence` is ignored. Two threads of one
  process that wait need two wakes. A waiter does not test `terminating`, so exit_group waits
  until the lock is granted. The lock F_GETLK finds is used after the mutex is released.
* *Timers.* `timerfd_settime` refuses a timerfd (`kprocess.cpp:2955`), and takes a signalfd, which
  it casts to null.

## What is left out

* The single-threaded build, but for guest memory: there a condition re-enters the system
  call. The modules are of the multi-threaded build, where the interleavings are.
* Time. A timed wait may expire at any moment; deadlines and their 32-bit
  arithmetic are not modelled.
* Object lifetime in C++ (a `KThread` used after it was deleted) and data races
  inside hash tables: below the grain of these modules. The one weak load that
  decides a property, `parentCount`, is modelled. In `UnixSocket`, where lifetime is the subject,
  strong and weak pointers are.
* In `Futex64`: memory that cannot be read, and other futex commands. In
  `ProcessEnd`: stopped children, WNOHANG, SIGCHLD, several children, vfork. In
  `Poll`: priority reads, EINTR bookkeeping, datagrams, descriptors passed over
  sockets, the blocking read of a signalfd, threads that end inside a call. In `UnixSocket`:
  socketpair, datagrams, the names of sockets in the file system, and what else than the old or
  the new value a weak pointer may hold for a call that reads it while another assigns it
  without a common lock. In `GuestMemory`: the search for free addresses, mremap, vfork's shared table,
  native pages, reads of PROT_NONE, shmdt, the flat memory of 64-bit guests, and within a
  page which bytes are written. In `FileLock`: F_GETLK, the kind of a lock, and locks
  of several files, which are independent.
* Components that are data transformation, generated code or host I/O: CPU cores,
  JIT, graphics bridges, the X11 server, loaders, device nodes, user interface, vendored
  libraries. They are most of the lines of the repository.

## Next steps

What the hazards without a property ask for, in this order:

1. `Signals`: masks, sigsuspend, sigtimedwait, SIGCHLD, the blocking read of a signalfd,
   composed with `ProcessEnd`.
2. `DescriptorTable`: dup, close, fork, vfork, execve, and epoll's interest list.
3. `Timer`: the timer list and SIGALRM, with `timerMutex` and `fdsMutex` in both orders.
4. `Futex32` beside `Futex64`, with robust lists; `Scheduler`, for the single-threaded build.
