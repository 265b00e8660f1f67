# SystemAbstractions in TLA+

SystemAbstractions is a C++ library that gives one interface to what operating
systems do differently: TCP and UDP sockets, files, child processes, services,
directory monitoring, diagnostics. This directory holds TLA+ modules translated
from its source, TLC configurations that model-check them, and theorems about
them that TLAPS proves. Where the implementations of a component differ by
platform, the module says which it models: `NetworkConnection` and
`NetworkEndpoint` are the POSIX ones, with modules of their own for Windows; the
others choose the platform in their initial states.

## Inventory

| Component | State it keeps | Operations | Interacts with | What is hard | What makes it correct |
|---|---|---|---|---|---|
| `NetworkConnection` | socket, `outputQueue`, flags `closing`, `peerClosed`, `shutdownSent`, `processorStop`, the processor thread, delegates | Connect, Process, SendMessage, Close(clean), destructor; the processor loop | `PipeSignal` (wake-up), `DataQueue` (bytes to send), the peer; calls the delegates | the processor drops the mutex in select() and around every delegate; Connect and the start of Close take no lock; Impl is shared with the thread | one report per break; no lost wake-up; bytes in order; end of stream last; closes end; Impl outlives its threads |
| `PipeSignal` | a pipe of tokens | Initialize, Set, Clear, IsSet | select() in three components | it counts (up to the pipe's size) though its header calls it level-sensitive; Set before Initialize is lost | set after Set until cleared |
| `DataQueue` | deque of buffers with consumed counts, running total | Enqueue, Dequeue, Peek, Drop | its owner's mutex | requests that fall inside, on the end of, or across buffers, some empty | a FIFO queue of bytes |
| `NetworkEndpoint` | socket, packet queue, processor thread, signal | Open, SendPacket, Close | makes `NetworkConnection` objects; `PipeSignal` | delegates called under the mutex, joins, blocking accept, errors that end the processor | every packet sent once and in order; the socket is the processor's until it ends; after Close nothing runs; Close returns |
| `DiagnosticsSender` | subscribers, `minLevel`, contexts | Subscribe, unsubscribe, Send, Chain, Push/PopContext | subscribers; every other component | `minLevel` read outside the lock; subscribers called inside it | a subscriber gets all it asked for while subscribed, in one order, and nothing after; `minLevel` is the least level subscribed; no circular wait |
| `Subprocess` | pipe, child pid, monitor thread, saved SIGINT handler | StartChild, StartDetached, ContactParent, destructor | the kernel; all other Subprocess objects, through the one handler of SIGINT and inherited descriptors | the handler is per process and monitors overlap; a child inherits the pipes of others; pipe, fork and exec fail | a child is reported as it ended, in the end; the handler is restored; nothing leaks |
| `Service` | `shutDown`, the promise, the worker | Main, Run and Stop of the subclass, handler of SIGTERM, control handler (Windows) | signals, the service control manager | Stop against Run returning by itself; a Stop between the report of SERVICE_RUNNING and Run | Stop is called once and Main returns |
| `DirectoryMonitor` | inotify or kqueue descriptor or notification, worker thread, signal to stop | Start, Stop, destructor | `PipeSignal`, the callback, signal handlers that run on its thread | a stop against a change; a change during the callback; an interrupted wait | no callback after Stop; every change is followed by a callback |
| `StringFile` and `File` as `IFile` | contents, position, FILE or HANDLE | open, close, Destroy, Clone, Read, Write, Peek, SetPosition, GetSize, SetSize, Remove | other objects on the same file | methods made of several system calls that move the position; another object cuts the file | each object is a position in an array of bytes |
| `File`: directories | - | CreatePath, DeleteDirectory, CopyDirectory | other processes | recursion over many system calls, links, failures half way | nothing outside is touched; true means done |
| `DiagnosticsStreamReporter`, `Time`, `TargetInfo`, `CryptoRandom`, `Clipboard`, `DynamicLibrary` | none to speak of | one system call each | - | nothing concurrent | - |

`PROJECT.json` lists every component with its files, and under `hazards` what in
this code is hard to test, each at its line, with the property that would catch
it or the reason why none does yet.

## Plan

1. **Done.** `PipeSignal` (operators), `NetworkConnection` (threads, processor,
   kernel and peer in one module, because every hazard is between them),
   `DataQueue` and the abstract `ByteQueue` it implements,
   `NetworkConnectionProofs` and `DataQueueProofs`.
2. **Done.** `NetworkEndpoint`, on `PipeSignal`, in all its modes, and
   `NetworkEndpointProofs`.
3. **Done.** `DiagnosticsSender`: publishers, subscribers and a chain of two senders,
   and `DiagnosticsSenderProofs`, for any chains.
4. **Done.** `Subprocess` for both platforms, and `SubprocessProofs`.
5. **Done.** `DirectoryMonitor` and `Service`, for the three platforms, composed in
   `Program`, and `ProgramProofs`.
6. **Done.** `NetworkConnectionWin32` and `NetworkEndpointWin32`, which extend the
   POSIX modules with what differs; `NetworkConnectionWin32Proofs`, and a second part of
   `NetworkEndpointProofs`, which extend the proofs in the same way.
7. **Done.** `FileHandle` against the abstract `ByteFile`; `FileTree`; `FileSystem`,
   which has both; and `FileSystemProofs`.
8. A proof still worth having: `TrueMeansDone` for copying directories with links, for
   which one has to say first which of them do not get in one another's way.

## Modules

| Module | Models | Uses |
|---|---|---|
| `PipeSignal` | `PipeSignal.cpp`, as operators | - |
| `NetworkConnection` | the connection on POSIX | `PipeSignal` |
| `NetworkConnectionWin32` | what differs on Windows | extends `NetworkConnection` |
| `NetworkEndpoint` | the endpoint on POSIX | `PipeSignal` |
| `NetworkEndpointWin32` | what differs on Windows | extends `NetworkEndpoint` |
| `ByteQueue`, `DataQueue` | a queue of bytes; the class that implements it | `DataQueue` implements `ByteQueue` |
| `DiagnosticsSender` | senders, subscribers, chains | - |
| `Subprocess` | objects, monitors, processes, SIGINT | - |
| `DirectoryMonitor`, `Service` | the two components | `PipeSignal` |
| `Program` | a service that monitors a directory | instances of both, with the signals between them |
| `ByteFile`, `FileHandle` | what `IFile.hpp` promises; the objects that implement it | `FileHandle` implements `ByteFile` |
| `FileTree` | calls that walk directories | - |
| `FileSystem` | both kinds of use | extends `FileHandle`, instance of `FileTree` |
| `MC...` | values for TLC | |
| `...Proofs` | theorems | the module of that name; `NetworkConnectionWin32Proofs` also the POSIX theorems, and `NetworkEndpointProofs` has both platforms |

## Runs

Each run takes minutes at most on two workers; the
sections below give the bounds and say why they are enough.

| Run | Module and configuration | Checked |
|---|---|---|
| `connection_threads` | `MCNetworkConnection`, `MCNetworkConnection.cfg` | `EndOfStreamIsLast`, `NoLostWakeup`, `SentInOrder` |
| `connection_reconnect` | `MCNetworkConnection`, `MCReconnect.cfg` | `LockDiscipline`, `BrokenExactlyOnce`, `ReportedSocketsAreClosed`, `ImplOutlivesItsThreads`, `ServedUnlessReconnected` |
| `connection_liveness` | `MCNetworkConnection`, `MCConnectionLiveness.cfg` | `StopIsObeyed`, `QueuedBytesArrive`, `GracefulCloseEnds`, `EndsAreReported` |
| `graceful_close_loses_data` | `MCNetworkConnection`, `MCGracefulCloseLosesData.cfg` | `GracefulCloseDelivers`, **violated** |
| `connection_win32` | `MCNetworkConnectionWin32`, `MCConnectionWin32.cfg` | `NothingLeftAsleep`, `EndOfStreamIsReported` |
| `data_queue` | `DataQueue`, `MCDataQueue.cfg` | `Consistent`, `ImplementsByteQueue` |
| `endpoint` | `NetworkEndpoint`, `MCNetworkEndpoint.cfg` | `SentInOrder`, `NoLostWakeup`, `SocketOutlivesProcessor`, `ClosedIsQuiet`, `CallsReturn`, `PacketsAreSent` |
| `endpoint_win32` | `NetworkEndpointWin32`, `MCEndpointWin32.cfg` | `NothingLeftAsleep`, `PacketsAreSentUnlessStranded` |
| `diagnostics_senders` | `MCDiagnosticsSender`, `MCDiagnosticsSender.cfg` | `MinLevelIsLeast`, `MissedOnlyWhileRecomputing`, `IteratorsStayValid`, `SameOrder`, `NoCircularWait` |
| `processes` | `Subprocess`, `MCSubprocess.cfg` | `ReportedAsItEnded`, `InterruptsIgnoredWhileMonitored`, `NothingLeaks`, `EndsAreReported` |
| `program` | `Program`, `MCProgram.cfg` | `NoCallbackAfterStop`, `StopCalledOnce`, `ChangesAreReported`, `RequestsAreObeyed` |
| `files` | `MCFiles`, `MCFiles.cfg` | `StaysInside`, `TrueMeansDone`, `ImplementsByteFile` |

Deadlock is not checked in any run: the application may stop calling, and the system
then rightly stops. That nobody waits for ever is what the liveness properties and
`NoCircularWait` say.

## NetworkConnection

### State

| Variable | In the code |
|---|---|
| `platform` | `NetworkConnection::Platform`: `sock` (sockets are numbered in the order they are created; `NoSocket` is -1), the four flags, `processorStop`, `joinable` for `processor.joinable()`, `signal`, `outputQueue`; `delegates` is whether Process has stored them |
| `processingMutex` | who holds it. The application's critical sections contain no wait, so each is one step and only the processor is ever seen holding it |
| `loop` | the processor thread: `pc`, and the locals carried from one stretch to the next |
| `call` | where each thread is inside Connect, Process, Close or the destructor. `call[Processor]` is a call made from a delegate |
| `lifetime` | the reference counts of Impl: the application's (`owned`), the thread's (`released`), none (`destroyed`) |
| `tcp` | the kernel's and the peer's side of the latest socket |
| `calls` | the bound on the number of calls |
| `log` | history: bytes queued (which numbers them), reports made and owed, data lost |

A byte is its number in the order queued, so that order, loss and duplication
show. What a message contains, addresses, ports and diagnostics are left out.

### Steps

An action is one stretch of code between two points where another thread can get
in: taking or dropping the mutex, select(), a delegate, or an unprotected write of
shared state. So SendMessage and Close(true) are one step; Close(false) is
`CloseAbruptly` (sets `processorStop`, without the mutex), `Wake`, `LockAndClose`
and `CallBroken`; Connect starts with that close and goes on with `CreateSocket`,
`Establish`, `MakeNonBlocking` or `GiveUp`; Process is `Process`, `Spawn`,
`AssignProcessor`; the destructor is a close and `Release`. The processor has an
action for each outcome of the loop condition, select(), recv() and send(), for
dropping the mutex, calling a delegate and taking the mutex again. `BreakAbruptly`
is what it does after an error, wherever the error is found. Reads and writes of
`processorStop`, `sock` and `joinable` outside the mutex are data races in C++; the
model gives them their interleavings and no torn values, as the word-sized loads
and stores the compiler emits for them do.

Outside the model: errors of setsockopt, fcntl and select other than those on a
closed descriptor; send() returning 0 (it does not for a non-empty buffer, so
lines 242-249 cannot run); a new socket has the old descriptor number, which is
what the kernel hands out when it is the lowest free one.

What the application must do, as the interface implies: not call Connect, Process
and the destructor at the same time as one another, call nothing once the
destructor has begun, give Process a brokenDelegate, and return from delegates.

### Bounds

`connection_threads` has an owner with three calls, a second thread and the delegates
with one each, one socket, a two-byte message, a one-byte kernel buffer and a pipe
that holds one token (1.7 million states). `connection_reconnect` has an owner with
four calls and delegates with one that may also connect, and two sockets (2.0 million
states). `connection_liveness` has an owner with three calls, one socket and a
two-byte message sent one byte at a time; `graceful_close_loses_data` the same, with
both bytes in one send().

Why these bounds: one message of two bytes with a one-byte kernel buffer gives
partial sends, a full kernel and a queue that is not empty when the connection
ends. A pipe of one or two tokens is full in most runs, as a 64 KiB pipe is only
after 65536 messages. Three calls are enough to process, send and close while a
second thread closes, four to process, connect again and process again, which is where
Process finds the thread object of the earlier connection still joinable. What a
third thread could add to the properties of `connection_reconnect` is covered by the
theorems, which have no bound.

### Fairness

`FairSpec` assumes that the processor runs when it can (weak fairness of
`ProcessorStep`), that a call that has begun goes on, and that the network delivers
what the kernel holds (`PeerReceives`). The calls need strong fairness because after the
peer has closed its side the socket is always readable: select() returns at once,
recv() is skipped, and the processor takes and drops the mutex for ever, so a thread
that waits for the mutex is enabled again and again but never continuously. A
`std::recursive_mutex` does not promise more than the operating system's
scheduler; that it lets a waiter in eventually is an assumption. No fairness is assumed of
`SelectFails`, of new calls, or of what the peer sends, closes or resets.

`StopIsObeyed` is checked with one socket: if another thread's Connect has created a
socket and not yet made it non-blocking when the old processor gets from
select() to recv(), that recv() blocks with the mutex held until the peer sends.

### NetworkConnectionWin32

The public methods and the processor's loop have the same shape on Windows, so the
module extends `NetworkConnection` and defines again what differs; `winsock` is added
to its state. What wakes the processor is different in kind:
`processorStateChangeEvent` is an auto-reset event, that is a `PipeSignal` with one
token which the wait itself consumes, and the socket sets a second event
(WSAEventSelect) once for each kind of happening, until the recv() or send() that
enables it again. A wake-up that is consumed and not acted upon is gone, where
select() would report the same again. `Notice` is Winsock's rule; `NothingLeftAsleep`
says that the loop lives with it: when it sleeps with neither event set, nothing is
left that nobody will set an event for. That holds of a Close(true) made before
Process, too, which POSIX forgets: tying a writable socket to the event sets it.

The property has one exception, `winsock.partial`: Winsock enables FD_WRITE after a
*refused* send(), so after one that took only part of the bytes (line 269 drops that
part from the queue and the loop goes to sleep) nothing wakes the processor for the
rest. Whether a Windows socket ever does take part is up to Winsock.

`connection_win32` has one user with three calls, one socket, a two-byte message and a
one-byte kernel buffer; fairness is that of the POSIX module, without the network.

## DataQueue

`elements` and `totalBytes` are the members; `running` is the one call in progress
(`Impl::Dequeue` with the two flags that make it Dequeue, Peek or Drop), and each
pass of its loop is `TakeElement` (an untouched element that is exactly what is
wanted) or `TakeBytes`. `ByteQueue` is what the header promises. The refinement
maps the abstract content to what the queue held when the last call returned, so
that a call takes effect at its return, and bytes are numbered so that a wrong,
repeated or missing one shows. `Consistent` says that the total is exact and that
the loop, which is bounded by the total, never runs past the last element. The run
has five bytes in buffers of 0 to 3, four elements at once, and requests of 0 to 3
and 6: less than an element, an element, across elements, and more than there is.

## NetworkEndpoint

`impl` is the mode and the delegates, which `NetworkEndpoint::Open` stores before it
calls `Impl::Open`; `platform` is `struct Platform`, `loop` the processor thread and its
locals (`readable` and `signaled` are what the last select() left in the descriptor
sets, which a pass that does not wait uses again), `call` where the owner is in Open,
Close or the destructor, `kernel` the socket. Sockets, and the delegates that came
with them, are numbered by the Open that made them; packets by the SendPacket that
queued them.

Open is `Open` (stores its arguments), `StopProcessor`, `Wake`, `Join`, `CloseSocket`,
`CreateSocket`, `PrepareSignal` and `StartProcessor`, each with its failures; Close and
the destructor are the middle part of it. SendPacket is one step, under the mutex.
The processor takes the mutex (`TakeMutex`), tests its loop condition (`TestLoop`),
sleeps (`Select`), receives (one action per outcome of accept() and recvfrom()),
calls a delegate, and sends (one action per outcome of sendto()); after an error it
closes the socket itself and ends (`GiveUp`). It holds the mutex from one to the next of
these except around select(), delegates included, as `processingMutex` shows.

Preconditions, as the interface implies: one thread, the owner, calls Open, Close
and the destructor, not from a delegate (the processor would join itself), and
nobody calls SendPacket once the destructor has begun. A Close of an endpoint that is
closed does nothing and is left out. `processorStop`, the delegates and the mode are
read and written by two threads without a common lock; each access is one step.
accept() has Linux's behaviour: a client that goes away stays in the queue, so the
blocking accept() after select() does not wait.

The run `endpoint` has two Opens in any of three modes (on POSIX multicastReceive is
datagram mode with other socket options), two packets from two threads
or from a delegate, two arrivals and a pipe of two tokens (377 thousand states). Two
Opens are what a stale packet, a stale delegate or a stale thread takes; two packets
give the pass that does not wait, a full socket with one more behind, and a packet
left over for the second Open; the pipe fills when two packets and a stop are
signalled. Fairness: the processor, a call that has begun and the network go on.
Weak fairness is enough, because Open, Close and the destructor never take the mutex and
nobody but the processor keeps it from one step to the next, so no step that fairness
is about is disabled by others again and again. No fairness is assumed of SendPacket,
of other new calls, or of arrivals.

What the properties allow, and a reader should know: a packet not sent before Close is
sent by the next Open (the Windows implementation clears the queue). If that Open is in
connection mode, sendto() on the listening socket fails when the first client comes
and the listener ends, after that one client. An Open without a Close reports what
still arrives on the old socket to the new delegates; that the old processor may then try
accept() on a datagram socket, where it fails, is left out.

### NetworkEndpointWin32

The events are those of `NetworkConnectionWin32`. Each wake-up takes one client or one
datagram and sends one packet, whatever came; the rest must be noticed again. Which
events Winsock is asked for depends on the mode (`AsksForIncoming`, `AsksForWrite`):
a multicastReceive socket has FD_READ without FD_WRITE
(`NetworkEndpointWin32.cpp:216`), so nothing tells its processor that there is room
again. A packet whose sendto() was refused there, or which was queued before Open, waits
until something else wakes the processor (`Stranded`; `winsock.waiting` records the two
cases). `NothingLeftAsleep` says that everything else is noticed, and
`PacketsAreSentUnlessStranded` that packets leave. The run has
the bounds of `endpoint`, and all four modes. Close empties the queue after the join, without the lock:
a SendPacket of another thread at that moment is a data race, which the model takes
as one step before or after. Packets queued before Open on a listening endpoint
stay queued with the processor asleep, which harms nobody, as they could not be sent.

## DiagnosticsSender

`sender` holds each Impl's subscribers, next token and `minLevel`, `mutex` who holds each
`std::mutex`, and `stack` the calls a thread is in: a message passed on through Chain
is a call within a call, with the outer call's mutex held. Steps are the reads of
`minLevel` outside the mutex (`Test`, twice for the formatted variant), `Lock`, one pass
of the loop over the subscribers (`Skip`, `Deliver`, `DeliverChained`), `Unlock`; Subscribe is
one step; the unsubscribe delegate is `Unsubscribe`, or `UnsubscribeLeast` and one
`Recompute` for each remaining subscriber when it has to compute `minLevel` anew,
because publishers can read `minLevel` between those passes.

Preconditions: the senders are chained without a cycle, each is chained to another one
at most once at a time, subscribers return and call no sender themselves (the
mutex is not recursive), and a sender is not destroyed inside one of its methods.
Contexts (Push, Pop, DiagnosticsContext) change only the text and are left out.

`diagnostics_senders` has one sender chained to another, two threads, two levels, two
subscriptions of the inner and one of the outer, two messages (353 thousand states,
the threads being interchangeable): two messages from two threads show an order, two
subscriptions with one level each show whether `minLevel` goes up when one leaves, and a
chain of two what is locked inside what. There is no liveness run: `NoCircularWait` says
that some call in progress can take its next step, and every call has finitely many.

## Subprocess

`call` is where the thread of each object is in StartChild, StartDetached or the
destructor, `impl` the object (its pipe, whether the worker is joinable), `monitor` the
worker thread, `writeEnds` the write ends the parent has open, and `process` the started
processes: their state, the write ends they hold and whether they have written into
their own. Pipes and the processes at their ends have the same numbers. The steps are
single system calls, because what goes wrong lies between them: a child inherits every
write end that is open at its fork(), and `CloseOthers` (CloseAllFilesExcept) may close
nothing when it cannot list the descriptors; on Windows it keeps what it inherits.
pipe() and fork() may fail, exec (`End` of a `running` process without a token) too, and
a process may die at any moment. `sigint` is the one handler of SIGINT; a monitor saves
it and restores what it saved.

Left out: the command line, a detached process that itself keeps a pipe open, an object
in the role of a child that starts children, and waitpid() interrupted by a signal
(line 134 of `SubprocessPosix.cpp` ignores its result).

The run `processes` has two objects and two children, started in either way, on either
platform (52 thousand states). Two of each are what an inherited pipe and overlapping
monitors take, and one object with two children what a handler restored too late
takes. Fairness: every thread runs, and processes end; nothing is assumed of Kill or of
new calls.

`InterruptsIgnoredWhileMonitored` holds until the monitors of two objects overlap, which
`overlap` records. After that it does not: the second saves the handler of the first,
and if the first is restored first, the handler that stays is the monitors' own and
the application never sees SIGINT again (lines 116 and 135).

## DirectoryMonitor, Service and Program

`DirectoryMonitor` has the owner's call, `impl` (joinable, the signal to stop), the
worker, and `watch`, the operating system's side, which differs: inotify queues,
kqueue gets its watch from the worker's first kevent() and tells of entries only,
Windows has an event that the worker renews after the callback. `Service` has Main (or
ServiceMain), the poller that turns the flag of the SIGTERM handler into a call of
Stop, and the control handler of Windows; on the Mac Main is a stub.

`Program` composes them: Run of the service starts, restarts and stops a monitor and
returns once told to stop. What they share is signals: SIGTERM, and SIGINT while a
`Subprocess` monitors a child, run their handlers on any thread, and on that of the
monitor's worker they end its wait (`Interrupted`). The run has four changes and two
requests to stop; four changes are one before, during and after a callback and one for
the next Start. Fairness: the worker, the poller and a call that has begun run, and the
application's Run returns promptly once told to, as `Service.hpp` asks. A signal that
interrupts the worker ends it for good, without a word to anyone.

`DirectoryMonitor.hpp:48-50` promises a callback for every change
(`EveryChangeIsReported`), and the code does not keep that. `ChangesAreReported` names
the exceptions one by one: a worker that has ended by itself (`history.broke`) and, on
the Mac, a change of a file's content, which kqueue does not tell of a directory, and a
change before the worker's first kevent(). `history.owed` records every change on every
platform; only the property makes the exceptions.

## Files

`ByteFile` is what `IFile.hpp` promises: each object has an array of bytes and a
position of its own, and every operation is a single step that says which it was and
what it returned (`got`). On disk the arrays belong to the path, or belonged to it, and
objects share them; in memory every object has its own. Nothing but its operations
changes an array that a path leads to or an object has; one that is created again is
empty. Of a clone `IFile.hpp:177-178` says that it has the same file. Two operations
are exceptions to that, and are stated as such: `CloneReopens`, when the path has been
removed, and `CloneCopies`, StringFile's, which copies bytes and position as its tests
expect.

`FileHandle` has the objects that implement it: File objects at one path, on either
platform, or a StringFile and its clones. Methods that move the position and restore
it (Peek, GetSize on POSIX, SetSize on Windows) are several steps, with the other
object's in between. What a single read(), write() or ftruncate() does to a file is the
system's, and is taken from `ByteFile`; StringFile's own arithmetic is translated from
its source (`AmountCopied`, `CopiedOut`, `Resize`, `Grown`, `CopiedIn`, `Erased`).
`ImplementsByteFile` is the refinement: every method is one step of the operation of its
name with the same result, a failed one does nothing, and the position of an object
that is between two system calls is the one it will restore. Two objects, two files (one
at the path, one whose path is gone), two values of a byte, positions and sizes up to 2
and `Space`, 2 bytes in all files together.

`FileTree` has CreatePath, DeleteDirectory and CopyDirectory as stacks of frames, one
system call for each step, each of which may fail; between them another process may
make a directory. A behaviour is one call: what earlier calls and other processes
have left is in the initial trees. Links on the way of the paths given are followed when
the call begins (`Place`, `Entered`), those met in a walk when they are met: a directory
is listed, and copied to, through a link. The trees have files, links to files, to
directories and to nothing, a directory with a file in it, a link to a directory that
has a link to another, and, where the copy goes, nothing, a directory with a longer file
or a link in the way, a file, a link to a directory, or a directory with a link to
one or to nothing where a subdirectory belongs (`TreesToCopyThrough`). `MaxFailures`
is 1, `MaxOthers` 1.

`StaysInside` holds at every moment of a call, and so when it fails half way. What links
lead to is taken from the tree before the call; on Windows deletion goes on from what a
link leads to, through the links there (`LinkedFrom`). A copy writes files through links
to files. Where a link in the new directory leads to anything else (`Shared`), whole
directories are copied through links, perhaps through one that the call itself has
copied, and the property then speaks of the links there are at the time. `TrueMeansDone` has a part for
each kind of call: `Made`, `Gone` and `Arrived`, the last for directories that are
`Apart`: what is copied through links does not fall on the source or on another copy.

`FileSystem` has both and does not interleave them, as they have nothing in common;
objects and files are interchangeable. The view leaves out `got`, which no action reads;
the refinement is a property of steps, and TLC evaluates it for each one, also for a
step to a state it has seen (133 thousand states).

The exceptions in `StaysInside` and `TrueMeansDone` are the code's, each found by a
counterexample; the list of divergences below has them all.

## Findings

One run is expected to fail, because the interface and a test promise what the code
does not do:

- `GracefulCloseDelivers` (`src/Posix/NetworkConnectionPosix.cpp:260`). With
  SO_LINGER on and zero, the close() that follows shutdown() at once when the peer
  has already closed its side throws away what the kernel has not delivered.

### Four more properties that fail

They are stated in the modules and checked by no run; add them to the configuration
named and TLC shows how they fail.

- `GracefulCloseNoticed`, as an INVARIANT in `MCGracefulCloseLosesData.cfg` (lines 143
  and 297). A Close(true) made before Process is not acted upon: its wake-up is lost or
  cleared.
- `ProcessedIsServed`, in `MCReconnect.cfg` (line 127). After a second Connect, Process
  returns true without starting a thread. `ServedUnlessReconnected`, which that run
  checks, says that this is the only way a processed connection is left unserved.
- `DeliveredWhileSubscribed`, in `MCDiagnosticsSender.cfg`
  (`src/DiagnosticsSender.cpp:180`). A message published while somebody else
  unsubscribes can be dropped for everyone, because `minLevel` is at its maximum for a
  moment and is read without the mutex. Nothing else makes a subscriber miss one
  (`MissedOnlyWhileRecomputing`).
- `EveryChangeIsReported`, as a PROPERTY in `MCProgram.cfg`. The header promises a callback
  for every change (`DirectoryMonitor.hpp:48-50`) and the tests expect it of each kind
  (`DirectoryMonitorTests.cpp:142-149`, 205-212, 295-302). An interrupted worker, a
  change of content on the Mac, and one before the first kevent() there, are not
  reported; nothing else is lost (`ChangesAreReported`).

### Noticed while modelling

What follows is what the code does and the models, within their bounds, do too,
unless it says that they leave it out.

- `NetworkConnection`. After Close(false) has returned, one message or end of stream
  already read may still be delivered, because the mutex is dropped before the delegate
  is called (line 199). Connect resets none of the flags, nor the queue (line 63).
  `nfds` is computed once (line 151); in the model, as with the kernel's lowest free
  number, a new socket has the descriptor of the old one.
- `NetworkEndpoint` on Windows. A multicastReceive endpoint that also sends may keep
  packets until something arrives (`Stranded`, above).
- `PipeSignal.hpp:18` calls the signal level-sensitive, but Clear removes one token of
  possibly many, so select() may return again with nothing to do; that costs a pass of
  the loop and nothing else.
- `Subprocess`. A failed exec is reported as a crash, and StartDetached returns a
  process id although nothing may have been executed. While another process holds an
  inherited write end, a crash is not reported; on Windows that lasts as long as that
  process. The thread handle of CreateProcess is never closed (left out).
- `DirectoryMonitor`. An interrupted wait ends the worker (above), and so does a
  FindNextChangeNotification() that fails. On the Mac a change before the worker's first
  kevent() is not seen, and neither is a change of a file's content.
- `Service`. Stop may be called before Run has begun and after it has returned. On
  Windows Main returns EXIT_FAILURE when the dispatcher has succeeded and EXIT_SUCCESS
  when it has failed, and never what Run returned (`Service.hpp:44-46`). A second Main
  would set a promise twice (left out).
- `CreatePath` returns true for a path that is a file, and false when another process
  makes the directory between its two attempts, or when a link on the way leads to nothing.
- `DeleteDirectory` returns true on POSIX when the directory cannot be listed. A path
  that is itself a link loses what the linked directory holds. On Windows directories
  behind links are emptied with it.
- `CopyDirectory` returns true for a source that does not exist. On POSIX it does not
  truncate a file that is in the way, takes an error of read() for the end of the file,
  and reads links into a buffer that it neither terminates nor clears, so that a shorter
  target keeps the tail of the one before. Files are written through links that are in
  the way, and so are whole directories through links to directories. A directory copied into itself never ends (left out). An empty directory
  copied onto a file returns true.
- In both, an error of readdir_r() or FindNextFile() is taken for the end of the
  listing; returning in the middle leaks the listing (left out).
- `StringFile::Clone` copies the bytes, where `IFile.hpp:177-178` speaks of the same file.
  A read-write clone of a File whose path has vanished makes a new file.
  On POSIX GetSize returns 0 when lseek() fails, which cannot be told from an empty file.
  `StringFile::Write` and Remove compute with `size_t` without looking for overflow (left
  out; the model's positions are small).

## What is proved

### NetworkConnection

`NetworkConnectionProofs` proves every safety property of the module that the runs
check, for any set of threads, finite or not, and any bounds. The assumptions are the two named ones, `ConnectionAssumption`
and `PipeCapacityAssumption`: sizes are naturals, the buffers are not empty, the
pipe holds a token, and the processor is not an application thread.

`TypeOK`, `LockDiscipline`, `BrokenExactlyOnce`, `ReportedSocketsAreClosed` and
`ImplOutlivesItsThreads` are proved together, because none of them is inductive alone. `IInv`
adds to them

- `CallsInv`: which steps belong to which method, that Connect, Process and the
  destructor exclude one another, and that the processor exists only from the
  Process that starts it on. Without it a second thread could be started by
  Process and enter the loop while the first holds the mutex, and Impl could be
  destroyed under a call.
- `SocketsInv`: the descriptor is closed or the latest socket, sockets owed a
  report are earlier or closed, a Connect between its close and its socket() sees
  no socket, and the loop reaches its end with one. Without it the socket being
  closed might already have been reported, and its second report would break
  `BrokenExactlyOnce`; with it (`OpenSocketUnreported`) an open socket has no
  report, made or pending, so the one who closes it is the only one who owes one.

The step is then split by who moves (new calls, calls going on, the processor, the
peer), and for the last two conjuncts by what a step does to the sockets:
`QuietStep`, `SilentDisconnect`, `OwingDisconnect`, `ReportStep`.

The other properties have an inductive invariant each, beside `IInv`:

- `NoLostWakeup` has `WakeInv`: the pipe exists from before the thread does, so that
  Set is not lost; while the loop sleeps, data that came after it built the descriptor
  sets has left a token, and a request to stop has left one or its thread is in Wake;
  from the loop's condition on, a graceful close not yet acted upon has a token too,
  unless it was made before there was a processor (`log.early`).
- `EndOfStreamIsLast` has `StreamInv`: when the end of the stream is reported, or is
  about to be, `peerClosed` is set, and then recv() is not called any more; Connect
  does not reset it.
- `SentInOrder` has `BytesInv`: with it, that a socket carries nothing until Connect has
  established it. The steps are by what they do to the three sequences (append to
  the queue, move a prefix to the kernel, move the first byte to the peer, drop what
  the kernel has), each a lemma on sequences of consecutive numbers.
- `ServedUnlessReconnected` has `ServedInv`: before there is a processor no thread has been
  spawned and none is joinable or told to stop; no thread was spawned for a socket that
  is yet to come; and while an open socket has its own processor told to stop, a
  thread is on its way to close it (in `wake` or `lock`). It is proved for any number of
  connections.

TLC finds all of these to be invariants of the instances of `connection_threads` and
`connection_reconnect`.

### NetworkConnectionWin32

`NetworkConnectionWin32Proofs` proves `NothingLeftAsleep`, and that `TypeOK`,
`LockDiscipline`, `BrokenExactlyOnce`, `ImplOutlivesItsThreads`, `EndOfStreamIsLast` and
`SentInOrder` hold of the Windows implementation too, from the same assumptions and
`AutoResetAssumption` (an event is a pipe with one token). Most steps are those of
the POSIX module and use its lemmas (`SharedCalls`, `SharedSteps`); what is new are
Process, which ties the socket to the event, the wait, and recv() on an end of stream.

`NothingLeftAsleep` is about a state of sleep, and nothing in it is inductive: an event is
disabled when it is set, and the proof is that whatever is not enabled is then either
in the event, or being acted upon by the loop, or has been remembered. `WinInv` says so,
of the socket that is open and tied to the event, for each kind of happening:

- `Enabled`: what is enabled has not happened yet. Notice keeps that (`NoticeEffect`),
  as every step that makes something happen ends with it;
- `Incoming` and `Ending`: from send() round to the wait, FD_READ and FD_CLOSE are
  enabled, or the event is set, or the end of the stream has been seen. The loop calls
  recv() after every wake-up, whatever it was for; that is what makes it true again;
- `Outgoing`: from the end of a send() to the wait, data left in the queue means that
  FD_WRITE is enabled or one of the events is set, with the exception of
  `winsock.partial`;
- `Stopping`: a graceful close with an empty queue has been acted upon, or an event is set;
- `Sleepy`: a request to stop has its token, or a thread about to set it;
- `Beginning` and `Latest`: before there is a processor nothing has been sent or seen,
  and the tied socket is the latest one or has been closed. So Process, which ties
  an open socket on which nothing has been sent, sets the event at once.

TLC finds `WinInv` to be an invariant of the instance of `connection_win32`, and of one with
two sockets and calls from delegates.

### DataQueue

`DataQueueProofs` proves `Consistent`, and the refinement `Spec => ImplementsByteQueue`,
for any set of bytes, any buffers and any requests, from the assumption of the module.
The invariant, `QueueInv`, has the types and

- `Elements`: no more of a buffer has been consumed than there is of it;
- `Counted`: `totalBytes` is the length of what all the elements have left;
- `Waiting`: between calls nothing is in progress;
- `InCall`: during one, what it has taken so far is a first part of what was in the queue
  when it began, and what is ahead of the loop is the rest. Peek alone comes to a
  second element, as the others take the first away.

`Consistent` needs `InCall`, because the loop is bounded by a number that was computed
before it began: that there is an element on each pass follows from there being bytes
ahead. The return of a call is then `ByteQueue`'s step, as what was taken and what is
ahead are its `Front` and `Rest`, and every other step is a stutter. What the elements
have left together is `FlattenSeq`, which is defined by recursion over the sequence; instead of by
induction, which the prover cannot do with an operator, its equations are shown to have
one solution by looking at the shortest sequence for which they had none or two.
TLC finds `QueueInv` to be an invariant of the run `data_queue`.

### NetworkEndpoint

`NetworkEndpointProofs` proves every safety property of the module, for any number of
users, opens, packets and arrivals, from `EndpointAssumption` and
`PipeCapacityAssumption`: `TypeOK`, `SentInOrder`, `NoLostWakeup`,
`SocketOutlivesProcessor`, `ClosedIsQuiet` and `ReportedToItsOpener`. `EndpointInv` adds

- `Stages`: after the join no thread is joinable, from socket() on the descriptor is
  the new socket, and the thread is started with a signal that has a pipe;
- `Attached`: the descriptor is the kernel's socket, and a running processor is
  joinable, has that socket and a pipe, and belongs to the latest Open unless this one
  came without a Close. The pipe is what makes `NoLostWakeup` inductive: Set on a signal
  without one is lost;
- `Released`: what Close has left.

`CallTypes` and `ProcessorTypes` prove the types; `LifecycleStep` takes the actions one by
one for everything about threads, sockets and wake-ups; `QueueStep` is about the
packets, and rests on two facts about sequences: `AppendAfter` (SendPacket) and
`MoveHead` (Send). TLC finds `EndpointInv` to be an invariant of the run `endpoint`.

### NetworkEndpointWin32

The second part of `NetworkEndpointProofs` proves `NothingLeftAsleep`, and `TypeOK`,
`SocketOutlivesProcessor` and `ClosedIsQuiet`, of the Windows endpoint. `WinInv` keeps
`Stages`, `Attached` and `Released`, which hold of both, and adds that from the start of the
thread on its socket is the one tied to the event (`Tied`: what is enabled has not
happened yet), that FD_ACCEPT, FD_READ and FD_WRITE, when disabled, are in the event or being
handled (`Incoming`, `Outgoing`; `Stranded` packets excepted), that a request to stop is on
its way (`Stopping`), and that
a socket has the mode of the Open that made it (`ModeKnown`). A wake-up takes one client or
datagram and sends one packet; that nothing is left behind is because taking one
enables the event again, and Winsock then notices at once that there are more. The masks
are those of the code for each mode, in Open and when an event is enabled again.

### Subprocess

`SubprocessProofs` proves every safety property of the module, for any set of objects
and any number of pipes, from `SubprocessAssumption` (the bound is a natural): `TypeOK`,
`InterruptsIgnoredWhileMonitored`, `ReportedAsItEnded` and `NothingLeaks`. `IInv` adds

- `Joined`: only a joinable object has a monitor that runs, and a call that is past
  JoinChild and not detached is not joinable. So a new monitor replaces none that runs;
- `Saved`: as long as monitors did not overlap there is one, and it has saved the
  application's handler;
- `Holding`: the pipe of a call between pipe() and close() has been made, is that
  call's alone, and is open until fork();
- `Started`: who is monitored has been started, and a process that has not ended holds
  its own write end. Hence a pipe that is broken has no living process at its end,
  whoever else inherited it, which is why a crash is reported of the dead only;
- `Owned`: `NothingLeaks`, with the platform on which an object without a monitor may
  hold a pipe.

The `Types...` lemmas prove the types, `Interrupts...` what each kind of step does to the
handler, `Pipework...` what it does to the pipes and processes.

### Program

`ProgramProofs` proves `NoCallbackAfterStop` and `StopCalledOnce` for any number of
changes and requests, from `ProgramAssumption`. The first needs that without a
joinable worker the watch is closed altogether, so that no change can arrive; the
second that the poller exists only from SpawnPoller on. A step of one part leaves the
variables of the other alone, except a SIGTERM whose handler runs on the monitor's
thread.

### DiagnosticsSender

`DiagnosticsSenderProofs` proves every safety property of the module, for any finite
set of senders, any acyclic chains among them, and any numbers of threads, levels,
subscriptions and messages: `TypeOK`, `MinLevelIsLeast`, `MissedOnlyWhileRecomputing`,
`IteratorsStayValid`, `SameOrder` and `NoCircularWait`. The assumption is
`DiagnosticsAssumption`: levels are numbers up to a maximum, a sender is chained to one
further along, and there are finitely many senders. `Rank` is how far along a sender is.

The properties need one another, and all of them what the calls on a thread's stack
look like. The parts of `IInv`:

- `Subscribers`: tokens are not used twice, and a sender has at most one subscription
  that is a chain;
- `Calls`: a thread's stack goes from sender to sender along the chains on behalf of one
  message, all but the innermost call being in the loop over the subscribers;
- `Mutexes`: a call in that loop has its sender's mutex and whoever has a mutex is in
  such a call (or recomputes). `IteratorsStayValid` follows, since Subscribe and the
  unsubscribe delegates need the mutex to change the map;
- `MinLevels`: during a recomputation minLevel is the least level of those visited, else
  of all, which is `MinLevelIsLeast`;
- `Dues`: who was subscribed when a call began, still is, and has not been called, has yet to
  be visited, or the call read minLevel during a recomputation;
- `Published`, `Visits` and `Order`: a message is on one thread, and has been received by
  subscribers of the senders on that thread's stack, as far as the loops have come,
  and of those further along. For `SameOrder` one has to know that while a message is
  delivered at a sender no other has been received after it, there or at the sender it
  is chained to, which is so because the mutex of the one is held while the other is
  called.

The proof has two stages. The lemmas named `...Effect` say once what an action does to
subscriptions, mutexes, stacks and history, and `Steps` sorts the actions into a
handful of kinds; the lemmas named `...Stay` prove one part of the invariant each, over
these kinds. `NoCircularWait` follows from `Calls` and `Mutexes`: of the threads in a
call, take one whose innermost sender is furthest along the chains; who holds the
mutex it waits for is in the loop of a call to that sender, has gone no further, and
so is not waiting.

### FileHandle

`FileSystemProofs` proves the refinement: `Spec => ImplementsByteFile`, for any objects,
files, bytes and sizes, from `FileSystemAssumption`. It begins with StringFile: that its
comparisons and loops come to `ByteFile`'s operators, for all bytes, positions and
amounts, at and past the end too (`ReadsRegion`, `ResizesAlike`, `WritesAlike`,
`ErasesAlike`, used by `Remove`). `HandleInv` has the types; that a method between two of
its system calls still has the file it began with (`Holds`: nobody closes an object during
a call on it); and that nothing is left in a file that no path leads to and nobody has
(`Owned`), without which a file created again might hold old bytes. Then one step is
one operation of `ByteFile`: each method that of its name, a call that fails `Failed`, and
moving the position in order to restore it a stutter, because what the abstract object
has for its position is the one to be restored. The steps of the calls on directories,
which leave the handles alone, are stutters.

### FileTree

`FileSystemProofs` also proves `StaysInside`, for any paths, trees, calls, failures and
directories made by others, from `TreeAssumption` and `CallAssumption`: paths are sequences
of names, what is in a directory of the tree at the start has that directory above it,
and calls are, once links are followed, on paths there are. `TreeInv` has the types and

- `Framed`: where each frame on the stack may work. The frames of a deletion are inside
  the directory or, on Windows, inside what its links lead to, one after the other
  (`Inside`); those of a copy have their new directory inside that of the call or, where
  a link there led to something other than a file (`Shared`), in reach of the links there
  are (`Reached`);
- `Confined`: what has changed was made by others or is where the call may work, which
  is `StaysInside`;
- `LinksBehind` and `Divided`: a link that was not there before the call has been copied
  by it, and no frame has still to copy to its place, as no two frames ever copy to the
  same one. So what is written through a link was foreseen by the tree at the start,
  and the new links change nothing. Without this pair `Confined` is not inductive:
  a copy could go through a link it has made itself. In the `Shared` case it can, the
  pair says nothing, and what is in reach of the links only grows, because a copy writes
  only where there was nothing or a file (`Keeping`);
- `FilesStay`: during a copy what was a file is one, so a link to a file leads to no
  directory later.

Each step replaces the frame on top by others with less to do; `Proceeding` says once
what of `TreeInv` that preserves. Links inside what links lead to came to light in this
proof: an earlier `StaysInside` allowed for one link only, and was false on Windows.

`TrueMeansDone` is proved for every call but a copy with links or into itself
(`TrueIsDone`). For making and deleting, `Answered` says that the last frame has done what
the call was for when it returns. For copying, `CopyInv` adds `Progress`:

- `SourceKept` and `PlacesKept`: the source is as it was, but for directories that others
  make in it, and in the new place there is what there was, a directory, or the copy;
- `Owed`: everything that is to arrive has arrived or is owed by a frame: by the one that
  makes its directory, by one that has yet to list, or that has it, or what it is in,
  among the entries to do;
- `AllMatched`: a frame copies from the place its new directory corresponds to.

This holds as long as the copy is on its way or has returned true, no error was taken for
an end (`failures.misread`), and `Plain` holds: neither directory is in the other, no
link is in them before the call, and there is a path for each copy. Without `Plain`
`TrueMeansDone` is false for some trees: two entries may be links that lead to, or be
copied through links onto, the same file, or onto a file still to be copied.

### Only model-checked

- Liveness under fairness (`StopIsObeyed`, `QueuedBytesArrive`, `GracefulCloseEnds`, both
  `EndsAreReported`, `EndOfStreamIsReported`, `CallsReturn`, `PacketsAreSent`,
  `PacketsAreSentUnlessStranded`,
  `ChangesAreReported`, `RequestsAreObeyed`) and ENABLED are out of the prover's reach.
- `TrueMeansDone` for copies that are not `Plain`: the run `files` has trees with links,
  where it holds, for the two platforms. It does not hold of all trees (above).

## Not modelled

- Contexts of diagnostics (PushContext, PopContext, `DiagnosticsContext`): they change
  only the text of messages. That threads pop each other's contexts is listed as a
  hazard.
- `DiagnosticsStreamReporter`, which formats and prints; `Time`, `TargetInfo`,
  `CryptoRandom`, `Clipboard`, `DynamicLibrary`: one system call each, or a stub.
- Of `File`: Move, the queries and the well-known directories, each one system call;
  copying and converting a `StringFile`.
- Of `Subprocess`: GetProcessList and GetCurrentProcessId; of the sockets: addresses,
  ports and GetInterfaceAddresses.
- Calls the interfaces do not allow: Close, Stop or a destructor from the object's own
  callback (the thread would join itself), senders chained in a circle, a subscriber
  that publishes on the sender that calls it.

## Running

    tlc -workers 2 -config MCNetworkConnection.cfg MCNetworkConnection.tla
    tlc -workers 2 -config MCSubprocess.cfg Subprocess.tla
    tlc -workers 2 -config MCFiles.cfg MCFiles.tla

and so on with the modules and configurations of the table of runs;

    tlapm NetworkConnectionProofs.tla
    tlapm NetworkConnectionWin32Proofs.tla
    tlapm NetworkEndpointProofs.tla
    tlapm DataQueueProofs.tla
    tlapm DiagnosticsSenderProofs.tla
    tlapm SubprocessProofs.tla
    tlapm ProgramProofs.tla
    tlapm FileSystemProofs.tla

A definition whose comment begins with "Faulty variant" is no part of the
specification: it is the mutant with which the property named in `PROJECT.json`
must fail.
