# Verification of the AESD character driver and socket server

TLA+ models of the AESD assignment code: the kernel driver in
`src/aesd-char-driver`, the socket server in `src/server` that uses it, the
service that starts and stops both, and the two examples with processes or
threads.
TLC checks the models on small instances; TLAPS proves the results that matter
most for every value of the constants.

## Inventory

| part | state it keeps | operations | how it meets the others |
|---|---|---|---|
| circular buffer (`aesd-circular-buffer.c`) | array of 10 entries (pointer, size), `in_offs`, `out_offs`, `full` | init, add an entry, find the entry of a byte position | called by the driver under `dev->lock` |
| character driver (`main.c`) | `struct aesd_dev`: the ring, the block collecting a packet and its size, the total size, the mutex; kernel memory; `f_pos` of each open file | module init and exit, open, release, read, write, ioctl, llseek | called by tasks through the kernel's file layer, which copies `f_pos` out and back without the driver's lock |
| socket server (`aesdsocket.c`) | list of threads with a completion flag, one shared descriptor of the device or file, `complete_exec`, a mutex and a timer in the file build | accept loop, a thread per client (receive a line, write or seek, replay), timestamp timer, signal, clean-up | threads share the one open file; the signal handler sets a flag all of them poll |
| service scripts (`aesdsocket-start-stop.sh`, `aesdchar_load`, `aesdchar_unload`) | the loaded module, the device node, the daemon | start, stop | load the module before the daemon, unload it before the daemon is gone |
| writer and finder (`finder-app`) | none between calls | write a file, count matches | none |
| thread example (`threading.c`) | a mutex, a `struct thread_data` for each thread | start a thread; wait, lock, wait, unlock | the caller joins a thread and frees its data |
| system call example (`systemcalls.c`) | a child process, the output file's descriptors | `do_system`, `do_exec`, `do_exec_redirect` | none |
| build, image, tests | none | | none |

What is hard here: the returned pointer of an overwritten entry (it aliases the
new one), the wrap of the ring, positions computed in one step and stored in a
later one, packets collected from several writers with failing allocations in
between, a byte count in a `char`, error paths under a lock, and in the server
several threads on one file position, a list that threads leave while main walks
it, and shutdown while clients are still connected. `PROJECT.json` lists each
hazard at its line.

What makes each part correct:

- buffer: it holds the latest entries in order and the search sees their
  concatenation;
- driver: readers get the packets as written, memory is owned once, positions
  stay in the data, seeks land where they say, every call returns;
- server: each client gets the data with its line, no thread or memory is lost,
  and a signal ends the process; a line is what was received, in bounds;
- service: after a stop nothing is left, and a start works again;
- thread example: success is said only by a thread that has released the mutex;
- system call example: success is said only of a command that ran, and neither
  child nor file is left behind.

## Modules

| module | models |
|---|---|
| `AesdCircularBuffer` | the C functions of the circular buffer as operators on a buffer value (no variables) |
| `CircularBufferSpec` | the buffer as a state machine: any sequence of `add_entry`, and what a search must find |
| `LatestWrites` | abstract: the log of the latest `Bound` entries |
| `MCCircularBuffer` | TLC instance of the buffer: its entries and the positions searched for |
| `AesdChar` | the driver, its callers and the file layer, and the mapping to `AesdDevice` |
| `AesdDevice` | abstract: a device of packets with no buffers, offsets or memory |
| `MCAesdChar` | TLC instances of the driver |
| `AesdServer` | the server: main, thread list, client threads, timer; both builds |
| `RecvLine` | the receive loop of one client thread and its storage buffer |
| `AesdService` | the start, stop, load and unload scripts, the device node, the daemon's use of it |
| `Threading` | the thread example and its caller |
| `SystemCalls` | the system call example: caller, child, command, descriptors |
| `MCPrograms` | TLC instance of the four parts above, each on its own |
| `AesdCircularBuffer_proofs` | lemmas about the buffer's operators |
| `CircularBufferSpec_proofs` | theorems about the buffer |
| `AesdChar_proofs` | theorems about the driver: types, memory, the lock |
| `AesdCharData_proofs` | theorems about the driver: entries, total, positions, seeks |
| `AesdDevice_proofs` | the driver implements `AesdDevice` |
| `AesdServer_proofs` | theorems about the server: types, replies, lines |
| `AesdServerThreads_proofs` | theorems about the server: threads, list, connections, the device's position |
| `Programs_proofs` | theorems about the receive loop, the thread example, the service and the system calls |

### How the driver's state and actions correspond to the code

A call is several steps. `CallRead`, `CallWrite`, `CallIoctl` and `CallLSeek`
are the entry through the file layer, which copies `f_pos` of the open file
into the call's `loff_t` (`pos`); the handler's part under `dev->lock` is one
action per outcome (`ReadData`, `ReadFault`, `ReadEnd`, `ReadHole`,
`WriteNoMemory`, `WriteFault`, `WritePartial`, `WritePacket`, `IoctlSeek`,
`IoctlInvalid`); `StorePos` is the store of a position into the open file after
the lock is released, by the file layer (read, write), the ioctl handler or the
llseek helper. Other tasks run between these steps. A locked part is one action
because every access to the data it touches is under the same mutex, with one
exception: `aesd_llseek` reads `circ_total_size` without it, so the overwriting
write, which updates the total twice, is two actions (`WritePacket`,
`WriteFree`) with `lock` held between them.

Data are abstracted to what the properties tell apart: a byte is the number of
the write it came from, a block of memory is named by the write that allocates
it, and a pointer to an entry is its slot, so that the pointer returned for an
overwritten entry refers to whatever is in that slot when it is used. A write in
front of its block, after `cb_size` has gone negative, is the end of the model
(`Allocate` is not enabled).

Numbers keep their types. `cb_size` wraps as a `char` (`ToChar`), sizes and the
total as a `size_t` (`ToSize`), the sum of `aesd_unlocked_ioctl` as the `int fpos`
it is kept in (`ToInt`, `Fpos`), and positions as a `loff_t` (`ToLoff`). So a
packet of 128 bytes, whose size becomes a huge `size_t`, makes an ioctl behind it
leave a negative position in the open file, and makes the end of the data that
`aesd_llseek` passes on negative, so that every seek is refused (`DataEnd`). The
file layer refuses reads and writes at a negative position, and those that
reach past the largest `loff_t` (`Accepted`); `TypeOK` says that none runs there.

### How the server's state and actions correspond to the code

`AesdServer` names a connection, its list node and its thread by the client.
`main` says where main is: at `accept`, in `ll_clean` (`clean`, with the C
pointers `head`, `next`, `current`, `previous`), in `pthread_join` (`join` for
a client's thread, `timer` for the timer's), or at the end (`exit`; `abort` for
a return or a signal that ends the process at once). `thread` says where each
client's thread is. Every step that touches state another thread can see is an
action; what a thread does to its own buffers is not a step.

`FileBuild` chooses the build: it is a variable that `Init` sets and no action
changes, so that one run covers both. In the device build (`USE_AESD_CHAR_DEVICE`
is defined in the source) `write` and `read` are two steps each, the copy of
`f_pos` and the driver's part with the store, as in `AesdChar`; the device is
the sequence of at most `Capacity` lines, ten in the code, and a read takes one
of them into the thread's `read_buffer`, from which it is sent. The device may
hold lines before the server starts (`Earlier`). When it is full, the line that
is written pushes out the oldest and loses its own memory (`WriteEnd`; the run
`driver_overwrite` shows why), so that a `Hole` is left in its place; a read there
ends the replay and leaves the position where it is (`ReadFreed`). A seek chooses
any line or is refused. Lines of 128 bytes and the driver's failing allocations
are left to `AesdChar`. In the file build a line is written where the shared
position is, under the mutex; the timer's descriptor has a position of its own,
and a `Hole` is what a write beyond the end leaves.

Every call whose failure the code looks at may fail: in the set-up
(`StartNoTimer`, `StartFails`), in main (`AcceptFails`, `SpawnFails`,
`OpenFails`), in a thread (`ReceiveFails`, `WriteFails`) and in the timer
(`TimerFails`; `TimerWriteFails`, after which it goes on). `failures` counts them
up to `MaxFailures`; failing sends (`SendFails`) are not counted. Since nobody
looks at the result of `write`, a thread whose write fails replays all the same.

A signal is handled by main, which never sleeps in a call a signal would
interrupt except `pthread_join`, which restarts. `SIGPIPE` is not handled, so a
send on a connection that was reset ends the process (`SendKills`); the first
send after the client has gone may also only fail (`SendFails`). A send to a
client that does not read may wait for ever: nothing makes `SendLine` happen.

### How the other parts' state and actions correspond to the code

`RecvLine` has the variables of `thread_socket` that the receive loop uses. Byte
i of the line is the number i, memory that nobody wrote is `Garbage`, and a
`recv` returns any number of the bytes that are left, up to a chunk. `Collect`,
`CollectNoMemory` and `Complete` are the loop's three ways through a chunk.
`AesdServer` takes the line as one step (`ReceiveLine`): what happens in the loop
touches the thread's own memory only.

`AesdService` takes one step for each command of the scripts. The daemon is
reduced to where it is in its life and what it has open; it may leave its loop on
a failing call or die at any time. Scripts run one after the other, as an
administrator or `init` runs them, and beside the daemon. The file the daemon
makes is the one `open` makes with `O_CREAT`, also at `/dev/aesdchar`.

`Threading` has one action for each call of `threadfunc`, and `Fails` for the
failure of any of the four: a mutex that is held then stays held; `thread_data` is
the set of threads whose structure is allocated. `SystemCalls` has the caller and
the child as two processes after `fork`; `status` is what `waitpid` will report
and `open_fd` who holds the output file open besides descriptor 1.

## Runs

| run | instance | result |
|---|---|---|
| `ring` | 4 entries, sizes 0 to 2, any number of additions | passes: `RingInv`, `FindIsConcatenation`, refinement of `LatestWrites` |
| `driver_fill` | 2 tasks on one open file, 3 entries, 3 writes | passes: `ImplementsDevice`, `TotalIsSum`, `PositionInData`, `EntriesHoldTheirBytes`, `SeekLandsOnCommand` |
| `driver_memory` | 2 tasks, 2 entries, 3 writes, every allocation may fail, a `char` of 6 values | passes: `TypeOK`, `BlocksOwnedOnce`, `EveryCallReturns` |
| `driver_overwrite` | 2 entries, 3 packets | violates `ImplementsDevice` |
| `driver_seek` | 3 entries, 4 packets | violates `SeekLandsOnCommand` |
| `driver_long_line` | one packet of 128 bytes, an 8-bit signed `char` | violates `EntriesHoldTheirBytes` |
| `driver_no_memory` | a piece, a failed `krealloc`, a packet | violates `EntriesHoldTheirBytes` |
| `server` | both builds, 2 clients, a device of 2 lines that holds 1, a timestamp, failing sends, one other failing call, a signal | passes: `TypeOK`, `ThreadsHaveNodes`, `ListHoldsNodes`, `RewoundWhenIdle`, `ReplyIsWholeFile`, `ClientsKeepLines`, `ShutdownEnds` |
| `programs` | chunks of 2, lines of 1 to 7 bytes; 3 threads; any calls of the scripts; each system call | passes: `StorageInBounds`, `BytesInOrder`, `FullChunksMakeTheLine`, `SuccessMeansReleased`, `ThreadsEnd`, `NodeNeedsModule`, `FreshStartServesDevice`, `StoppedForGood`, `TrueMeansExecuted`, `NothingLeftBehind` |
| `line_gap` | chunks of 2, lines of 1 to 3 bytes | violates `LineIsWhatWasSent` |
| `server_replay` | device build, 2 clients | violates `LineComesBack` |
| `server_timer` | file build, 1 client, 1 timestamp | violates `LinesStay` |

Why the bounds are enough. The ring has no bound on additions: its offsets and
sizes are a finite state. `driver_fill` keeps to as many packets as there are
entries because the next one meets the finding of `driver_overwrite`; within
that, three writes with and without newline, of one and two bytes, make packets
of several writers, partial reads, reads across entries and seeks into each
entry, and two tasks make every pair of calls overlap. The tasks are
interchangeable there and symmetry is used (the properties are safety
properties). `driver_memory` has one packet more than entries, so the
overwriting path, its pointer and a failed `krealloc` in any place occur. Its
`char` has 6 values and `SizeMod`, `IntMod` and `LoffMod` are 16, so that sizes,
totals and positions wrap and positions get negative within three writes; the
proofs remove the bounds for its invariants.

Two clients make every list the removal can meet but one with a node on each
side of the one removed (the proofs cover that one); they make every pair of
threads overlap, in any order with accepts, the signal and the timer. A third
client multiplies the states by more than a hundred. Each client connects once,
so a run sees each list node come and go once; a node has no memory of an
earlier one. One failing call, wherever it strikes, comes on top of any number
of failing sends; one timestamp is enough for it to fall before, between and
after the two lines. Lines of up to seven bytes in chunks of two make up to four
full chunks and up to seven short ones, with `realloc` failing at any of them;
the proofs remove this bound.

The device of `server` has two lines and starts with one, so that the first
client fills it, the second finds it full, a replay meets a freed line, and with
one client only it is never full.

`RewoundWhenIdle` has two exceptions, both replays that are cut short. A failing
send ends the replay where it is, and the position stays inside the data (in the
file build a later line then goes over earlier ones, so there `ClientsKeepLines`
is about histories without one). And the replay of a full device ends at the line
whose memory the driver has freed. What a device loses is only its oldest line,
whatever fails. `ShutdownEnds` has two exceptions, both the code's. A client that
has been accepted and stays silent keeps its thread in `recv`, and one that takes
nothing of its reply keeps it in `send`, in the file build with the mutex; main
joins it for ever. The property therefore is about behaviours in which every
thread is found again and again outside these waits (`WaitsForClient`). And in
the file build main that leaves its loop on a failing call without a signal waits
for a timer nobody has told to end. `server` and `programs`
allow the system to stop (`CHECK_DEADLOCK FALSE`): the server ends, a line is
complete, a call is back.

`programs` is one specification whose variable `program` says which part a
behaviour is of; the others stay where they start, so the parts do not multiply.
`StoppedForGood` states what the scripts do achieve. A single `stop` is not
enough: `rmmod` fails while the daemon has the device open, and the script goes
on to end the daemon without the module; and a `start` in the meantime finds the
old daemon, and starts none. `FreshStartServesDevice` therefore is about a start
that found the service stopped.

The violations are the code's. The driver's four check properties that hold in
`driver_fill` and show what lies beyond its bounds or its allocations; the
server's three check what the source says of a line it has received.

- `driver_overwrite`: `aesd_circular_buffer_add_entry` returns the address of
  the slot and then stores the new entry in it; `aesd_write` frees through that
  address. The newest packet disappears, the overwritten block is leaked, and
  `circ_total_size` no longer is the sum of the entries.
- `driver_seek`: the ioctl counts from `entry[0]`, reads from `out_offs`.
- `driver_long_line`: `char cb_size`.
- `driver_no_memory`: `cb_buffer` is NULL, `cb_size` is not 0.
- `line_gap`: a chunk without a newline is stored at a multiple of
  `INIT_BUF_SIZE`, however short the one before it was, so a short `recv` leaves
  bytes in the line that nobody wrote.
- `server_replay`: the threads' replays advance one position; the one that
  reads second finds the end of the data and closes its client without its line.
- `server_timer`: the timestamp goes over a client's line, because `timer_fd`
  was opened on its own and without `O_APPEND`.

### Fairness

`EveryCallReturns` assumes that a task inside the driver runs again
(`WF` on the steps that need no lock, or hold it) and that a mutex released
again and again reaches each waiter (`SF` on the locked steps): the kernel
schedules every runnable task, and its mutex hands itself to a waiter that has
been passed over. Nothing is assumed of users: no call need ever be made, no
file closed.

The server's fairness is that of the scheduler: main, each thread's steps that do
not wait for its client (`ThreadRuns`, without `SendLine`) and the timer run on
(`WF`). The mutex need not be fair: each thread takes it once, and the timer
looks at `complete_exec` before it takes it again. Clients need not connect,
send, read or close, calls need not fail, and no signal need come.

In `programs` each thread of the example runs on and obtains a mutex that is
released again and again (`WF`, `SF` on `Lock`), a script runs on once called
(`WF` on `ScriptStep`), and a daemon that has been told to end does
(`WF` on `DaemonEnds`): this last one is what `ShutdownEnds` says of it when its
clients go away.

## Proofs

Every safety property of the passing runs is proved for every value of the
constants, and so are both refinements of an abstract specification.

The buffer, for any capacity from 1 to 255, any entries and any width of
`size_t` (`BufferAssumption`, `EntriesAssumption`, `PositionsAssumption`: the
types of the constants):

- `RingInvHolds`, `BufferKeepsLatestWrites`: the ring's invariant is inductive
  as it stands (`AddEntryShape`). The refinement rests on
  `AddEntryWhenFull` and `AddEntryBeforeFull`, which compute the sequence of
  held entries after an addition slot by slot; the wrap is an IF, so the
  arithmetic is linear.
- `SearchFindsTheByte`: the search finds, for every position, the byte at that
  place of the concatenated entries, and nothing behind them. Its hypothesis
  `SizesFit` says that a buffer full of the largest entry can be counted in a
  `size_t`; beyond it `total_bytes` may wrap. The
  invariant adds `UnusedAreEmpty`: the search visits all slots, and finds the
  end of the data only because the slots not used yet count no bytes.

`BytesThrough`, `BytesBefore` and `FlattenSeq` are recursive functions, and the
library's induction theorems cannot be used. `AesdCircularBuffer_proofs` has its
own first-order induction instead: a set of naturals that has 0 and every
successor is Nat (`NatSetInduction`). From it a recursive definition is shown to
have a value (`LoopHasTrace`), then to be the sum it looks like
(`TotalsAreSums`); `SearchFinds`, `SearchEnds` and `FlattenedEntries` are
what the other proofs cite.

The driver, for any number of tasks, files, writes and entries, any width of
`char` and `size_t` (`BufferAssumption`, `DriverAssumption`: the types of the
constants). With no other hypothesis:

- `BlocksAreOwnedOnce`: `BlocksOwnedOnce` is not inductive. `IInv` adds that
  calls run only in a loaded module (or an unload could free under a reader),
  that the block a pending write will allocate is nobody's (or an entry could
  get a block another owns), and that whoever holds the lock between two steps
  is about to free the packet it has just added. One lemma per action; the
  steps that leave device and memory alone share `QuietStep`.
- `OverwriteFreesNewPacket`: the last conjunct, on its own: the finding of
  `driver_overwrite` is not an accident of the instance.
- `LockIsGivenBack`: what `EveryCallReturns` rests on as far as safety goes:
  between two steps `dev->lock` is held by an overwriting write only, so no error
  path returns without the unlock.
- `DriverTypeCorrect`: the whole type invariant, whatever wraps: positions are
  values of a `loff_t`, of either sign in an open file, and no read or write runs
  at a negative one (`LoffValues`, `ArgsFitCalls`). `DeviceTypeCorrect` is the
  part `IInv` rests on.

Within limits. Four findings say where the driver breaks its promises: a failed
`krealloc`, a packet that does not fit `char cb_size`, an overwritten entry, and
seeks after that. The theorems below are what holds short of them. Their
hypotheses are `~ReallocFails` and `Limits`, three facts about every state of a
behaviour: `LinesFit` (the bytes of a packet with the write that is about to run
can be counted in a `char` and a `size_t`), `DataFits` (all bytes can be counted
in the `int` of the ioctl, and so in a `size_t` and a `loff_t`) and `NoOverwrite`
(no write has reached the branch that frees). TLC's `driver_fill` has only states
that meet them.

- `EntriesAreWritten` (`~ReallocFails`, `LinesFit` only): `CollectedIsWritten`
  says of the packet being collected what the property says of entries.
- `TotalStaysExact`: `SumInv` adds that `out_offs` is 0, that unused slots are
  empty and that the total fits, so that a packet adds its size to an empty slot
  (`SumBeforeAdds`) and `size_t` arithmetic does not wrap.
- `PositionsStayInData`: the position of a call in flight (`InFlightInData`) lies
  in the data too, which is what a stale store leaves in the file.
- `SeekFindsItsCommand`: with `out_offs` 0 the ioctl's sum and the search's totals
  are the same function (`SumIsTotal`), and the search is exact (`SearchFinds`).
- `DriverImplementsDevice`: each action is a step of `AesdDevice` under the
  mapping at the end of `AesdChar`, one lemma for each kind: `ReadIsRead`,
  `ReadEndIsEnd` (which shows that no read meets an entry without memory),
  `PartialIsCollect`, `PacketIsCommit`, `FailedWriteIsPosition`,
  `QuietIsPosition`. `LimitsInv` collects the invariants above and adds that a
  task has bytes only on the way back from a read, and that an entry without
  memory has no size. `StreamOfPackets` puts the packets end to end at the
  places the search counts.

The server, for any number of clients, failing calls and timestamps, any
`Capacity` and any number of lines the device holds before, under
`ServerAssumption`: the types of the constants, and no client is one of the
model's own values.

- `TypesHold`, `RepliesAreWholeFiles`, `ConcurrentClientsKeepLines` follow from
  one invariant (`Invariance`) with four parts. `TypeInv` is `TypeOK` with what
  its bounds rest on. `Life` ties a thread to its connection and its mutex: a
  thread has sent nothing before its replay, one whose send has failed is at its
  end, and in the file build a thread between `LockMutex` and the end of its
  replay holds the mutex. `Keeps` says where a write can land in the file: without
  a failing send, while nobody replays, every line lies below the shared position.
  In the device lines only shift, and only when `Capacity` is reached. `Replay`
  says that a replaying thread has sent exactly the part of the file before its
  position. `ReplyIsWholeFile` is about the step to the end of the file, where
  that part is the whole file; without `Life` another thread could write in
  between, and without `Replay` nothing ties the reply to the file.
- `ListIsComplete`, `NoThreadIsForgotten`: `IsChain` says that there is a
  numbering of the nodes that follows `next` from `head` to NULL, and a place k
  in it where `ll_clean` stands, `previous` at k and `current` at k + 1. One
  lemma for each step that moves in the list or changes it; `TakeChain` has the
  removal at the head and behind it. After the loop is left k stays 0, so the
  walk empties the list. `Owned` adds that a running thread has its node and that
  a connection without a thread is the last one main has accepted.
- `PositionIsRewound`: `Rewound` adds that every position copied lies in the
  data, and that a line without memory means a full device; the last thread to end
  its replay sets the shared position to 0 or leaves it at such a line.

The receive loop, for any `INIT_BUF_SIZE` and any lengths (`ChunkAssumption`,
`LengthAssumption`: both positive).

- `StorageStaysInBounds`, `BytesStayInOrder`, `FullChunksMakeLines`: the
  invariant `LineInv` says that the storage is `storage_buffer_size_cnt` chunks
  long while the loop runs, that behind the next chunk's place nothing has been
  written, and that before it the bytes received stand in order, with none
  missing unless a `realloc` has failed.

The thread example, for any number of threads (`ThreadingAssumption`):

- `SuccessReleases`: with the invariant that a thread reports only at its end.

The service and the system calls have no constants, so TLC sees all their
states; the proofs say why the properties hold.

- `NodesDieWithModule`, `FreshStartsServe`: `ServiceInv` says what each place of
  a script knows of module, node and daemon. A start that found the service
  stopped has no old daemon beside it, so nothing unlinks the new node, and the
  device is there before the daemon opens it.
- `TrueIsExecuted`, `CallsCleanUp`: `CallInv` ties the child's end to the status
  (`ChildInv`) and the caller's place to the child and the file (`CallerInv`).

Only model-checked: liveness (`EveryCallReturns`, `ShutdownEnds`, `ThreadsEnd`,
`StoppedForGood`), because fairness and ENABLED are out of the prover's reach.
And the seven violations: a counterexample is one behaviour, which TLC shows.

## What the sources say and the code does otherwise

Besides the findings, met while modelling and kept in the models as the code
has it:

- `do_system` returns TRUE when the command has a nonzero status
  (`SystemCalls`, action `System`); `TrueMeansExecuted` leaves it out.
- `do_exec_redirect` leaves the output file open when `fork` fails
  (`ForkFails`); `NothingLeftBehind` names it.
- `threadfunc` keeps the mutex when the second `usleep` fails (`Fails`), though
  `threading.h` says it is released; `ThreadsEnd` excepts it.
- a `stop` followed at once by a `start` may leave no daemon (`Spawn` finds the
  old one, which is still ending).

## Plan

1. An abstract server of whole replies, which the file build without its timer
   implements, with the proof that it does.
2. The server on `AesdDevice` instead of a sequence of lines, so that lines
   arrive in pieces and with the driver's failing allocations.

## Not modelled

- `finder-app/writer.c`, `writer.sh`, `finder.sh`: each writes one file or counts
  matches and ends; there is no state between calls, and nothing beside them.
- the build, image and test scripts: they call compilers and emulators.
- the exercises and test data: constants and text.
- in the server: log messages, `daemon_create` (before anything is shared),
  failing calls on a valid mutex, and a file read that returns several lines.

`PROJECT.json` lists them under `components`.
