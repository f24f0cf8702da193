----------------------------- MODULE AesdServer -----------------------------
(***************************************************************************)
(* The socket server of server/aesdsocket.c: main, one thread for each     *)
(* client, and in the file build the timestamp timer.                      *)
(*                                                                         *)
(* A node of the linked list, its thread and its client go together, so    *)
(* all three are named by the client.  A line is named by the client that  *)
(* sent it, a line that was there before the server is Old, a timestamp is *)
(* Stamp, and bytes that nobody wrote, or whose memory the driver has      *)
(* freed, are Hole.  A file or device is a sequence of lines, and          *)
(* positions count lines, all of one length.                               *)
(*                                                                         *)
(* FileBuild chooses between the two builds: a file with a mutex and a     *)
(* timer, or the device of AesdDevice, whose driver serialises the calls   *)
(* but lets the file layer copy and store f_pos without a lock, and keeps  *)
(* the latest lines only.                                                  *)
(***************************************************************************)
EXTENDS Integers, Sequences, FiniteSets

CONSTANTS
  Clients, NoNode,     \* NoNode: the NULL of the list
  Builds,              \* the values of FileBuild
  Capacity,            \* the lines the device keeps: 10
  Earlier,             \* how many of them it may hold before the server starts
  Orders,              \* what clients may send: "line", "seek"
  SendsFail,           \* whether send may fail
  MaxFailures,         \* bound on the other calls that fail
  MaxTicks             \* bound on the timestamps written
Old    == "old"
Stamp  == "stamp"
Hole   == "hole"
Nobody == "nobody"     \* as the holder of the mutex

ASSUME ServerAssumption ==
  /\ NoNode \notin Clients /\ {Old, Stamp, Hole, Nobody} \cap Clients = {}
  /\ Capacity \in Nat \ {0} /\ Earlier \subseteq 0..Capacity
  /\ Builds \subseteq BOOLEAN
  /\ Orders \subseteq {"line", "seek"} /\ SendsFail \in BOOLEAN
  /\ MaxFailures \in Nat /\ MaxTicks \in Nat

VARIABLES
  FileBuild,          \* USE_AESD_CHAR_DEVICE is not defined; never changes
  complete_exec,      \* set by sig_handler
  main,               \* where main is
  is_clear,           \* main has left its loop: ll_clean takes every node
  is_fd_created,
  head, next,         \* the linked list
  current, previous,  \* ll_clean's pointers
  node,               \* the nodes allocated and not freed
  complete_flag,      \* the threads that have set their complete_flag
  thread,             \* where each thread is
  pos,                \* the loff_t of each thread's read or write
  conn, input,        \* each client's connection, and what it has sent
  client_fd,          \* the connections the server has open
  read_buffer,        \* the line each thread has read and sends
  reply,              \* what each client has been sent
  data, f_pos,        \* the file or device, and the position of the shared fd
  failures,           \* how many calls have failed, sends aside
  mutex,              \* the thread that holds it
  timer, timer_pos, ticks  \* the timer thread, the position of timer_fd

list    == <<head, next, current, previous, node>>
control == <<complete_exec, main, is_clear, is_fd_created>>
locals  == <<pos, read_buffer>>
threads == <<complete_flag, thread, locals>>
network == <<conn, input, client_fd, reply>>
storage == <<data, f_pos, mutex>>
clock   == <<timer, timer_pos, ticks>>
others  == <<FileBuild, failures, clock>>
vars    == <<control, list, threads, network, storage, others>>

\* What the device holds before: each line written to it when it is full has
\* put the oldest out and lost its own memory.
EarlierData ==
  \E n \in Earlier, lost \in 0..Capacity :
    /\ lost > 0 => n = Capacity /\ ~FileBuild
    /\ data = [i \in 1..n |-> IF i <= n - lost THEN Old ELSE Hole]

Init ==
  /\ FileBuild \in Builds
  /\ complete_exec = FALSE /\ main = "start"
  /\ is_clear = FALSE /\ is_fd_created = FALSE
  /\ head = NoNode /\ current = NoNode /\ previous = NoNode
  /\ next = [c \in Clients |-> NoNode]
  /\ node = {} /\ complete_flag = {}
  /\ thread = [c \in Clients |-> "none"]
  /\ pos = [c \in Clients |-> 0]
  /\ read_buffer = [c \in Clients |-> Hole]
  /\ conn = [c \in Clients |-> "away"]
  /\ input = [c \in Clients |-> "none"]
  /\ client_fd = {}
  /\ reply = [c \in Clients |-> <<>>]
  /\ EarlierData /\ f_pos = 0 /\ mutex = Nobody
  /\ timer = "none" /\ timer_pos = 0 /\ ticks = 0 /\ failures = 0

-----------------------------------------------------------------------------
(***************************************************************************)
(* Clients and signals.                                                    *)
(***************************************************************************)
\* Sends aside, MaxFailures calls may fail in a behaviour.
CallFails == failures < MaxFailures /\ failures' = failures + 1

Serving == main \notin {"exit", "abort"}

Connect(c) ==
  /\ Serving /\ conn[c] = "away"
  /\ conn' = [conn EXCEPT ![c] = "queued"]
  /\ UNCHANGED <<control, list, threads, input, client_fd, reply, storage,
                 others>>

\* A client sends a line with a newline, or closes without one.  What it sends
\* before it is accepted reaches the server only then.
Send(c) ==
  /\ Serving /\ conn[c] = "accepted" /\ input[c] = "none"
  /\ \E o \in Orders \cup {"nothing"} : input' = [input EXCEPT ![c] = o]
  /\ UNCHANGED <<control, list, threads, conn, client_fd, reply, storage,
                 others>>

\* sig_handler; the signal is handled by main, as a signal of a process is
\* while its main thread does not block it.
Signal ==
  /\ Serving /\ ~complete_exec
  /\ complete_exec' = TRUE
  /\ UNCHANGED <<main, is_clear, is_fd_created, list, threads, network,
                 storage, others>>

-----------------------------------------------------------------------------
(***************************************************************************)
(* main and ll_clean.                                                      *)
(***************************************************************************)
\* The listening socket is set up; the file build creates its file and starts
\* the timer.  Without its timer the server goes on all the same.
StartServer ==
  /\ main = "start" /\ main' = "accept"
  /\ data' = IF FileBuild THEN <<>> ELSE data
  /\ timer' = IF FileBuild THEN "sleep" ELSE "none"
  /\ UNCHANGED <<complete_exec, is_clear, is_fd_created, list, threads,
                 network, f_pos, mutex, timer_pos, ticks, FileBuild, failures>>

StartNoTimer ==
  /\ CallFails /\ FileBuild
  /\ main = "start" /\ main' = "accept"
  /\ data' = <<>>
  /\ UNCHANGED <<complete_exec, is_clear, is_fd_created, list, threads,
                 network, f_pos, mutex, FileBuild, clock>>

\* A call of the set-up fails, and main returns.
StartFails ==
  /\ CallFails /\ main = "start" /\ main' = "abort"
  /\ UNCHANGED <<complete_exec, is_clear, is_fd_created, list, threads,
                 network, storage, FileBuild, clock>>

Leave == is_clear' = TRUE /\ main' = "clean" /\ current' = head /\ previous' = NoNode

\* The accept loop is left on a signal.
LeaveLoop ==
  /\ main = "accept" /\ complete_exec
  /\ Leave
  /\ UNCHANGED <<complete_exec, is_fd_created, head, next, node, threads,
                 network, storage, others>>

\* accept has nothing: look for finished threads and try again.
AcceptNothing ==
  /\ main = "accept" /\ ~complete_exec
  /\ \A c \in Clients : conn[c] # "queued"
  /\ head # NoNode
  /\ main' = "clean" /\ current' = head /\ previous' = NoNode
  /\ UNCHANGED <<complete_exec, is_clear, is_fd_created, head, next, node,
                 threads, network, storage, others>>

Accepts(c) == main = "accept" /\ ~complete_exec /\ conn[c] = "queued"

\* The first client makes main open the file or the device.  O_TRUNC empties
\* a file and does nothing to the device.
OpenData ==
  /\ is_fd_created' = TRUE
  /\ data' = IF FileBuild /\ ~is_fd_created THEN <<>> ELSE data
  /\ UNCHANGED <<f_pos, mutex>>

\* A client is accepted: its node goes to the head of the list and its thread
\* starts, and main looks for finished threads.
Accept(c) ==
  /\ Accepts(c)
  /\ conn' = [conn EXCEPT ![c] = "accepted"]
  /\ client_fd' = client_fd \cup {c}
  /\ OpenData
  /\ node' = node \cup {c}
  /\ next' = [next EXCEPT ![c] = head]
  /\ head' = c
  /\ thread' = [thread EXCEPT ![c] = "recv"]
  /\ main' = "clean" /\ current' = c /\ previous' = NoNode
  /\ UNCHANGED <<complete_exec, is_clear, complete_flag, locals, input, reply,
                 others>>

\* accept fails for another reason than an empty queue.
AcceptFails ==
  /\ CallFails /\ main = "accept" /\ ~complete_exec
  /\ Leave
  /\ UNCHANGED <<complete_exec, is_fd_created, head, next, node, threads,
                 network, storage, FileBuild, clock>>

\* malloc of the node or pthread_create fails: main leaves the loop.  The
\* connection stays open.
SpawnFails(c) ==
  /\ CallFails /\ Accepts(c)
  /\ conn' = [conn EXCEPT ![c] = "accepted"]
  /\ client_fd' = client_fd \cup {c}
  /\ OpenData
  /\ Leave
  /\ UNCHANGED <<complete_exec, head, next, node, threads, input, reply,
                 FileBuild, clock>>

\* open fails: main returns.
OpenFails(c) ==
  /\ CallFails /\ Accepts(c) /\ ~is_fd_created
  /\ main' = "abort"
  /\ timer' = (IF FileBuild THEN "killed" ELSE "none")
  /\ UNCHANGED <<complete_exec, is_clear, is_fd_created, list, threads,
                 network, storage, timer_pos, ticks, FileBuild>>

Takes(c) == c \in complete_flag \/ is_clear

\* ll_clean keeps a node whose thread has not finished.
KeepNode ==
  /\ main = "clean" /\ current # NoNode /\ ~Takes(current)
  /\ previous' = current
  /\ current' = next[current]
  /\ UNCHANGED <<control, head, next, node, threads, network, storage, others>>

TakeNodeAnywhere ==     \* mutant: a node is taken out as if it were the head
  /\ main = "clean" /\ current # NoNode /\ Takes(current)
  /\ head' = next[current]
  /\ main' = "join"
  /\ UNCHANGED <<complete_exec, is_clear, is_fd_created, next, current,
                 previous, node, threads, network, storage, others>>

\* ll_clean takes a node out of the list.
TakeNode ==
  /\ main = "clean" /\ current # NoNode /\ Takes(current)
  /\ IF current = head
     THEN head' = next[current] /\ UNCHANGED next
     ELSE next' = [next EXCEPT ![previous] = next[current]] /\ UNCHANGED head
  /\ main' = "join"
  /\ UNCHANGED <<complete_exec, is_clear, is_fd_created, current, previous,
                 node, threads, network, storage, others>>

JoinNobody ==           \* mutant: the node is freed without pthread_join
  /\ main = "join"
  /\ node' = node \ {current}
  /\ current' = next[current]
  /\ next' = [next EXCEPT ![current] = NoNode]
  /\ main' = "clean"
  /\ UNCHANGED <<complete_exec, is_clear, is_fd_created, head, previous,
                 threads, network, storage, others>>

\* ... waits for its thread to end, and frees it.
Join ==
  /\ main = "join" /\ thread[current] = "done"
  /\ node' = node \ {current}
  /\ current' = next[current]
  /\ next' = [next EXCEPT ![current] = NoNode]
  /\ main' = "clean"
  /\ UNCHANGED <<complete_exec, is_clear, is_fd_created, head, previous,
                 threads, network, storage, others>>

CleanedAccepts ==       \* mutant: ll_clean always leads back to accept
  /\ main = "clean" /\ current = NoNode
  /\ main' = "accept"
  /\ UNCHANGED <<complete_exec, is_clear, is_fd_created, list, threads,
                 network, storage, others>>

\* The end of ll_clean: back to accept, or on to the closing of the files.  The
\* file is unlinked; the timer thread is joined before main returns.
Cleaned ==
  /\ main = "clean" /\ current = NoNode
  /\ main' = IF ~is_clear THEN "accept" ELSE IF FileBuild THEN "timer" ELSE "exit"
  /\ UNCHANGED <<complete_exec, is_clear, is_fd_created, list, threads,
                 network, storage, others>>

\* A timer that was never started is joined all the same, by a thread_id that
\* nobody set: pthread_join refuses it or the process ends there.
JoinTimer ==
  /\ main = "timer"
  /\ \/ timer = "done" /\ main' = "exit"
     \/ timer = "none" /\ main' \in {"exit", "abort"}
  /\ UNCHANGED <<complete_exec, is_clear, is_fd_created, list, threads,
                 network, storage, others>>

-----------------------------------------------------------------------------
(***************************************************************************)
(* thread_socket.                                                          *)
(***************************************************************************)
At(c, where) == thread[c] = where
Goto(c, where) == thread' = [thread EXCEPT ![c] = where]

\* A line has come.  An AESDCHAR_IOCSEEKTO line goes to ioctl, which a file
\* refuses; the file build then waits for the mutex.
ReceiveLine(c) ==
  /\ At(c, "recv") /\ input[c] \in Orders
  /\ Goto(c, IF input[c] = "seek" /\ ~FileBuild THEN "ioctl"
             ELSE IF FileBuild THEN "lock" ELSE "write")
  /\ UNCHANGED <<control, list, complete_flag, locals, network, storage, others>>

\* The client has closed without a line.
ReceiveNothing(c) ==
  /\ At(c, "recv") /\ input[c] = "nothing"
  /\ Goto(c, "finish")
  /\ UNCHANGED <<control, list, complete_flag, locals, network, storage, others>>

\* malloc of the storage buffer, or recv, fails.
ReceiveFails(c) ==
  /\ CallFails /\ At(c, "recv")
  /\ conn' = [conn EXCEPT ![c] = "failed"]
  /\ Goto(c, "finish")
  /\ UNCHANGED <<control, list, complete_flag, locals, input, client_fd, reply,
                 storage, FileBuild, clock>>

IoctlOffByOne(c) ==     \* mutant: the position before the one asked for
  /\ At(c, "ioctl")
  /\ \/ \E k \in 1..Len(data) : f_pos' = k - 2
     \/ UNCHANGED f_pos
  /\ Goto(c, "read")
  /\ UNCHANGED <<control, list, complete_flag, locals, network, data, mutex,
                 others>>

\* The driver sets the position of the shared file; an argument beyond the
\* data is refused and the replay starts where the position is.
Ioctl(c) ==
  /\ At(c, "ioctl")
  /\ \/ \E k \in 1..Len(data) : f_pos' = k - 1
     \/ UNCHANGED f_pos
  /\ Goto(c, "read")
  /\ UNCHANGED <<control, list, complete_flag, locals, network, data, mutex,
                 others>>

\* Device: the file layer copies f_pos, the driver adds the line, the file layer
\* stores the position it copied.  A full driver drops its oldest line, and frees
\* the memory of the new one in place of it.
WriteStart(c) ==
  /\ At(c, "write") /\ ~FileBuild
  /\ pos' = [pos EXCEPT ![c] = f_pos]
  /\ Goto(c, "writing")
  /\ UNCHANGED <<control, list, complete_flag, read_buffer, network, storage, others>>

WriteEnd(c) ==
  /\ At(c, "writing")
  /\ data' = IF Len(data) < Capacity THEN Append(data, c)
             ELSE Append(Tail(data), Hole)
  /\ f_pos' = pos[c]
  /\ pos' = [pos EXCEPT ![c] = 0]
  /\ Goto(c, "read")
  /\ UNCHANGED <<control, list, complete_flag, read_buffer, network, mutex,
                 others>>

LockNothing(c) ==       \* mutant: the thread does not wait for the mutex
  /\ At(c, "lock")
  /\ mutex' = c
  /\ Goto(c, "write")
  /\ UNCHANGED <<control, list, complete_flag, locals, network, data, f_pos,
                 others>>

LockMutex(c) ==
  /\ At(c, "lock") /\ mutex = Nobody
  /\ mutex' = c
  /\ Goto(c, "write")
  /\ UNCHANGED <<control, list, complete_flag, locals, network, data, f_pos,
                 others>>

\* Sequence s after item x is written at position p, which may lie beyond its end.
WriteAt(s, p, x) ==
  [i \in 1..(IF p < Len(s) THEN Len(s) ELSE p + 1) |->
     IF i = p + 1 THEN x ELSE IF i <= Len(s) THEN s[i] ELSE Hole]

WriteFileNoRewind(c) == \* mutant: without the lseek
  /\ At(c, "write") /\ FileBuild
  /\ data' = IF input[c] = "seek" THEN data ELSE WriteAt(data, f_pos, c)
  /\ f_pos' = IF input[c] = "seek" THEN f_pos ELSE f_pos + 1
  /\ Goto(c, "read")
  /\ UNCHANGED <<control, list, complete_flag, locals, network, mutex, others>>

\* File: under the mutex the line goes where the shared position is, unless it
\* is a seek, and the position goes back to the start.
WriteFile(c) ==
  /\ At(c, "write") /\ FileBuild
  /\ data' = IF input[c] = "seek" THEN data ELSE WriteAt(data, f_pos, c)
  /\ f_pos' = 0
  /\ Goto(c, "read")
  /\ UNCHANGED <<control, list, complete_flag, locals, network, mutex, others>>

\* write fails, which nobody notices: the replay follows without the line.
WriteFails(c) ==
  /\ CallFails /\ At(c, "write") /\ input[c] = "line"
  /\ conn' = [conn EXCEPT ![c] = "failed"]
  /\ f_pos' = IF FileBuild THEN 0 ELSE f_pos
  /\ Goto(c, "read")
  /\ UNCHANGED <<control, list, complete_flag, locals, input, client_fd, reply,
                 data, mutex, FileBuild, clock>>

\* A read copies f_pos ...
ReadStart(c) ==
  /\ At(c, "read")
  /\ pos' = [pos EXCEPT ![c] = f_pos]
  /\ Goto(c, "reading")
  /\ UNCHANGED <<control, list, complete_flag, read_buffer, network, storage, others>>

\* The memory of the line at pos[c] has been freed; a file has no such line.
Freed(c) == ~FileBuild /\ pos[c] < Len(data) /\ data[pos[c] + 1] = Hole

\* ... gets the line there, and the position after it is stored.
ReadLine(c) ==
  /\ At(c, "reading") /\ pos[c] < Len(data) /\ ~Freed(c)
  /\ read_buffer' = [read_buffer EXCEPT ![c] = data[pos[c] + 1]]
  /\ f_pos' = pos[c] + 1
  /\ pos' = [pos EXCEPT ![c] = 0]
  /\ Goto(c, "send")
  /\ UNCHANGED <<control, list, complete_flag, network, data, mutex, others>>

ReadEndKeepsPos(c) ==   \* mutant: the position is not set back at the end
  /\ At(c, "reading") /\ pos[c] >= Len(data)
  /\ f_pos' = pos[c]
  /\ mutex' = Nobody
  /\ pos' = [pos EXCEPT ![c] = 0]
  /\ Goto(c, "finish")
  /\ UNCHANGED <<control, list, complete_flag, read_buffer, network, data,
                 others>>

\* A read at the end ends the replay.  The device goes back to position 0.
ReadEnd(c) ==
  /\ At(c, "reading") /\ pos[c] >= Len(data)
  /\ f_pos' = IF FileBuild THEN pos[c] ELSE 0
  /\ mutex' = Nobody
  /\ pos' = [pos EXCEPT ![c] = 0]
  /\ Goto(c, "finish")
  /\ UNCHANGED <<control, list, complete_flag, read_buffer, network, data,
                 others>>

\* So does a read of a line without memory, and the position stays there.
ReadFreed(c) ==
  /\ At(c, "reading") /\ Freed(c)
  /\ f_pos' = pos[c]
  /\ pos' = [pos EXCEPT ![c] = 0]
  /\ Goto(c, "finish")
  /\ UNCHANGED <<control, list, complete_flag, read_buffer, network, data,
                 mutex, others>>

\* send returns when the client takes what it is sent, which it may never do.
SendLine(c) ==
  /\ At(c, "send")
  /\ reply' = [reply EXCEPT ![c] = Append(@, read_buffer[c])]
  /\ read_buffer' = [read_buffer EXCEPT ![c] = Hole]
  /\ Goto(c, "read")
  /\ UNCHANGED <<control, list, complete_flag, pos, conn, input, client_fd,
                 storage, others>>

\* The client has gone: send fails, and the replay ends where it is ...
SendFails(c) ==
  /\ SendsFail /\ At(c, "send")
  /\ conn' = [conn EXCEPT ![c] = "broken"]
  /\ mutex' = Nobody
  /\ read_buffer' = [read_buffer EXCEPT ![c] = Hole]
  /\ Goto(c, "finish")
  /\ UNCHANGED <<control, list, complete_flag, pos, input, client_fd, reply,
                 data, f_pos, others>>

\* ... or, once the connection has been reset, SIGPIPE ends the process: the
\* server handles only SIGINT and SIGTERM.
SendKills(c) ==
  /\ SendsFail /\ At(c, "send")
  /\ main' = "abort"
  /\ thread' = [d \in Clients |-> IF thread[d] = "none" THEN "none" ELSE "killed"]
  /\ timer' = (IF FileBuild THEN "killed" ELSE "none")
  /\ UNCHANGED <<complete_exec, is_clear, is_fd_created, list, complete_flag,
                 locals, network, storage, timer_pos, ticks, FileBuild,
                 failures>>

\* The thread's last steps: its flag, its connection.
SetComplete(c) ==
  /\ At(c, "finish")
  /\ complete_flag' = complete_flag \cup {c}
  /\ Goto(c, "close")
  /\ UNCHANGED <<control, list, locals, network, storage, others>>

CloseClient(c) ==
  /\ At(c, "close")
  /\ client_fd' = client_fd \ {c}
  /\ reply' = [reply EXCEPT ![c] = <<>>]       \* these two were kept so far
  /\ input' = [input EXCEPT ![c] = "nothing"]  \* for the properties only
  /\ Goto(c, "done")
  /\ UNCHANGED <<control, list, complete_flag, locals, conn, storage, others>>

-----------------------------------------------------------------------------
(***************************************************************************)
(* timer_thread (file build).  It writes through a descriptor of its own.  *)
(***************************************************************************)
\* The ten seconds are over.
TimerWakes ==
  /\ timer = "sleep"
  /\ timer' = IF complete_exec THEN "done" ELSE "lock"
  /\ complete_exec \/ ticks < MaxTicks
  /\ UNCHANGED <<control, list, threads, network, storage, timer_pos, ticks,
                 FileBuild, failures>>

TimerWrites ==
  /\ timer = "lock" /\ mutex = Nobody
  /\ data' = WriteAt(data, timer_pos, Stamp)
  /\ timer_pos' = timer_pos + 1
  /\ ticks' = ticks + 1
  /\ timer' = "sleep"
  /\ UNCHANGED <<control, list, threads, network, f_pos, mutex, FileBuild,
                 failures>>

\* The write of the timestamp fails, and the timer goes on.
TimerWriteFails ==
  /\ CallFails /\ timer = "lock" /\ mutex = Nobody
  /\ timer' = "sleep"
  /\ UNCHANGED <<control, list, threads, network, storage, timer_pos, ticks,
                 FileBuild>>

\* The clock, the sleep or the time fails: the timer ends.
TimerFails ==
  /\ CallFails /\ timer = "sleep"
  /\ timer' = "done"
  /\ UNCHANGED <<control, list, threads, network, storage, timer_pos, ticks,
                 FileBuild>>

-----------------------------------------------------------------------------
MainStep == \/ StartServer \/ LeaveLoop \/ AcceptNothing \/ (\E c \in Clients : Accept(c))
            \/ KeepNode \/ TakeNode \/ Join \/ Cleaned \/ JoinTimer

\* What a thread does without waiting for its client.
ThreadRuns(c) ==
  \/ ReceiveLine(c) \/ ReceiveNothing(c) \/ Ioctl(c)
  \/ WriteStart(c) \/ WriteEnd(c) \/ LockMutex(c) \/ WriteFile(c)
  \/ ReadStart(c) \/ ReadLine(c) \/ ReadEnd(c) \/ ReadFreed(c)
  \/ SetComplete(c) \/ CloseClient(c)

ThreadStep(c) == ThreadRuns(c) \/ SendLine(c)

Fault(c) == \/ StartNoTimer \/ StartFails
            \/ AcceptFails \/ SpawnFails(c) \/ OpenFails(c)
            \/ ReceiveFails(c) \/ WriteFails(c) \/ SendFails(c) \/ SendKills(c)

TimerStep == TimerWakes \/ TimerWrites \/ TimerWriteFails \/ TimerFails

Next ==
  \/ Signal \/ MainStep \/ TimerStep
  \/ \E c \in Clients : Connect(c) \/ Send(c) \/ ThreadStep(c) \/ Fault(c)

Spec == Init /\ [][Next]_vars

\* The threads, main and the timer are scheduled.  A mutex that is released again
\* and again need not reach everyone who waits for it: each thread takes it once,
\* and so does the timer before it sees complete_exec.  Nothing is assumed of
\* clients, so nothing of send, or of calls that fail.
Fairness ==
  /\ WF_vars(MainStep)
  /\ \A c \in Clients : WF_vars(ThreadRuns(c))
  /\ WF_vars(TimerWakes \/ TimerWrites)

FairSpec == Spec /\ Fairness

-----------------------------------------------------------------------------
Replaying == {"writing", "read", "reading", "send"}
Running   == Replaying \cup {"recv", "ioctl", "lock", "write", "finish", "close"}

Lines     == Clients \cup {Old, Stamp, Hole}

TypeOK ==
  /\ FileBuild \in BOOLEAN /\ failures \in 0..MaxFailures
  /\ complete_exec \in BOOLEAN /\ is_clear \in BOOLEAN /\ is_fd_created \in BOOLEAN
  /\ main \in {"start", "accept", "clean", "join", "timer", "exit", "abort"}
  /\ {head, current, previous} \subseteq Clients \cup {NoNode}
  /\ next \in [Clients -> Clients \cup {NoNode}]
  /\ node \subseteq Clients /\ complete_flag \subseteq Clients
  /\ thread \in [Clients -> Running \cup {"none", "done", "killed"}]
  /\ pos \in [Clients -> Nat]
  /\ conn \in [Clients -> {"away", "queued", "accepted", "failed", "broken"}]
  /\ input \in [Clients -> {"none", "nothing"} \cup Orders]
  /\ client_fd \subseteq Clients
  /\ read_buffer \in [Clients -> Lines]
  /\ reply \in [Clients -> Seq(Lines)]
  /\ data \in Seq(Lines) /\ f_pos \in Nat
  /\ ~FileBuild => Len(data) <= Capacity
  /\ mutex \in Clients \cup {Nobody}
  /\ timer \in {"none", "sleep", "lock", "done", "killed"}
  /\ timer_pos \in 0..MaxTicks /\ ticks \in 0..MaxTicks

Holds(s, x) == \E i \in 1..Len(s) : s[i] = x
SomeSendFailed == \E c \in Clients : conn[c] = "broken"

\* A node, which its thread uses to its last step (close(client_fd)), is freed
\* only when the thread has ended; main does not return before every thread has
\* ended; and of the connections it accepted only one can be left open then, the
\* one it could not start a thread for.
ThreadsHaveNodes ==
  /\ \A c \in Clients : thread[c] \in Running => c \in node
  /\ main \in {"timer", "exit"} =>
       /\ node = {}
       /\ \A c \in client_fd : thread[c] = "none"
       /\ Cardinality(client_fd) <= 1

\* ll_clean takes nodes out of the list while it walks it, and main adds them
\* at the head: from head on the list holds every node once, but the one that is
\* being joined, and ends, so that no thread is forgotten and none joined twice.
ListHoldsNodes ==
  main # "abort" =>
    LET listed == node \ (IF main = "join" THEN {current} ELSE {})
        n == Cardinality(listed)
    IN  /\ main = "join" => current \in node
        /\ \E l \in [1..n -> listed] :
             /\ \A c \in listed : \E i \in 1..n : l[i] = c
             /\ head = IF n = 0 THEN NoNode ELSE l[1]
             /\ \A i \in 1..n : next[l[i]] = IF i < n THEN l[i + 1] ELSE NoNode

\* The replay of the device starts at its beginning: whenever no thread is
\* between its write or seek and the end of its replay, the shared position is
\* 0, whatever the positions that concurrent threads copied and stored back.
\* Only a replay that is cut short leaves it inside the data: by a failing send
\* anywhere, and on a full device at a line whose memory has been freed.
RewoundWhenIdle ==
  ~FileBuild /\ (\A c \in Clients : thread[c] \notin Replaying \cup {"killed"})
    => \/ f_pos = 0
       \/ SomeSendFailed /\ f_pos \in 1..Len(data)
       \/ Len(data) = Capacity /\ f_pos < Capacity /\ data[f_pos + 1] = Hole

\* In the file build the mutex makes a line and its replay one step: a client
\* whose replay ends at the end of the file has been sent exactly the file, and
\* its own line with it unless the write of it failed.
ReplyIsWholeFile ==
  [][\A c \in Clients :
       FileBuild /\ thread[c] = "reading" /\ thread'[c] = "finish" =>
         /\ reply[c] = data
         /\ input[c] = "line" /\ conn[c] = "accepted" => Holds(data, c)]_vars

\* "If transmission is complete, Copy to local fd and then rewrite/resend it
\* back to client": a client that is served to the end, with no failing call,
\* is sent its own line.
LineComesBack ==
  \A c \in Clients :
    /\ input[c] = "line" /\ conn[c] = "accepted"
    /\ thread[c] \in {"finish", "close"}
    => Holds(reply[c], c)

\* A line that has been copied to the file stays there.
LinesStay ==
  [][\A i \in 1..Len(data) :
       data[i] \in Clients => i <= Len(data') /\ data'[i] = data[i]]_vars

\* What a client's line can be lost to once it can be read: in the file a
\* timestamp, which the timer writes at a position of its own, or the line of a
\* later client after a failing send left the shared position inside the file;
\* in the device, whatever fails, only as the oldest line of a full one, and the
\* others keep their order.  (The line that arrives at a full device is lost as
\* it arrives: the run driver_overwrite of AesdChar shows it.)
Shifted(i) ==
  /\ ~FileBuild /\ Len(data) = Capacity /\ Len(data') = Capacity
  /\ i > 1 => data'[i - 1] = data[i]
ClientsKeepLines ==
  [][(FileBuild => ticks' = ticks /\ ~SomeSendFailed) =>
       \A i \in 1..Len(data) :
         data[i] \in Clients =>
           (i <= Len(data') /\ data'[i] = data[i]) \/ Shifted(i)]_vars

\* A signal ends the server, whatever it was doing and whichever calls failed,
\* and so does leaving the loop on a failing call in the device build, provided
\* that no client makes its thread wait for ever: in recv, because it stays
\* silent, or in send, because it takes nothing more of its reply.  main waits
\* for such a thread in pthread_join, and in the file build its mutex is held.
WaitsForClient(c) ==
  thread[c] = "send" \/ (thread[c] = "recv" /\ input[c] = "none")
ShutdownEnds ==
  (\A c \in Clients : []<>~WaitsForClient(c)) =>
    (complete_exec \/ (is_clear /\ ~FileBuild) ~> main \in {"exit", "abort"})
=============================================================================
