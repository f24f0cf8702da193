------------------------------ MODULE AesdChar ------------------------------
(***************************************************************************)
(* The character driver of aesd-char-driver/main.c, called by concurrent   *)
(* tasks through the kernel's file layer.                                  *)
(*                                                                         *)
(* A call is several steps: the file layer copies f_pos of the open file   *)
(* (Call...), the handler runs under dev->lock, and the file layer or the  *)
(* handler stores a position back into the open file without the lock      *)
(* (StorePos).  Other tasks run between the steps; tasks with the same     *)
(* FileOf share an open file, as the threads of aesdsocket do.             *)
(*                                                                         *)
(* A byte is the number of the write call it came from, so that lost,      *)
(* mixed or misplaced bytes show; Garbage is a byte of kernel memory that  *)
(* nobody wrote.  A block of memory is named by the write call that        *)
(* allocates it.                                                           *)
(***************************************************************************)
EXTENDS AesdCircularBuffer

CONSTANTS
  Tasks, Files, FileOf,  \* FileOf[t]: the open file that task t uses
  NoTask,
  Writes,        \* writes offered: [count, newline], newline the place of the
                 \* first newline in the data, 0 when there is none
  ReadCounts,    \* read sizes asked for
  SeekArgs,      \* arguments of AESDCHAR_IOCSEEKTO: [write_cmd, write_cmd_offset]
  LSeekArgs,     \* arguments of lseek: [off, whence]
  MaxWrites,     \* bound on the number of write calls
  ReallocFails,  \* whether krealloc may fail (kmalloc always may)
  CharMod, CharSigned, \* the values of a char: 256, and signed or not by build
  IntMod, LoffMod      \* the number of values of an int, and of a loff_t

ASSUME DriverAssumption ==
  /\ FileOf \in [Tasks -> Files]
  /\ NoTask \notin Tasks
  /\ Writes \subseteq {w \in [count : Nat \ {0}, newline : Nat] : w.newline <= w.count}
  /\ ReadCounts \subseteq Nat \ {0}
  /\ SeekArgs \subseteq [write_cmd : Nat, write_cmd_offset : Nat]
  /\ LSeekArgs \subseteq [off : Int, whence : {"SEEK_SET", "SEEK_CUR", "SEEK_END"}]
  /\ MaxWrites \in Nat
  /\ ReallocFails \in BOOLEAN /\ CharSigned \in BOOLEAN
  /\ CharMod \in Nat \ {0} /\ IntMod \in Nat \ {0} /\ LoffMod \in Nat \ {0}
  /\ IntMod <= LoffMod /\ IntMod <= SizeMod /\ SizeMod % IntMod = 0

VARIABLES
  loaded,           \* whether the module is in the kernel
  opened,           \* the files that are open
  f_pos,            \* filp->f_pos of each open file
  circ_buffer,      \* dev->circ_buffer
  cb_buffer,        \* dev->cb_buffer: the block that collects a packet
  cb_size,          \* dev->cb_size, a char
  circ_total_size,  \* dev->circ_total_size
  lock,             \* the task that holds dev->lock between two steps
  live,             \* the blocks allocated and not freed
  mem,              \* the bytes stored in each block
  writes,           \* the number of write calls made
  pc, arg, pos,     \* where each task's call is, its arguments, its loff_t
  reply             \* the bytes copied to the task's buffer by its read

dev  == <<circ_buffer, cb_buffer, cb_size, circ_total_size, lock>>
heap == <<live, mem>>
vars == <<loaded, opened, f_pos, dev, heap, writes, pc, arg, pos, reply>>

Blocks  == 1..MaxWrites
Garbage == 0
NoArg   == [count |-> 0]

\* The value that a signed type of m values, a char, a size_t, an int and a
\* loff_t hold after n is stored in it.
ToSigned(n, m) == IF 2 * (n % m) >= m THEN (n % m) - m ELSE n % m
ToChar(n) == IF CharSigned THEN ToSigned(n, CharMod) ELSE n % CharMod
ToSize(n) == n % SizeMod
ToInt(n)  == ToSigned(n, IntMod)
ToLoff(n) == ToSigned(n, LoffMod)

\* The first n bytes of block b as krealloc hands them on.
Kept(b, n) ==
  [i \in 1..n |-> IF b # NULL /\ i <= Len(mem[b]) THEN mem[b][i] ELSE Garbage]

Goto(t, where) == pc' = [pc EXCEPT ![t] = where]

\* The call of t ends without the file layer touching the open file.
Finish(t) ==
  /\ Goto(t, "idle")
  /\ arg' = [arg EXCEPT ![t] = NoArg]
  /\ pos' = [pos EXCEPT ![t] = 0]

-----------------------------------------------------------------------------
(***************************************************************************)
(* Module and file lifetime.                                               *)
(***************************************************************************)
Init ==
  /\ loaded = FALSE
  /\ opened = {}
  /\ f_pos = [f \in Files |-> 0]
  /\ circ_buffer = EmptyBuffer
  /\ cb_buffer = NULL /\ cb_size = 0 /\ circ_total_size = 0 /\ lock = NoTask
  /\ live = {}
  /\ mem = [b \in Blocks |-> <<>>]
  /\ writes = 0
  /\ pc = [t \in Tasks |-> "idle"]
  /\ arg = [t \in Tasks |-> NoArg]
  /\ pos = [t \in Tasks |-> 0]
  /\ reply = [t \in Tasks |-> <<>>]

\* aesd_init_module: the device structure is zeroed.
InitModule ==
  /\ ~loaded
  /\ loaded' = TRUE
  /\ circ_buffer' = EmptyBuffer
  /\ cb_buffer' = NULL /\ cb_size' = 0 /\ circ_total_size' = 0
  /\ UNCHANGED <<opened, f_pos, lock, heap, writes, pc, arg, pos, reply>>

\* Freed by aesd_cleanup_module: the block of every entry.
CleanupFrees == {circ_buffer.entry[i].buffptr : i \in Slots}

\* aesd_cleanup_module: the kernel lets the module go only when no file is
\* open (.owner = THIS_MODULE).  A packet being collected is not freed.
CleanupModule ==
  /\ loaded /\ opened = {}
  /\ loaded' = FALSE
  /\ live' = live \ CleanupFrees
  /\ mem' = [b \in Blocks |-> IF b \in CleanupFrees THEN <<>> ELSE mem[b]]
  /\ UNCHANGED <<opened, f_pos, dev, writes, pc, arg, pos, reply>>

\* aesd_open: a new open file starts at position 0.
Open(f) ==
  /\ loaded /\ f \notin opened
  /\ opened' = opened \cup {f}
  /\ f_pos' = [f_pos EXCEPT ![f] = 0]
  /\ UNCHANGED <<loaded, dev, heap, writes, pc, arg, pos, reply>>

\* aesd_release does nothing, and runs when no call uses the file any more.
Release(f) ==
  /\ f \in opened
  /\ \A t \in Tasks : FileOf[t] = f => pc[t] = "idle"
  /\ opened' = opened \ {f}
  /\ UNCHANGED <<loaded, f_pos, dev, heap, writes, pc, arg, pos, reply>>

-----------------------------------------------------------------------------
(***************************************************************************)
(* Calls enter the driver through the file layer, which copies f_pos.  For *)
(* a character device it takes no lock on the position.  A read or write   *)
(* at a negative position, or of more bytes than a loff_t can count from   *)
(* there, ends in the file layer with -EINVAL.                             *)
(***************************************************************************)
Enter(t, where, a, p) ==
  /\ pc[t] = "idle" /\ FileOf[t] \in opened
  /\ Goto(t, where)
  /\ arg' = [arg EXCEPT ![t] = a]
  /\ pos' = [pos EXCEPT ![t] = p]
  /\ UNCHANGED <<loaded, opened, f_pos, dev, heap, reply>>

Accepted(p, count) == p >= 0 /\ ToLoff(p + count) >= 0

CallRead(t) ==
  /\ \E n \in ReadCounts :
       /\ Accepted(f_pos[FileOf[t]], n)
       /\ Enter(t, "read", [count |-> n], f_pos[FileOf[t]])
  /\ UNCHANGED writes

CallWrite(t) ==
  /\ writes < MaxWrites
  /\ writes' = writes + 1
  /\ \E w \in Writes :
       /\ Accepted(f_pos[FileOf[t]], w.count)
       /\ Enter(t, "write", [id |-> writes + 1, count |-> w.count, newline |-> w.newline],
                f_pos[FileOf[t]])

\* aesd_unlocked_ioctl up to the lock; a write_cmd past the array ends in
\* -EINVAL at once.
CallIoctl(t) ==
  /\ \E s \in SeekArgs :
       s.write_cmd < MaxWriteOps /\ Enter(t, "ioctl", s, 0)
  /\ UNCHANGED writes

MovesFromHere(t) ==
  pc[t] = "store" /\ "whence" \in DOMAIN arg[t] /\ arg[t].whence = "SEEK_CUR"

\* The end of the data as aesd_llseek passes it on, read without dev->lock: a
\* size_t that becomes a loff_t, negative when it is large.
DataEnd == ToLoff(circ_total_size)

\* The position fixed_size_llseek asks for.
LSeekTarget(t, s) ==
  ToLoff(s.off + CASE s.whence = "SEEK_SET" -> 0
                   [] s.whence = "SEEK_CUR" -> f_pos[FileOf[t]]
                   [] s.whence = "SEEK_END" -> DataEnd)

\* A target outside the data ends in -EINVAL at once, and one that is f_pos
\* stores nothing.  The file's f_lock keeps two SEEK_CUR apart, and nothing else.
CallLSeek(t) ==
  /\ \E s \in LSeekArgs :
       /\ LSeekTarget(t, s) \in 0..DataEnd \ {f_pos[FileOf[t]]}
       /\ s.whence = "SEEK_CUR" => \A u \in Tasks : FileOf[u] = FileOf[t] => ~MovesFromHere(u)
       /\ Enter(t, "store", s, LSeekTarget(t, s))
  /\ UNCHANGED writes

\* mutex_lock_interruptible returns -EINTR: a signal arrives while t waits for
\* another task that is in the driver.
Interrupted(t) ==
  /\ pc[t] \in {"read", "write", "ioctl"}
  /\ \E u \in Tasks \ {t} : pc[u] # "idle"
  /\ Finish(t)
  /\ UNCHANGED <<loaded, opened, f_pos, dev, heap, writes, reply>>

\* The end of a call that moves the file: the file layer stores back the
\* position the handler left after a read or write that did not fail, and
\* aesd_unlocked_ioctl and the llseek helper store theirs.  dev->lock is not held.
StorePos(t) ==
  /\ pc[t] = "store"
  /\ f_pos' = [f_pos EXCEPT ![FileOf[t]] = pos[t]]
  /\ reply' = [reply EXCEPT ![t] = <<>>]
  /\ Finish(t)
  /\ UNCHANGED <<loaded, opened, dev, heap, writes>>

-----------------------------------------------------------------------------
(***************************************************************************)
(* aesd_read under dev->lock.                                              *)
(***************************************************************************)
Lesser(m, n) == IF m < n THEN m ELSE n

\* The entry that holds the byte at the position of t, if there is one: the
\* loff_t becomes the size_t char_offset.
Found(t) == FindEntryOffset(circ_buffer, ToSize(pos[t]))

BytesAt(b, offset, n) ==
  [i \in 1..n |-> IF offset + i <= Len(mem[b]) THEN mem[b][offset + i] ELSE Garbage]

Locked(t, where) == pc[t] = where /\ lock = NoTask

ReadUnclamped(t) ==      \* mutant: f_pos moves by the count asked for
  /\ Locked(t, "read")
  /\ \E hit \in Found(t) :
       LET e == circ_buffer.entry[hit.slot]
           n == Lesser(e.size - hit.offset, arg[t].count)
       IN  /\ e.buffptr # NULL
           /\ pos' = [pos EXCEPT ![t] = ToLoff(@ + arg[t].count)]
           /\ reply' = [reply EXCEPT ![t] = BytesAt(e.buffptr, hit.offset, n)]
  /\ Goto(t, "store")
  /\ UNCHANGED <<loaded, opened, f_pos, dev, heap, writes, arg>>

\* The entry at the position is copied out, at most to its end.
ReadData(t) ==
  /\ Locked(t, "read")
  /\ \E hit \in Found(t) :
       LET e == circ_buffer.entry[hit.slot]
           n == Lesser(e.size - hit.offset, arg[t].count)
       IN  /\ e.buffptr # NULL
           /\ pos' = [pos EXCEPT ![t] = ToLoff(@ + n)]
           /\ reply' = [reply EXCEPT ![t] = BytesAt(e.buffptr, hit.offset, n)]
  /\ Goto(t, "store")
  /\ UNCHANGED <<loaded, opened, f_pos, dev, heap, writes, arg>>

\* copy_to_user fails: -EFAULT, and the position that was moved is dropped.
ReadFault(t) ==
  /\ Locked(t, "read")
  /\ \E hit \in Found(t) :
       circ_buffer.entry[hit.slot].buffptr # NULL
  /\ Finish(t)
  /\ UNCHANGED <<loaded, opened, f_pos, dev, heap, writes, reply>>

\* Past the last byte: 0 is returned and the position goes back to 0.
ReadEnd(t) ==
  /\ Locked(t, "read")
  /\ Found(t) = {}
  /\ pos' = [pos EXCEPT ![t] = 0]
  /\ Goto(t, "store")
  /\ UNCHANGED <<loaded, opened, f_pos, dev, heap, writes, arg, reply>>

\* The entry found has no memory: 0 is returned and the position stays.
ReadHole(t) ==
  /\ Locked(t, "read")
  /\ \E hit \in Found(t) :
       circ_buffer.entry[hit.slot].buffptr = NULL
  /\ Goto(t, "store")
  /\ UNCHANGED <<loaded, opened, f_pos, dev, heap, writes, arg, pos, reply>>

-----------------------------------------------------------------------------
(***************************************************************************)
(* aesd_write under dev->lock.                                             *)
(***************************************************************************)
\* The block that receives the data: kmalloc's when no packet is being
\* collected, else what krealloc makes of cb_buffer, a new block after NULL.
WriteBlock(t) == IF cb_size = 0 \/ cb_buffer = NULL THEN arg[t].id ELSE cb_buffer

AllocateAnew(t, bytes) ==     \* mutant: kmalloc for every write
  /\ cb_buffer' = arg[t].id
  /\ live' = live \cup {arg[t].id}
  /\ mem' = [mem EXCEPT ![arg[t].id] = bytes]

\* cb_buffer after the allocation, when the data arrives in it.  A cb_size that
\* has gone negative makes the driver write in front of the block; the model
\* ends there.
Allocate(t, bytes) ==
  /\ cb_size >= 0
  /\ cb_buffer' = WriteBlock(t)
  /\ live' = live \cup {WriteBlock(t)}
  /\ mem' = [mem EXCEPT ![WriteBlock(t)] =
               Kept(IF cb_size = 0 THEN NULL ELSE cb_buffer, cb_size) \o bytes]

Data(t) == [i \in 1..arg[t].count |-> arg[t].id]

WriteNoMemoryLocked(t) ==     \* mutant: returns without mutex_unlock
  /\ Locked(t, "write")
  /\ cb_size = 0 \/ ReallocFails
  /\ cb_buffer' = NULL
  /\ lock' = t
  /\ Finish(t)
  /\ UNCHANGED <<loaded, opened, f_pos, circ_buffer, cb_size, circ_total_size,
                 heap, writes, reply>>

\* No memory: -ENOMEM.  What krealloc was given stays allocated.
WriteNoMemory(t) ==
  /\ Locked(t, "write")
  /\ cb_size = 0 \/ ReallocFails
  /\ cb_buffer' = NULL
  /\ Finish(t)
  /\ UNCHANGED <<loaded, opened, f_pos, circ_buffer, cb_size, circ_total_size, lock,
                 heap, writes, reply>>

\* copy_from_user fails: -EFAULT, the size is not changed.
WriteFault(t) ==
  /\ Locked(t, "write")
  /\ Allocate(t, <<>>)
  /\ Finish(t)
  /\ UNCHANGED <<loaded, opened, f_pos, circ_buffer, cb_size, circ_total_size, lock,
                 writes, reply>>

\* No newline: the bytes are kept for the next write.
WritePartial(t) ==
  /\ Locked(t, "write")
  /\ arg[t].newline = 0
  /\ Allocate(t, Data(t))
  /\ cb_size' = ToChar(cb_size + arg[t].count)
  /\ Goto(t, "store")
  /\ UNCHANGED <<loaded, opened, f_pos, circ_buffer, circ_total_size, lock,
                 writes, arg, pos, reply>>

WritePacketCountsPiece(t) ==  \* mutant: the total grows by this write's part only
  LET size   == ToChar(cb_size + arg[t].newline)
      entry  == [buffptr |-> WriteBlock(t), size |-> ToSize(size)]
  IN  /\ Locked(t, "write")
      /\ arg[t].newline > 0
      /\ Allocate(t, Data(t))
      /\ circ_buffer' = AddEntry(circ_buffer, entry)
      /\ circ_total_size' = ToSize(circ_total_size + arg[t].newline)
      /\ cb_size' = 0
      /\ Goto(t, "store")
      /\ UNCHANGED <<loaded, opened, f_pos, lock, writes, arg, pos, reply>>

\* A newline: the packet up to it becomes an entry.  When the buffer was full
\* the returned pointer is handled by WriteFree, under the same lock.
WritePacket(t) ==
  LET size   == ToChar(cb_size + arg[t].newline)
      entry  == [buffptr |-> WriteBlock(t), size |-> ToSize(size)]
      after  == AddEntry(circ_buffer, entry)
      freed  == {s \in Overwritten(circ_buffer) :
                   after.entry[s].buffptr # NULL /\ after.full}
  IN  /\ Locked(t, "write")
      /\ arg[t].newline > 0
      /\ Allocate(t, Data(t))
      /\ circ_buffer' = after
      /\ circ_total_size' = ToSize(circ_total_size + size)
      /\ \/ /\ freed = {}
            /\ cb_size' = 0
            /\ Goto(t, "store")
            /\ UNCHANGED <<lock, arg>>
         \/ /\ \E s \in freed : arg' = [arg EXCEPT ![t] = [slot |-> s]]
            /\ cb_size' = size
            /\ lock' = t
            /\ Goto(t, "free")
      /\ UNCHANGED <<loaded, opened, f_pos, writes, pos, reply>>

WriteFreeDangling(t) ==     \* mutant: the entry's pointer is not cleared
  LET e == circ_buffer.entry[arg[t].slot]
  IN  /\ pc[t] = "free"
      /\ circ_total_size' = ToSize(circ_total_size - e.size)
      /\ live' = live \ {e.buffptr}
      /\ mem' = [mem EXCEPT ![e.buffptr] = <<>>]
      /\ cb_size' = 0
      /\ lock' = NoTask
      /\ Goto(t, "store")
      /\ UNCHANGED <<loaded, opened, f_pos, circ_buffer, cb_buffer, writes, arg, pos, reply>>

\* The end of aesd_write after an overwrite: the size and the block of the
\* entry the returned pointer refers to now, then dev->lock is released.
WriteFree(t) ==
  LET s == arg[t].slot
      e == circ_buffer.entry[s]
  IN  /\ pc[t] = "free"
      /\ circ_total_size' = ToSize(circ_total_size - e.size)
      /\ live' = live \ {e.buffptr}
      /\ mem' = [mem EXCEPT ![e.buffptr] = <<>>]
      /\ circ_buffer' = [circ_buffer EXCEPT !.entry[s].buffptr = NULL]
      /\ cb_size' = 0
      /\ lock' = NoTask
      /\ arg' = [arg EXCEPT ![t] = NoArg]
      /\ Goto(t, "store")
      /\ UNCHANGED <<loaded, opened, f_pos, cb_buffer, writes, pos, reply>>

-----------------------------------------------------------------------------
(***************************************************************************)
(* aesd_unlocked_ioctl under dev->lock.                                    *)
(***************************************************************************)
SizeOf(i) == circ_buffer.entry[i].size

\* The sizes of the entries 0 .. n-1 of the array, added up.
BytesBefore(n) ==
  LET sum[k \in 0..MaxWriteOps] == IF k = 0 THEN 0 ELSE sum[k - 1] + SizeOf(k - 1)
  IN  sum[n]

\* fpos at the end of aesd_unlocked_ioctl.  It is an int to which each size_t and
\* the offset are added: the sum wraps, and to wrap it once comes to the same.
Fpos(s) == ToInt(BytesBefore(s.write_cmd) + s.write_cmd_offset)

SeekAnyOffset(s) ==           \* mutant: write_cmd_offset is not checked
  /\ SizeOf(s.write_cmd) # 0
  /\ \A i \in 0..(s.write_cmd - 1) : SizeOf(i) # 0

SeekValid(s) ==
  /\ s.write_cmd_offset < SizeOf(s.write_cmd)
  /\ \A i \in 0..(s.write_cmd - 1) : SizeOf(i) # 0

\* The position is computed under the lock and stored after it (StorePos).
IoctlSeek(t) ==
  LET s == arg[t]
  IN  /\ Locked(t, "ioctl")
      /\ SeekValid(s)
      /\ pos' = [pos EXCEPT ![t] = Fpos(s)]
      /\ Goto(t, "store")
      /\ UNCHANGED <<loaded, opened, f_pos, dev, heap, writes, arg, reply>>

IoctlInvalid(t) ==
  /\ Locked(t, "ioctl")
  /\ ~SeekValid(arg[t])
  /\ Finish(t)
  /\ UNCHANGED <<loaded, opened, f_pos, dev, heap, writes, reply>>

-----------------------------------------------------------------------------
ReadStep(t)  == ReadData(t) \/ ReadFault(t) \/ ReadEnd(t) \/ ReadHole(t)
WriteStep(t) == WriteNoMemory(t) \/ WriteFault(t) \/ WritePartial(t) \/ WritePacket(t)
IoctlStep(t) == IoctlSeek(t) \/ IoctlInvalid(t)
EndStep(t)   == WriteFree(t) \/ StorePos(t)
Call(t)      == CallRead(t) \/ CallWrite(t) \/ CallIoctl(t) \/ CallLSeek(t)

Next ==
  \/ InitModule \/ CleanupModule
  \/ \E f \in Files : Open(f) \/ Release(f)
  \/ \E t \in Tasks : \/ Call(t) \/ Interrupted(t)
                      \/ ReadStep(t) \/ WriteStep(t) \/ IoctlStep(t) \/ EndStep(t)

Spec == Init /\ [][Next]_vars

\* A task in the kernel runs again, and the mutex hands itself on to the
\* tasks that wait for it, so a wait that is granted again and again ends.
Fairness ==
  \A t \in Tasks :
    /\ SF_vars(ReadStep(t) \/ WriteStep(t) \/ IoctlStep(t))
    /\ WF_vars(EndStep(t))

FairSpec == Spec /\ Fairness

-----------------------------------------------------------------------------
Locations == {"idle", "read", "write", "ioctl", "free", "store"}
WriteArgs == [id : Blocks, count : Nat \ {0}, newline : Nat]
FreeArgs  == [slot : Slots]
Args      == [count : Nat] \cup WriteArgs \cup FreeArgs \cup SeekArgs \cup LSeekArgs

DeviceTypeOK ==
  /\ loaded \in BOOLEAN
  /\ opened \subseteq Files
  /\ circ_buffer \in Buffer
  /\ cb_buffer \in Blocks \cup {NULL}
  /\ cb_size \in Int /\ circ_total_size \in Nat
  /\ lock \in Tasks \cup {NoTask}
  /\ live \subseteq Blocks
  /\ mem \in [Blocks -> Seq(0..MaxWrites)]
  /\ writes \in 0..MaxWrites
  /\ pc \in [Tasks -> Locations]
  /\ arg \in [Tasks -> Args]
  /\ \A t \in Tasks : /\ pc[t] = "write" => arg[t] \in WriteArgs
                      /\ pc[t] = "free"  => arg[t] \in FreeArgs

\* The values of a loff_t.
Loff == {n \in Int : -LoffMod <= 2 * n /\ 2 * n < LoffMod}

\* An ioctl may leave a negative position in an open file; no read or write
\* runs at one.
PositionTypeOK ==
  /\ f_pos \in [Files -> Loff]
  /\ pos \in [Tasks -> Loff]
  /\ \A t \in Tasks : pc[t] \in {"read", "write"} => pos[t] >= 0
  /\ reply \in [Tasks -> Seq(0..MaxWrites)]

TypeOK == DeviceTypeOK /\ PositionTypeOK

\* Memory ownership (aesd_write's kmalloc, krealloc and kfree, and
\* aesd_cleanup_module): every entry that points somewhere points to a block
\* that is still allocated and that no other entry points to, so no read uses
\* freed memory and no block is freed twice; a packet being collected has a
\* block of its own; and after the module is gone no entry's block is left.
\* The aliasing pointer of an overwrite, failed allocations and the packets
\* of several writers must all preserve it.
BlocksOwnedOnce ==
  LET ptr(i) == circ_buffer.entry[i].buffptr
  IN  IF loaded
      THEN /\ \A i \in Slots : ptr(i) # NULL => ptr(i) \in live
           /\ \A i, j \in Slots : i # j /\ ptr(i) # NULL => ptr(i) # ptr(j)
           /\ lock = NoTask /\ cb_size # 0 /\ cb_buffer # NULL =>
                cb_buffer \in live /\ \A i \in Slots : ptr(i) # cb_buffer
      ELSE \A i \in Slots : ptr(i) \notin live

\* What BlocksOwnedOnce rests on.  Calls run only in a loaded module, through an
\* open file; the block a write would allocate is nobody's yet; and the task
\* that holds dev->lock between two steps is about to free, through the pointer
\* it got for the overwritten entry, the packet it has just added.
CallsNeedModule ==
  /\ opened # {} => loaded
  /\ \A t \in Tasks : pc[t] # "idle" => FileOf[t] \in opened

FreshBlocks ==
  /\ \A b \in live : b <= writes
  /\ \A t \in Tasks : pc[t] = "write" =>
       /\ arg[t].id <= writes /\ arg[t].id \notin live
       /\ \A u \in Tasks \ {t} : pc[u] = "write" => arg[u].id # arg[t].id

FreesWhatItAdded ==
  \A t \in Tasks : pc[t] = "free" =>
    lock = t /\ circ_buffer.entry[arg[t].slot].buffptr = cb_buffer

IInv == /\ DeviceTypeOK /\ RingShape(circ_buffer)
        /\ CallsNeedModule /\ FreshBlocks /\ FreesWhatItAdded /\ BlocksOwnedOnce

\* The size of an entry is the "Number of bytes stored in buffptr"
\* (aesd-circular-buffer.h): a reader is never handed memory nobody wrote.
EntriesHoldTheirBytes ==
  loaded => \A i \in Slots :
    LET e == circ_buffer.entry[i]
    IN  e.buffptr # NULL =>
          e.size <= Len(mem[e.buffptr]) /\ \A j \in 1..e.size : mem[e.buffptr][j] # Garbage

\* circ_total_size, from which aesd_llseek takes the end of the data without
\* the lock, is the sum of the entries of the array: of packets collected from
\* the writes of several tasks, with failing allocations and copies between
\* them, and through unloads.  (An overwriting write is between its two updates
\* of the total while it holds lock; what it leaves is another matter.)
TotalIsSum == loaded /\ lock = NoTask => circ_total_size = BytesBefore(MaxWriteOps)

\* No open file is ever left outside the data, however the steps of
\* reads, writes, seeks and stores of two tasks fall between each other.  While
\* nothing is overwritten the data only grow, so what has to hold is that every
\* position computed lies in the data at that time.
PositionInData ==
  \A f \in opened : f_pos[f] \in 0..circ_total_size

\* A seek goes where it says (aesd_ioctl.h: "The zero referenced write command
\* to seek into", "The zero referenced offset within the write"): when
\* aesd_unlocked_ioctl stores the position, with the lock released and perhaps
\* another packet added since, a read from there would find the asked offset of
\* the asked command, counted either in the array or from the oldest.
SeekLandsOnCommand ==
  [][\A t \in Tasks :
       pc[t] = "store" /\ arg[t] \in SeekArgs /\ pc'[t] = "idle" =>
         \E hit \in FindEntryOffset(circ_buffer, ToSize(f_pos'[FileOf[t]])) :
           /\ hit.slot \in {arg[t].write_cmd, ReadSlot(circ_buffer, arg[t].write_cmd)}
           /\ hit.offset = arg[t].write_cmd_offset]_vars

\* What its users see of the driver: the bytes of an entry, the packets kept and
\* the one being collected, and where each task's call is.
Packet(e) == IF e.buffptr = NULL THEN <<>> ELSE Kept(e.buffptr, e.size)

Packets ==
  IF loaded THEN [k \in 1..Held(circ_buffer) |-> Packet(Contents(circ_buffer)[k])] ELSE <<>>

Collected ==
  IF loaded /\ lock = NoTask THEN Kept(cb_buffer, cb_size) ELSE <<>>

Payload(w, id) == [bytes |-> [i \in 1..w.count |-> id], newline |-> w.newline]

Payloads == {Payload(w, id) : w \in Writes, id \in Blocks}

Status(t) == CASE pc[t] = "read"              -> "reading"
               [] pc[t] \in {"free", "store"} -> "back"
               [] OTHER                       -> "other"

View == [t \in Tasks |-> [status |-> Status(t), pos |-> pos[t], data |-> reply[t]]]

Device ==
  INSTANCE AesdDevice
    WITH Bound <- MaxWriteOps, log <- Packets, pending <- Collected, view <- View

\* The driver implements the device of AesdDevice: a reader is handed the
\* packets as written and in order, pieces of packets by several writers are
\* joined and none is lost to a call that fails, and a read returns nothing
\* only at the end of the data.
ImplementsDevice == Device!Spec

\* Every call of every task comes back: no path of a handler, the error paths
\* included, leaves dev->lock taken or waits for something nobody does.
EveryCallReturns == \A t \in Tasks : pc[t] # "idle" ~> pc[t] = "idle"
=============================================================================
