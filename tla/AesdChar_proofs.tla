-------------------------- MODULE AesdChar_proofs --------------------------
(***************************************************************************)
(* Proofs about the driver, for every number of tasks, files, entries and  *)
(* writes, every size of a char and a size_t, and every mix of failing     *)
(* allocations: the device's data keep their types, and memory is owned    *)
(* once.                                                                   *)
(***************************************************************************)
EXTENDS AesdChar, AesdCircularBuffer_proofs

\* A byte count stored in a char or a size_t is a number of that type.
LEMMA Conversions ==
  ASSUME NEW n \in Int
  PROVE  ToChar(n) \in Int /\ ToSize(n) \in Nat
<1>1. CharMod \in Nat \ {0} /\ SizeMod \in Nat \ {0}
  BY DriverAssumption, BufferAssumption
<1>2. n % CharMod \in Int /\ n % SizeMod \in Nat
  BY <1>1
<1>3. ToSigned(n, CharMod) \in Int
  BY <1>1, <1>2 DEF ToSigned
<1> QED BY <1>2, <1>3 DEF ToChar, ToSize

\* The block numbers differ from the null pointer.
LEMMA BlocksNotNull == Blocks \subseteq Nat \ {NULL} /\ Garbage \in 0..MaxWrites
BY DriverAssumption DEF Blocks, NULL, Garbage

-----------------------------------------------------------------------------
(***************************************************************************)
(* Steps that leave the device and the memory alone.                       *)
(***************************************************************************)
LEMMA QuietStep ==
  ASSUME IInv,
         UNCHANGED <<loaded, dev, heap, writes>>,
         opened' \subseteq Files,
         opened' # {} => loaded,
         pc' \in [Tasks -> Locations],
         arg' \in [Tasks -> Args],
         \A t \in Tasks : pc'[t] # "idle" => FileOf[t] \in opened',
         \A t \in Tasks : pc'[t] \in {"write", "free"} =>
                            pc[t] = pc'[t] /\ arg'[t] = arg[t]
  PROVE  IInv'
<1>1. /\ loaded' = loaded /\ circ_buffer' = circ_buffer /\ cb_buffer' = cb_buffer
      /\ cb_size' = cb_size /\ circ_total_size' = circ_total_size /\ lock' = lock
      /\ live' = live /\ mem' = mem /\ writes' = writes
  BY DEF dev, heap
<1>2. DeviceTypeOK'
  BY <1>1 DEF IInv, DeviceTypeOK
<1>3. RingShape(circ_buffer)'
  BY <1>1 DEF IInv, RingShape
<1>4. CallsNeedModule'
  BY <1>1 DEF CallsNeedModule
<1>5. FreshBlocks'
  BY <1>1 DEF IInv, FreshBlocks
<1>6. FreesWhatItAdded'
  BY <1>1 DEF IInv, FreesWhatItAdded
<1>7. BlocksOwnedOnce'
  BY <1>1 DEF IInv, BlocksOwnedOnce
<1> QED BY <1>2, <1>3, <1>4, <1>5, <1>6, <1>7 DEF IInv

\* A call that ends without a store is such a step.
LEMMA FinishIsQuiet ==
  ASSUME IInv, NEW t \in Tasks, Finish(t),
         UNCHANGED <<loaded, opened, dev, heap, writes>>
  PROVE  IInv'
<1>1. pc' = [pc EXCEPT ![t] = "idle"] /\ arg' = [arg EXCEPT ![t] = NoArg]
  BY DEF Finish, Goto
<1>2. pc \in [Tasks -> Locations] /\ arg \in [Tasks -> Args] /\ opened \subseteq Files
  BY DEF IInv, DeviceTypeOK
<1>3. NoArg \in Args
  BY DEF NoArg, Args
<1>4. pc' \in [Tasks -> Locations] /\ arg' \in [Tasks -> Args]
  BY <1>1, <1>2, <1>3 DEF Locations
<1>5. opened' = opened /\ (opened # {} => loaded)
  BY DEF IInv, CallsNeedModule
<1>6. \A u \in Tasks : pc'[u] # "idle" => FileOf[u] \in opened'
  BY <1>1, <1>2, <1>5 DEF IInv, CallsNeedModule
<1>7. \A u \in Tasks : pc'[u] \in {"write", "free"} => pc[u] = pc'[u] /\ arg'[u] = arg[u]
  BY <1>1, <1>2
<1> QED BY <1>2, <1>4, <1>5, <1>6, <1>7, QuietStep

\* So is one that goes on to the store of a position.
LEMMA ToStoreIsQuiet ==
  ASSUME IInv, NEW t \in Tasks, pc[t] # "idle", Goto(t, "store"), arg' = arg,
         UNCHANGED <<loaded, opened, dev, heap, writes>>
  PROVE  IInv'
<1>1. pc' = [pc EXCEPT ![t] = "store"] /\ arg' = arg
  BY DEF Goto
<1>2. pc \in [Tasks -> Locations] /\ arg \in [Tasks -> Args] /\ opened \subseteq Files
  BY DEF IInv, DeviceTypeOK
<1>3. pc' \in [Tasks -> Locations] /\ arg' \in [Tasks -> Args]
  BY <1>1, <1>2 DEF Locations
<1>4. opened' = opened /\ (opened # {} => loaded)
  BY DEF IInv, CallsNeedModule
<1>5. \A u \in Tasks : pc'[u] # "idle" => FileOf[u] \in opened'
  BY <1>1, <1>2, <1>4 DEF IInv, CallsNeedModule
<1>6. \A u \in Tasks : pc'[u] \in {"write", "free"} => pc[u] = pc'[u] /\ arg'[u] = arg[u]
  BY <1>1, <1>2
<1> QED BY <1>2, <1>3, <1>4, <1>5, <1>6, QuietStep

\* And so is the entry of a call that is not a write.
LEMMA EnterIsQuiet ==
  ASSUME IInv, NEW t \in Tasks, NEW where \in Locations \ {"idle", "write", "free"},
         NEW a \in Args, NEW p, Enter(t, where, a, p), writes' = writes
  PROVE  IInv'
<1>1. /\ pc' = [pc EXCEPT ![t] = where] /\ arg' = [arg EXCEPT ![t] = a]
      /\ FileOf[t] \in opened /\ opened' = opened
      /\ UNCHANGED <<loaded, dev, heap, writes>>
  BY DEF Enter, Goto
<1>2. pc \in [Tasks -> Locations] /\ arg \in [Tasks -> Args] /\ opened \subseteq Files
  BY DEF IInv, DeviceTypeOK
<1>3. pc' \in [Tasks -> Locations] /\ arg' \in [Tasks -> Args]
  BY <1>1, <1>2
<1>4. opened # {} => loaded
  BY DEF IInv, CallsNeedModule
<1>5. \A u \in Tasks : pc'[u] # "idle" => FileOf[u] \in opened'
  BY <1>1, <1>2 DEF IInv, CallsNeedModule
<1>6. \A u \in Tasks : pc'[u] \in {"write", "free"} => pc[u] = pc'[u] /\ arg'[u] = arg[u]
  BY <1>1, <1>2
<1> QED BY <1>1, <1>2, <1>3, <1>4, <1>5, <1>6, QuietStep

-----------------------------------------------------------------------------
(***************************************************************************)
(* The life of the module and the entry of a write.                        *)
(***************************************************************************)
LEMMA InitEstablishes == Init => IInv
<1> SUFFICES ASSUME Init PROVE IInv
  OBVIOUS
<1> USE DEF Init
<1>1. DeviceTypeOK
  <2>1. circ_buffer \in Buffer
    BY EmptyBufferShape
  <2>2. mem \in [Blocks -> Seq(0..MaxWrites)] /\ writes \in 0..MaxWrites
    BY DriverAssumption
  <2>3. pc \in [Tasks -> Locations] /\ arg \in [Tasks -> Args]
    BY DEF Locations, Args, NoArg
  <2>4. cb_buffer \in Blocks \cup {NULL} /\ live \subseteq Blocks
        /\ circ_total_size \in Nat /\ cb_size \in Int
    OBVIOUS
  <2>5. \A t \in Tasks : pc[t] = "idle"
    OBVIOUS
  <2>6. loaded \in BOOLEAN /\ opened \subseteq Files /\ lock \in Tasks \cup {NoTask}
    OBVIOUS
  <2> QED BY <2>1, <2>2, <2>3, <2>4, <2>5, <2>6, Zenon DEF DeviceTypeOK
<1>2. RingShape(circ_buffer)
  BY EmptyBufferShape
<1>3. CallsNeedModule /\ FreshBlocks /\ FreesWhatItAdded /\ BlocksOwnedOnce
  BY DEF CallsNeedModule, FreshBlocks, FreesWhatItAdded, BlocksOwnedOnce
<1> QED BY <1>1, <1>2, <1>3 DEF IInv

\* While the module is not loaded no file is open and no task is in the driver.
LEMMA NobodyInside ==
  ASSUME IInv, opened = {}
  PROVE  \A t \in Tasks : pc[t] = "idle"
BY DEF IInv, CallsNeedModule

LEMMA InitModuleStep ==
  ASSUME IInv, InitModule
  PROVE  IInv'
<1>1. \A t \in Tasks : pc'[t] = "idle"
  BY NobodyInside DEF IInv, CallsNeedModule, InitModule
<1>2. DeviceTypeOK'
  <2>1. circ_buffer' \in Buffer
    BY EmptyBufferShape DEF InitModule
  <2> QED BY <1>1, <2>1 DEF IInv, DeviceTypeOK, InitModule, heap
<1>3. RingShape(circ_buffer)'
  BY EmptyBufferShape DEF InitModule, RingShape
<1>4. CallsNeedModule' /\ FreesWhatItAdded'
  BY <1>1 DEF CallsNeedModule, FreesWhatItAdded, InitModule
<1>5. FreshBlocks'
  BY <1>1 DEF IInv, FreshBlocks, InitModule, heap
<1>6. BlocksOwnedOnce'
  BY DEF BlocksOwnedOnce, InitModule, EmptyBuffer
<1> QED BY <1>2, <1>3, <1>4, <1>5, <1>6 DEF IInv

\* aesd_cleanup_module frees the block of every entry.
LEMMA CleanupModuleStep ==
  ASSUME IInv, CleanupModule
  PROVE  IInv'
<1>1. /\ opened' = {} /\ UNCHANGED <<opened, writes, pc, arg>>
      /\ live' = live \ CleanupFrees /\ ~loaded'
      /\ circ_buffer' = circ_buffer
  BY DEF CleanupModule, dev
<1>2. \A t \in Tasks : pc'[t] = "idle"
  BY <1>1, NobodyInside
<1>3. DeviceTypeOK'
  <2>1. mem' \in [Blocks -> Seq(0..MaxWrites)]
    <3>1. mem \in [Blocks -> Seq(0..MaxWrites)]
      BY DEF IInv, DeviceTypeOK
    <3>2. <<>> \in Seq(0..MaxWrites)
      BY EmptySeq
    <3>3. mem' = [b \in Blocks |-> IF b \in CleanupFrees THEN <<>> ELSE mem[b]]
      BY DEF CleanupModule
    <3> HIDE DEF CleanupFrees
    <3> QED BY <3>1, <3>2, <3>3
  <2> QED BY <1>2, <2>1 DEF IInv, DeviceTypeOK, CleanupModule, dev
<1>4. RingShape(circ_buffer)'
  BY <1>1 DEF IInv, RingShape
<1>5. CallsNeedModule' /\ FreesWhatItAdded'
  BY <1>1, <1>2 DEF CallsNeedModule, FreesWhatItAdded
<1>6. FreshBlocks'
  BY <1>1, <1>2 DEF IInv, FreshBlocks
<1>7. BlocksOwnedOnce'
  BY <1>1 DEF BlocksOwnedOnce, CleanupFrees
<1> QED BY <1>3, <1>4, <1>5, <1>6, <1>7 DEF IInv

\* A write takes a block number nobody has.
LEMMA CallWriteStep ==
  ASSUME IInv, NEW t \in Tasks, CallWrite(t)
  PROVE  IInv'
<1>1. PICK w \in Writes :
        Enter(t, "write", [id |-> writes + 1, count |-> w.count, newline |-> w.newline],
              f_pos[FileOf[t]])
  BY DEF CallWrite
<1> DEFINE a == [id |-> writes + 1, count |-> w.count, newline |-> w.newline]
<1>2. /\ pc' = [pc EXCEPT ![t] = "write"] /\ arg' = [arg EXCEPT ![t] = a]
      /\ FileOf[t] \in opened /\ writes < MaxWrites /\ writes' = writes + 1
      /\ UNCHANGED <<loaded, opened, dev, heap>>
  BY <1>1 DEF Enter, Goto, CallWrite
<1>3. /\ pc \in [Tasks -> Locations] /\ arg \in [Tasks -> Args]
      /\ writes \in Nat /\ MaxWrites \in Nat /\ live \subseteq Blocks
  BY DriverAssumption DEF IInv, DeviceTypeOK
<1>4. a \in WriteArgs /\ writes + 1 \in Blocks
  BY <1>2, <1>3, DriverAssumption DEF WriteArgs, Blocks
<1>5. UNCHANGED <<circ_buffer, cb_buffer, cb_size, circ_total_size, lock, live, mem>>
  BY <1>2 DEF dev, heap
<1>6. DeviceTypeOK'
  <2>1. pc' \in [Tasks -> Locations] /\ arg' \in [Tasks -> Args]
    BY <1>2, <1>3, <1>4 DEF Locations, Args
  <2>2. \A u \in Tasks : /\ pc'[u] = "write" => arg'[u] \in WriteArgs
                         /\ pc'[u] = "free"  => arg'[u] \in FreeArgs
    BY <1>2, <1>3, <1>4 DEF IInv, DeviceTypeOK
  <2>3. writes' \in 0..MaxWrites
    BY <1>2, <1>3
  <2> QED BY <1>2, <1>5, <2>1, <2>2, <2>3 DEF IInv, DeviceTypeOK
<1>7. RingShape(circ_buffer)' /\ BlocksOwnedOnce'
  BY <1>2, <1>5 DEF IInv, RingShape, BlocksOwnedOnce
<1>8. CallsNeedModule'
  BY <1>2, <1>3 DEF IInv, CallsNeedModule
<1>9. FreshBlocks'
  <2>1. \A b \in live' : b <= writes'
    BY <1>2, <1>3, <1>5 DEF IInv, FreshBlocks, Blocks
  <2>2. writes + 1 \notin live
    BY <1>3 DEF IInv, FreshBlocks
  <2>3. \A u \in Tasks \ {t} : pc'[u] = "write" =>
          /\ pc[u] = "write" /\ arg'[u] = arg[u]
          /\ arg[u].id \in Nat /\ arg[u].id <= writes /\ arg[u].id \notin live
    BY <1>2, <1>3 DEF IInv, FreshBlocks, DeviceTypeOK, WriteArgs, Blocks
  <2>4. arg'[t].id = writes + 1
    BY <1>2, <1>3
  <2>5. ASSUME NEW u \in Tasks, pc'[u] = "write"
        PROVE  /\ arg'[u].id <= writes' /\ arg'[u].id \notin live'
               /\ \A v \in Tasks \ {u} : pc'[v] = "write" => arg'[v].id # arg'[u].id
    <3>1. CASE u = t
      BY <3>1, <1>2, <1>3, <1>5, <2>2, <2>3, <2>4
    <3>2. CASE u # t
      BY <3>2, <2>5, <1>2, <1>3, <1>5, <2>3, <2>4 DEF IInv, FreshBlocks
    <3> QED BY <3>1, <3>2
  <2> QED BY <2>1, <2>5 DEF FreshBlocks
<1>10. FreesWhatItAdded'
  BY <1>2, <1>3, <1>5 DEF IInv, FreesWhatItAdded
<1> QED BY <1>6, <1>7, <1>8, <1>9, <1>10 DEF IInv

-----------------------------------------------------------------------------
(***************************************************************************)
(* aesd_write.                                                             *)
(***************************************************************************)
\* What krealloc hands on is a sequence of bytes.
LEMMA KeptIsBytes ==
  ASSUME mem \in [Blocks -> Seq(0..MaxWrites)],
         NEW b \in Blocks \cup {NULL}, NEW n \in Nat
  PROVE  Kept(b, n) \in Seq(0..MaxWrites)
<1>1. ASSUME NEW i \in 1..n
      PROVE  (IF b # NULL /\ i <= Len(mem[b]) THEN mem[b][i] ELSE Garbage) \in 0..MaxWrites
  <2>1. CASE b # NULL /\ i <= Len(mem[b])
    <3>1. mem[b] \in Seq(0..MaxWrites) /\ i \in 1..Len(mem[b])
      BY <2>1, LenProperties
    <3> QED BY <3>1, <2>1, ElementOfSeq
  <2>2. CASE ~(b # NULL /\ i <= Len(mem[b]))
    BY <2>2, BlocksNotNull
  <2> QED BY <2>1, <2>2
<1> QED BY <1>1 DEF Kept

\* What the allocation of a write gives it: a block that no entry points to
\* and that no other write is about to allocate.
LEMMA AllocateGivesOwnBlock ==
  ASSUME IInv, NEW t \in Tasks, pc[t] = "write", lock = NoTask,
         NEW bytes \in Seq(0..MaxWrites), Allocate(t, bytes)
  PROVE  /\ WriteBlock(t) \in Blocks /\ WriteBlock(t) <= writes
         /\ cb_buffer' = WriteBlock(t)
         /\ live' = live \cup {WriteBlock(t)}
         /\ mem' \in [Blocks -> Seq(0..MaxWrites)]
         /\ \A i \in Slots : circ_buffer.entry[i].buffptr # WriteBlock(t)
         /\ \A u \in Tasks \ {t} : pc[u] = "write" => arg[u].id \notin live'
<1> DEFINE wb == WriteBlock(t)
<1>1. loaded
  BY DEF IInv, CallsNeedModule
<1>2. /\ arg[t] \in WriteArgs /\ arg[t].id \in Blocks /\ arg[t].id # NULL
      /\ arg[t].id <= writes /\ arg[t].id \notin live
  BY BlocksNotNull DEF IInv, DeviceTypeOK, WriteArgs, FreshBlocks
<1>3. cb_buffer' = wb /\ live' = live \cup {wb} /\ cb_size \in Nat
  BY DEF Allocate, IInv, DeviceTypeOK
<1>4. /\ wb \in Blocks /\ wb <= writes
      /\ \A i \in Slots : circ_buffer.entry[i].buffptr # wb
      /\ \A u \in Tasks \ {t} : pc[u] = "write" => arg[u].id # wb
  <2>1. CASE cb_size = 0 \/ cb_buffer = NULL
    <3>1. wb = arg[t].id
      BY <2>1 DEF WriteBlock
    <3>2. \A i \in Slots : circ_buffer.entry[i].buffptr # NULL =>
                             circ_buffer.entry[i].buffptr \in live
      BY <1>1 DEF IInv, BlocksOwnedOnce
    <3>3. \A u \in Tasks \ {t} : pc[u] = "write" => arg[u].id # arg[t].id
      BY DEF IInv, FreshBlocks
    <3> QED BY <3>1, <3>2, <3>3, <1>2
  <2>2. CASE cb_size # 0 /\ cb_buffer # NULL
    <3>1. wb = cb_buffer
      BY <2>2 DEF WriteBlock
    <3>2. /\ cb_buffer \in live
          /\ \A i \in Slots : circ_buffer.entry[i].buffptr # cb_buffer
      BY <2>2, <1>1 DEF IInv, BlocksOwnedOnce
    <3>3. cb_buffer \in Blocks /\ cb_buffer <= writes
      BY <2>2, <3>2 DEF IInv, DeviceTypeOK, FreshBlocks
    <3>4. \A u \in Tasks \ {t} : pc[u] = "write" => arg[u].id \notin live
      BY DEF IInv, FreshBlocks
    <3> QED BY <3>1, <3>2, <3>3, <3>4
  <2> QED BY <2>1, <2>2
<1>5. \A u \in Tasks \ {t} : pc[u] = "write" => arg[u].id \notin live'
  BY <1>3, <1>4 DEF IInv, FreshBlocks
<1>6. mem' \in [Blocks -> Seq(0..MaxWrites)]
  <2>1. mem \in [Blocks -> Seq(0..MaxWrites)] /\ cb_buffer \in Blocks \cup {NULL}
    BY DEF IInv, DeviceTypeOK
  <2> DEFINE old == Kept(IF cb_size = 0 THEN NULL ELSE cb_buffer, cb_size)
  <2>2. old \in Seq(0..MaxWrites)
    BY <2>1, <1>3, KeptIsBytes
  <2>3. mem' = [mem EXCEPT ![wb] = old \o bytes]
    BY DEF Allocate
  <2> HIDE DEF old, wb
  <2>4. old \o bytes \in Seq(0..MaxWrites)
    BY <2>2, ConcatProperties
  <2> QED BY <2>1, <2>3, <2>4
<1> QED BY <1>3, <1>4, <1>5, <1>6

\* A write that ends with its data, or a piece of it, still being collected.
LEMMA CollectingStep ==
  ASSUME IInv, NEW t \in Tasks, pc[t] = "write", lock = NoTask,
         NEW bytes \in Seq(0..MaxWrites), Allocate(t, bytes),
         UNCHANGED <<loaded, opened, circ_buffer, circ_total_size, lock, writes>>,
         cb_size' \in Int,
         NEW where \in {"idle", "store"}, Goto(t, where),
         arg' = arg \/ arg' = [arg EXCEPT ![t] = NoArg]
  PROVE  IInv'
<1>1. /\ WriteBlock(t) \in Blocks /\ WriteBlock(t) <= writes
      /\ cb_buffer' = WriteBlock(t)
      /\ live' = live \cup {WriteBlock(t)}
      /\ mem' \in [Blocks -> Seq(0..MaxWrites)]
      /\ \A i \in Slots : circ_buffer.entry[i].buffptr # WriteBlock(t)
      /\ \A u \in Tasks \ {t} : pc[u] = "write" => arg[u].id \notin live'
  BY AllocateGivesOwnBlock
<1>2. pc \in [Tasks -> Locations] /\ arg \in [Tasks -> Args] /\ NoArg \in Args
  BY DEF IInv, DeviceTypeOK, NoArg, Args
<1>3. pc' = [pc EXCEPT ![t] = where] /\ \A u \in Tasks \ {t} : arg'[u] = arg[u]
  BY <1>2 DEF Goto
<1>4. \A u \in Tasks : pc[u] # "free"
  BY DriverAssumption DEF IInv, FreesWhatItAdded
<1>5. DeviceTypeOK'
  <2>1. pc' \in [Tasks -> Locations] /\ arg' \in [Tasks -> Args]
    BY <1>2, <1>3 DEF Locations
  <2>2. \A u \in Tasks : /\ pc'[u] = "write" => arg'[u] \in WriteArgs
                         /\ pc'[u] = "free"  => arg'[u] \in FreeArgs
    BY <1>2, <1>3 DEF IInv, DeviceTypeOK
  <2>3. live' \subseteq Blocks /\ cb_buffer' \in Blocks \cup {NULL}
    BY <1>1 DEF IInv, DeviceTypeOK
  <2> QED BY <1>1, <2>1, <2>2, <2>3 DEF IInv, DeviceTypeOK
<1>6. RingShape(circ_buffer)'
  BY DEF IInv, RingShape
<1>7. CallsNeedModule'
  BY <1>2, <1>3 DEF IInv, CallsNeedModule
<1>8. FreshBlocks'
  BY <1>1, <1>2, <1>3 DEF IInv, FreshBlocks
<1>9. FreesWhatItAdded'
  BY <1>2, <1>3, <1>4 DEF FreesWhatItAdded
<1>10. BlocksOwnedOnce'
  <2>1. loaded /\ loaded'
    BY DEF IInv, CallsNeedModule
  <2> QED BY <1>1, <2>1 DEF IInv, BlocksOwnedOnce
<1> QED BY <1>5, <1>6, <1>7, <1>8, <1>9, <1>10 DEF IInv

\* The data of a write are bytes of its own.
LEMMA DataIsBytes ==
  ASSUME IInv, NEW t \in Tasks, pc[t] = "write"
  PROVE  /\ Data(t) \in Seq(0..MaxWrites) /\ <<>> \in Seq(0..MaxWrites)
         /\ arg[t].count \in Nat /\ arg[t].newline \in Nat
<1>1. /\ arg[t].id \in 0..MaxWrites /\ arg[t].count \in Nat /\ arg[t].newline \in Nat
  BY DriverAssumption DEF IInv, DeviceTypeOK, WriteArgs, Blocks
<1>2. ASSUME NEW n \in Nat, NEW x \in 0..MaxWrites
      PROVE  [i \in 1..n |-> x] \in Seq(0..MaxWrites)
  OBVIOUS
<1>3. Data(t) \in Seq(0..MaxWrites)
  BY <1>1, <1>2, Zenon DEF Data
<1> QED BY <1>1, <1>3, EmptySeq

LEMMA WriteNoMemoryStep ==
  ASSUME IInv, NEW t \in Tasks, WriteNoMemory(t)
  PROVE  IInv'
<1>1. /\ pc' = [pc EXCEPT ![t] = "idle"] /\ arg' = [arg EXCEPT ![t] = NoArg]
      /\ pc[t] = "write" /\ lock = NoTask /\ cb_buffer' = NULL
      /\ UNCHANGED <<loaded, opened, circ_buffer, cb_size, circ_total_size, lock,
                     live, mem, writes>>
  BY DEF WriteNoMemory, Locked, Finish, Goto, heap
<1>2. pc \in [Tasks -> Locations] /\ arg \in [Tasks -> Args] /\ NoArg \in Args
  BY DEF IInv, DeviceTypeOK, NoArg, Args
<1>3. \A u \in Tasks : pc[u] # "free"
  BY <1>1, DriverAssumption DEF IInv, FreesWhatItAdded
<1>4. \A u \in Tasks \ {t} : pc'[u] = pc[u] /\ arg'[u] = arg[u]
  BY <1>1, <1>2
<1>5. pc'[t] = "idle"
  BY <1>1, <1>2
<1>6. DeviceTypeOK'
  <2>1. pc' \in [Tasks -> Locations] /\ arg' \in [Tasks -> Args]
    BY <1>1, <1>2 DEF Locations
  <2> QED BY <1>1, <1>4, <1>5, <2>1 DEF IInv, DeviceTypeOK
<1>7. RingShape(circ_buffer)' /\ CallsNeedModule' /\ BlocksOwnedOnce'
  BY <1>1, <1>4, <1>5 DEF IInv, RingShape, CallsNeedModule, BlocksOwnedOnce
<1>8. FreshBlocks' /\ FreesWhatItAdded'
  BY <1>1, <1>3, <1>4, <1>5 DEF IInv, FreshBlocks, FreesWhatItAdded
<1> QED BY <1>6, <1>7, <1>8 DEF IInv

\* A packet becomes an entry.  When that overwrote one, the task goes on with
\* a pointer to the slot, which is the slot of the new packet.
LEMMA WritePacketStep ==
  ASSUME IInv, NEW t \in Tasks, WritePacket(t)
  PROVE  IInv'
<1> DEFINE size   == ToChar(cb_size + arg[t].newline)
           entry  == [buffptr |-> WriteBlock(t), size |-> ToSize(size)]
           after  == AddEntry(circ_buffer, entry)
           freed  == {s \in Overwritten(circ_buffer) :
                        after.entry[s].buffptr # NULL /\ after.full}
<1>1. /\ pc[t] = "write" /\ lock = NoTask /\ Allocate(t, Data(t))
      /\ circ_buffer' = after
      /\ circ_total_size' = ToSize(circ_total_size + size)
      /\ UNCHANGED <<loaded, opened, writes>>
  BY DEF WritePacket, Locked
<1>2. \/ /\ freed = {} /\ cb_size' = 0 /\ pc' = [pc EXCEPT ![t] = "store"]
         /\ lock' = lock /\ arg' = arg
      \/ \E s \in freed : /\ arg' = [arg EXCEPT ![t] = [slot |-> s]]
                          /\ cb_size' = size /\ lock' = t
                          /\ pc' = [pc EXCEPT ![t] = "free"]
  BY DEF WritePacket, Goto
<1>3. /\ WriteBlock(t) \in Blocks /\ WriteBlock(t) <= writes
      /\ cb_buffer' = WriteBlock(t)
      /\ live' = live \cup {WriteBlock(t)}
      /\ mem' \in [Blocks -> Seq(0..MaxWrites)]
      /\ \A i \in Slots : circ_buffer.entry[i].buffptr # WriteBlock(t)
      /\ \A u \in Tasks \ {t} : pc[u] = "write" => arg[u].id \notin live'
  BY <1>1, DataIsBytes, AllocateGivesOwnBlock
<1>4. size \in Int /\ ToSize(size) \in Nat /\ circ_total_size' \in Nat
  <2>1. cb_size \in Int /\ circ_total_size \in Nat /\ arg[t].newline \in Nat
    BY <1>1, DataIsBytes DEF IInv, DeviceTypeOK
  <2>2. size \in Int
    BY <2>1, Conversions
  <2> HIDE DEF size
  <2> QED BY <2>1, <2>2, <1>1, Conversions
<1>5. entry \in Entry /\ entry.buffptr = WriteBlock(t)
  BY <1>3, <1>4, BlocksNotNull DEF Entry
<1> HIDE DEF size, entry
<1>6. circ_buffer' \in Buffer /\ RingShape(circ_buffer)'
  <2>1. after \in Buffer /\ RingShape(after)
    BY <1>5, AddEntryShape DEF IInv, DeviceTypeOK
  <2> QED BY <2>1, <1>1 DEF RingShape
<1>7. /\ circ_buffer.in_offs \in Slots
      /\ circ_buffer'.entry = [circ_buffer.entry EXCEPT ![circ_buffer.in_offs] = entry]
      /\ circ_buffer.entry \in [Slots -> Entry]
  BY <1>1 DEF AddEntry, IInv, DeviceTypeOK, Buffer
<1>8. \A i \in Slots : circ_buffer'.entry[i].buffptr =
        IF i = circ_buffer.in_offs THEN WriteBlock(t) ELSE circ_buffer.entry[i].buffptr
  BY <1>5, <1>7
<1>9. freed \subseteq {circ_buffer.in_offs}
  BY DEF Overwritten, IInv, RingShape
<1> HIDE DEF after, freed
<1>10. pc \in [Tasks -> Locations] /\ arg \in [Tasks -> Args]
  BY DEF IInv, DeviceTypeOK
<1>11. \A u \in Tasks \ {t} : pc'[u] = pc[u] /\ arg'[u] = arg[u]
  BY <1>2, <1>10
<1>12. \/ pc'[t] = "store" /\ cb_size' = 0 /\ lock' = lock /\ arg' = arg
       \/ /\ pc'[t] = "free" /\ lock' = t /\ cb_size' = size
          /\ arg' = [arg EXCEPT ![t] = [slot |-> circ_buffer.in_offs]]
  BY <1>2, <1>9, <1>10
<1>13. \A u \in Tasks : pc[u] # "free"
  BY <1>1, DriverAssumption DEF IInv, FreesWhatItAdded
<1>14. DeviceTypeOK'
  <2>1. [slot |-> circ_buffer.in_offs] \in FreeArgs
    BY <1>7 DEF FreeArgs
  <2>2. pc' \in [Tasks -> Locations]
    BY <1>2, <1>10 DEF Locations
  <2>3. arg' \in [Tasks -> Args]
    BY <1>12, <1>10, <2>1 DEF Args
  <2>4. \A u \in Tasks : /\ pc'[u] = "write" => arg'[u] \in WriteArgs
                         /\ pc'[u] = "free"  => arg'[u] \in FreeArgs
    BY <1>10, <1>11, <1>12, <2>1 DEF IInv, DeviceTypeOK
  <2>5. live' \subseteq Blocks /\ cb_buffer' \in Blocks \cup {NULL}
    BY <1>3 DEF IInv, DeviceTypeOK
  <2>6. cb_size' \in Int /\ lock' \in Tasks \cup {NoTask}
    BY <1>4, <1>12 DEF IInv, DeviceTypeOK
  <2>7. loaded' \in BOOLEAN /\ opened' \subseteq Files /\ writes' \in 0..MaxWrites
    BY <1>1 DEF IInv, DeviceTypeOK
  <2> QED BY <1>3, <1>4, <1>6, <2>2, <2>3, <2>4, <2>5, <2>6, <2>7 DEF DeviceTypeOK
<1>15. CallsNeedModule'
  BY <1>1, <1>11 DEF IInv, CallsNeedModule
<1>16. FreshBlocks'
  BY <1>1, <1>3, <1>11, <1>12 DEF IInv, FreshBlocks
<1>17. FreesWhatItAdded'
  BY <1>3, <1>7, <1>8, <1>10, <1>11, <1>12, <1>13 DEF FreesWhatItAdded
<1>18. BlocksOwnedOnce'
  <2>1. loaded /\ loaded'
    BY <1>1 DEF IInv, CallsNeedModule
  <2>2. \A i \in Slots : circ_buffer'.entry[i].buffptr # NULL =>
                           circ_buffer'.entry[i].buffptr \in live'
    BY <1>3, <1>8, <2>1 DEF IInv, BlocksOwnedOnce
  <2>3. \A i, j \in Slots : i # j /\ circ_buffer'.entry[i].buffptr # NULL =>
          circ_buffer'.entry[i].buffptr # circ_buffer'.entry[j].buffptr
    BY <1>3, <1>8, <2>1 DEF IInv, BlocksOwnedOnce
  <2>4. ~(lock' = NoTask /\ cb_size' # 0)
    BY <1>12, DriverAssumption
  <2> QED BY <2>1, <2>2, <2>3, <2>4 DEF BlocksOwnedOnce
<1> QED BY <1>6, <1>14, <1>15, <1>16, <1>17, <1>18 DEF IInv

\* The end of a write that overwrote an entry: the block it frees is pointed
\* to by no other entry, because no two entries share one.
LEMMA WriteFreeStep ==
  ASSUME IInv, NEW t \in Tasks, WriteFree(t)
  PROVE  IInv'
<1> DEFINE s == arg[t].slot
           p == circ_buffer.entry[s].buffptr
<1>1. /\ pc[t] = "free" /\ pc' = [pc EXCEPT ![t] = "store"]
      /\ arg' = [arg EXCEPT ![t] = NoArg]
      /\ circ_total_size' = ToSize(circ_total_size - circ_buffer.entry[s].size)
      /\ live' = live \ {p} /\ mem' = [mem EXCEPT ![p] = <<>>]
      /\ circ_buffer' = [circ_buffer EXCEPT !.entry[s].buffptr = NULL]
      /\ cb_size' = 0 /\ lock' = NoTask
      /\ UNCHANGED <<loaded, opened, cb_buffer, writes>>
  BY DEF WriteFree, Goto
<1>2. /\ pc \in [Tasks -> Locations] /\ arg \in [Tasks -> Args] /\ NoArg \in Args
      /\ circ_buffer \in Buffer /\ circ_buffer.entry \in [Slots -> Entry]
  BY DEF IInv, DeviceTypeOK, NoArg, Args, Buffer
<1>3. s \in Slots
  BY <1>1 DEF IInv, DeviceTypeOK, FreeArgs
<1>4. circ_buffer.entry[s].size \in Nat
  BY <1>2, <1>3 DEF Entry
<1> HIDE DEF s, p
<1>5. /\ circ_buffer' \in Buffer
      /\ \A i \in Slots : circ_buffer'.entry[i].buffptr =
                            IF i = s THEN NULL ELSE circ_buffer.entry[i].buffptr
      /\ circ_buffer'.in_offs = circ_buffer.in_offs
      /\ circ_buffer'.out_offs = circ_buffer.out_offs
      /\ circ_buffer'.full = circ_buffer.full
  BY <1>1, <1>2, <1>3 DEF Buffer, Entry, NULL
<1>6. /\ \A u \in Tasks \ {t} : pc'[u] = pc[u] /\ arg'[u] = arg[u]
      /\ pc'[t] = "store" /\ lock = t
      /\ \A u \in Tasks \ {t} : pc[u] # "free"
  BY <1>1, <1>2 DEF IInv, FreesWhatItAdded
<1>7. DeviceTypeOK'
  <2>1. circ_total_size' \in Nat
    <3>1. circ_total_size - circ_buffer.entry[s].size \in Int
      BY <1>4 DEF IInv, DeviceTypeOK
    <3> QED BY <3>1, <1>1, Conversions
  <2>2. mem' \in [Blocks -> Seq(0..MaxWrites)]
    BY <1>1, EmptySeq DEF IInv, DeviceTypeOK
  <2>3. pc' \in [Tasks -> Locations] /\ arg' \in [Tasks -> Args]
    BY <1>1, <1>2 DEF Locations
  <2>4. \A u \in Tasks : /\ pc'[u] = "write" => arg'[u] \in WriteArgs
                         /\ pc'[u] = "free"  => arg'[u] \in FreeArgs
    BY <1>6 DEF IInv, DeviceTypeOK
  <2> QED BY <1>1, <1>5, <2>1, <2>2, <2>3, <2>4 DEF IInv, DeviceTypeOK
<1>8. RingShape(circ_buffer)'
  BY <1>5 DEF IInv, RingShape
<1>9. CallsNeedModule'
  BY <1>1, <1>6 DEF IInv, CallsNeedModule
<1>10. FreshBlocks' /\ FreesWhatItAdded'
  BY <1>1, <1>6 DEF IInv, FreshBlocks, FreesWhatItAdded
<1>11. BlocksOwnedOnce'
  <2>1. loaded /\ loaded'
    BY <1>1 DEF IInv, CallsNeedModule
  <2>2. \A i \in Slots : i # s /\ circ_buffer.entry[i].buffptr # NULL =>
          circ_buffer.entry[i].buffptr # p
    BY <1>3, <2>1 DEF IInv, BlocksOwnedOnce, p
  <2>3. \A i \in Slots : circ_buffer'.entry[i].buffptr # NULL =>
                           circ_buffer'.entry[i].buffptr \in live'
    BY <1>1, <1>5, <2>1, <2>2 DEF IInv, BlocksOwnedOnce
  <2>4. \A i, j \in Slots : i # j /\ circ_buffer'.entry[i].buffptr # NULL =>
          circ_buffer'.entry[i].buffptr # circ_buffer'.entry[j].buffptr
    BY <1>5, <2>1 DEF IInv, BlocksOwnedOnce
  <2> QED BY <1>1, <2>1, <2>3, <2>4 DEF BlocksOwnedOnce
<1> QED BY <1>5, <1>7, <1>8, <1>9, <1>10, <1>11 DEF IInv

-----------------------------------------------------------------------------
(***************************************************************************)
(* All steps.                                                              *)
(***************************************************************************)
LEMMA CallStep ==
  ASSUME IInv, NEW t \in Tasks, Call(t)
  PROVE  IInv'
<1>1. CASE CallRead(t)
  <2>1. PICK n \in ReadCounts : Enter(t, "read", [count |-> n], f_pos[FileOf[t]])
    BY <1>1 DEF CallRead
  <2>2. [count |-> n] \in Args /\ writes' = writes
    BY <1>1, DriverAssumption DEF Args, CallRead
  <2> QED BY <2>1, <2>2, EnterIsQuiet DEF Locations
<1>2. CASE CallWrite(t)
  BY <1>2, CallWriteStep
<1>3. CASE CallIoctl(t)
  <2>1. PICK s \in SeekArgs : Enter(t, "ioctl", s, 0)
    BY <1>3 DEF CallIoctl
  <2>2. s \in Args /\ writes' = writes
    BY <1>3 DEF Args, CallIoctl
  <2> QED BY <2>1, <2>2, EnterIsQuiet DEF Locations
<1>4. CASE CallLSeek(t)
  <2>1. PICK s \in LSeekArgs : Enter(t, "store", s, LSeekTarget(t, s))
    BY <1>4 DEF CallLSeek
  <2>2. s \in Args /\ writes' = writes
    BY <1>4 DEF Args, CallLSeek
  <2> QED BY <2>1, <2>2, EnterIsQuiet DEF Locations
<1> QED BY <1>1, <1>2, <1>3, <1>4 DEF Call

LEMMA WriteHandlerStep ==
  ASSUME IInv, NEW t \in Tasks, WriteStep(t)
  PROVE  IInv'
<1>1. CASE WriteNoMemory(t)
  BY <1>1, WriteNoMemoryStep
<1>2. CASE WriteFault(t)
  <2>1. /\ pc[t] = "write" /\ lock = NoTask /\ Allocate(t, <<>>)
        /\ Goto(t, "idle") /\ arg' = [arg EXCEPT ![t] = NoArg]
        /\ UNCHANGED <<loaded, opened, circ_buffer, circ_total_size, lock, writes>>
        /\ cb_size' = cb_size
    BY <1>2 DEF WriteFault, Locked, Finish
  <2>2. <<>> \in Seq(0..MaxWrites) /\ cb_size' \in Int
    BY <2>1, EmptySeq DEF IInv, DeviceTypeOK
  <2> QED BY <2>1, <2>2, CollectingStep
<1>3. CASE WritePartial(t)
  <2>1. /\ pc[t] = "write" /\ lock = NoTask /\ Allocate(t, Data(t))
        /\ Goto(t, "store") /\ arg' = arg
        /\ UNCHANGED <<loaded, opened, circ_buffer, circ_total_size, lock, writes>>
        /\ cb_size' = ToChar(cb_size + arg[t].count)
    BY <1>3 DEF WritePartial, Locked
  <2>2. Data(t) \in Seq(0..MaxWrites) /\ arg[t].count \in Nat
    BY <2>1, DataIsBytes
  <2>3. cb_size + arg[t].count \in Int
    BY <2>2 DEF IInv, DeviceTypeOK
  <2>4. cb_size' \in Int
    BY <2>1, <2>3, Conversions
  <2> QED BY <2>1, <2>2, <2>4, CollectingStep
<1>4. CASE WritePacket(t)
  BY <1>4, WritePacketStep
<1> QED BY <1>1, <1>2, <1>3, <1>4 DEF WriteStep

LEMMA ReadHandlerStep ==
  ASSUME IInv, NEW t \in Tasks, ReadStep(t)
  PROVE  IInv'
<1>1. /\ pc[t] = "read" /\ UNCHANGED <<loaded, opened, dev, heap, writes>>
      /\ (Goto(t, "store") /\ arg' = arg) \/ Finish(t)
  BY DEF ReadStep, ReadData, ReadFault, ReadEnd, ReadHole, Locked
<1> QED BY <1>1, ToStoreIsQuiet, FinishIsQuiet

LEMMA IoctlHandlerStep ==
  ASSUME IInv, NEW t \in Tasks, IoctlStep(t)
  PROVE  IInv'
<1>1. /\ pc[t] = "ioctl" /\ UNCHANGED <<loaded, opened, dev, heap, writes>>
      /\ (Goto(t, "store") /\ arg' = arg) \/ Finish(t)
  BY DEF IoctlStep, IoctlSeek, IoctlInvalid, Locked
<1> QED BY <1>1, ToStoreIsQuiet, FinishIsQuiet

LEMMA FileStep ==
  ASSUME IInv, NEW f \in Files, Open(f) \/ Release(f)
  PROVE  IInv'
<1>1. UNCHANGED <<loaded, dev, heap, writes, pc, arg>>
  BY DEF Open, Release
<1>2. opened' \subseteq Files /\ (opened' # {} => loaded)
  BY DEF IInv, DeviceTypeOK, CallsNeedModule, Open, Release
<1>3. \A t \in Tasks : pc[t] # "idle" => FileOf[t] \in opened'
  BY DEF IInv, CallsNeedModule, Open, Release
<1> QED BY <1>1, <1>2, <1>3, QuietStep DEF IInv, DeviceTypeOK

LEMMA NextStep ==
  ASSUME IInv, [Next]_vars
  PROVE  IInv'
<1>1. CASE InitModule
  BY <1>1, InitModuleStep
<1>2. CASE CleanupModule
  BY <1>2, CleanupModuleStep
<1>3. ASSUME NEW f \in Files, Open(f) \/ Release(f) PROVE IInv'
  BY <1>3, FileStep
<1>4. ASSUME NEW t \in Tasks, Call(t) PROVE IInv'
  BY <1>4, CallStep
<1>5. ASSUME NEW t \in Tasks, Interrupted(t) PROVE IInv'
  BY <1>5, FinishIsQuiet DEF Interrupted
<1>6. ASSUME NEW t \in Tasks, ReadStep(t) PROVE IInv'
  BY <1>6, ReadHandlerStep
<1>7. ASSUME NEW t \in Tasks, WriteStep(t) PROVE IInv'
  BY <1>7, WriteHandlerStep
<1>8. ASSUME NEW t \in Tasks, IoctlStep(t) PROVE IInv'
  BY <1>8, IoctlHandlerStep
<1>9. ASSUME NEW t \in Tasks, WriteFree(t) PROVE IInv'
  BY <1>9, WriteFreeStep
<1>10. ASSUME NEW t \in Tasks, StorePos(t) PROVE IInv'
  BY <1>10, FinishIsQuiet DEF StorePos
<1>11. CASE UNCHANGED vars
  <2>1. UNCHANGED <<loaded, opened, dev, heap, writes, pc, arg>>
    BY <1>11 DEF vars
  <2> QED BY <2>1, QuietStep DEF IInv, DeviceTypeOK, CallsNeedModule
<1> QED BY <1>1, <1>2, <1>3, <1>4, <1>5, <1>6, <1>7, <1>8, <1>9, <1>10, <1>11
        DEF Next, EndStep

\* The invariant the theorems below are read from.
THEOREM InvariantHolds == Spec => []IInv
<1>1. Init => IInv
  BY InitEstablishes
<1>2. IInv /\ [Next]_vars => IInv'
  BY NextStep
<1> QED BY <1>1, <1>2, PTL DEF Spec

\* The fields of struct aesd_dev, the ring and the allocated memory keep their
\* types in every call sequence and interleaving, cb_size included, whose
\* char arithmetic wraps.
THEOREM DeviceTypeCorrect == Spec => []DeviceTypeOK
<1>1. IInv => DeviceTypeOK
  BY DEF IInv
<1> QED BY <1>1, InvariantHolds, PTL

\* No read uses freed memory and no block is freed twice, whatever the number
\* of writers, entries and writes, and whichever allocations fail
\* (aesd_write, aesd_cleanup_module).
THEOREM BlocksAreOwnedOnce == Spec => []BlocksOwnedOnce
<1>1. IInv => BlocksOwnedOnce
  BY DEF IInv
<1> QED BY <1>1, InvariantHolds, PTL

\* dev->lock is held through the end of an overwriting aesd_write, by one task;
\* and the block that task is about to free is always the packet it has just
\* added, never the one that was overwritten.
THEOREM OverwriteFreesNewPacket == Spec => []FreesWhatItAdded
<1>1. IInv => FreesWhatItAdded
  BY DEF IInv
<1> QED BY <1>1, InvariantHolds, PTL

-----------------------------------------------------------------------------
(***************************************************************************)
(* The safety half of EveryCallReturns: dev->lock is never left behind.    *)
(***************************************************************************)
LockHasOwner == lock # NoTask => pc[lock] = "free"

\* A step of a task that is not between the two halves of an overwrite.
LEMMA LockStays ==
  ASSUME IInv, LockHasOwner, lock' = lock, NEW t \in Tasks, pc[t] # "free", NEW where,
         pc' = [pc EXCEPT ![t] = where]
  PROVE  LockHasOwner'
BY DEF LockHasOwner, IInv, DeviceTypeOK

\* Whatever call fails, the mutex is held after a step of a handler only by an
\* aesd_write that is about to free and to unlock: none of the error paths of
\* aesd_read, aesd_write and aesd_unlocked_ioctl returns without mutex_unlock.
THEOREM LockIsGivenBack == Spec => []LockHasOwner
<1>1. Init => LockHasOwner
  BY DEF Init, LockHasOwner
<1>2. ASSUME IInv, LockHasOwner, [Next]_vars PROVE LockHasOwner'
  <2>1. CASE InitModule \/ CleanupModule \/ UNCHANGED vars
    BY <1>2, <2>1 DEF InitModule, CleanupModule, vars, dev, LockHasOwner
  <2>2. ASSUME NEW f \in Files, Open(f) \/ Release(f) PROVE LockHasOwner'
    BY <1>2, <2>2 DEF Open, Release, dev, LockHasOwner
  <2>3. ASSUME NEW t \in Tasks, Call(t) PROVE LockHasOwner'
    <3>1. PICK where : lock' = lock /\ pc[t] # "free" /\ pc' = [pc EXCEPT ![t] = where]
      BY <2>3 DEF Call, CallRead, CallWrite, CallIoctl, CallLSeek, Enter, Goto, dev
    <3> QED BY <1>2, <3>1, LockStays
  <2>4. ASSUME NEW t \in Tasks, Interrupted(t) \/ ReadStep(t) \/ IoctlStep(t) \/ StorePos(t)
        PROVE  LockHasOwner'
    <3>1. PICK where : lock' = lock /\ pc[t] # "free" /\ pc' = [pc EXCEPT ![t] = where]
      BY <2>4 DEF Interrupted, ReadStep, ReadData, ReadFault, ReadEnd, ReadHole, IoctlStep,
                  IoctlSeek, IoctlInvalid, StorePos, Finish, Goto, Locked, dev
    <3> QED BY <1>2, <3>1, LockStays
  <2>5. ASSUME NEW t \in Tasks, WriteNoMemory(t) \/ WriteFault(t) \/ WritePartial(t)
        PROVE  LockHasOwner'
    <3>1. PICK where : lock' = lock /\ pc[t] # "free" /\ pc' = [pc EXCEPT ![t] = where]
      BY <2>5 DEF WriteNoMemory, WriteFault, WritePartial, Finish, Goto, Locked
    <3> QED BY <1>2, <3>1, LockStays
  <2>6. ASSUME NEW t \in Tasks, WritePacket(t) PROVE LockHasOwner'
    <3>1. lock = NoTask /\ pc \in [Tasks -> Locations]
      BY <1>2, <2>6 DEF WritePacket, Locked, IInv, DeviceTypeOK
    <3>2. lock' = lock \/ (lock' = t /\ pc' = [pc EXCEPT ![t] = "free"])
      BY <2>6 DEF WritePacket, Goto
    <3> QED BY <3>1, <3>2 DEF LockHasOwner
  <2>7. ASSUME NEW t \in Tasks, WriteFree(t) PROVE LockHasOwner'
    BY <2>7 DEF WriteFree, LockHasOwner
  <2> QED BY <1>2, <2>1, <2>2, <2>3, <2>4, <2>5, <2>6, <2>7 DEF Next, EndStep, WriteStep
<1> QED BY <1>1, <1>2, InvariantHolds, PTL DEF Spec
=============================================================================
