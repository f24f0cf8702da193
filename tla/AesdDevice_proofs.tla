-------------------------- MODULE AesdDevice_proofs -------------------------
(***************************************************************************)
(* Proof that the driver implements the device of AesdDevice, for any      *)
(* number of tasks, files, entries and writes, as long as krealloc does    *)
(* not fail and the limits of AesdCharData_proofs are kept.                *)
(***************************************************************************)
EXTENDS AesdCharData_proofs

-----------------------------------------------------------------------------
(***************************************************************************)
(* What else holds within the limits: a task has bytes only on the way     *)
(* back from a read, a write offers what its caller chose, and an entry    *)
(* without memory counts no bytes.                                         *)
(***************************************************************************)
Offered(a) == [count |-> a.count, newline |-> a.newline] \in Writes

CallsInv ==
  \A t \in Tasks : /\ reply[t] # <<>> => pc[t] = "store"
                   /\ pc[t] = "write" => Offered(arg[t])

NullsAreEmpty(b) == \A i \in Slots : b.entry[i].buffptr = NULL => b.entry[i].size = 0

LimitsInv == /\ IInv /\ PositionInv /\ HeldInv /\ SumInv /\ WithinInv
             /\ CallsInv /\ NullsAreEmpty(circ_buffer)

\* A step that moves one task.
LEMMA OneTaskCalls ==
  ASSUME IInv, PositionInv, CallsInv, NEW t \in Tasks, NEW where,
         pc' = [pc EXCEPT ![t] = where],
         arg' = arg \/ \E a : arg' = [arg EXCEPT ![t] = a],
         where = "write" => Offered(arg'[t]),
         \/ \E r : reply' = [reply EXCEPT ![t] = r] /\ (where = "store" \/ r = <<>>)
         \/ reply' = reply /\ pc[t] # "store"
  PROVE  CallsInv'
<1>1. /\ pc \in [Tasks -> Locations] /\ arg \in [Tasks -> Args]
      /\ reply \in [Tasks -> Seq(0..MaxWrites)]
  BY DEF PositionInv, PositionTypeOK, IInv, DeviceTypeOK
<1>2. /\ pc'[t] = where
      /\ \A u \in Tasks \ {t} : pc'[u] = pc[u] /\ arg'[u] = arg[u] /\ reply'[u] = reply[u]
  BY <1>1
<1>3. reply'[t] = <<>> \/ where = "store"
  BY <1>1 DEF CallsInv
<1>4. ASSUME NEW u \in Tasks
      PROVE  /\ reply'[u] # <<>> => pc'[u] = "store"
             /\ pc'[u] = "write" => Offered(arg'[u])
  <2>1. CASE u = t
    BY <2>1, <1>2, <1>3
  <2>2. CASE u # t
    BY <2>2, <1>2 DEF CallsInv
  <2> QED BY <2>1, <2>2
<1> QED BY <1>4 DEF CallsInv, Offered

LEMMA CallsStep ==
  ASSUME IInv, PositionInv, CallsInv, [Next]_vars
  PROVE  CallsInv'
<1>1. ASSUME UNCHANGED <<reply, pc, arg>> PROVE CallsInv'
  BY <1>1 DEF CallsInv, Offered
<1>2. CASE InitModule \/ CleanupModule \/ UNCHANGED vars
  BY <1>1, <1>2 DEF InitModule, CleanupModule, vars
<1>3. ASSUME NEW f \in Files, Open(f) \/ Release(f) PROVE CallsInv'
  BY <1>1, <1>3 DEF Open, Release
<1>4. ASSUME NEW t \in Tasks, NEW where, NEW a, NEW p, Enter(t, where, a, p),
             where = "write" => Offered(a)
      PROVE  CallsInv'
  <2>1. /\ pc' = [pc EXCEPT ![t] = where] /\ arg' = [arg EXCEPT ![t] = a] /\ reply' = reply
        /\ pc[t] # "store"
    BY <1>4 DEF Enter, Goto
  <2>2. arg'[t] = a
    BY <2>1 DEF IInv, DeviceTypeOK
  <2>3. where = "write" => Offered(arg'[t])
    BY <1>4, <2>2
  <2> QED BY <2>1, <2>3, OneTaskCalls
<1>5. ASSUME NEW t \in Tasks, Call(t) PROVE CallsInv'
  <2>1. CASE CallWrite(t)
    <3>1. PICK w \in Writes :
            Enter(t, "write", [id |-> writes + 1, count |-> w.count, newline |-> w.newline],
                  f_pos[FileOf[t]])
      BY <2>1 DEF CallWrite
    <3>2. w = [count |-> w.count, newline |-> w.newline]
      BY DriverAssumption
    <3>3. Offered([id |-> writes + 1, count |-> w.count, newline |-> w.newline])
      BY <3>2 DEF Offered
    <3> QED BY <3>1, <3>3, <1>4
  <2>2. CASE CallRead(t)
    BY <2>2, <1>4 DEF CallRead
  <2>3. CASE CallIoctl(t)
    BY <2>3, <1>4 DEF CallIoctl
  <2>4. CASE CallLSeek(t)
    BY <2>4, <1>4 DEF CallLSeek
  <2> QED BY <1>5, <2>1, <2>2, <2>3, <2>4 DEF Call
<1>6. ASSUME NEW t \in Tasks, Finish(t), reply' = reply, pc[t] # "store" PROVE CallsInv'
  <2>1. pc' = [pc EXCEPT ![t] = "idle"] /\ arg' = [arg EXCEPT ![t] = NoArg]
    BY <1>6 DEF Finish, Goto
  <2> QED BY <2>1, <1>6, OneTaskCalls
<1>7. ASSUME NEW t \in Tasks, Interrupted(t) PROVE CallsInv'
  BY <1>6, <1>7 DEF Interrupted
<1>8. ASSUME NEW t \in Tasks, StorePos(t) PROVE CallsInv'
  <2>1. /\ pc' = [pc EXCEPT ![t] = "idle"] /\ arg' = [arg EXCEPT ![t] = NoArg]
        /\ reply' = [reply EXCEPT ![t] = <<>>]
    BY <1>8 DEF StorePos, Finish, Goto
  <2> QED BY <2>1, OneTaskCalls
<1>9. ASSUME NEW t \in Tasks, ReadStep(t) PROVE CallsInv'
  <2>1. CASE ReadFault(t)
    BY <2>1, <1>6 DEF ReadFault, Locked
  <2>2. CASE ReadData(t) \/ ReadEnd(t) \/ ReadHole(t)
    <3>1. /\ pc' = [pc EXCEPT ![t] = "store"] /\ arg' = arg /\ pc[t] # "store"
          /\ reply' = reply \/ \E r : reply' = [reply EXCEPT ![t] = r]
      BY <2>2 DEF ReadData, ReadEnd, ReadHole, Goto, Locked
    <3> QED BY <3>1, OneTaskCalls
  <2> QED BY <1>9, <2>1, <2>2 DEF ReadStep
<1>10. ASSUME NEW t \in Tasks, IoctlStep(t) PROVE CallsInv'
  <2>1. CASE IoctlInvalid(t)
    BY <2>1, <1>6 DEF IoctlInvalid, Locked
  <2>2. CASE IoctlSeek(t)
    <3>1. /\ pc' = [pc EXCEPT ![t] = "store"] /\ arg' = arg /\ pc[t] # "store"
          /\ reply' = reply
      BY <2>2 DEF IoctlSeek, Goto, Locked
    <3> QED BY <3>1, OneTaskCalls
  <2> QED BY <1>10, <2>1, <2>2 DEF IoctlStep
<1>11. ASSUME NEW t \in Tasks, WriteStep(t) \/ WriteFree(t) PROVE CallsInv'
  <2>1. CASE WriteNoMemory(t)
    BY <2>1, <1>6 DEF WriteNoMemory, Locked
  <2>2. CASE WriteFault(t)
    BY <2>2, <1>6 DEF WriteFault, Locked
  <2>3. CASE WritePartial(t) \/ WritePacket(t) \/ WriteFree(t)
    <3>1. PICK where \in {"store", "free"} :
            /\ pc' = [pc EXCEPT ![t] = where] /\ reply' = reply /\ pc[t] # "store"
            /\ arg' = arg \/ \E a : arg' = [arg EXCEPT ![t] = a]
      BY <2>3 DEF WritePartial, WritePacket, WriteFree, Goto, Locked
    <3> QED BY <3>1, OneTaskCalls
  <2> QED BY <1>11, <2>1, <2>2, <2>3 DEF WriteStep
<1> QED BY <1>2, <1>3, <1>5, <1>7, <1>8, <1>9, <1>10, <1>11 DEF Next, EndStep

LEMMA NullsStep ==
  ASSUME IInv, PositionInv, SumInv, NullsAreEmpty(circ_buffer), Limits, NoOverwrite',
         [Next]_vars
  PROVE  NullsAreEmpty(circ_buffer')
<1>1. CASE circ_buffer' = circ_buffer
  BY <1>1
<1>2. CASE InitModule
  BY <1>2 DEF InitModule, EmptyBuffer, NullsAreEmpty
<1>3. ASSUME NEW t \in Tasks, WritePacket(t) PROVE NullsAreEmpty(circ_buffer')
  <2>1. PICK n \in Nat :
          circ_buffer' = AddEntry(circ_buffer, [buffptr |-> WriteBlock(t), size |-> n])
    BY <1>3, PacketWithinLimits
  <2> DEFINE e == [buffptr |-> WriteBlock(t), size |-> n]
  <2>2. circ_buffer'.entry = [circ_buffer.entry EXCEPT ![circ_buffer.in_offs] = e]
    BY <2>1 DEF AddEntry
  <2>3. e.buffptr # NULL
    <3>1. pc[t] = "write" /\ Allocate(t, Data(t))
      BY <1>3 DEF WritePacket, Locked
    <3>2. lock = NoTask
      BY DEF SumInv
    <3>3. WriteBlock(t) \in Blocks
      BY <3>1, <3>2, DataIsBytes, AllocateGivesOwnBlock
    <3> QED BY <3>3, BlocksNotNull
  <2>4. circ_buffer.entry \in [Slots -> Entry]
    BY DEF IInv, DeviceTypeOK, Buffer
  <2> HIDE DEF e
  <2>5. ASSUME NEW i \in Slots, circ_buffer'.entry[i].buffptr = NULL
        PROVE  circ_buffer'.entry[i].size = 0
    <3>1. i # circ_buffer.in_offs
      BY <2>2, <2>3, <2>4, <2>5
    <3>2. circ_buffer'.entry[i] = circ_buffer.entry[i]
      BY <3>1, <2>2, <2>4
    <3> QED BY <3>2, <2>5 DEF NullsAreEmpty
  <2> QED BY <2>5 DEF NullsAreEmpty
<1>4. ASSUME NEW t \in Tasks, WriteFree(t) PROVE FALSE
  BY <1>4 DEF WriteFree, Limits, NoOverwrite
<1>5. CASE CleanupModule \/ UNCHANGED vars
  BY <1>1, <1>5 DEF CleanupModule, vars, dev
<1>6. ASSUME NEW f \in Files, Open(f) \/ Release(f) PROVE circ_buffer' = circ_buffer
  BY <1>6 DEF Open, Release, dev
<1>7. ASSUME NEW t \in Tasks, Call(t) \/ Interrupted(t) \/ StorePos(t)
      PROVE  circ_buffer' = circ_buffer
  BY <1>7
  DEF Call, CallRead, CallWrite, CallIoctl, CallLSeek, Enter, Interrupted, StorePos, dev
<1>8. ASSUME NEW t \in Tasks, ReadStep(t) \/ IoctlStep(t) PROVE circ_buffer' = circ_buffer
  BY <1>8
  DEF ReadStep, ReadData, ReadFault, ReadEnd, ReadHole, IoctlStep, IoctlSeek, IoctlInvalid, dev
<1>9. ASSUME NEW t \in Tasks, WriteNoMemory(t) \/ WriteFault(t) \/ WritePartial(t)
      PROVE  circ_buffer' = circ_buffer
  BY <1>9 DEF WriteNoMemory, WriteFault, WritePartial
<1> QED
  BY <1>1, <1>2, <1>3, <1>4, <1>5, <1>6, <1>7, <1>8, <1>9 DEF Next, EndStep, WriteStep

\* Within the limits every invariant the steps below cite holds of the driver.
THEOREM LimitsInvHolds ==
  ASSUME ~ReallocFails
  PROVE  Spec /\ []Limits => []LimitsInv
<1>1. Init => HeldInv /\ CallsInv /\ NullsAreEmpty(circ_buffer)
  BY DEF Init, HeldInv, EntriesHoldTheirBytes, CollectedIsWritten, CallsInv, NullsAreEmpty,
         EmptyBuffer
<1>2. IInv /\ PositionInv /\ HeldInv /\ Limits /\ [Next]_vars => HeldInv'
  BY HeldStep DEF Limits
<1>3. IInv /\ PositionInv /\ CallsInv /\ [Next]_vars => CallsInv'
  BY CallsStep
<1>4. /\ IInv /\ PositionInv /\ SumInv /\ NullsAreEmpty(circ_buffer)
      /\ Limits /\ Limits' /\ [Next]_vars
      => NullsAreEmpty(circ_buffer)'
  <2>1. /\ IInv /\ PositionInv /\ SumInv /\ NullsAreEmpty(circ_buffer)
        /\ Limits /\ Limits' /\ [Next]_vars
        => NullsAreEmpty(circ_buffer')
    BY NullsStep DEF Limits
  <2> QED BY <2>1 DEF NullsAreEmpty
<1> QED BY <1>1, <1>2, <1>3, <1>4, InvariantHolds, PositionInvHolds, SumInvHolds,
        WithinInvHolds, PTL
        DEF Spec, LimitsInv

-----------------------------------------------------------------------------
(***************************************************************************)
(* What the users see, as functions of a memory and a buffer.              *)
(***************************************************************************)
KeptIn(m, b, n) ==
  [i \in 1..n |-> IF b # NULL /\ i <= Len(m[b]) THEN m[b][i] ELSE Garbage]

PacketIn(m, e) == IF e.buffptr = NULL THEN <<>> ELSE KeptIn(m, e.buffptr, e.size)

PacketsIn(m, b) == [k \in 1..Held(b) |-> PacketIn(m, Contents(b)[k])]

LEMMA SeenInMemory ==
  /\ Packets = IF loaded THEN PacketsIn(mem, circ_buffer) ELSE <<>>
  /\ Packets' = IF loaded' THEN PacketsIn(mem', circ_buffer') ELSE <<>>
  /\ Collected = IF loaded /\ lock = NoTask THEN KeptIn(mem, cb_buffer, cb_size) ELSE <<>>
  /\ Collected' = IF loaded' /\ lock' = NoTask THEN KeptIn(mem', cb_buffer', cb_size') ELSE <<>>
<1>1. /\ Packets = IF loaded THEN PacketsIn(mem, circ_buffer) ELSE <<>>
      /\ Packets' = IF loaded' THEN PacketsIn(mem', circ_buffer') ELSE <<>>
  BY DEF Packets, PacketsIn, Packet, PacketIn, Kept, KeptIn, Held, Contents, ReadSlot
<1>2. /\ Collected = IF loaded /\ lock = NoTask THEN KeptIn(mem, cb_buffer, cb_size) ELSE <<>>
      /\ Collected' = IF loaded' /\ lock' = NoTask THEN KeptIn(mem', cb_buffer', cb_size') ELSE <<>>
  BY DEF Collected, Kept, KeptIn
<1> QED BY <1>1, <1>2

\* A step of one task's call changes what that task sees, and nothing else.
LEMMA OneTaskSees ==
  ASSUME IInv, PositionInv, NEW t \in Tasks, NEW where, pc' = [pc EXCEPT ![t] = where],
         pos' = pos \/ \E p : pos' = [pos EXCEPT ![t] = p],
         reply' = reply \/ \E r : reply' = [reply EXCEPT ![t] = r]
  PROVE  /\ Device!Sees(t, Status(t)', pos'[t], reply'[t])
         /\ View[t] = [status |-> Status(t), pos |-> pos[t], data |-> reply[t]]
         /\ View'[t].status = Status(t)' /\ View'[t].pos = pos'[t]
<1>1. /\ pc \in [Tasks -> Locations] /\ pos \in [Tasks -> Loff]
      /\ reply \in [Tasks -> Seq(0..MaxWrites)]
  BY DEF PositionInv, PositionTypeOK, IInv, DeviceTypeOK
<1>2. \A u \in Tasks \ {t} : pc'[u] = pc[u] /\ pos'[u] = pos[u] /\ reply'[u] = reply[u]
  BY <1>1
<1> DEFINE seen == [status |-> Status(t)', pos |-> pos'[t], data |-> reply'[t]]
<1>3. /\ View = [u \in Tasks |-> [status |-> Status(u), pos |-> pos[u], data |-> reply[u]]]
      /\ View' = [u \in Tasks |-> [status |-> Status(u)', pos |-> pos'[u], data |-> reply'[u]]]
  BY DEF View
<1>4. ASSUME NEW u \in Tasks, u # t PROVE Status(u)' = Status(u)
  BY <1>2, <1>4 DEF Status
<1>5. View' = [View EXCEPT ![t] = seen]
  BY <1>2, <1>3, <1>4
<1>6. Device!Sees(t, Status(t)', pos'[t], reply'[t])
  BY <1>5 DEF Device!Sees
<1> QED BY <1>3, <1>6

\* A step that returns no data and leaves the device as it is seen.
LEMMA OneTaskPosition ==
  ASSUME IInv, PositionInv, CallsInv, NEW t \in Tasks, NEW where,
         pc' = [pc EXCEPT ![t] = where],
         pc[t] # "read" \/ where \notin {"free", "store"},
         pos' = pos \/ \E p : pos' = [pos EXCEPT ![t] = p],
         \/ reply' = [reply EXCEPT ![t] = <<>>]
         \/ reply' = reply /\ pc[t] # "store",
         Packets' = Packets, Collected' = Collected
  PROVE  Device!Next
<1>1. pc \in [Tasks -> Locations] /\ reply \in [Tasks -> Seq(0..MaxWrites)]
  BY DEF PositionInv, PositionTypeOK, IInv, DeviceTypeOK
<1>2. /\ Device!Sees(t, Status(t)', pos'[t], reply'[t])
      /\ View[t] = [status |-> Status(t), pos |-> pos[t], data |-> reply[t]]
      /\ View'[t].status = Status(t)' /\ View'[t].pos = pos'[t]
  BY OneTaskSees
<1>3. reply'[t] = <<>>
  BY <1>1 DEF CallsInv
<1>4. ~(View[t].status = "reading" /\ View'[t].status = "back")
  <2>1. pc'[t] = where
    BY <1>1
  <2>2. ~(Status(t) = "reading" /\ Status(t)' = "back")
    BY <2>1 DEF Status
  <2> QED BY <2>2, <1>2
<1>5. Device!Position(t)
  BY <1>2, <1>3, <1>4 DEF Device!Position
<1> QED BY <1>5 DEF Device!Next

-----------------------------------------------------------------------------
(***************************************************************************)
(* The bytes of the entries and of the packet being collected.             *)
(***************************************************************************)
PacketSpells(e) ==
  /\ e.size \in Nat
  /\ PacketIn(mem, e) \in Seq(0..MaxWrites) /\ Len(PacketIn(mem, e)) = e.size
  /\ \A j \in 1..e.size : /\ e.buffptr \in Blocks /\ j <= Len(mem[e.buffptr])
                          /\ PacketIn(mem, e)[j] = mem[e.buffptr][j]

LEMMA PacketShape ==
  ASSUME LimitsInv, loaded, NEW i \in Slots
  PROVE  PacketSpells(circ_buffer.entry[i])
<1>1. PICK e : e = circ_buffer.entry[i]
  OBVIOUS
<1> DEFINE n == e.size
           b == e.buffptr
<1>2. n \in Nat /\ mem \in [Blocks -> Seq(0..MaxWrites)]
  BY <1>1 DEF LimitsInv, IInv, DeviceTypeOK, Buffer, Entry
<1>3. CASE b = NULL
  <2>1. n = 0
    BY <1>1, <1>3 DEF LimitsInv, NullsAreEmpty
  <2>2. PacketIn(mem, e) = <<>>
    BY <1>3 DEF PacketIn
  <2>3. <<>> \in Seq(0..MaxWrites) /\ Len(<<>>) = 0
    BY EmptySeq
  <2>4. 1..e.size = {}
    BY <2>1
  <2> QED BY <1>1, <2>1, <2>2, <2>3, <2>4 DEF PacketSpells
<1>4. CASE b # NULL
  <2>1. b \in Blocks
    BY <1>1, <1>4 DEF LimitsInv, IInv, BlocksOwnedOnce, DeviceTypeOK
  <2>2. n <= Len(mem[b])
    BY <1>1, <1>4 DEF LimitsInv, HeldInv, EntriesHoldTheirBytes
  <2>3. PacketIn(mem, e) = [j \in 1..n |-> IF b # NULL /\ j <= Len(mem[b]) THEN mem[b][j] ELSE Garbage]
    BY <1>4 DEF PacketIn, KeptIn
  <2>4. mem[b] \in Seq(0..MaxWrites) /\ Len(mem[b]) \in Nat
    BY <1>2, <2>1, LenProperties
  <2> HIDE DEF n, b
  <2>5. ASSUME NEW j \in 1..n PROVE j \in 1..Len(mem[b]) /\ mem[b][j] \in 0..MaxWrites
    <3>1. j \in 1..Len(mem[b])
      BY <1>2, <2>2, <2>4
    <3> QED BY <3>1, <2>4, ElementOfSeq
  <2>6. PacketIn(mem, e) = [j \in 1..n |-> mem[b][j]]
    BY <1>4, <2>3, <2>5
  <2>7. PacketIn(mem, e) \in Seq(0..MaxWrites) /\ Len(PacketIn(mem, e)) = n
    BY <1>2, <2>5, <2>6
  <2>8. \A j \in 1..n : b \in Blocks /\ j <= Len(mem[b]) /\ PacketIn(mem, e)[j] = mem[b][j]
    BY <2>1, <2>4, <2>5, <2>6
  <2> QED BY <1>1, <1>2, <2>7, <2>8 DEF n, b, PacketSpells
<1> QED BY <1>3, <1>4

\* The packets are as long as the entries, and lie end to end where the search
\* counts them.
LEMMA StreamOfPackets ==
  ASSUME LimitsInv, loaded
  PROVE  /\ Packets = PacketsIn(mem, circ_buffer)
         /\ Len(Packets) = Held(circ_buffer) /\ Held(circ_buffer) \in 0..MaxWriteOps
         /\ \A k \in 1..Held(circ_buffer) :
              Packets[k] = PacketIn(mem, circ_buffer.entry[ReadSlot(circ_buffer, k - 1)])
         /\ Device!Stream \in Seq(0..MaxWrites)
         /\ Spelled(Device!Stream, Packets, circ_buffer)
<1> DEFINE b == circ_buffer
           H == Held(b)
<1>1. /\ b \in Buffer /\ RingShape(b) /\ UnusedAreEmpty(b) /\ TotalFits(b)
  BY RoundsWithinTotal DEF LimitsInv, IInv, DeviceTypeOK, SumInv
<1>2. H \in 0..MaxWriteOps /\ \A k \in 1..H : Contents(b)[k] = b.entry[ReadSlot(b, k - 1)]
  BY <1>1, ContentsIsSequence
<1>3. Packets = PacketsIn(mem, b)
  BY SeenInMemory
<1>4. \A k \in 1..H : Packets[k] = PacketIn(mem, b.entry[ReadSlot(b, k - 1)])
  BY <1>2, <1>3 DEF PacketsIn
<1>5. \A k \in 1..H : ReadSlot(b, k - 1) \in Slots
  <2> SUFFICES ASSUME NEW k \in 1..H PROVE ReadSlot(b, k - 1) \in Slots
    OBVIOUS
  <2>1. k - 1 \in 0..(MaxWriteOps - 1)
    BY <1>2, BufferAssumption
  <2> QED BY <2>1, <1>1, ReadSlotInSlots
<1>6. \A k \in 1..H : /\ Packets[k] \in Seq(0..MaxWrites)
                      /\ Len(Packets[k]) = b.entry[ReadSlot(b, k - 1)].size
  BY <1>4, <1>5, PacketShape DEF PacketSpells
<1>7. Packets \in Seq(Seq(0..MaxWrites)) /\ Len(Packets) = H
  <2>1. Packets = [k \in 1..H |-> Packets[k]]
    BY <1>3 DEF PacketsIn
  <2>2. Packets \in [1..H -> Seq(0..MaxWrites)]
    <3> HIDE DEF H
    <3> QED BY <2>1, <1>6
  <2> HIDE DEF H
  <2> QED BY <2>2, <1>2
<1>8. SpellsOut(Packets, b)
  BY <1>6, <1>7 DEF SpellsOut
<1>9. FlattenSeq(Packets) \in Seq(0..MaxWrites) /\ Spelled(FlattenSeq(Packets), Packets, b)
  BY <1>1, <1>7, <1>8, FlattenedEntries
<1>10. Device!Stream = FlattenSeq(Packets)
  BY DEF Device!Stream, Device!FlattenSeq, FlattenSeq
<1> QED BY <1>2, <1>3, <1>4, <1>7, <1>9, <1>10

\* A write that leaves the blocks of the entries alone leaves the packets alone.
LEMMA PacketsUntouched ==
  ASSUME IInv, loaded, NEW wb, \A b \in Blocks \ {wb} : mem'[b] = mem[b],
         \A i \in Slots : circ_buffer.entry[i].buffptr # wb
  PROVE  PacketsIn(mem', circ_buffer) = PacketsIn(mem, circ_buffer)
<1> DEFINE H == Held(circ_buffer)
<1>1. \A k \in 1..H : \E i \in Slots : Contents(circ_buffer)[k] = circ_buffer.entry[i]
  <2> SUFFICES ASSUME NEW k \in 1..H
               PROVE  \E i \in Slots : Contents(circ_buffer)[k] = circ_buffer.entry[i]
    OBVIOUS
  <2>1. /\ circ_buffer \in Buffer /\ H \in 0..MaxWriteOps
        /\ Contents(circ_buffer)[k] = circ_buffer.entry[ReadSlot(circ_buffer, k - 1)]
    BY ContentsIsSequence DEF IInv, DeviceTypeOK
  <2>2. k - 1 \in 0..(MaxWriteOps - 1)
    BY <2>1, BufferAssumption
  <2> QED BY <2>1, <2>2, ReadSlotInSlots
<1>2. ASSUME NEW i \in Slots
      PROVE  PacketIn(mem', circ_buffer.entry[i]) = PacketIn(mem, circ_buffer.entry[i])
  <2> DEFINE p == circ_buffer.entry[i].buffptr
  <2>1. p = NULL \/ (p \in Blocks /\ p # wb)
    BY DEF IInv, BlocksOwnedOnce, DeviceTypeOK
  <2>2. p = NULL \/ mem'[p] = mem[p]
    BY <2>1
  <2> QED BY <2>2 DEF PacketIn, KeptIn
<1>3. \A k \in 1..H : PacketIn(mem', Contents(circ_buffer)[k]) = PacketIn(mem, Contents(circ_buffer)[k])
  BY <1>1, <1>2
<1> QED BY <1>3 DEF PacketsIn

\* What a write leaves in its block is what was collected and its own data.
LEMMA CollectedGrows ==
  ASSUME IInv, HeldInv, NEW t \in Tasks, pc[t] = "write", lock = NoTask,
         NEW bytes \in Seq(1..MaxWrites), Allocate(t, bytes), NEW m \in 0..Len(bytes)
  PROVE  /\ KeptIn(mem', WriteBlock(t), cb_size + m) = Collected \o SubSeq(bytes, 1, m)
         /\ Collected \in Seq(0..MaxWrites) /\ Len(Collected) = cb_size
         /\ PacketsIn(mem', circ_buffer) = PacketsIn(mem, circ_buffer)
<1> DEFINE wb == WriteBlock(t)
           n == cb_size
           old == Collected
           new == old \o bytes
<1>1. /\ n \in Nat /\ loaded /\ wb \in Blocks
      /\ \A b \in Blocks \ {wb} : mem'[b] = mem[b]
      /\ \A i \in Slots : circ_buffer.entry[i].buffptr # wb
  BY AllocateWrites DEF IInv, CallsNeedModule
<1>2. mem \in [Blocks -> Seq(0..MaxWrites)] /\ cb_buffer \in Blocks \cup {NULL}
  BY DEF IInv, DeviceTypeOK
<1>3. old = Kept(cb_buffer, n)
  BY <1>1 DEF Collected
<1>4. old \in Seq(0..MaxWrites) /\ Len(old) = n
  <2>1. old \in Seq(0..MaxWrites)
    BY <1>1, <1>2, <1>3, KeptIsBytes
  <2>2. Len(old) = n
    BY <1>1, <1>3 DEF Kept
  <2> QED BY <2>1, <2>2
<1>5. Kept(IF n = 0 THEN NULL ELSE cb_buffer, n) = old
  BY <1>3 DEF Kept
<1>6. mem'[wb] = new
  BY <1>1, <1>2, <1>5 DEF Allocate
<1>7. bytes \in Seq(0..MaxWrites) /\ Len(bytes) \in Nat
  <2>1. 1..MaxWrites \subseteq 0..MaxWrites
    BY DriverAssumption
  <2> QED BY <2>1, SeqMonotonic, LenProperties
<1>8. PacketsIn(mem', circ_buffer) = PacketsIn(mem, circ_buffer)
  BY <1>1, PacketsUntouched
<1> HIDE DEF wb, n, old
<1>9. /\ Len(new) = n + Len(bytes)
      /\ \A i \in 1..(n + Len(bytes)) : new[i] = IF i <= n THEN old[i] ELSE bytes[i - n]
  BY <1>4, <1>7, ConcatProperties
<1>10. m \in Nat /\ m <= Len(bytes)
  BY <1>7
<1> DEFINE part == SubSeq(bytes, 1, m)
<1>11. part \in Seq(0..MaxWrites) /\ Len(part) = m /\ \A i \in 1..m : part[i] = bytes[i]
  <2>1. part = [i \in 1..m |-> bytes[i]]
    BY <1>10
  <2>2. ASSUME NEW i \in 1..m PROVE bytes[i] \in 0..MaxWrites
    <3>1. i \in 1..Len(bytes)
      BY <1>7, <1>10
    <3> QED BY <3>1, <1>7, ElementOfSeq
  <2> HIDE DEF part
  <2>3. part \in Seq(0..MaxWrites) /\ Len(part) = m
    BY <2>1, <2>2, <1>10
  <2>4. \A i \in 1..m : part[i] = bytes[i]
    BY <2>1
  <2> QED BY <2>3, <2>4
<1> HIDE DEF part, new
<1>12. /\ old \o part \in Seq(0..MaxWrites) /\ Len(old \o part) = n + m
       /\ \A i \in 1..(n + m) : (old \o part)[i] = IF i <= n THEN old[i] ELSE part[i - n]
  BY <1>4, <1>11, ConcatProperties
<1>13. ASSUME NEW i \in 1..(n + m) PROVE i <= Len(new) /\ new[i] = (old \o part)[i]
  <2>1. i \in 1..(n + Len(bytes)) /\ (i > n => i - n \in 1..m) /\ i \in Nat
    BY <1>1, <1>7, <1>10
  <2>2. CASE i <= n
    BY <2>1, <2>2, <1>9, <1>12
  <2>3. CASE ~(i <= n)
    <3>1. i - n \in 1..m
      BY <2>1, <2>3, <1>1
    <3> QED BY <3>1, <2>1, <2>3, <1>9, <1>11, <1>12
  <2> QED BY <2>2, <2>3
<1>14. KeptIn(mem', wb, n + m) = [i \in 1..(n + m) |-> (old \o part)[i]]
  <2>1. wb # NULL
    BY <1>1, BlocksNotNull
  <2> QED BY <2>1, <1>6, <1>13 DEF KeptIn
<1>15. old \o part = [i \in 1..(n + m) |-> (old \o part)[i]]
  <2>1. \A s \in Seq(0..MaxWrites) : s = [i \in 1..Len(s) |-> s[i]]
    OBVIOUS
  <2> QED BY <2>1, <1>12
<1>16. KeptIn(mem', wb, n + m) = old \o part
  BY <1>14, <1>15
<1> QED BY <1>4, <1>8, <1>16 DEF wb, n, old, part

-----------------------------------------------------------------------------
(***************************************************************************)
(* Steps of calls, as steps of the device.                                 *)
(***************************************************************************)
\* A read of the driver returns the bytes of the stream at its position.
LEMMA ReadIsRead ==
  ASSUME LimitsInv, NEW t \in Tasks, ReadData(t)
  PROVE  Device!Next
<1>1. /\ pc[t] = "read" /\ pos[t] \in Nat /\ arg[t].count \in Nat \ {0} /\ loaded
      /\ circ_buffer \in Buffer /\ IInv /\ PositionInv /\ SumInv /\ ToSize(pos[t]) = pos[t]
  BY SmallPositions
  DEF ReadData, Locked, LimitsInv, PositionInv, ArgsFitCalls, IInv, DeviceTypeOK, CallsNeedModule
<1>2. PICK hit \in FindEntryOffset(circ_buffer, pos[t]) :
        LET e == circ_buffer.entry[hit.slot]
            n == Lesser(e.size - hit.offset, arg[t].count)
        IN  /\ pos' = [pos EXCEPT ![t] = ToLoff(@ + n)]
            /\ reply' = [reply EXCEPT ![t] = BytesAt(e.buffptr, hit.offset, n)]
  BY <1>1 DEF ReadData, Found
<1>3. PICK k \in 1..MaxWriteOps :
        /\ hit.slot = ReadSlot(circ_buffer, k - 1) /\ hit.slot \in Slots
        /\ hit.offset = pos[t] - BytesThrough(circ_buffer)[k - 1]
        /\ hit.offset \in Nat /\ hit.offset < circ_buffer.entry[hit.slot].size
  BY <1>1, HitIsInEntry
<1> DEFINE e == circ_buffer.entry[hit.slot]
           before == SumBefore(circ_buffer)[k - 1]
           size == e.size
           b == e.buffptr
           offset == hit.offset
           count == arg[t].count
           n == Lesser(size - offset, count)
           p == pos[t]
           all == Device!Stream
<1>4. /\ hit.slot = k - 1 /\ before \in Nat /\ size \in Nat
      /\ SumBefore(circ_buffer)[k] = before + size
      /\ BytesThrough(circ_buffer) = SumBefore(circ_buffer)
  BY <1>1, <1>3, RoundsWithinTotal
<1>5. offset = p - before /\ offset \in Nat /\ offset < size
  BY <1>3, <1>4
<1>6. k \in 1..Held(circ_buffer)
  <2>1. CASE circ_buffer.full
    BY <2>1 DEF Held
  <2>2. CASE ~circ_buffer.full
    <3>1. ~(k - 1 >= circ_buffer.in_offs)
      BY <1>3, <1>4, <1>5, <2>2 DEF SumInv, LimitsInv, UnusedAreEmpty
    <3>2. circ_buffer.in_offs \in Nat
      BY <1>1, BufferAssumption DEF Buffer, Slots
    <3> QED BY <2>2, <3>1, <3>2 DEF Held
  <2> QED BY <2>1, <2>2
<1>7. n \in Nat \ {0} /\ offset + n <= size /\ p = before + offset
  <2> HIDE DEF before, offset, count, p, size
  <2> QED BY <1>1, <1>4, <1>5 DEF Lesser, p, count
<1>8. /\ PacketSpells(e) /\ Packets[k] = PacketIn(mem, e)
      /\ all \in Seq(0..MaxWrites) /\ Spelled(all, Packets, circ_buffer)
  BY <1>1, <1>3, <1>6, PacketShape, StreamOfPackets
<1> HIDE DEF e, before, size, b, offset, count, n, p, all
<1>9. /\ Len(all) \in Nat /\ before + size <= Len(all) /\ 2 * Len(all) < IntMod
      /\ \A j \in 1..size : /\ all[before + j] = mem[b][j] /\ j <= Len(mem[b])
  <2>1. Len(all) = SumBefore(circ_buffer)[MaxWriteOps]
    BY <1>4, <1>8 DEF Spelled
  <2>2. SumBefore(circ_buffer)[k] <= SumBefore(circ_buffer)[MaxWriteOps]
    <3>1. MaxWriteOps \in 0..MaxWriteOps /\ k \in 0..MaxWriteOps
      BY BufferAssumption
    <3> QED BY <3>1, <1>1, SumBeforeGrows
  <2>3. ASSUME NEW j \in 1..size PROVE all[before + j] = mem[b][j] /\ j <= Len(mem[b])
    <3>1. Len(Packets[k]) = size /\ Packets[k][j] = mem[b][j] /\ j <= Len(mem[b])
      BY <1>8 DEF PacketSpells, b, size
    <3>2. all[before + j] = Packets[k][j]
      BY <3>1, <1>4, <1>6, <1>8 DEF Spelled, before
    <3> QED BY <3>1, <3>2
  <2>4. Len(all) \in Nat
    BY <1>8, LenProperties
  <2>5. 2 * Len(all) < IntMod
    BY <2>1, <1>1, BytesBeforeIsSum DEF SumInv
  <2> QED BY <2>1, <2>2, <2>3, <2>4, <2>5, <1>4
<1>10. ASSUME NEW j \in 1..n
       PROVE  all[p + j] = mem[b][offset + j] /\ offset + j <= Len(mem[b])
  <2>1. offset + j \in 1..size /\ p + j = before + (offset + j)
    BY <1>4, <1>5, <1>7
  <2> QED BY <2>1, <1>9
<1>11. BytesAt(b, offset, n) = [j \in 1..n |-> all[p + j]]
  BY <1>10 DEF BytesAt
<1>12. p \in Nat /\ n \in 1..(Len(all) - p)
  <2>1. p \in Nat /\ before \in Nat /\ size \in Nat /\ offset \in Nat /\ Len(all) \in Nat
    BY <1>1, <1>4, <1>5, <1>9 DEF p
  <2>2. /\ n \in Nat \ {0} /\ offset + n <= size /\ p = before + offset
        /\ before + size <= Len(all)
    BY <1>7, <1>9
  <2> QED BY <2>1, <2>2
<1>13. SubSeq(all, p + 1, p + n) = [j \in 1..n |-> all[p + j]]
  <2> DEFINE part == SubSeq(all, p + 1, p + n)
  <2>1. (p + n) - (p + 1) + 1 = n /\ \A j \in 1..n : (p + 1) + j - 1 = p + j
    BY <1>12
  <2>2. /\ part \in Seq(0..MaxWrites) /\ Len(part) = (p + n) - (p + 1) + 1
        /\ \A j \in 1..((p + n) - (p + 1) + 1) : part[j] = all[(p + 1) + j - 1]
    <3>1. p + 1 \in Int /\ p + n \in Int /\ p + 1 <= p + n
      BY <1>12
    <3>2. ASSUME NEW j \in (p + 1)..(p + n) PROVE all[j] \in 0..MaxWrites
      <4>1. j \in 1..Len(all)
        BY <1>9, <1>12
      <4> QED BY <4>1, <1>8, ElementOfSeq
    <3> QED BY <3>1, <3>2, SubSeqProperties
  <2>3. \A s \in Seq(0..MaxWrites) : s = [j \in 1..Len(s) |-> s[j]]
    OBVIOUS
  <2> HIDE DEF part
  <2>4. part = [j \in 1..n |-> part[j]] /\ \A j \in 1..n : part[j] = all[p + j]
    BY <2>1, <2>2, <2>3
  <2>5. part = [j \in 1..n |-> all[p + j]]
    BY <2>4
  <2> QED BY <2>5 DEF part
<1>14. reply' = [reply EXCEPT ![t] = SubSeq(all, p + 1, p + n)] /\ pos' = [pos EXCEPT ![t] = p + n]
  <2>1. ToLoff(p + n) = p + n
    <3>1. p + n \in Nat /\ p + n <= Len(all)
      BY <1>9, <1>12
    <3>2. 2 * (p + n) < IntMod
      BY <3>1, <1>9, DriverAssumption
    <3> QED BY <3>1, <3>2, SmallNumbers
  <2>2. pos' = [pos EXCEPT ![t] = ToLoff(p + n)]
    BY <1>2 DEF e, size, offset, count, n, p
  <2>3. reply' = [reply EXCEPT ![t] = BytesAt(b, offset, n)]
    BY <1>2 DEF e, b, size, offset, count, n
  <2> QED BY <2>1, <2>2, <2>3, <1>11, <1>13
<1>15. /\ pc' = [pc EXCEPT ![t] = "store"] /\ Packets' = Packets /\ Collected' = Collected
  <2>1. pc' = [pc EXCEPT ![t] = "store"] /\ UNCHANGED <<loaded, dev, heap>>
    BY DEF ReadData, Goto
  <2>2. PacketsIn(mem', circ_buffer') = PacketsIn(mem, circ_buffer)
    BY <2>1 DEF dev, heap
  <2> QED BY <2>1, <2>2, SeenInMemory DEF dev, heap, KeptIn
<1>16. /\ Device!Sees(t, "back", p + n, SubSeq(all, p + 1, p + n))
       /\ View[t].status = "reading" /\ View[t].pos = p
  <2>1. /\ Device!Sees(t, Status(t)', pos'[t], reply'[t])
        /\ View[t] = [status |-> Status(t), pos |-> pos[t], data |-> reply[t]]
    BY <1>1, <1>14, <1>15, OneTaskSees
  <2>2. pos'[t] = p + n /\ reply'[t] = SubSeq(all, p + 1, p + n) /\ pc'[t] = "store"
    BY <1>1, <1>14, <1>15 DEF PositionInv, PositionTypeOK, IInv, DeviceTypeOK
  <2>3. Status(t)' = "back" /\ Status(t) = "reading"
    BY <2>2, <1>1 DEF Status
  <2> QED BY <2>1, <2>2, <2>3 DEF p
<1>17. Device!Read(t)
  <2>1. Len(all) - View[t].pos > 0 /\ n \in 1..(Len(all) - View[t].pos)
    BY <1>12, <1>16, <1>9
  <2> QED BY <2>1, <1>15, <1>16 DEF Device!Read, all
<1> QED BY <1>17 DEF Device!Next

\* A read that finds nothing is at the end of the stream, and none finds an
\* entry without memory.
LEMMA ReadEndIsEnd ==
  ASSUME LimitsInv, NEW t \in Tasks, ReadEnd(t) \/ ReadHole(t)
  PROVE  Device!Next
<1>1. /\ pc[t] = "read" /\ pos[t] \in Nat /\ loaded /\ reply[t] = <<>>
      /\ circ_buffer \in Buffer /\ IInv /\ PositionInv /\ SumInv
      /\ Found(t) = FindEntryOffset(circ_buffer, pos[t])
  BY SmallPositions
  DEF ReadEnd, ReadHole, Locked, LimitsInv, IInv, DeviceTypeOK, CallsNeedModule, CallsInv, Found
<1>2. ~ReadHole(t)
  <2> SUFFICES ASSUME ReadHole(t) PROVE FALSE
    OBVIOUS
  <2>1. PICK hit \in FindEntryOffset(circ_buffer, pos[t]) :
          circ_buffer.entry[hit.slot].buffptr = NULL
    BY <1>1 DEF ReadHole
  <2>2. /\ hit.slot \in Slots /\ hit.offset \in Nat
        /\ hit.offset < circ_buffer.entry[hit.slot].size
    BY <1>1, HitIsInEntry
  <2>3. circ_buffer.entry[hit.slot].size = 0
    BY <2>1, <2>2 DEF LimitsInv, NullsAreEmpty
  <2> QED BY <2>2, <2>3
<1>3. ReadEnd(t)
  BY <1>2
<1> DEFINE p == pos[t]
           all == Device!Stream
           th == BytesThrough(circ_buffer)
<1>4. ~(p < th[MaxWriteOps])
  <2> SUFFICES ASSUME p < th[MaxWriteOps] PROVE FALSE
    OBVIOUS
  <2>1. MaxWriteOps \in 0..MaxWriteOps
    BY BufferAssumption
  <2>2. PICK k \in 1..MaxWriteOps : th[k - 1] <= p /\ p < th[k]
    BY <2>1, <1>1, PositionHasRound
  <2>3. FindEntryOffset(circ_buffer, p) # {}
    <3>1. TotalFits(circ_buffer)
      BY <1>1, RoundsWithinTotal
    <3>2. FindEntryOffset(circ_buffer, p) =
            {[slot |-> ReadSlot(circ_buffer, k - 1), offset |-> p - th[k - 1]]}
      BY <3>1, <2>2, <1>1, SearchFinds
    <3> HIDE DEF p, th
    <3> QED BY <3>2
  <2> QED BY <2>3, <1>1, <1>3 DEF ReadEnd
<1>5. Len(all) \in Nat /\ Len(all) = th[MaxWriteOps]
  <2>1. all \in Seq(0..MaxWrites) /\ Spelled(all, Packets, circ_buffer)
    BY <1>1, StreamOfPackets
  <2> HIDE DEF all
  <2> QED BY <2>1, LenProperties DEF Spelled
<1>6. /\ pc' = [pc EXCEPT ![t] = "store"] /\ pos' = [pos EXCEPT ![t] = 0] /\ reply' = reply
      /\ Packets' = Packets /\ Collected' = Collected
  <2>1. /\ pc' = [pc EXCEPT ![t] = "store"] /\ pos' = [pos EXCEPT ![t] = 0] /\ reply' = reply
        /\ UNCHANGED <<loaded, dev, heap>>
    BY <1>3 DEF ReadEnd, Goto
  <2>2. PacketsIn(mem', circ_buffer') = PacketsIn(mem, circ_buffer)
    BY <2>1 DEF dev, heap
  <2> QED BY <2>1, <2>2, SeenInMemory DEF dev, heap, KeptIn
<1>7. /\ Device!Sees(t, "back", 0, <<>>) /\ View[t].status = "reading" /\ View[t].pos = p
  <2>1. /\ Device!Sees(t, Status(t)', pos'[t], reply'[t])
        /\ View[t] = [status |-> Status(t), pos |-> pos[t], data |-> reply[t]]
    BY <1>1, <1>6, OneTaskSees
  <2>2. pos'[t] = 0 /\ reply'[t] = <<>> /\ pc'[t] = "store"
    BY <1>1, <1>6 DEF PositionInv, PositionTypeOK, IInv, DeviceTypeOK
  <2>3. Status(t)' = "back" /\ Status(t) = "reading"
    BY <2>2, <1>1 DEF Status
  <2> QED BY <2>1, <2>2, <2>3
<1>8. Device!Read(t)
  <2> HIDE DEF all, th, p
  <2>1. Len(all) - View[t].pos <= 0
    <3>1. p \in Nat
      BY <1>1 DEF p
    <3> QED BY <3>1, <1>4, <1>5, <1>7
  <2> QED BY <2>1, <1>6, <1>7 DEF Device!Read, all
<1> QED BY <1>8 DEF Device!Next

\* What a write offers the device.
LEMMA DataIsPayload ==
  ASSUME LimitsInv, NEW t \in Tasks, pc[t] = "write"
  PROVE  /\ [bytes |-> Data(t), newline |-> arg[t].newline] \in Payloads
         /\ Data(t) \in Seq(1..MaxWrites) /\ Len(Data(t)) = arg[t].count
         /\ arg[t].count \in Nat /\ arg[t].newline \in 0..arg[t].count
         /\ pos' = pos /\ reply' = reply /\ pc'[t] \in {"store", "free"}
            => Status(t)' = "back" /\ Status(t) = "other" /\ pos'[t] = pos[t] /\ reply'[t] = <<>>
<1>1. arg[t] \in WriteArgs /\ Offered(arg[t]) /\ arg[t].newline <= arg[t].count
  BY DEF LimitsInv, IInv, DeviceTypeOK, CallsInv, PositionInv, ArgsFitCalls
<1>2. arg[t].id \in Blocks /\ arg[t].count \in Nat /\ arg[t].newline \in Nat
  BY <1>1 DEF WriteArgs
<1>3. [bytes |-> Data(t), newline |-> arg[t].newline] \in Payloads
  <2> DEFINE w == [count |-> arg[t].count, newline |-> arg[t].newline]
  <2>1. w \in Writes
    BY <1>1 DEF Offered
  <2>2. [bytes |-> Data(t), newline |-> arg[t].newline] = Payload(w, arg[t].id)
    BY DEF Payload, Data
  <2> HIDE DEF w
  <2> QED BY <2>1, <2>2, <1>2 DEF Payloads
<1>4. Data(t) \in Seq(1..MaxWrites) /\ Len(Data(t)) = arg[t].count
  BY DataIsWritten DEF LimitsInv
<1>5. reply[t] = <<>>
  BY DEF LimitsInv, CallsInv
<1>6. ASSUME pos' = pos, reply' = reply, pc'[t] \in {"store", "free"}
      PROVE  Status(t)' = "back" /\ Status(t) = "other" /\ pos'[t] = pos[t] /\ reply'[t] = <<>>
  BY <1>5, <1>6 DEF Status
<1> QED BY <1>1, <1>2, <1>3, <1>4, <1>6

LEMMA PartialIsCollect ==
  ASSUME LimitsInv, Limits, NEW t \in Tasks, WritePartial(t)
  PROVE  Device!Next
<1>1. /\ pc[t] = "write" /\ lock = NoTask /\ loaded /\ IInv /\ PositionInv /\ HeldInv
      /\ cb_size \in Nat /\ arg[t].newline = 0 /\ Allocate(t, Data(t))
  BY DEF WritePartial, Locked, LimitsInv, SumInv, IInv, DeviceTypeOK, CallsNeedModule
<1> DEFINE p == [bytes |-> Data(t), newline |-> arg[t].newline]
           m == arg[t].count
<1>2. p \in Payloads /\ Data(t) \in Seq(1..MaxWrites) /\ Len(Data(t)) = m /\ m \in Nat
  BY <1>1, DataIsPayload
<1>3. /\ KeptIn(mem', WriteBlock(t), cb_size + m) = Collected \o SubSeq(Data(t), 1, m)
      /\ PacketsIn(mem', circ_buffer) = PacketsIn(mem, circ_buffer)
      /\ cb_buffer' = WriteBlock(t)
  <2>1. m \in 0..Len(Data(t))
    BY <1>2
  <2> HIDE DEF m
  <2> QED BY <2>1, <1>1, <1>2, CollectedGrows, AllocateWrites
<1>4. SubSeq(Data(t), 1, m) = Data(t)
  BY <1>2, SubSeqFull
<1>5. cb_size' = cb_size + m
  <2> DEFINE n == cb_size + m
  <2>1. n \in Nat /\ FitsChar(n) /\ n < SizeMod
    BY <1>1, <1>2 DEF Limits, LinesFit
  <2> HIDE DEF n
  <2>2. ToChar(n) = n
    BY <2>1, FitsConversion
  <2> QED BY <2>2 DEF n, WritePartial
<1>6. Packets' = Packets /\ Collected' = Collected \o Data(t)
  <2>1. loaded' = loaded /\ circ_buffer' = circ_buffer /\ lock' = lock
    BY DEF WritePartial
  <2> HIDE DEF m
  <2>2. Collected' = KeptIn(mem', cb_buffer', cb_size')
    BY <2>1, <1>1, SeenInMemory
  <2>3. Packets' = Packets
    BY <2>1, <1>1, <1>3, SeenInMemory
  <2> QED BY <2>2, <2>3, <1>3, <1>4, <1>5
<1>7. Device!Sees(t, "back", View[t].pos, <<>>)
  <2>1. pc' = [pc EXCEPT ![t] = "store"] /\ pos' = pos /\ reply' = reply
    BY DEF WritePartial, Goto
  <2>2. /\ Device!Sees(t, Status(t)', pos'[t], reply'[t])
        /\ View[t] = [status |-> Status(t), pos |-> pos[t], data |-> reply[t]]
    BY <2>1, <1>1, OneTaskSees
  <2>3. pc' \in [Tasks -> Locations] /\ pc'[t] = "store"
    BY <2>1, <1>1 DEF IInv, DeviceTypeOK, Locations
  <2>4. Status(t)' = "back" /\ pos'[t] = pos[t] /\ reply'[t] = <<>>
    BY <2>1, <2>3, <1>1, DataIsPayload
  <2> QED BY <2>2, <2>4
<1>8. Device!Collect(t, p)
  BY <1>1, <1>6, <1>7 DEF Device!Collect
<1> QED BY <1>2, <1>8 DEF Device!Next

LEMMA PacketIsCommit ==
  ASSUME LimitsInv, Limits, NoOverwrite', NEW t \in Tasks, WritePacket(t)
  PROVE  Device!Next
<1>1. /\ pc[t] = "write" /\ lock = NoTask /\ loaded /\ loaded' = loaded
      /\ IInv /\ PositionInv /\ HeldInv /\ SumInv
      /\ cb_size \in Nat /\ arg[t].newline > 0 /\ Allocate(t, Data(t))
  BY DEF WritePacket, Locked, LimitsInv, SumInv, IInv, DeviceTypeOK, CallsNeedModule
<1> DEFINE p == [bytes |-> Data(t), newline |-> arg[t].newline]
           m == arg[t].newline
           e == [buffptr |-> WriteBlock(t), size |-> cb_size + m]
           after == AddEntry(circ_buffer, e)
           H == Held(circ_buffer)
           packet == Collected \o SubSeq(Data(t), 1, m)
<1>2. p \in Payloads /\ Data(t) \in Seq(1..MaxWrites) /\ m \in 0..Len(Data(t))
  BY <1>1, DataIsPayload
<1>3. /\ KeptIn(mem', WriteBlock(t), cb_size + m) = packet
      /\ PacketsIn(mem', circ_buffer) = PacketsIn(mem, circ_buffer)
      /\ WriteBlock(t) \in Blocks
  <2> HIDE DEF m
  <2> QED BY <1>1, <1>2, CollectedGrows, AllocateWrites
<1>4. /\ e \in Entry /\ circ_buffer' = after /\ ~circ_buffer.full
      /\ cb_size' = 0 /\ lock' = NoTask
  <2> HIDE DEF m
  <2> QED BY <1>1, PacketWithinLimits DEF LimitsInv, m
<1>5. /\ H \in 0..(MaxWriteOps - 1) /\ Len(Contents(circ_buffer)) = H
      /\ Contents(circ_buffer) \in Seq(Entry)
  <2>1. circ_buffer \in Buffer /\ RingShape(circ_buffer)
    BY <1>1 DEF IInv, DeviceTypeOK
  <2>2. H \in Slots
    BY <2>1, <1>4 DEF Held, Buffer
  <2> QED BY <2>1, <2>2, ContentsIsSequence DEF Slots
<1>6. /\ Held(after) = H + 1
      /\ \A k \in 1..(H + 1) :
           Contents(after)[k] = IF k <= H THEN Contents(circ_buffer)[k] ELSE e
  <2>1. circ_buffer \in Buffer /\ RingShape(circ_buffer)
    BY <1>1 DEF IInv, DeviceTypeOK
  <2> HIDE DEF e
  <2>2. Contents(after) = Pushed(Contents(circ_buffer), e)
    BY <2>1, <1>4, AddEntryBeforeFull
  <2>3. Len(Contents(after)) = Held(after)
    <3>1. after \in Buffer /\ RingShape(after)
      BY <2>1, <1>4, AddEntryShape
    <3> HIDE DEF after
    <3> QED BY <3>1, ContentsIsSequence
  <2> HIDE DEF after, H
  <2>4. Len(Contents(circ_buffer)) # MaxWriteOps
    BY <1>5, BufferAssumption
  <2>5. Contents(after) = Append(Contents(circ_buffer), e)
    BY <2>2, <2>4 DEF Pushed
  <2>6. /\ Len(Contents(after)) = H + 1
        /\ \A k \in 1..H : Contents(after)[k] = Contents(circ_buffer)[k]
        /\ Contents(after)[H + 1] = e
    BY <2>5, <1>4, <1>5, AppendProperties
  <2>7. ASSUME NEW k \in 1..(H + 1)
        PROVE  Contents(after)[k] = IF k <= H THEN Contents(circ_buffer)[k] ELSE e
    <3>1. (k <= H /\ k \in 1..H) \/ (~(k <= H) /\ k = H + 1)
      BY <1>5
    <3> QED BY <3>1, <2>6
  <2> QED BY <2>3, <2>6, <2>7
<1>7. PacketIn(mem', e) = packet
  <2>1. WriteBlock(t) # NULL
    BY <1>3, BlocksNotNull
  <2> QED BY <2>1, <1>3 DEF PacketIn
<1>8. Packets = PacketsIn(mem, circ_buffer) /\ Packets' = PacketsIn(mem', after) /\ Collected' = <<>>
  <2>1. Packets = PacketsIn(mem, circ_buffer) /\ Packets' = PacketsIn(mem', circ_buffer')
    BY <1>1, SeenInMemory
  <2>2. Collected' = KeptIn(mem', cb_buffer', 0)
    BY <1>1, <1>4, SeenInMemory
  <2> QED BY <2>1, <2>2, <1>4 DEF KeptIn
<1> HIDE DEF e, after, packet
<1>9. /\ Len(Packets) = H
      /\ \A k \in 1..H : PacketIn(mem', Contents(circ_buffer)[k]) = Packets[k]
  <2>1. Packets = [k \in 1..H |-> PacketIn(mem', Contents(circ_buffer)[k])]
    BY <1>3, <1>8 DEF PacketsIn
  <2> HIDE DEF H
  <2> QED BY <2>1, <1>5
<1>10. Packets' = Append(Packets, packet)
  <2>1. Packets' = [k \in 1..(H + 1) |-> PacketIn(mem', Contents(after)[k])]
    BY <1>6, <1>8 DEF PacketsIn
  <2> HIDE DEF H
  <2>2. Append(Packets, packet) = [k \in 1..(H + 1) |-> IF k = H + 1 THEN packet ELSE Packets[k]]
    <3> DEFINE S == {Packets[k] : k \in 1..H} \cup {packet}
    <3>1. Packets \in Seq(S) /\ packet \in S
      <4>1. Packets = [k \in 1..H |-> Packets[k]]
        BY <1>8 DEF PacketsIn, H
      <4> QED BY <4>1, <1>5
    <3> HIDE DEF S
    <3>2. /\ Append(Packets, packet) \in Seq(S) /\ Len(Append(Packets, packet)) = H + 1
          /\ \A k \in 1..H : Append(Packets, packet)[k] = Packets[k]
          /\ Append(Packets, packet)[H + 1] = packet
      BY <3>1, <1>9, AppendProperties
    <3>3. \A s \in Seq(S) : s = [k \in 1..Len(s) |-> s[k]]
      OBVIOUS
    <3>4. ASSUME NEW k \in 1..(H + 1)
          PROVE  Append(Packets, packet)[k] = IF k = H + 1 THEN packet ELSE Packets[k]
      <4>1. k \in 1..H \/ k = H + 1
        BY <1>5
      <4> QED BY <4>1, <3>2
    <3> QED BY <3>2, <3>3, <3>4
  <2>3. ASSUME NEW k \in 1..(H + 1)
        PROVE  PacketIn(mem', Contents(after)[k]) = IF k = H + 1 THEN packet ELSE Packets[k]
    <3>1. (k <= H /\ k \in 1..H /\ k # H + 1) \/ (~(k <= H) /\ k = H + 1)
      BY <1>5
    <3> QED BY <3>1, <1>6, <1>7, <1>9
  <2> QED BY <2>1, <2>2, <2>3
<1>11. Device!Sees(t, "back", View[t].pos, <<>>)
  <2>1. pc' = [pc EXCEPT ![t] = "store"] /\ pos' = pos /\ reply' = reply
    <3>1. pc' # [pc EXCEPT ![t] = "free"]
      BY <1>1 DEF NoOverwrite, IInv, DeviceTypeOK
    <3> QED BY <3>1 DEF WritePacket, Goto
  <2>2. /\ Device!Sees(t, Status(t)', pos'[t], reply'[t])
        /\ View[t] = [status |-> Status(t), pos |-> pos[t], data |-> reply[t]]
    BY <2>1, <1>1, OneTaskSees
  <2>3. pc' \in [Tasks -> Locations] /\ pc'[t] = "store"
    BY <2>1, <1>1 DEF IInv, DeviceTypeOK, Locations
  <2>4. Status(t)' = "back" /\ pos'[t] = pos[t] /\ reply'[t] = <<>>
    BY <2>1, <2>3, <1>1, DataIsPayload
  <2> QED BY <2>2, <2>4
<1>12. Device!Commit(t, p)
  <2>1. Len(Packets) # MaxWriteOps
    <3> HIDE DEF H
    <3> QED BY <1>5, <1>9, BufferAssumption
  <2> QED BY <2>1, <1>1, <1>8, <1>10, <1>11 DEF Device!Commit, packet
<1> QED BY <1>2, <1>12 DEF Device!Next

\* A write that fails keeps what was collected: without krealloc failing, an
\* allocation fails only when nothing was, and a fault leaves the size alone.
LEMMA FailedWriteIsPosition ==
  ASSUME ~ReallocFails, LimitsInv, NEW t \in Tasks, WriteNoMemory(t) \/ WriteFault(t)
  PROVE  Device!Next
<1>1. /\ pc[t] = "write" /\ lock = NoTask /\ loaded /\ loaded' = loaded /\ lock' = lock
      /\ IInv /\ PositionInv /\ HeldInv /\ CallsInv /\ cb_size \in Nat
      /\ circ_buffer' = circ_buffer /\ cb_size' = cb_size /\ reply' = reply
  BY DEF WriteNoMemory, WriteFault, Locked, LimitsInv, SumInv, IInv, DeviceTypeOK,
         CallsNeedModule
<1>2. pc' = [pc EXCEPT ![t] = "idle"] /\ pos' = [pos EXCEPT ![t] = 0]
  BY DEF WriteNoMemory, WriteFault, Finish, Goto
<1>3. Packets' = Packets /\ Collected' = Collected
  <2>1. CASE WriteNoMemory(t)
    <3>1. mem' = mem /\ cb_size = 0
      BY <2>1 DEF WriteNoMemory, heap
    <3>2. PacketsIn(mem', circ_buffer') = PacketsIn(mem, circ_buffer)
      BY <3>1, <1>1
    <3>3. KeptIn(mem', cb_buffer', cb_size') = KeptIn(mem, cb_buffer, cb_size)
      BY <3>1, <1>1 DEF KeptIn
    <3> QED BY <3>2, <3>3, <1>1, SeenInMemory
  <2>2. CASE WriteFault(t)
    <3>1. <<>> \in Seq(1..MaxWrites) /\ Len(<<>>) = 0
      BY <1>1, DataIsWritten
    <3>2. Allocate(t, <<>>) /\ 0 \in 0..Len(<<>>)
      BY <2>2, <3>1 DEF WriteFault
    <3>3. /\ KeptIn(mem', WriteBlock(t), cb_size + 0) = Collected \o SubSeq(<<>>, 1, 0)
          /\ Collected \in Seq(0..MaxWrites)
          /\ PacketsIn(mem', circ_buffer) = PacketsIn(mem, circ_buffer)
          /\ cb_buffer' = WriteBlock(t)
      BY <3>1, <3>2, <1>1, CollectedGrows, AllocateWrites
    <3>4. Collected \o SubSeq(<<>>, 1, 0) = Collected
      <4>1. SubSeq(<<>>, 1, 0) = <<>>
        BY SubSeqEmpty
      <4> QED BY <4>1, <3>3, ConcatEmptySeq
    <3>5. cb_size + 0 = cb_size
      BY <1>1
    <3> QED BY <3>3, <3>4, <3>5, <1>1, SeenInMemory
  <2> QED BY <2>1, <2>2
<1> QED BY <1>1, <1>2, <1>3, OneTaskPosition

\* Steps that leave the entries and the packet being collected alone.
LEMMA QuietIsPosition ==
  ASSUME LimitsInv, NEW t \in Tasks,
         Call(t) \/ Interrupted(t) \/ StorePos(t) \/ ReadFault(t) \/ IoctlStep(t)
  PROVE  Device!Next
<1>1. /\ UNCHANGED <<loaded, dev, heap>> /\ IInv /\ PositionInv /\ CallsInv
      /\ pos' = pos \/ \E p : pos' = [pos EXCEPT ![t] = p]
  BY DEF Call, CallRead, CallWrite, CallIoctl, CallLSeek, Enter, Interrupted, StorePos,
         ReadFault, IoctlStep, IoctlSeek, IoctlInvalid, Finish, LimitsInv
<1>2. Packets' = Packets /\ Collected' = Collected
  <2>1. PacketsIn(mem', circ_buffer') = PacketsIn(mem, circ_buffer)
    BY <1>1 DEF dev, heap
  <2> QED BY <2>1, <1>1, SeenInMemory DEF dev, heap, KeptIn
<1>3. PICK where :
        /\ pc' = [pc EXCEPT ![t] = where]
        /\ pc[t] # "read" \/ where \notin {"free", "store"}
        /\ reply' = [reply EXCEPT ![t] = <<>>] \/ (reply' = reply /\ pc[t] # "store")
  <2>1. CASE Call(t)
    BY <2>1 DEF Call, CallRead, CallWrite, CallIoctl, CallLSeek, Enter, Goto
  <2>2. CASE Interrupted(t) \/ StorePos(t) \/ ReadFault(t) \/ IoctlStep(t)
    BY <2>2 DEF Interrupted, StorePos, ReadFault, IoctlStep, IoctlSeek, IoctlInvalid,
                Finish, Goto, Locked
  <2> QED BY <2>1, <2>2
<1> QED BY <1>1, <1>2, <1>3, OneTaskPosition

LEMMA DeviceStep ==
  ASSUME ~ReallocFails, LimitsInv, Limits, NoOverwrite', [Next]_vars
  PROVE  [Device!Next]_<<Packets, Collected, View>>
<1>1. CASE InitModule \/ CleanupModule
  <2>1. UNCHANGED <<pc, pos, reply>> /\ lock' = lock
    BY <1>1 DEF InitModule, CleanupModule, dev
  <2>2. View' = View
    BY <2>1 DEF View, Status
  <2>3. Packets' = <<>>
    <3>1. CASE InitModule
      <4>1. loaded' /\ Held(circ_buffer') = 0
        BY <3>1 DEF InitModule, EmptyBuffer, Held
      <4> QED BY <4>1, SeenInMemory DEF PacketsIn
    <3>2. CASE CleanupModule
      BY <3>2, SeenInMemory DEF CleanupModule
    <3> QED BY <1>1, <3>1, <3>2
  <2>4. Collected' = <<>>
    <3>1. CASE InitModule
      <4>1. cb_size' = 0
        BY <3>1 DEF InitModule
      <4> QED BY <4>1, SeenInMemory DEF KeptIn
    <3>2. CASE CleanupModule
      BY <3>2, SeenInMemory DEF CleanupModule
    <3> QED BY <1>1, <3>1, <3>2
  <2> QED BY <2>2, <2>3, <2>4 DEF Device!Next, Device!Reset
<1>2. ASSUME UNCHANGED <<loaded, dev, heap, pc, pos, reply>>
      PROVE  UNCHANGED <<Packets, Collected, View>>
  <2>1. View' = View
    BY <1>2 DEF View, Status
  <2>2. PacketsIn(mem', circ_buffer') = PacketsIn(mem, circ_buffer)
    BY <1>2 DEF dev, heap
  <2> QED BY <2>1, <2>2, <1>2, SeenInMemory DEF dev, heap, KeptIn
<1>3. CASE UNCHANGED vars
  BY <1>2, <1>3 DEF vars
<1>4. ASSUME NEW f \in Files, Open(f) \/ Release(f)
      PROVE  UNCHANGED <<Packets, Collected, View>>
  BY <1>2, <1>4 DEF Open, Release
<1>5. ASSUME NEW t \in Tasks, ReadStep(t) PROVE Device!Next
  BY <1>5, ReadIsRead, ReadEndIsEnd, QuietIsPosition DEF ReadStep
<1>6. ASSUME NEW t \in Tasks, WriteStep(t) PROVE Device!Next
  BY <1>6, PartialIsCollect, PacketIsCommit, FailedWriteIsPosition DEF WriteStep
<1>7. ASSUME NEW t \in Tasks, WriteFree(t) PROVE FALSE
  BY <1>7 DEF WriteFree, Limits, NoOverwrite
<1> QED
  BY <1>1, <1>3, <1>4, <1>5, <1>6, <1>7, QuietIsPosition DEF Next, EndStep

\* ImplementsDevice: until the buffer overflows and as long as sizes fit their
\* types, aesd_read, aesd_write, aesd_llseek and aesd_unlocked_ioctl, cut into
\* steps of any number of tasks, behave as the device of AesdDevice does: reads
\* hand out the packets as written and in order, and failed calls lose nothing.
THEOREM DriverImplementsDevice ==
  ASSUME ~ReallocFails
  PROVE  Spec /\ []Limits => ImplementsDevice
<1>1. Init => Device!Init
  <2> SUFFICES ASSUME Init PROVE Device!Init
    OBVIOUS
  <2>1. Packets = <<>> /\ Collected = <<>>
    BY DEF Init, Packets, Collected
  <2>2. View = [t \in Tasks |-> [status |-> "other", pos |-> 0, data |-> <<>>]]
    BY DEF Init, View, Status
  <2> QED BY <2>1, <2>2 DEF Device!Init
<1>2. LimitsInv /\ Limits /\ Limits' /\ [Next]_vars => [Device!Next]_<<Packets, Collected, View>>
  BY DeviceStep DEF Limits
<1>3. Device!vars = <<Packets, Collected, View>>
  BY DEF Device!vars
<1> QED BY <1>1, <1>2, <1>3, LimitsInvHolds, PTL DEF Spec, ImplementsDevice, Device!Spec, Device!vars
=============================================================================
