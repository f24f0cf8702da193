------------------------ MODULE AesdCharData_proofs ------------------------
(***************************************************************************)
(* Proofs about the positions and the data of the driver, for every number *)
(* of tasks, files, entries and writes.  They rest on the invariant IInv   *)
(* of AesdChar_proofs, and those about the data hold as long as the limits *)
(* named below are kept.                                                   *)
(***************************************************************************)
EXTENDS AesdChar_proofs

-----------------------------------------------------------------------------
(***************************************************************************)
(* The sum of the sizes, which aesd_unlocked_ioctl computes entry by entry *)
(* of the array.                                                           *)
(***************************************************************************)
SumBefore(b) ==
  LET sum[k \in 0..MaxWriteOps] == IF k = 0 THEN 0 ELSE sum[k - 1] + b.entry[k - 1].size
  IN  sum

LEMMA BytesBeforeIsSum ==
  /\ \A n : BytesBefore(n) = SumBefore(circ_buffer)[n]
  /\ \A n : BytesBefore(n)' = SumBefore(circ_buffer')[n]
BY DEF BytesBefore, SumBefore, SizeOf

LEMMA SumBeforeRounds ==
  ASSUME NEW b \in Buffer
  PROVE  LET sum == SumBefore(b)
         IN  /\ sum \in [0..MaxWriteOps -> Nat]
             /\ sum[0] = 0
             /\ \A k \in 1..MaxWriteOps : /\ sum[k] = sum[k - 1] + b.entry[k - 1].size
                                         /\ b.entry[k - 1].size \in Nat
<1> DEFINE N == MaxWriteOps
           size(k) == b.entry[k].size
           round == [k \in 0..(N - 1) |-> [v \in Nat |-> v + size(k)]]
           Body(g) == [k \in 0..N |-> IF k = 0 THEN 0 ELSE g[k - 1] + size(k - 1)]
<1>0. N \in Nat
  BY BufferAssumption
<1>1. \A k \in 0..(N - 1) : size(k) \in Nat
  BY DEF Buffer, Entry, Slots
<1>2. round \in [0..(N - 1) -> [Nat -> Nat]]
  BY <1>1
<1>3. PICK f : f \in [0..N -> Nat] /\ f[0] = 0 /\ \A k \in 1..N : f[k] = round[k - 1][f[k - 1]]
  <2> HIDE DEF round, N
  <2>1. IsLoop(N, Nat, 0, round)
    BY <1>0, <1>2 DEF IsLoop
  <2>2. \E f : IsTrace(f, N, Nat, 0, round)
    BY <2>1, LoopHasTrace
  <2> QED BY <2>2 DEF IsTrace
<1>4. f = Body(f)
  <2>1. ASSUME NEW k \in 1..N PROVE f[k] = f[k - 1] + size(k - 1)
    <3>1. k - 1 \in 0..(N - 1) /\ f[k - 1] \in Nat
      BY <1>0, <1>3
    <3> QED BY <1>3, <3>1
  <2> QED BY <2>1, <1>0, <1>3
<1>5. SumBefore(b) = CHOOSE g : g = Body(g)
  BY DEF SumBefore
<1>6. SumBefore(b) = Body(SumBefore(b))
  <2> HIDE DEF Body
  <2> QED BY <1>4, <1>5
<1>7. SumBefore(b) = f
  <2> DEFINE t == SumBefore(b)
  <2>1. t = [k \in 0..N |-> t[k]] /\ f = [k \in 0..N |-> f[k]]
    <3>1. t = Body(t)
      BY <1>6
    <3> HIDE DEF t, size
    <3> QED BY <3>1, <1>3
  <2>2. t[0] = f[0]
    BY <1>3, <1>6, <1>0
  <2>3. ASSUME NEW k \in 1..N, t[k - 1] = f[k - 1] PROVE t[k] = f[k]
    <3> HIDE DEF t, size, round
    <3>1. t = Body(t) /\ f = Body(f)
      BY <1>4, <1>6 DEF t
    <3> QED BY <3>1, <2>3, <1>0
  <2> HIDE DEF t, N
  <2>4. InStep(t, f, N)
    BY <2>1, <2>2, <2>3, <1>0 DEF InStep
  <2>5. t = f
    BY <2>4, SameTrace
  <2> QED BY <2>5 DEF t
<1>8. \A k \in 1..N : f[k] = f[k - 1] + size(k - 1) /\ size(k - 1) \in Nat
  <2> HIDE DEF size, round
  <2>1. \A k \in 1..N : k - 1 \in 0..(N - 1)
    BY <1>0
  <2> QED BY <2>1, <1>1, <1>4, <1>0
<1> QED BY <1>3, <1>7, <1>8

-----------------------------------------------------------------------------
(***************************************************************************)
(* The positions are positions, and what a reader is handed are bytes.     *)
(***************************************************************************)
\* A loff_t holds every value of an int, and each conversion ends in its type.
LEMMA LoffValues ==
  /\ 0 \in Loff /\ Loff \subseteq Int
  /\ \A n \in Int : ToLoff(n) \in Loff /\ ToInt(n) \in Loff
<1>1. IntMod \in Nat \ {0} /\ LoffMod \in Nat \ {0} /\ IntMod <= LoffMod
  BY DriverAssumption
<1>2. ASSUME NEW m \in Nat \ {0}, m <= LoffMod, NEW n \in Int
      PROVE  ToSigned(n, m) \in Loff
  <2> DEFINE r == n % m
  <2>1. r \in 0..(m - 1)
    OBVIOUS
  <2> HIDE DEF r
  <2>2. (IF 2 * r >= m THEN r - m ELSE r) \in Loff
    BY <2>1, <1>1, <1>2 DEF Loff
  <2> QED BY <2>2 DEF ToSigned, r
<1>3. 0 \in Loff /\ Loff \subseteq Int
  BY <1>1 DEF Loff
<1>4. ASSUME NEW n \in Int PROVE ToLoff(n) \in Loff /\ ToInt(n) \in Loff
  <2>1. LoffMod <= LoffMod
    BY <1>1
  <2> QED BY <2>1, <1>1, <1>2 DEF ToLoff, ToInt
<1> QED BY <1>3, <1>4

\* A number below half the values of an int is the same in every type.
LEMMA SmallNumbers ==
  ASSUME NEW n \in Nat, 2 * n < IntMod
  PROVE  n < SizeMod /\ ToSize(n) = n /\ ToInt(n) = n /\ ToLoff(n) = n
<1>1. /\ IntMod \in Nat \ {0} /\ LoffMod \in Nat \ {0} /\ SizeMod \in Nat \ {0}
      /\ IntMod <= LoffMod /\ IntMod <= SizeMod
  BY DriverAssumption, BufferAssumption
<1>2. n < IntMod /\ n < LoffMod /\ n < SizeMod /\ 2 * n < LoffMod
  BY <1>1
<1>3. n % IntMod = n /\ n % LoffMod = n /\ n % SizeMod = n
  BY <1>1, <1>2, Remainder
<1>4. ToSigned(n, IntMod) = n /\ ToSigned(n, LoffMod) = n
  BY <1>1, <1>2, <1>3 DEF ToSigned
<1> QED BY <1>2, <1>3, <1>4 DEF ToSize, ToInt, ToLoff

ArgsFitCalls ==
  \A t \in Tasks : /\ pc[t] = "read"  => arg[t] \in [count : Nat \ {0}]
                   /\ pc[t] = "write" => arg[t].newline <= arg[t].count
                   /\ pc[t] = "ioctl" => arg[t] \in SeekArgs /\ arg[t].write_cmd < MaxWriteOps

PositionInv == PositionTypeOK /\ ArgsFitCalls

\* A step that moves one task, gives it a position, and perhaps its file.
LEMMA OneTaskMoves ==
  ASSUME IInv, PositionInv, NEW t \in Tasks, NEW p \in Loff,
         NEW r \in Seq(0..MaxWrites),
         f_pos' = f_pos \/ f_pos' = [f_pos EXCEPT ![FileOf[t]] = pos[t]],
         pos' = [pos EXCEPT ![t] = p] \/ pos' = pos,
         reply' = [reply EXCEPT ![t] = r] \/ reply' = reply,
         NEW where, pc' = [pc EXCEPT ![t] = where],
         where \in {"read", "write"} => p >= 0 /\ pos' = [pos EXCEPT ![t] = p],
         arg' = arg \/ \E a : arg' = [arg EXCEPT ![t] = a],
         where = "read"  => arg'[t] \in [count : Nat \ {0}],
         where = "write" => arg'[t].newline <= arg'[t].count,
         where = "ioctl" => arg'[t] \in SeekArgs /\ arg'[t].write_cmd < MaxWriteOps
  PROVE  PositionInv'
<1>1. /\ f_pos \in [Files -> Loff] /\ pos \in [Tasks -> Loff]
      /\ reply \in [Tasks -> Seq(0..MaxWrites)]
      /\ pc \in [Tasks -> Locations] /\ arg \in [Tasks -> Args] /\ FileOf[t] \in Files
  BY DriverAssumption DEF PositionInv, PositionTypeOK, IInv, DeviceTypeOK
<1>2. PositionTypeOK'
  <2>1. f_pos' \in [Files -> Loff]
    BY <1>1
  <2>2. pos' \in [Tasks -> Loff]
    BY <1>1
  <2>3. reply' \in [Tasks -> Seq(0..MaxWrites)]
    BY <1>1
  <2>4. ASSUME NEW u \in Tasks, pc'[u] \in {"read", "write"} PROVE pos'[u] >= 0
    <3>1. CASE u = t
      <4>1. where \in {"read", "write"}
        BY <2>4, <3>1, <1>1
      <4> QED BY <4>1, <3>1, <1>1
    <3>2. CASE u # t
      <4>1. pos'[u] = pos[u] /\ pc'[u] = pc[u]
        BY <3>2, <1>1
      <4> QED BY <4>1, <2>4 DEF PositionInv, PositionTypeOK
    <3> QED BY <3>1, <3>2
  <2> QED BY <2>1, <2>2, <2>3, <2>4 DEF PositionTypeOK
<1>3. /\ \A u \in Tasks \ {t} : pc'[u] = pc[u] /\ arg'[u] = arg[u]
      /\ pc'[t] = where
  BY <1>1
<1>4. ArgsFitCalls'
  <2>1. ASSUME NEW u \in Tasks
        PROVE  /\ pc'[u] = "read"  => arg'[u] \in [count : Nat \ {0}]
               /\ pc'[u] = "write" => arg'[u].newline <= arg'[u].count
               /\ pc'[u] = "ioctl" => arg'[u] \in SeekArgs /\ arg'[u].write_cmd < MaxWriteOps
    <3>1. CASE u = t
      BY <3>1, <1>3
    <3>2. CASE u # t
      BY <3>2, <1>3 DEF PositionInv, ArgsFitCalls
    <3> QED BY <3>1, <3>2
  <2> QED BY <2>1 DEF ArgsFitCalls
<1> QED BY <1>2, <1>4 DEF PositionInv

\* Bytes of a block, or of the kernel's memory behind it.
LEMMA BytesAtIsBytes ==
  ASSUME mem \in [Blocks -> Seq(0..MaxWrites)],
         NEW b \in Blocks, NEW offset \in Nat, NEW n \in Nat
  PROVE  BytesAt(b, offset, n) \in Seq(0..MaxWrites)
<1>1. ASSUME NEW i \in 1..n
      PROVE  (IF offset + i <= Len(mem[b]) THEN mem[b][offset + i] ELSE Garbage) \in 0..MaxWrites
  <2>1. CASE offset + i <= Len(mem[b])
    <3>1. mem[b] \in Seq(0..MaxWrites) /\ offset + i \in 1..Len(mem[b])
      BY <2>1, LenProperties
    <3> QED BY <3>1, <2>1, ElementOfSeq
  <2>2. CASE ~(offset + i <= Len(mem[b]))
    BY <2>2, BlocksNotNull
  <2> QED BY <2>1, <2>2
<1> QED BY <1>1 DEF BytesAt

\* What aesd_read does with a hit: it moves the position by at least one byte,
\* at most to the end of the entry and by no more than was asked for.  The search
\* sees the position as a size_t, and the sum becomes a loff_t again.
LEMMA ReadDataEffect ==
  ASSUME IInv, PositionInv, NEW t \in Tasks, ReadData(t)
  PROVE  \E k \in 1..MaxWriteOps, n \in Nat \ {0}, r \in Seq(0..MaxWrites) :
           /\ pos' = [pos EXCEPT ![t] = ToLoff(@ + n)]
           /\ reply' = [reply EXCEPT ![t] = r]
           /\ ToSize(pos[t]) + n <= BytesThrough(circ_buffer)[k - 1]
                              + circ_buffer.entry[ReadSlot(circ_buffer, k - 1)].size
<1>1. /\ pc[t] = "read" /\ ToSize(pos[t]) \in Nat /\ arg[t].count \in Nat \ {0}
      /\ circ_buffer \in Buffer /\ mem \in [Blocks -> Seq(0..MaxWrites)]
  <2>1. pos[t] \in Int
    BY LoffValues DEF PositionInv, PositionTypeOK
  <2>2. ToSize(pos[t]) \in Nat
    BY <2>1, Conversions
  <2> QED BY <2>2 DEF ReadData, Locked, PositionInv, ArgsFitCalls, IInv, DeviceTypeOK
<1>2. PICK hit \in FindEntryOffset(circ_buffer, ToSize(pos[t])) :
        LET e == circ_buffer.entry[hit.slot]
            n == Lesser(e.size - hit.offset, arg[t].count)
        IN  /\ e.buffptr # NULL
            /\ pos' = [pos EXCEPT ![t] = ToLoff(@ + n)]
            /\ reply' = [reply EXCEPT ![t] = BytesAt(e.buffptr, hit.offset, n)]
  BY DEF ReadData, Found
<1>3. PICK k \in 1..MaxWriteOps :
        /\ hit.slot = ReadSlot(circ_buffer, k - 1) /\ hit.slot \in Slots
        /\ BytesThrough(circ_buffer)[k - 1] <= ToSize(pos[t])
        /\ hit.offset = ToSize(pos[t]) - BytesThrough(circ_buffer)[k - 1]
        /\ hit.offset \in Nat /\ hit.offset < circ_buffer.entry[hit.slot].size
  BY <1>1, HitIsInEntry
<1> DEFINE e == circ_buffer.entry[hit.slot]
           before == BytesThrough(circ_buffer)[k - 1]
           n == Lesser(e.size - hit.offset, arg[t].count)
<1>4. e.size \in Nat /\ e.buffptr \in Blocks /\ before \in Nat
  <2>1. loaded
    BY <1>1 DEF IInv, CallsNeedModule
  <2>2. e.buffptr \in live /\ live \subseteq Blocks
    BY <2>1, <1>2, <1>3 DEF IInv, BlocksOwnedOnce, DeviceTypeOK
  <2>3. e \in Entry
    BY <1>1, <1>3 DEF Buffer
  <2>4. k - 1 \in 0..MaxWriteOps
    BY BufferAssumption
  <2>5. before \in 0..(SizeMod - 1)
    BY <2>4, <1>1, BytesThroughRounds
  <2> QED BY <2>2, <2>3, <2>5, BufferAssumption DEF Entry
<1> DEFINE size == e.size
           offset == hit.offset
           count == arg[t].count
           p == ToSize(pos[t])
<1>5. n \in Nat \ {0} /\ p + n <= before + size
  <2>1. /\ size \in Nat /\ offset \in Nat /\ offset < size /\ count \in Nat \ {0}
        /\ p \in Nat /\ before \in Nat /\ offset = p - before
        /\ n = Lesser(size - offset, count)
    BY <1>1, <1>3, <1>4
  <2> HIDE DEF size, offset, count, p, before, n
  <2> QED BY <2>1 DEF Lesser
<1>6. BytesAt(e.buffptr, offset, n) \in Seq(0..MaxWrites)
  BY <1>1, <1>3, <1>4, <1>5, BytesAtIsBytes
<1>7. /\ pos' = [pos EXCEPT ![t] = ToLoff(@ + n)]
      /\ reply' = [reply EXCEPT ![t] = BytesAt(e.buffptr, offset, n)]
  BY <1>2
<1>8. p + n <= before + circ_buffer.entry[ReadSlot(circ_buffer, k - 1)].size
  BY <1>3, <1>5
<1> HIDE DEF n, e, before
<1> QED BY <1>5, <1>6, <1>7, <1>8 DEF before, p

\* A call ends without the file layer touching the open file.
LEMMA FinishKeepsPositions ==
  ASSUME IInv, PositionInv, NEW t \in Tasks, Finish(t), f_pos' = f_pos, reply' = reply
  PROVE  PositionInv'
<1>1. <<>> \in Seq(0..MaxWrites)
  BY EmptySeq
<1>2. /\ pc' = [pc EXCEPT ![t] = "idle"] /\ arg' = [arg EXCEPT ![t] = NoArg]
      /\ pos' = [pos EXCEPT ![t] = 0]
  BY DEF Finish, Goto
<1> QED BY <1>1, <1>2, LoffValues, OneTaskMoves

\* A call starts at a position.
LEMMA EnterAtPosition ==
  ASSUME IInv, PositionInv, NEW t \in Tasks, NEW where, NEW a, NEW p \in Loff,
         Enter(t, where, a, p),
         where \in {"read", "write"} => p >= 0,
         where = "read"  => a \in [count : Nat \ {0}],
         where = "write" => a.newline <= a.count,
         where = "ioctl" => a \in SeekArgs /\ a.write_cmd < MaxWriteOps
  PROVE  PositionInv'
<1>1. <<>> \in Seq(0..MaxWrites)
  BY EmptySeq
<1>2. /\ pc' = [pc EXCEPT ![t] = where] /\ arg' = [arg EXCEPT ![t] = a]
      /\ pos' = [pos EXCEPT ![t] = p] /\ f_pos' = f_pos /\ reply' = reply
  BY DEF Enter, Goto
<1>3. arg'[t] = a
  BY <1>2 DEF IInv, DeviceTypeOK
<1> QED BY <1>1, <1>2, <1>3, OneTaskMoves

LEMMA CallKeepsPositions ==
  ASSUME IInv, PositionInv, NEW t \in Tasks, Call(t)
  PROVE  PositionInv'
<1>1. f_pos[FileOf[t]] \in Loff /\ circ_total_size \in Nat
  BY DriverAssumption DEF PositionInv, PositionTypeOK, IInv, DeviceTypeOK
<1>2. CASE CallRead(t)
  <2>1. PICK n \in ReadCounts :
          f_pos[FileOf[t]] >= 0 /\ Enter(t, "read", [count |-> n], f_pos[FileOf[t]])
    BY <1>2 DEF CallRead, Accepted
  <2>2. [count |-> n] \in [count : Nat \ {0}]
    BY DriverAssumption
  <2> QED BY <2>1, <2>2, <1>1, EnterAtPosition
<1>3. CASE CallWrite(t)
  <2>1. PICK w \in Writes :
          /\ f_pos[FileOf[t]] >= 0
          /\ Enter(t, "write", [id |-> writes + 1, count |-> w.count, newline |-> w.newline],
                   f_pos[FileOf[t]])
    BY <1>3 DEF CallWrite, Accepted
  <2>2. w.newline <= w.count
    BY DriverAssumption
  <2> QED BY <2>1, <2>2, <1>1, EnterAtPosition
<1>4. CASE CallIoctl(t)
  <2>1. PICK s \in SeekArgs : s.write_cmd < MaxWriteOps /\ Enter(t, "ioctl", s, 0)
    BY <1>4 DEF CallIoctl
  <2> QED BY <2>1, LoffValues, EnterAtPosition
<1>5. CASE CallLSeek(t)
  <2>1. PICK s \in LSeekArgs : Enter(t, "store", s, LSeekTarget(t, s))
    BY <1>5 DEF CallLSeek
  <2>2. LSeekTarget(t, s) \in Loff
    <3>1. s.off \in Int /\ s.whence \in {"SEEK_SET", "SEEK_CUR", "SEEK_END"}
      BY DriverAssumption
    <3>2. f_pos[FileOf[t]] \in Int /\ DataEnd \in Int
      <4>1. circ_total_size \in Int
        BY <1>1
      <4>2. ToLoff(circ_total_size) \in Loff
        BY <4>1, LoffValues
      <4> QED BY <4>2, <1>1, LoffValues DEF DataEnd
    <3>3. s.off + 0 \in Int /\ s.off + f_pos[FileOf[t]] \in Int /\ s.off + DataEnd \in Int
      BY <3>1, <3>2
    <3>4. CASE s.whence = "SEEK_SET"
      BY <3>3, <3>4, LoffValues DEF LSeekTarget
    <3>5. CASE s.whence = "SEEK_CUR"
      BY <3>3, <3>5, LoffValues DEF LSeekTarget
    <3>6. CASE s.whence = "SEEK_END"
      BY <3>3, <3>6, LoffValues DEF LSeekTarget
    <3> QED BY <3>1, <3>4, <3>5, <3>6
  <2> QED BY <2>1, <2>2, EnterAtPosition
<1> QED BY <1>2, <1>3, <1>4, <1>5 DEF Call

LEMMA ReadKeepsPositions ==
  ASSUME IInv, PositionInv, NEW t \in Tasks, ReadStep(t)
  PROVE  PositionInv'
<1>1. <<>> \in Seq(0..MaxWrites) /\ pos[t] \in Int /\ 0 \in Loff
  BY EmptySeq, LoffValues DEF PositionInv, PositionTypeOK
<1>2. CASE ReadData(t)
  <2>1. PICK n \in Nat \ {0}, r \in Seq(0..MaxWrites) :
          /\ pos' = [pos EXCEPT ![t] = ToLoff(@ + n)]
          /\ reply' = [reply EXCEPT ![t] = r]
    BY <1>2, ReadDataEffect
  <2>2. ToLoff(pos[t] + n) \in Loff /\ pos' = [pos EXCEPT ![t] = ToLoff(pos[t] + n)]
    <3>1. pos[t] + n \in Int
      BY <1>1
    <3> QED BY <3>1, <2>1, LoffValues
  <2>3. pc' = [pc EXCEPT ![t] = "store"] /\ arg' = arg /\ f_pos' = f_pos
    BY <1>2 DEF ReadData, Goto
  <2> QED BY <2>1, <2>2, <2>3, OneTaskMoves
<1>3. CASE ReadFault(t)
  BY <1>3, FinishKeepsPositions DEF ReadFault
<1>4. CASE ReadEnd(t) \/ ReadHole(t)
  <2>1. /\ pc' = [pc EXCEPT ![t] = "store"] /\ arg' = arg /\ f_pos' = f_pos /\ reply' = reply
        /\ pos' = [pos EXCEPT ![t] = 0] \/ pos' = pos
    BY <1>4 DEF ReadEnd, ReadHole, Goto
  <2> QED BY <2>1, <1>1, OneTaskMoves
<1> QED BY <1>2, <1>3, <1>4 DEF ReadStep

LEMMA WriteKeepsPositions ==
  ASSUME IInv, PositionInv, NEW t \in Tasks, WriteStep(t) \/ WriteFree(t)
  PROVE  PositionInv'
<1>1. <<>> \in Seq(0..MaxWrites) /\ 0 \in Loff
  BY EmptySeq, LoffValues
<1>2. CASE WriteNoMemory(t)
  BY <1>2, FinishKeepsPositions DEF WriteNoMemory
<1>3. CASE WriteFault(t)
  BY <1>3, FinishKeepsPositions DEF WriteFault
<1>4. CASE WritePartial(t) \/ WritePacket(t) \/ WriteFree(t)
  <2>1. PICK where \in {"store", "free"} :
          /\ pc' = [pc EXCEPT ![t] = where] /\ f_pos' = f_pos /\ reply' = reply /\ pos' = pos
          /\ arg' = arg \/ \E a : arg' = [arg EXCEPT ![t] = a]
    BY <1>4 DEF WritePartial, WritePacket, WriteFree, Goto
  <2> QED BY <2>1, <1>1, OneTaskMoves
<1> QED BY <1>2, <1>3, <1>4 DEF WriteStep

LEMMA SeekKeepsPositions ==
  ASSUME IInv, PositionInv, NEW t \in Tasks, IoctlStep(t)
  PROVE  PositionInv'
<1>1. <<>> \in Seq(0..MaxWrites)
  BY EmptySeq
<1>2. CASE IoctlSeek(t)
  <2> DEFINE p == Fpos(arg[t])
  <2>1. /\ pc' = [pc EXCEPT ![t] = "store"] /\ arg' = arg /\ f_pos' = f_pos /\ reply' = reply
        /\ pos' = [pos EXCEPT ![t] = p] /\ pc[t] = "ioctl"
    BY <1>2 DEF IoctlSeek, Goto, Locked
  <2>2. /\ arg[t].write_cmd \in 0..MaxWriteOps /\ arg[t].write_cmd_offset \in Nat
        /\ circ_buffer \in Buffer
    <3>1. arg[t] \in SeekArgs /\ arg[t].write_cmd < MaxWriteOps
      BY <2>1 DEF PositionInv, ArgsFitCalls
    <3>2. arg[t].write_cmd \in Nat /\ arg[t].write_cmd_offset \in Nat
      BY <3>1, DriverAssumption
    <3> QED BY <3>1, <3>2, BufferAssumption DEF IInv, DeviceTypeOK
  <2>3. p \in Loff
    <3>1. SumBefore(circ_buffer)[arg[t].write_cmd] \in Nat
      BY <2>2, SumBeforeRounds
    <3>2. BytesBefore(arg[t].write_cmd) + arg[t].write_cmd_offset \in Int
      BY <3>1, <2>2, BytesBeforeIsSum
    <3> QED BY <3>2, LoffValues DEF Fpos
  <2> HIDE DEF p
  <2> QED BY <2>1, <2>3, <1>1, OneTaskMoves
<1>3. CASE IoctlInvalid(t)
  BY <1>3, FinishKeepsPositions DEF IoctlInvalid
<1> QED BY <1>2, <1>3 DEF IoctlStep

LEMMA StoreKeepsPositions ==
  ASSUME IInv, PositionInv, NEW t \in Tasks, StorePos(t)
  PROVE  PositionInv'
<1>1. <<>> \in Seq(0..MaxWrites)
  BY EmptySeq
<1>2. /\ pc' = [pc EXCEPT ![t] = "idle"] /\ arg' = [arg EXCEPT ![t] = NoArg]
      /\ pos' = [pos EXCEPT ![t] = 0] /\ reply' = [reply EXCEPT ![t] = <<>>]
      /\ f_pos' = [f_pos EXCEPT ![FileOf[t]] = pos[t]]
  BY DEF StorePos, Finish, Goto
<1> QED BY <1>1, <1>2, LoffValues, OneTaskMoves

LEMMA PositionStep ==
  ASSUME IInv, PositionInv, [Next]_vars
  PROVE  PositionInv'
<1>1. CASE UNCHANGED <<f_pos, pos, reply, pc, arg>>
  BY <1>1 DEF PositionInv, PositionTypeOK, ArgsFitCalls
<1>2. CASE InitModule \/ CleanupModule \/ UNCHANGED vars
  BY <1>1, <1>2 DEF InitModule, CleanupModule, vars
<1>3. ASSUME NEW f \in Files, Open(f) \/ Release(f) PROVE PositionInv'
  <2>1. UNCHANGED <<pos, reply, pc, arg>> /\ (f_pos' = f_pos \/ f_pos' = [f_pos EXCEPT ![f] = 0])
    BY <1>3 DEF Open, Release
  <2>2. f_pos' \in [Files -> Loff]
    BY <2>1, LoffValues DEF PositionInv, PositionTypeOK
  <2> QED BY <2>1, <2>2 DEF PositionInv, PositionTypeOK, ArgsFitCalls
<1>4. ASSUME NEW t \in Tasks, Call(t) PROVE PositionInv'
  BY <1>4, CallKeepsPositions
<1>5. ASSUME NEW t \in Tasks, Interrupted(t) PROVE PositionInv'
  BY <1>5, FinishKeepsPositions DEF Interrupted
<1>6. ASSUME NEW t \in Tasks, ReadStep(t) PROVE PositionInv'
  BY <1>6, ReadKeepsPositions
<1>7. ASSUME NEW t \in Tasks, WriteStep(t) \/ WriteFree(t) PROVE PositionInv'
  BY <1>7, WriteKeepsPositions
<1>8. ASSUME NEW t \in Tasks, IoctlStep(t) PROVE PositionInv'
  BY <1>8, SeekKeepsPositions
<1>9. ASSUME NEW t \in Tasks, StorePos(t) PROVE PositionInv'
  BY <1>9, StoreKeepsPositions
<1> QED BY <1>2, <1>3, <1>4, <1>5, <1>6, <1>7, <1>8, <1>9 DEF Next, EndStep

\* Positions of open files and calls, and what a call was given, keep their types
\* through aesd_read's, aesd_llseek's and the file layer's stores.
THEOREM PositionInvHolds == Spec => []PositionInv
<1>1. Init => PositionInv
  BY EmptySeq, LoffValues DEF Init, PositionInv, PositionTypeOK, ArgsFitCalls
<1>2. IInv /\ PositionInv /\ [Next]_vars => PositionInv'
  BY PositionStep
<1> QED BY <1>1, <1>2, InvariantHolds, PTL DEF Spec

\* Every variable of the driver keeps its type in every interleaving of any
\* number of tasks and files, and for every width of a char, an int, a size_t
\* and a loff_t.  The int fpos of aesd_unlocked_ioctl may leave a negative
\* position in an open file, and no read or write runs at one; every position
\* stays a loff_t, and every byte handed out is one of a write or of unwritten
\* memory (aesd_read, aesd_write, aesd_llseek, aesd_unlocked_ioctl).
THEOREM DriverTypeCorrect == Spec => []TypeOK
<1>1. IInv /\ PositionInv => TypeOK
  BY DEF IInv, PositionInv, TypeOK
<1> QED BY <1>1, InvariantHolds, PositionInvHolds, PTL

-----------------------------------------------------------------------------
(***************************************************************************)
(* The bytes of the entries, as long as cb_size does not wrap and krealloc *)
(* does not fail: the two limits the findings driver_long_line and         *)
(* driver_no_memory are about.  Entries may be overwritten.                *)
(***************************************************************************)
\* n bytes can be counted in a char.
FitsChar(n) == n < CharMod /\ (CharSigned => 2 * n < CharMod)

\* No packet collected is longer than a char (or a size_t) can count.
LinesFit ==
  \A t \in Tasks : pc[t] = "write" =>
    FitsChar(cb_size + arg[t].count) /\ cb_size + arg[t].count < SizeMod

Written(m, b, n) == n <= Len(m[b]) /\ \A j \in 1..n : m[b][j] # Garbage

\* The bytes counted in cb_size are in the block.
CollectedIsWritten ==
  /\ cb_size >= 0
  /\ loaded /\ lock = NoTask /\ cb_size # 0 =>
       cb_buffer # NULL /\ Written(mem, cb_buffer, cb_size)

HeldInv == EntriesHoldTheirBytes /\ CollectedIsWritten

LEMMA FitsConversion ==
  ASSUME NEW n \in Nat, FitsChar(n), n < SizeMod
  PROVE  ToChar(n) = n /\ ToSize(n) = n
<1>1. CharMod \in Nat \ {0} /\ SizeMod \in Nat \ {0} /\ n < CharMod
  BY DriverAssumption, BufferAssumption DEF FitsChar
<1>2. n % CharMod = n /\ n % SizeMod = n
  BY <1>1, Remainder
<1>3. CharSigned => ~ (2 * n >= CharMod)
  BY <1>1 DEF FitsChar
<1> QED BY <1>2, <1>3 DEF ToChar, ToSigned, ToSize

\* A write leaves the collected bytes and its own data in the block, and
\* touches the block of no entry.
LEMMA AllocateWrites ==
  ASSUME IInv, HeldInv, NEW t \in Tasks, pc[t] = "write", lock = NoTask,
         NEW bytes \in Seq(1..MaxWrites), Allocate(t, bytes)
  PROVE  /\ Written(mem', WriteBlock(t), cb_size + Len(bytes))
         /\ WriteBlock(t) \in Blocks /\ cb_size \in Nat
         /\ \A b \in Blocks \ {WriteBlock(t)} : mem'[b] = mem[b]
         /\ \A i \in Slots : circ_buffer.entry[i].buffptr # WriteBlock(t)
         /\ cb_buffer' = WriteBlock(t)
<1> DEFINE wb == WriteBlock(t)
           n == cb_size
           old == Kept(IF n = 0 THEN NULL ELSE cb_buffer, n)
           new == old \o bytes
<1>1. bytes \in Seq(0..MaxWrites)
  <2>1. 1..MaxWrites \subseteq 0..MaxWrites
    BY DriverAssumption
  <2> QED BY <2>1, SeqMonotonic
<1>2. /\ wb \in Blocks /\ cb_buffer' = wb
      /\ \A i \in Slots : circ_buffer.entry[i].buffptr # wb
  BY <1>1, AllocateGivesOwnBlock
<1>3. /\ n \in Nat /\ mem \in [Blocks -> Seq(0..MaxWrites)]
      /\ cb_buffer \in Blocks \cup {NULL} /\ loaded
  BY DEF HeldInv, CollectedIsWritten, IInv, DeviceTypeOK, CallsNeedModule
<1>4. mem' = [mem EXCEPT ![wb] = new]
  BY DEF Allocate
<1>5. old \in Seq(0..MaxWrites) /\ Len(old) = n /\ \A j \in 1..n : old[j] # Garbage
  <2>1. old \in Seq(0..MaxWrites)
    BY <1>3, KeptIsBytes
  <2>2. Len(old) = n
    BY <1>3 DEF Kept
  <2>3. ASSUME NEW j \in 1..n PROVE old[j] # Garbage
    <3>1. cb_buffer # NULL /\ n <= Len(mem[cb_buffer]) /\ mem[cb_buffer][j] # Garbage /\ n # 0
      BY <2>3, <1>3 DEF HeldInv, CollectedIsWritten, Written
    <3>2. j <= Len(mem[cb_buffer])
      <4>1. Len(mem[cb_buffer]) \in Nat
        BY <1>3, <3>1, LenProperties
      <4> QED BY <3>1, <4>1, <1>3
    <3>3. old[j] = mem[cb_buffer][j]
      BY <3>1, <3>2 DEF Kept
    <3> QED BY <3>1, <3>3
  <2> QED BY <2>1, <2>2, <2>3
<1> HIDE DEF old, wb, n
<1>6. \A j \in 1..Len(bytes) : bytes[j] # Garbage
  BY ElementOfSeq, DriverAssumption DEF Garbage
<1>7. Len(new) = n + Len(bytes) /\ \A j \in 1..(n + Len(bytes)) : new[j] # Garbage
  <2>1. /\ Len(new) = Len(old) + Len(bytes) /\ Len(bytes) \in Nat
        /\ \A j \in 1..(Len(old) + Len(bytes)) :
             new[j] = IF j <= Len(old) THEN old[j] ELSE bytes[j - Len(old)]
    BY <1>1, <1>5, ConcatProperties, LenProperties
  <2> DEFINE m == Len(bytes)
  <2>2. m \in Nat /\ Len(new) = n + m
    BY <2>1, <1>5
  <2> HIDE DEF new
  <2>3. ASSUME NEW j \in 1..(n + m) PROVE new[j] # Garbage
    <3>1. new[j] = IF j <= n THEN old[j] ELSE bytes[j - n]
      BY <2>1, <1>5
    <3>2. CASE j <= n
      BY <3>1, <3>2, <1>5
    <3>3. CASE ~(j <= n)
      <4>1. j - n \in 1..m
        <5> HIDE DEF m
        <5> QED BY <3>3, <2>2, <1>3 DEF n
      <4> QED BY <4>1, <3>1, <3>3, <1>6
    <3> QED BY <3>2, <3>3
  <2> QED BY <2>2, <2>3
<1> HIDE DEF new
<1>8. mem'[wb] = new /\ \A b \in Blocks \ {wb} : mem'[b] = mem[b]
  BY <1>2, <1>3, <1>4
<1>9. Written(mem', wb, n + Len(bytes))
  <2>1. n + Len(bytes) <= Len(mem'[wb])
    <3>1. n + Len(bytes) \in Nat
      BY <1>3, LenProperties
    <3> QED BY <3>1, <1>7, <1>8
  <2> QED BY <2>1, <1>7, <1>8 DEF Written
<1> QED BY <1>2, <1>3, <1>8, <1>9 DEF wb, n

\* The data of a write are its own bytes, none of them garbage.
LEMMA DataIsWritten ==
  ASSUME IInv, NEW t \in Tasks, pc[t] = "write"
  PROVE  /\ Data(t) \in Seq(1..MaxWrites) /\ Len(Data(t)) = arg[t].count
         /\ <<>> \in Seq(1..MaxWrites) /\ Len(<<>>) = 0
         /\ arg[t].count \in Nat \ {0} /\ arg[t].newline \in Nat
<1>1. arg[t].id \in 1..MaxWrites /\ arg[t].count \in Nat \ {0} /\ arg[t].newline \in Nat
  BY DEF IInv, DeviceTypeOK, WriteArgs, Blocks
<1>2. ASSUME NEW n \in Nat, NEW x \in 1..MaxWrites
      PROVE  [i \in 1..n |-> x] \in Seq(1..MaxWrites) /\ Len([i \in 1..n |-> x]) = n
  OBVIOUS
<1>3. Data(t) \in Seq(1..MaxWrites) /\ Len(Data(t)) = arg[t].count
  <2>1. arg[t].count \in Nat
    BY <1>1
  <2> QED BY <1>1, <1>2, <2>1, Zenon DEF Data
<1> QED BY <1>1, <1>3, EmptySeq

\* A step that leaves the device and the bytes alone.
LEMMA HeldQuiet ==
  ASSUME HeldInv, UNCHANGED <<loaded, circ_buffer, cb_buffer, cb_size, lock, mem>>
  PROVE  HeldInv'
BY DEF HeldInv, EntriesHoldTheirBytes, CollectedIsWritten, Written

\* The entries when one block that none of them points to has changed.
LEMMA EntriesUntouched ==
  ASSUME IInv, EntriesHoldTheirBytes, loaded,
         NEW wb, \A b \in Blocks \ {wb} : mem'[b] = mem[b],
         NEW i \in Slots, circ_buffer.entry[i].buffptr # wb, circ_buffer.entry[i].buffptr # NULL
  PROVE  Written(mem', circ_buffer.entry[i].buffptr, circ_buffer.entry[i].size)
<1> DEFINE p == circ_buffer.entry[i].buffptr
<1>1. p \in Blocks
  BY DEF IInv, BlocksOwnedOnce, DeviceTypeOK
<1>2. mem'[p] = mem[p]
  BY <1>1
<1>3. Written(mem, p, circ_buffer.entry[i].size)
  BY DEF EntriesHoldTheirBytes, Written
<1> QED BY <1>2, <1>3 DEF Written

\* A write that ends with its data, or a piece of it, still being collected.
LEMMA HeldCollecting ==
  ASSUME IInv, HeldInv, NEW t \in Tasks, pc[t] = "write", lock = NoTask,
         NEW bytes \in Seq(1..MaxWrites), Allocate(t, bytes),
         UNCHANGED <<loaded, circ_buffer>>, cb_size' = cb_size + Len(bytes)
  PROVE  HeldInv'
<1>1. /\ Written(mem', WriteBlock(t), cb_size + Len(bytes))
      /\ WriteBlock(t) \in Blocks /\ cb_size \in Nat
      /\ \A b \in Blocks \ {WriteBlock(t)} : mem'[b] = mem[b]
      /\ \A i \in Slots : circ_buffer.entry[i].buffptr # WriteBlock(t)
      /\ cb_buffer' = WriteBlock(t)
  BY AllocateWrites
<1>2. loaded /\ Len(bytes) \in Nat
  BY LenProperties DEF IInv, CallsNeedModule
<1>3. EntriesHoldTheirBytes'
  <2>1. ASSUME NEW i \in Slots, circ_buffer.entry[i].buffptr # NULL
        PROVE  Written(mem', circ_buffer.entry[i].buffptr, circ_buffer.entry[i].size)
    BY <2>1, <1>1, <1>2, EntriesUntouched DEF HeldInv
  <2> QED BY <2>1 DEF EntriesHoldTheirBytes, Written
<1>4. CollectedIsWritten'
  <2>1. cb_size' >= 0
    BY <1>1, <1>2
  <2>2. cb_buffer' # NULL /\ Written(mem', cb_buffer', cb_size')
    BY <1>1, BlocksNotNull
  <2> QED BY <2>1, <2>2 DEF CollectedIsWritten, Written
<1> QED BY <1>3, <1>4 DEF HeldInv

\* A packet becomes an entry of as many bytes as its block holds of it.
LEMMA HeldPacket ==
  ASSUME IInv, PositionInv, HeldInv, LinesFit, NEW t \in Tasks, WritePacket(t)
  PROVE  HeldInv'
<1> DEFINE n      == cb_size + arg[t].newline
           wb     == WriteBlock(t)
           entry  == [buffptr |-> wb, size |-> n]
<1>1. pc[t] = "write" /\ lock = NoTask /\ Allocate(t, Data(t)) /\ loaded' = loaded /\ loaded
  BY DEF WritePacket, Locked, IInv, CallsNeedModule
<1>2. /\ Data(t) \in Seq(1..MaxWrites) /\ Len(Data(t)) = arg[t].count
      /\ arg[t].count \in Nat /\ arg[t].newline \in Nat /\ arg[t].newline <= arg[t].count
  BY <1>1, DataIsWritten DEF PositionInv, ArgsFitCalls
<1>3. /\ Written(mem', wb, cb_size + arg[t].count)
      /\ wb \in Blocks /\ cb_size \in Nat
      /\ \A b \in Blocks \ {wb} : mem'[b] = mem[b]
      /\ \A i \in Slots : circ_buffer.entry[i].buffptr # wb
  BY <1>1, <1>2, AllocateWrites
<1>4. n \in Nat /\ FitsChar(n) /\ n < SizeMod /\ n <= cb_size + arg[t].count
  <2> DEFINE m == cb_size + arg[t].count
  <2>1. FitsChar(m) /\ m < SizeMod
    BY <1>1 DEF LinesFit
  <2>2. n \in Nat /\ m \in Nat /\ n <= m
    BY <1>2, <1>3
  <2> HIDE DEF n, m
  <2>3. n <= m /\ FitsChar(n) /\ n < SizeMod
    BY <2>1, <2>2, DriverAssumption, BufferAssumption DEF FitsChar
  <2> QED BY <2>2, <2>3 DEF m
<1>5. ToChar(n) = n /\ ToSize(n) = n
  BY <1>4, FitsConversion
<1>6. Written(mem', wb, n)
  <2>1. wb \in Blocks /\ cb_size + arg[t].count \in Nat
    BY <1>2, <1>3
  <2>2. Len(mem'[wb]) \in Nat
    <3>1. mem' \in [Blocks -> Seq(0..MaxWrites)]
      <4>1. IInv'
        BY WritePacketStep
      <4> QED BY <4>1 DEF IInv, DeviceTypeOK
    <3> QED BY <3>1, <2>1, LenProperties
  <2> HIDE DEF wb, n
  <2> QED BY <1>3, <1>4, <2>1, <2>2 DEF Written
<1>7. /\ circ_buffer' = AddEntry(circ_buffer, entry)
      /\ \/ cb_size' = 0
         \/ cb_size' = n /\ lock' = t
  BY <1>5 DEF WritePacket
<1>8. /\ circ_buffer.in_offs \in Slots /\ circ_buffer.entry \in [Slots -> Entry]
      /\ circ_buffer'.entry = [circ_buffer.entry EXCEPT ![circ_buffer.in_offs] = entry]
  BY <1>7 DEF AddEntry, IInv, DeviceTypeOK, Buffer
<1> HIDE DEF n, wb
<1>9. EntriesHoldTheirBytes'
  <2>1. ASSUME NEW i \in Slots, circ_buffer'.entry[i].buffptr # NULL
        PROVE  Written(mem', circ_buffer'.entry[i].buffptr, circ_buffer'.entry[i].size)
    <3>1. CASE i = circ_buffer.in_offs
      BY <3>1, <1>6, <1>8
    <3>2. CASE i # circ_buffer.in_offs
      <4>1. circ_buffer'.entry[i] = circ_buffer.entry[i]
        BY <3>2, <1>8
      <4> QED BY <4>1, <2>1, <1>1, <1>3, EntriesUntouched DEF HeldInv
    <3> QED BY <3>1, <3>2
  <2> QED BY <2>1 DEF EntriesHoldTheirBytes, Written
<1>10. CollectedIsWritten'
  BY <1>4, <1>7, DriverAssumption DEF CollectedIsWritten
<1> QED BY <1>9, <1>10 DEF HeldInv

\* The end of an overwriting write frees a block no other entry points to.
LEMMA HeldFree ==
  ASSUME IInv, HeldInv, NEW t \in Tasks, WriteFree(t)
  PROVE  HeldInv'
<1> DEFINE s == arg[t].slot
           p == circ_buffer.entry[s].buffptr
<1>1. /\ mem' = [mem EXCEPT ![p] = <<>>] /\ cb_size' = 0 /\ loaded' = loaded
      /\ circ_buffer' = [circ_buffer EXCEPT !.entry[s].buffptr = NULL]
      /\ pc[t] = "free" /\ loaded
  BY DEF WriteFree, IInv, CallsNeedModule
<1>2. s \in Slots /\ circ_buffer \in Buffer /\ mem \in [Blocks -> Seq(0..MaxWrites)]
  BY <1>1 DEF IInv, DeviceTypeOK, FreeArgs
<1> HIDE DEF s, p
<1>3. /\ \A i \in Slots \ {s} : circ_buffer'.entry[i] = circ_buffer.entry[i]
      /\ circ_buffer'.entry[s].buffptr = NULL
  BY <1>1, <1>2 DEF Buffer, Entry
<1>4. \A b \in Blocks \ {p} : mem'[b] = mem[b]
  BY <1>1, <1>2
<1>5. EntriesHoldTheirBytes'
  <2>1. ASSUME NEW i \in Slots, circ_buffer'.entry[i].buffptr # NULL
        PROVE  Written(mem', circ_buffer'.entry[i].buffptr, circ_buffer'.entry[i].size)
    <3>1. i # s /\ circ_buffer'.entry[i] = circ_buffer.entry[i]
      BY <2>1, <1>3
    <3>2. circ_buffer.entry[i].buffptr # p
      BY <2>1, <3>1, <1>1, <1>2 DEF IInv, BlocksOwnedOnce, p
    <3> QED BY <3>1, <3>2, <2>1, <1>1, <1>4, EntriesUntouched DEF HeldInv
  <2> QED BY <2>1 DEF EntriesHoldTheirBytes, Written
<1>6. CollectedIsWritten'
  BY <1>1 DEF CollectedIsWritten
<1> QED BY <1>5, <1>6 DEF HeldInv

LEMMA HeldStep ==
  ASSUME ~ReallocFails, IInv, PositionInv, HeldInv, LinesFit, [Next]_vars
  PROVE  HeldInv'
<1>1. CASE InitModule
  BY <1>1 DEF InitModule, HeldInv, EntriesHoldTheirBytes, CollectedIsWritten, EmptyBuffer
<1>2. CASE CleanupModule
  BY <1>2 DEF CleanupModule, dev, HeldInv, EntriesHoldTheirBytes, CollectedIsWritten
<1>3. ASSUME NEW f \in Files, Open(f) \/ Release(f) PROVE HeldInv'
  BY <1>3, HeldQuiet DEF Open, Release, dev, heap
<1>4. ASSUME NEW t \in Tasks, Call(t) PROVE HeldInv'
  BY <1>4, HeldQuiet
  DEF Call, CallRead, CallWrite, CallIoctl, CallLSeek, Enter, dev, heap
<1>5. ASSUME NEW t \in Tasks, Interrupted(t) \/ ReadStep(t) \/ IoctlStep(t) \/ StorePos(t)
      PROVE  HeldInv'
  BY <1>5, HeldQuiet
  DEF Interrupted, ReadStep, ReadData, ReadFault, ReadEnd, ReadHole,
      IoctlStep, IoctlSeek, IoctlInvalid, StorePos, dev, heap
<1>6. ASSUME NEW t \in Tasks, WriteStep(t) PROVE HeldInv'
  <2>1. pc[t] = "write" /\ lock = NoTask
    BY <1>6 DEF WriteStep, WriteNoMemory, WriteFault, WritePartial, WritePacket, Locked
  <2>2. /\ Data(t) \in Seq(1..MaxWrites) /\ Len(Data(t)) = arg[t].count
        /\ <<>> \in Seq(1..MaxWrites) /\ Len(<<>>) = 0 /\ arg[t].count \in Nat
    BY <2>1, DataIsWritten
  <2>3. cb_size \in Int /\ cb_size >= 0
    BY DEF HeldInv, CollectedIsWritten, IInv, DeviceTypeOK
  <2>4. CASE WriteNoMemory(t)
    BY <2>4 DEF WriteNoMemory, heap, HeldInv, EntriesHoldTheirBytes, CollectedIsWritten
  <2>5. CASE WriteFault(t)
    <3>1. cb_size' = cb_size + Len(<<>>) /\ Allocate(t, <<>>) /\ UNCHANGED <<loaded, circ_buffer>>
      BY <2>2, <2>3, <2>5 DEF WriteFault
    <3> QED BY <3>1, <2>1, <2>2, HeldCollecting
  <2>6. CASE WritePartial(t)
    <3>1. ToChar(cb_size + arg[t].count) = cb_size + arg[t].count
      <4>1. FitsChar(cb_size + arg[t].count) /\ cb_size + arg[t].count < SizeMod
        BY <2>1 DEF LinesFit
      <4>2. cb_size + arg[t].count \in Nat
        BY <2>2, <2>3
      <4> QED BY <4>1, <4>2, FitsConversion
    <3>2. /\ cb_size' = cb_size + Len(Data(t)) /\ Allocate(t, Data(t))
          /\ UNCHANGED <<loaded, circ_buffer>>
      BY <3>1, <2>2, <2>6 DEF WritePartial
    <3> QED BY <3>2, <2>1, <2>2, HeldCollecting
  <2>7. CASE WritePacket(t)
    BY <2>7, HeldPacket
  <2> QED BY <1>6, <2>4, <2>5, <2>6, <2>7 DEF WriteStep
<1>7. ASSUME NEW t \in Tasks, WriteFree(t) PROVE HeldInv'
  BY <1>7, HeldFree
<1>8. CASE UNCHANGED vars
  BY <1>8, HeldQuiet DEF vars, dev, heap
<1> QED BY <1>1, <1>2, <1>3, <1>4, <1>5, <1>6, <1>7, <1>8 DEF Next, EndStep

\* The two limits are all that stands between a reader and memory nobody wrote:
\* where lines are short enough for cb_size and krealloc does not fail, every
\* entry holds as many written bytes as its size says, whoever wrote the pieces
\* and whatever was overwritten (aesd_write).
THEOREM EntriesAreWritten ==
  ASSUME ~ReallocFails
  PROVE  Spec /\ []LinesFit => []EntriesHoldTheirBytes
<1>1. Init => HeldInv
  BY DEF Init, HeldInv, EntriesHoldTheirBytes, CollectedIsWritten
<1>2. IInv /\ PositionInv /\ HeldInv /\ LinesFit /\ [Next]_vars => HeldInv'
  BY HeldStep
<1>3. HeldInv => EntriesHoldTheirBytes
  BY DEF HeldInv
<1> QED BY <1>1, <1>2, <1>3, InvariantHolds, PositionInvHolds, PTL DEF Spec

-----------------------------------------------------------------------------
(***************************************************************************)
(* Sums over the array: they grow with the entry added in an empty slot,   *)
(* and before anything is overwritten they are the totals of the search.   *)
(***************************************************************************)
LEMMA SumBeforeGrows ==
  ASSUME NEW b \in Buffer
  PROVE  \A j \in 0..MaxWriteOps : \A i \in 0..j : SumBefore(b)[i] <= SumBefore(b)[j]
<1> DEFINE s == SumBefore(b)
           N == MaxWriteOps
           good == {j \in Nat : j <= N => \A i \in 0..j : s[i] <= s[j]}
<1>0. /\ N \in Nat /\ s \in [0..N -> Nat]
      /\ \A k \in 1..N : s[k] = s[k - 1] + b.entry[k - 1].size /\ b.entry[k - 1].size \in Nat
  BY SumBeforeRounds, BufferAssumption
<1> HIDE DEF s
<1>1. 0 \in good
  BY <1>0
<1>2. ASSUME NEW j \in Nat, j \in good PROVE j + 1 \in good
  <2> SUFFICES ASSUME j + 1 <= N, NEW i \in 0..(j + 1) PROVE s[i] <= s[j + 1]
    OBVIOUS
  <2>1. j + 1 \in 1..N /\ (j + 1) - 1 = j /\ j <= N /\ j \in 0..N /\ j + 1 \in 0..N
    <3>1. N \in Nat
      BY <1>0
    <3> HIDE DEF N
    <3> QED BY <3>1
  <2>2. s[j] \in Nat /\ s[j + 1] \in Nat /\ s[j] <= s[j + 1]
    <3> DEFINE x == b.entry[j].size
    <3>1. s[j + 1] = s[j] + x /\ x \in Nat
      BY <2>1, <1>0
    <3>2. s[j] \in Nat /\ s[j + 1] \in Nat
      BY <2>1, <1>0
    <3> HIDE DEF x
    <3> QED BY <3>1, <3>2
  <2>3. CASE i = j + 1
    BY <2>2, <2>3
  <2>4. CASE i # j + 1
    <3>1. i \in 0..j /\ i \in 0..N
      <4>1. N \in Nat
        BY <1>0
      <4> HIDE DEF N
      <4> QED BY <4>1, <2>1, <2>4
    <3>2. s[i] <= s[j] /\ s[i] \in Nat
      BY <3>1, <2>1, <1>0, <1>2
    <3> QED BY <3>2, <2>2
  <2> QED BY <2>3, <2>4
<1>3. Nat \subseteq good
  <2> HIDE DEF good
  <2> QED BY <1>1, <1>2, NatSetInduction
<1> QED BY <1>3, <1>0 DEF s

LEMMA SumBeforeAdds ==
  ASSUME NEW b \in Buffer, NEW after \in Buffer, NEW i \in Slots, NEW e \in Entry,
         after.entry = [b.entry EXCEPT ![i] = e], b.entry[i].size = 0
  PROVE  \A k \in 0..MaxWriteOps :
           SumBefore(after)[k] = SumBefore(b)[k] + (IF i < k THEN e.size ELSE 0)
<1> DEFINE s == SumBefore(b)
           u == SumBefore(after)
           N == MaxWriteOps
           good == {k \in Nat : k <= N => u[k] = s[k] + (IF i < k THEN e.size ELSE 0)}
<1>0. /\ N \in Nat /\ s \in [0..N -> Nat] /\ s[0] = 0 /\ u \in [0..N -> Nat] /\ u[0] = 0
      /\ \A k \in 1..N : s[k] = s[k - 1] + b.entry[k - 1].size /\ b.entry[k - 1].size \in Nat
      /\ \A k \in 1..N : u[k] = u[k - 1] + after.entry[k - 1].size
  <2>1. /\ s \in [0..N -> Nat] /\ s[0] = 0
        /\ \A k \in 1..N : s[k] = s[k - 1] + b.entry[k - 1].size /\ b.entry[k - 1].size \in Nat
    BY SumBeforeRounds
  <2>2. /\ u \in [0..N -> Nat] /\ u[0] = 0
        /\ \A k \in 1..N : u[k] = u[k - 1] + after.entry[k - 1].size
    BY SumBeforeRounds
  <2> QED BY <2>1, <2>2, BufferAssumption
<1>1. /\ i \in 0..(N - 1) /\ e.size \in Nat
      /\ \A k \in 1..N : after.entry[k - 1].size = IF k - 1 = i THEN e.size ELSE b.entry[k - 1].size
  <2>1. b.entry \in [Slots -> Entry] /\ i \in 0..(N - 1) /\ e.size \in Nat
    BY DEF Buffer, Slots, Entry
  <2>2. ASSUME NEW k \in 1..N
        PROVE  after.entry[k - 1].size = IF k - 1 = i THEN e.size ELSE b.entry[k - 1].size
    <3>1. k - 1 \in Slots
      BY BufferAssumption DEF Slots
    <3> QED BY <3>1, <2>1
  <2> QED BY <2>1, <2>2
<1> HIDE DEF s, u
<1>2. 0 \in good
  BY <1>0, <1>1
<1>3. ASSUME NEW k \in Nat, k \in good PROVE k + 1 \in good
  <2> SUFFICES ASSUME k + 1 <= N PROVE u[k + 1] = s[k + 1] + (IF i < k + 1 THEN e.size ELSE 0)
    OBVIOUS
  <2>1. k + 1 \in 1..N /\ (k + 1) - 1 = k /\ k <= N /\ k \in 0..N
    BY <1>0
  <2>2. u[k] = s[k] + (IF i < k THEN e.size ELSE 0)
    BY <2>1, <1>3
  <2>3. s[k + 1] = s[k] + b.entry[k].size /\ b.entry[k].size \in Nat /\ s[k] \in Nat
    BY <2>1, <1>0
  <2>4. u[k + 1] = u[k] + (IF k = i THEN e.size ELSE b.entry[k].size)
    <3>1. after.entry[k].size = IF k = i THEN e.size ELSE b.entry[k].size
      BY <2>1, <1>1
    <3> QED BY <3>1, <2>1, <1>0
  <2> DEFINE x == b.entry[k].size
             y == e.size
  <2>5. x \in Nat /\ y \in Nat /\ (k = i => x = 0)
    BY <2>3, <1>1
  <2> HIDE DEF x, y
  <2>6. u[k + 1] = s[k + 1] + (IF i < k + 1 THEN y ELSE 0)
    <3>1. s[k + 1] = s[k] + x /\ u[k] = s[k] + (IF i < k THEN y ELSE 0)
          /\ u[k + 1] = u[k] + (IF k = i THEN y ELSE x) /\ s[k] \in Nat
      BY <2>2, <2>3, <2>4 DEF x, y
    <3>2. i \in Nat
      BY <1>0, <1>1
    <3> QED BY <3>1, <3>2, <2>5
  <2> QED BY <2>6 DEF y
<1>4. Nat \subseteq good
  <2> HIDE DEF good
  <2> QED BY <1>2, <1>3, NatSetInduction
<1>5. \A k \in 0..N : u[k] = s[k] + (IF i < k THEN e.size ELSE 0)
  <2>1. \A k \in 0..N : k \in Nat /\ k <= N
    BY <1>0
  <2>2. \A k \in 0..N : k \in good
    BY <2>1, <1>4
  <2> QED BY <2>1, <2>2
<1> QED BY <1>5 DEF s, u

LEMMA SumIsTotal ==
  ASSUME NEW b \in Buffer, b.out_offs = 0, SumBefore(b)[MaxWriteOps] < SizeMod
  PROVE  BytesThrough(b) = SumBefore(b) /\ TotalFits(b)
<1> DEFINE s == SumBefore(b)
           t == BytesThrough(b)
           N == MaxWriteOps
<1>0. /\ N \in Nat /\ SizeMod \in Nat \ {0} /\ s \in [0..N -> Nat] /\ s[0] = 0
      /\ \A k \in 1..N : s[k] = s[k - 1] + b.entry[k - 1].size
  <2>1. /\ s \in [0..N -> Nat] /\ s[0] = 0
        /\ \A k \in 1..N : /\ s[k] = s[k - 1] + b.entry[k - 1].size
                          /\ b.entry[k - 1].size \in Nat
    BY SumBeforeRounds
  <2>2. N \in Nat /\ SizeMod \in Nat \ {0}
    BY BufferAssumption
  <2> HIDE DEF s, N
  <2> QED BY <2>1, <2>2
<1>1. \A k \in 1..N : ReadSlot(b, k - 1) = k - 1
  BY <1>0 DEF ReadSlot
<1>2. /\ t \in [0..N -> 0..(SizeMod - 1)] /\ t[0] = 0
      /\ \A k \in 1..N : t[k] = (t[k - 1] + b.entry[k - 1].size) % SizeMod
  <2>1. /\ t \in [0..N -> 0..(SizeMod - 1)] /\ t[0] = 0
        /\ \A k \in 1..N : t[k] = (t[k - 1] + b.entry[ReadSlot(b, k - 1)].size) % SizeMod
    BY BytesThroughRounds
  <2> HIDE DEF t
  <2> QED BY <2>1, <1>1
<1>3. \A k \in 1..N : s[k] \in Nat /\ s[k] < SizeMod
  <2> SUFFICES ASSUME NEW k \in 1..N PROVE s[k] \in Nat /\ s[k] < SizeMod
    OBVIOUS
  <2>1. N \in 0..N /\ k \in 0..N
    BY <1>0
  <2>2. s[k] <= s[N] /\ s[k] \in Nat /\ s[N] \in Nat
    BY <2>1, <1>0, SumBeforeGrows
  <2> QED BY <2>2, <1>0
<1> HIDE DEF s, t
<1>4. ASSUME NEW k \in 1..N, t[k - 1] = s[k - 1]
      PROVE  t[k] = s[k] /\ t[k - 1] + b.entry[k - 1].size = s[k]
  <2> DEFINE x == t[k - 1] + b.entry[k - 1].size
  <2>1. x = s[k] /\ t[k] = x % SizeMod
    BY <1>0, <1>2, <1>4
  <2> HIDE DEF x
  <2>2. x % SizeMod = x
    BY <2>1, <1>0, <1>3, Remainder
  <2> QED BY <2>1, <2>2 DEF x
<1>5. InStep(t, s, N)
  BY <1>0, <1>2, <1>4 DEF InStep
<1>6. t = s
  BY <1>5, SameTrace
<1>7. ASSUME NEW k \in 1..N PROVE t[k - 1] + b.entry[ReadSlot(b, k - 1)].size < SizeMod
  BY <1>1, <1>3, <1>4, <1>6
<1> QED BY <1>6, <1>7 DEF s, t, TotalFits

LEMMA EmptySum == EmptyBuffer \in Buffer /\ SumBefore(EmptyBuffer)[MaxWriteOps] = 0
<1> DEFINE s == SumBefore(EmptyBuffer)
           N == MaxWriteOps
           good == {k \in Nat : k <= N => s[k] = 0}
<1>0. /\ EmptyBuffer \in Buffer /\ N \in Nat
      /\ s[0] = 0 /\ \A k \in 1..N : s[k] = s[k - 1] + EmptyBuffer.entry[k - 1].size
  BY EmptyBufferShape, SumBeforeRounds, BufferAssumption
<1>1. \A k \in 1..N : EmptyBuffer.entry[k - 1].size = 0
  <2>1. \A i \in Slots : EmptyBuffer.entry[i].size = 0
    BY DEF EmptyBuffer
  <2> QED BY <2>1, BufferAssumption DEF Slots
<1> HIDE DEF s
<1>2. 0 \in good
  BY <1>0
<1>3. ASSUME NEW k \in Nat, k \in good PROVE k + 1 \in good
  <2> SUFFICES ASSUME k + 1 <= N PROVE s[k + 1] = 0
    OBVIOUS
  <2>1. k + 1 \in 1..N /\ (k + 1) - 1 = k /\ k <= N
    BY <1>0
  <2>2. s[k] = 0
    BY <2>1, <1>3
  <2> QED BY <2>1, <2>2, <1>0, <1>1
<1>4. Nat \subseteq good
  <2> HIDE DEF good
  <2> QED BY <1>2, <1>3, NatSetInduction
<1> QED BY <1>4, <1>0 DEF s

-----------------------------------------------------------------------------
(***************************************************************************)
(* The data as a whole, as long as cb_size and the total do not wrap, the  *)
(* total fits the int of aesd_unlocked_ioctl, and no entry is overwritten: *)
(* the limits the findings driver_overwrite and driver_seek are about.     *)
(* Allocations may fail.                                                   *)
(***************************************************************************)
\* The bytes of all entries can be counted in an int, and so in a size_t and a
\* loff_t.
DataFits ==
  \A t \in Tasks : pc[t] = "write" =>
    2 * (circ_total_size + cb_size + arg[t].count) < IntMod

NoOverwrite == \A t \in Tasks : pc[t] # "free"

Limits == LinesFit /\ DataFits /\ NoOverwrite

SumInv ==
  /\ lock = NoTask /\ cb_size >= 0
  /\ circ_buffer.out_offs = 0 /\ UnusedAreEmpty(circ_buffer)
  /\ circ_total_size = BytesBefore(MaxWriteOps) /\ 2 * circ_total_size < IntMod

\* Within the limits a packet goes to an empty slot, and the total grows by it.
LEMMA PacketWithinLimits ==
  ASSUME IInv, PositionInv, SumInv, Limits, NoOverwrite', NEW t \in Tasks, WritePacket(t)
  PROVE  \E n \in Nat :
           /\ [buffptr |-> WriteBlock(t), size |-> n] \in Entry
           /\ circ_buffer' = AddEntry(circ_buffer, [buffptr |-> WriteBlock(t), size |-> n])
           /\ circ_total_size' = circ_total_size + n /\ 2 * (circ_total_size + n) < IntMod
           /\ ~circ_buffer.full /\ cb_size' = 0 /\ lock' = NoTask
           /\ circ_buffer.entry[circ_buffer.in_offs].size = 0
           /\ n = cb_size + arg[t].newline
<1> DEFINE n     == cb_size + arg[t].newline
           m     == cb_size + arg[t].count
           entry == [buffptr |-> WriteBlock(t), size |-> n]
           after == AddEntry(circ_buffer, entry)
<1>1. pc[t] = "write" /\ lock = NoTask /\ Allocate(t, Data(t)) /\ loaded' = loaded /\ loaded
  BY DEF WritePacket, Locked, IInv, CallsNeedModule
<1>2. /\ arg[t].count \in Nat /\ arg[t].newline \in Nat /\ arg[t].newline <= arg[t].count
      /\ cb_size \in Nat /\ circ_total_size \in Nat
  BY <1>1, DataIsBytes DEF PositionInv, ArgsFitCalls, SumInv, IInv, DeviceTypeOK
<1>3. FitsChar(m) /\ m < SizeMod /\ 2 * (circ_total_size + m) < IntMod
  <2>1. FitsChar(m) /\ m < SizeMod
    BY <1>1 DEF Limits, LinesFit
  <2>2. 2 * (circ_total_size + cb_size + arg[t].count) < IntMod
    BY <1>1 DEF Limits, DataFits
  <2> QED BY <2>1, <2>2, <1>2
<1>4. /\ n \in Nat /\ FitsChar(n) /\ n < SizeMod
      /\ circ_total_size + n \in Nat /\ 2 * (circ_total_size + n) < IntMod
  <2>1. n \in Nat /\ m \in Nat /\ n <= m
    BY <1>2
  <2> HIDE DEF n, m
  <2> QED BY <2>1, <1>2, <1>3, DriverAssumption, BufferAssumption DEF FitsChar
<1>5. ToChar(n) = n /\ ToSize(n) = n
  BY <1>4, FitsConversion
<1>6. ToSize(circ_total_size + n) = circ_total_size + n
  <2> DEFINE x == circ_total_size + n
  <2>1. x \in Nat /\ 2 * x < IntMod
    BY <1>4
  <2> HIDE DEF x
  <2>2. ToSize(x) = x
    BY <2>1, SmallNumbers
  <2> QED BY <2>2 DEF x
<1>7. /\ circ_buffer' = after /\ circ_total_size' = circ_total_size + n
      /\ \/ /\ {s \in Overwritten(circ_buffer) :
                  after.entry[s].buffptr # NULL /\ after.full} = {}
            /\ cb_size' = 0 /\ lock' = lock
         \/ pc' = [pc EXCEPT ![t] = "free"]
  BY <1>5, <1>6 DEF WritePacket, Goto
<1>8. WriteBlock(t) \in Blocks
  BY <1>1, DataIsBytes, AllocateGivesOwnBlock
<1>9. entry \in Entry
  BY <1>4, <1>8, BlocksNotNull DEF Entry
<1>10. /\ {s \in Overwritten(circ_buffer) :
             after.entry[s].buffptr # NULL /\ after.full} = {}
       /\ cb_size' = 0 /\ lock' = lock
  <2>1. pc' # [pc EXCEPT ![t] = "free"]
    BY DEF NoOverwrite, IInv, DeviceTypeOK
  <2> QED BY <2>1, <1>7
<1>11. ~circ_buffer.full
  <2> SUFFICES ASSUME circ_buffer.full PROVE FALSE
    OBVIOUS
  <2>1. /\ circ_buffer.in_offs = circ_buffer.out_offs /\ circ_buffer.in_offs \in Slots
        /\ circ_buffer.entry \in [Slots -> Entry]
    BY DEF IInv, RingShape, DeviceTypeOK, Buffer
  <2>2. after.full /\ after.entry[circ_buffer.out_offs] = entry
    BY <2>1 DEF AddEntry
  <2>3. entry.buffptr # NULL /\ circ_buffer.out_offs \in Overwritten(circ_buffer)
    BY <1>8, BlocksNotNull DEF Overwritten
  <2> QED BY <2>2, <2>3, <1>10
<1>12. circ_buffer.entry[circ_buffer.in_offs].size = 0
  <2>1. circ_buffer.in_offs \in Slots /\ circ_buffer.in_offs \in Nat
    BY BufferAssumption DEF IInv, DeviceTypeOK, Buffer, Slots
  <2> QED BY <2>1, <1>11 DEF SumInv, UnusedAreEmpty
<1> QED BY <1>1, <1>4, <1>7, <1>9, <1>10, <1>11, <1>12

\* A step that leaves the entries, the total and the size alone.
LEMMA SumQuiet ==
  ASSUME SumInv, UNCHANGED <<circ_buffer, cb_size, circ_total_size, lock>>
  PROVE  SumInv'
BY DEF SumInv, BytesBefore, SizeOf

LEMMA SumStep ==
  ASSUME IInv, PositionInv, SumInv, Limits, NoOverwrite', [Next]_vars
  PROVE  SumInv'
<1>0. /\ SumBefore(circ_buffer)[MaxWriteOps] = circ_total_size
      /\ cb_size \in Nat /\ circ_total_size \in Nat /\ circ_buffer \in Buffer
      /\ RingShape(circ_buffer)
  BY BytesBeforeIsSum DEF SumInv, IInv, DeviceTypeOK
<1>1. CASE InitModule
  <2>1. /\ circ_buffer' = EmptyBuffer /\ cb_size' = 0 /\ circ_total_size' = 0 /\ lock' = lock
    BY <1>1 DEF InitModule
  <2>2. BytesBefore(MaxWriteOps)' = 0
    BY <2>1, EmptySum, BytesBeforeIsSum
  <2>3. EmptyBuffer.out_offs = 0 /\ UnusedAreEmpty(EmptyBuffer)
    BY DEF EmptyBuffer, UnusedAreEmpty
  <2> QED BY <2>1, <2>2, <2>3, DriverAssumption DEF SumInv
<1>2. ASSUME UNCHANGED dev PROVE SumInv'
  BY <1>2, SumQuiet DEF dev
<1>3. CASE CleanupModule \/ UNCHANGED vars
  BY <1>2, <1>3 DEF CleanupModule, vars
<1>4. ASSUME NEW f \in Files, Open(f) \/ Release(f) PROVE SumInv'
  BY <1>2, <1>4 DEF Open, Release
<1>5. ASSUME NEW t \in Tasks, Call(t) \/ Interrupted(t) \/ StorePos(t) PROVE SumInv'
  BY <1>2, <1>5
  DEF Call, CallRead, CallWrite, CallIoctl, CallLSeek, Enter, Interrupted, StorePos
<1>6. ASSUME NEW t \in Tasks, ReadStep(t) \/ IoctlStep(t) PROVE SumInv'
  BY <1>2, <1>6
  DEF ReadStep, ReadData, ReadFault, ReadEnd, ReadHole, IoctlStep, IoctlSeek, IoctlInvalid
<1>7. ASSUME NEW t \in Tasks, WriteStep(t) PROVE SumInv'
  <2>1. CASE WriteNoMemory(t) \/ WriteFault(t)
    BY <2>1, SumQuiet DEF WriteNoMemory, WriteFault
  <2>2. CASE WritePartial(t)
    <3>1. arg[t].count \in Nat /\ FitsChar(cb_size + arg[t].count) /\ cb_size + arg[t].count < SizeMod
      BY <2>2, DataIsWritten DEF Limits, LinesFit, WritePartial, Locked
    <3>2. ToChar(cb_size + arg[t].count) = cb_size + arg[t].count /\ cb_size + arg[t].count \in Nat
      BY <3>1, <1>0, FitsConversion
    <3>3. cb_size' >= 0 /\ UNCHANGED <<circ_buffer, circ_total_size, lock>>
      BY <3>2, <2>2 DEF WritePartial
    <3> QED BY <3>3 DEF SumInv, BytesBefore, SizeOf
  <2>3. CASE WritePacket(t)
    <3>1. PICK n \in Nat :
            LET entry == [buffptr |-> WriteBlock(t), size |-> n]
            IN  /\ entry \in Entry
                /\ circ_buffer' = AddEntry(circ_buffer, entry)
                /\ circ_total_size' = circ_total_size + n /\ 2 * (circ_total_size + n) < IntMod
                /\ ~circ_buffer.full /\ cb_size' = 0 /\ lock' = NoTask
                /\ circ_buffer.entry[circ_buffer.in_offs].size = 0
      BY <2>3, PacketWithinLimits
    <3> DEFINE entry == [buffptr |-> WriteBlock(t), size |-> n]
               after == AddEntry(circ_buffer, entry)
    <3>2. after \in Buffer /\ UnusedAreEmpty(after)
      BY <3>1, <1>0, AddEntryShape, AddEntryUnused DEF SumInv
    <3>3. /\ after.out_offs = 0 /\ circ_buffer.in_offs \in Slots
          /\ after.entry = [circ_buffer.entry EXCEPT ![circ_buffer.in_offs] = entry]
      BY <3>1, <1>0 DEF AddEntry, SumInv, Buffer
    <3>4. SumBefore(after)[MaxWriteOps] = circ_total_size + n
      <4>1. entry.size = n
        OBVIOUS
      <4>2. circ_buffer.in_offs < MaxWriteOps /\ MaxWriteOps \in 0..MaxWriteOps
        BY <3>3, BufferAssumption DEF Slots
      <4> HIDE DEF entry, after
      <4> QED BY <4>1, <4>2, <3>1, <3>2, <3>3, <1>0, SumBeforeAdds DEF entry
    <3>5. BytesBefore(MaxWriteOps)' = circ_total_size + n
      BY <3>1, <3>4, BytesBeforeIsSum
    <3> QED BY <3>1, <3>2, <3>3, <3>5 DEF SumInv
  <2> QED BY <1>7, <2>1, <2>2, <2>3 DEF WriteStep
<1>8. ASSUME NEW t \in Tasks, WriteFree(t) PROVE SumInv'
  BY <1>8 DEF WriteFree, Limits, NoOverwrite
<1> QED BY <1>1, <1>3, <1>4, <1>5, <1>6, <1>7, <1>8 DEF Next, EndStep

\* Within the limits the entries are counted exactly once.
LEMMA SumInvHolds == Spec /\ []Limits => []SumInv
<1>1. Init => SumInv
  <2> SUFFICES ASSUME Init PROVE SumInv
    OBVIOUS
  <2>1. /\ circ_buffer = EmptyBuffer /\ cb_size = 0 /\ circ_total_size = 0
        /\ lock = NoTask
    BY DEF Init
  <2>2. BytesBefore(MaxWriteOps) = 0
    BY <2>1, EmptySum, BytesBeforeIsSum
  <2>3. EmptyBuffer.out_offs = 0 /\ UnusedAreEmpty(EmptyBuffer)
    BY DEF EmptyBuffer, UnusedAreEmpty
  <2> QED BY <2>1, <2>2, <2>3, DriverAssumption DEF SumInv
<1>2. IInv /\ PositionInv /\ SumInv /\ Limits /\ Limits' /\ [Next]_vars => SumInv'
  BY SumStep DEF Limits
<1> QED BY <1>1, <1>2, InvariantHolds, PositionInvHolds, PTL DEF Spec

\* circ_total_size, from which aesd_llseek takes the end of the data without
\* dev->lock, is the sum of the sizes in every state: failed allocations,
\* failed copies and interrupted calls leave it exact (aesd_write).
THEOREM TotalStaysExact == Spec /\ []Limits => []TotalIsSum
<1>1. SumInv => TotalIsSum
  BY DEF SumInv, TotalIsSum
<1> QED BY <1>1, SumInvHolds, PTL

-----------------------------------------------------------------------------
(***************************************************************************)
(* Positions and the end of the data, within the limits.                   *)
(***************************************************************************)
\* A position in flight is in the data as well, and an idle task has none.
InFlightInData ==
  \A t \in Tasks : pos[t] \in 0..circ_total_size /\ (pc[t] = "idle" => pos[t] = 0)

WithinInv == PositionInData /\ InFlightInData

\* Every round of the search ends within the total.
LEMMA RoundsWithinTotal ==
  ASSUME IInv, SumInv
  PROVE  /\ TotalFits(circ_buffer) /\ BytesThrough(circ_buffer) = SumBefore(circ_buffer)
         /\ \A k \in 1..MaxWriteOps :
              /\ ReadSlot(circ_buffer, k - 1) = k - 1
              /\ SumBefore(circ_buffer)[k - 1] \in Nat
              /\ SumBefore(circ_buffer)[k] = SumBefore(circ_buffer)[k - 1]
                                               + circ_buffer.entry[k - 1].size
              /\ circ_buffer.entry[k - 1].size \in Nat
              /\ SumBefore(circ_buffer)[k] <= circ_total_size
<1> DEFINE s == SumBefore(circ_buffer)
           N == MaxWriteOps
<1>1. /\ circ_buffer \in Buffer /\ circ_buffer.out_offs = 0 /\ s[N] = circ_total_size
      /\ circ_total_size < SizeMod
  BY BytesBeforeIsSum, SmallNumbers DEF IInv, DeviceTypeOK, SumInv
<1>2. TotalFits(circ_buffer) /\ BytesThrough(circ_buffer) = s
  BY <1>1, SumIsTotal
<1>3. ASSUME NEW k \in 1..N
      PROVE  /\ ReadSlot(circ_buffer, k - 1) = k - 1
             /\ s[k - 1] \in Nat /\ s[k] = s[k - 1] + circ_buffer.entry[k - 1].size
             /\ circ_buffer.entry[k - 1].size \in Nat
             /\ s[k] <= circ_total_size
  <2>1. k - 1 \in 0..N /\ k \in 0..N /\ N \in 0..N
    BY BufferAssumption
  <2>2. ReadSlot(circ_buffer, k - 1) = k - 1
    BY <1>1, BufferAssumption DEF ReadSlot
  <2>3. /\ s[k - 1] \in Nat /\ s[k] = s[k - 1] + circ_buffer.entry[k - 1].size
        /\ circ_buffer.entry[k - 1].size \in Nat
    BY <2>1, <1>1, SumBeforeRounds
  <2>4. s[k] <= s[N]
    BY <2>1, <1>1, SumBeforeGrows
  <2> QED BY <2>2, <2>3, <2>4, <1>1
<1> QED BY <1>2, <1>3

\* A step that moves one task, and perhaps its file, while the data do not shrink.
LEMMA OneTaskWithin ==
  ASSUME IInv, PositionInv, WithinInv, NEW t \in Tasks, NEW where,
         circ_total_size' \in Nat, circ_total_size <= circ_total_size',
         pc' = [pc EXCEPT ![t] = where], opened' = opened,
         \/ pos' = pos /\ where # "idle"
         \/ \E p \in Nat : pos' = [pos EXCEPT ![t] = p] /\ p <= circ_total_size
                           /\ (where = "idle" => p = 0),
         f_pos' = f_pos \/ f_pos' = [f_pos EXCEPT ![FileOf[t]] = pos[t]]
  PROVE  WithinInv'
<1>1. /\ f_pos \in [Files -> Loff] /\ pos \in [Tasks -> Loff] /\ pc \in [Tasks -> Locations]
      /\ circ_total_size \in Nat /\ FileOf[t] \in Files /\ opened \subseteq Files
  BY DriverAssumption DEF PositionInv, PositionTypeOK, IInv, DeviceTypeOK
<1>2. ASSUME NEW f \in opened PROVE f_pos'[f] \in 0..circ_total_size'
  <2>1. /\ f \in Files /\ f_pos[f] \in Nat /\ f_pos[f] <= circ_total_size
        /\ pos[t] \in Nat /\ pos[t] <= circ_total_size
    BY <1>1 DEF WithinInv, PositionInData, InFlightInData
  <2>2. f_pos'[f] = f_pos[f] \/ f_pos'[f] = pos[t]
    BY <2>1, <1>1
  <2> QED BY <2>1, <2>2, <1>1
<1>3. ASSUME NEW u \in Tasks
      PROVE  pos'[u] \in 0..circ_total_size' /\ (pc'[u] = "idle" => pos'[u] = 0)
  <2>1. pos[u] \in Nat /\ pos[u] <= circ_total_size /\ (pc[u] = "idle" => pos[u] = 0)
    BY <1>1 DEF WithinInv, InFlightInData
  <2>2. CASE u # t
    <3>1. pos'[u] = pos[u] /\ pc'[u] = pc[u]
      BY <2>2, <1>1
    <3> QED BY <3>1, <2>1, <1>1
  <2>3. CASE u = t
    <3>1. pc'[t] = where
      BY <1>1
    <3>2. CASE pos' = pos /\ where # "idle"
      BY <3>1, <3>2, <2>3, <2>1, <1>1
    <3>3. ASSUME NEW p \in Nat, pos' = [pos EXCEPT ![t] = p], p <= circ_total_size,
                 where = "idle" => p = 0
          PROVE  pos'[u] \in 0..circ_total_size' /\ (pc'[u] = "idle" => pos'[u] = 0)
      <4>1. pos'[t] = p
        BY <3>3, <1>1
      <4> QED BY <4>1, <3>1, <3>3, <2>3, <1>1
    <3> QED BY <3>2, <3>3
  <2> QED BY <2>2, <2>3
<1> QED BY <1>2, <1>3 DEF WithinInv, PositionInData, InFlightInData

\* A call ends without the file layer touching the open file.
LEMMA FinishWithin ==
  ASSUME IInv, PositionInv, WithinInv, NEW t \in Tasks, Finish(t),
         UNCHANGED <<circ_total_size, opened>>,
         f_pos' = f_pos \/ f_pos' = [f_pos EXCEPT ![FileOf[t]] = pos[t]]
  PROVE  WithinInv'
<1>1. pc' = [pc EXCEPT ![t] = "idle"] /\ pos' = [pos EXCEPT ![t] = 0]
  BY DEF Finish, Goto
<1>2. circ_total_size \in Nat /\ 0 <= circ_total_size
  BY DEF IInv, DeviceTypeOK
<1>3. circ_total_size' \in Nat /\ circ_total_size <= circ_total_size'
  BY <1>2
<1> QED BY <1>1, <1>2, <1>3, OneTaskWithin

\* A call starts at a position in the data.
LEMMA EnterWithin ==
  ASSUME IInv, PositionInv, WithinInv, NEW t \in Tasks, NEW where, NEW a, NEW p \in Nat,
         Enter(t, where, a, p), where # "idle", p <= circ_total_size
  PROVE  WithinInv'
<1>1. /\ pc' = [pc EXCEPT ![t] = where] /\ pos' = [pos EXCEPT ![t] = p]
      /\ f_pos' = f_pos /\ opened' = opened /\ circ_total_size' = circ_total_size
  BY DEF Enter, Goto, dev
<1>2. circ_total_size' \in Nat /\ circ_total_size <= circ_total_size'
  BY <1>1 DEF IInv, DeviceTypeOK
<1> QED BY <1>1, <1>2, OneTaskWithin

LEMMA CallWithin ==
  ASSUME IInv, PositionInv, SumInv, WithinInv, NEW t \in Tasks, Call(t)
  PROVE  WithinInv'
<1> DEFINE p == f_pos[FileOf[t]]
<1>1. circ_total_size \in Nat
  BY DEF IInv, DeviceTypeOK
<1>2. FileOf[t] \in opened => p \in Nat /\ p <= circ_total_size
  BY <1>1 DEF WithinInv, PositionInData
<1> HIDE DEF p
<1>3. CASE CallRead(t)
  <2>1. PICK n \in ReadCounts : Enter(t, "read", [count |-> n], p)
    BY <1>3 DEF CallRead, p
  <2> QED BY <2>1, <1>1, <1>2, EnterWithin DEF Enter
<1>4. CASE CallWrite(t)
  <2>1. PICK w \in Writes :
          Enter(t, "write", [id |-> writes + 1, count |-> w.count, newline |-> w.newline], p)
    BY <1>4 DEF CallWrite, p
  <2> QED BY <2>1, <1>1, <1>2, EnterWithin DEF Enter
<1>5. CASE CallIoctl(t)
  <2>1. PICK s \in SeekArgs : Enter(t, "ioctl", s, 0)
    BY <1>5 DEF CallIoctl
  <2>2. 0 <= circ_total_size
    BY <1>1
  <2> QED BY <2>1, <2>2, EnterWithin
<1>6. CASE CallLSeek(t)
  <2>1. PICK s \in LSeekArgs : /\ LSeekTarget(t, s) \in 0..circ_total_size
                               /\ Enter(t, "store", s, LSeekTarget(t, s))
    <3>1. DataEnd = circ_total_size
      BY <1>1, SmallNumbers DEF SumInv, DataEnd
    <3> QED BY <3>1, <1>6 DEF CallLSeek
  <2> DEFINE q == LSeekTarget(t, s)
  <2>2. q \in Nat /\ q <= circ_total_size
    BY <2>1, <1>1
  <2> HIDE DEF q
  <2>3. Enter(t, "store", s, q)
    BY <2>1 DEF q
  <2> QED BY <2>2, <2>3, EnterWithin
<1> QED BY <1>3, <1>4, <1>5, <1>6 DEF Call

\* A position in the data is the same number in every type.
LEMMA SmallPositions ==
  ASSUME IInv, SumInv, WithinInv, NEW t \in Tasks
  PROVE  pos[t] \in Nat /\ 2 * pos[t] < IntMod /\ ToSize(pos[t]) = pos[t]
<1>1. pos[t] \in 0..circ_total_size /\ circ_total_size \in Nat
      /\ 2 * circ_total_size < IntMod /\ IntMod \in Nat
  BY DriverAssumption DEF WithinInv, InFlightInData, SumInv, IInv, DeviceTypeOK
<1>2. pos[t] \in Nat /\ 2 * pos[t] < IntMod
  BY <1>1
<1> QED BY <1>2, SmallNumbers

LEMMA ReadWithin ==
  ASSUME IInv, PositionInv, SumInv, WithinInv, NEW t \in Tasks, ReadStep(t)
  PROVE  WithinInv'
<1>1. CASE ReadFault(t)
  BY <1>1, FinishWithin DEF ReadFault, dev
<1>2. CASE ReadData(t) \/ ReadEnd(t) \/ ReadHole(t)
  <2>1. /\ pc' = [pc EXCEPT ![t] = "store"] /\ f_pos' = f_pos /\ opened' = opened
        /\ circ_total_size' = circ_total_size
    BY <1>2 DEF ReadData, ReadEnd, ReadHole, Goto, dev
  <2>2. circ_total_size' \in Nat /\ circ_total_size <= circ_total_size' /\ 0 <= circ_total_size
    BY <2>1 DEF IInv, DeviceTypeOK
  <2>3. CASE ReadData(t)
    <3>1. PICK k \in 1..MaxWriteOps, n \in Nat \ {0} :
            /\ pos' = [pos EXCEPT ![t] = ToLoff(@ + n)]
            /\ ToSize(pos[t]) + n <= BytesThrough(circ_buffer)[k - 1]
                               + circ_buffer.entry[ReadSlot(circ_buffer, k - 1)].size
      BY <2>3, ReadDataEffect
    <3> DEFINE p == pos[t] + n
               s == SumBefore(circ_buffer)
               size == circ_buffer.entry[k - 1].size
    <3>2. p \in Nat /\ p <= circ_total_size /\ 2 * p < IntMod
      <4>1. pos[t] \in Nat /\ ToSize(pos[t]) = pos[t]
        BY SmallPositions
      <4>2. p <= s[k - 1] + size /\ s[k] = s[k - 1] + size /\ s[k - 1] \in Nat /\ size \in Nat
            /\ s[k] <= circ_total_size
        BY <3>1, <4>1, RoundsWithinTotal
      <4>3. p \in Nat
        BY <4>1
      <4>4. 2 * circ_total_size < IntMod /\ circ_total_size \in Nat /\ IntMod \in Nat
        BY <2>1, <2>2, DriverAssumption DEF SumInv
      <4> HIDE DEF p, s, size
      <4> QED BY <4>2, <4>3, <4>4
    <3>3. pos' = [pos EXCEPT ![t] = p]
      <4>1. pos' = [pos EXCEPT ![t] = ToLoff(p)]
        BY <3>1
      <4> HIDE DEF p
      <4> QED BY <4>1, <3>2, SmallNumbers
    <3> HIDE DEF p
    <3> QED BY <3>2, <3>3, <2>1, <2>2, OneTaskWithin
  <2>4. CASE ReadEnd(t)
    <3>1. pos' = [pos EXCEPT ![t] = 0]
      BY <2>4 DEF ReadEnd
    <3> QED BY <3>1, <2>1, <2>2, OneTaskWithin
  <2>5. CASE ReadHole(t)
    <3>1. pos' = pos
      BY <2>5 DEF ReadHole
    <3> QED BY <3>1, <2>1, <2>2, OneTaskWithin
  <2> QED BY <1>2, <2>3, <2>4, <2>5
<1> QED BY <1>1, <1>2 DEF ReadStep

\* Where aesd_unlocked_ioctl puts the position: in the asked entry.
LEMMA SeekEffect ==
  ASSUME IInv, PositionInv, SumInv, NEW t \in Tasks, IoctlSeek(t)
  PROVE  \E k \in 1..MaxWriteOps, p \in Nat :
           /\ pc[t] = "ioctl" /\ pos' = [pos EXCEPT ![t] = p] /\ arg[t].write_cmd = k - 1
           /\ SumBefore(circ_buffer)[k - 1] <= p /\ p < SumBefore(circ_buffer)[k]
           /\ p - SumBefore(circ_buffer)[k - 1] = arg[t].write_cmd_offset
<1> DEFINE s    == SumBefore(circ_buffer)
           cmd  == arg[t].write_cmd
           off  == arg[t].write_cmd_offset
           k    == cmd + 1
           p    == s[cmd] + off
           size == circ_buffer.entry[cmd].size
<1>1. pc[t] = "ioctl" /\ pos' = [pos EXCEPT ![t] = Fpos(arg[t])] /\ off < size
  BY DEF IoctlSeek, Locked, SeekValid, SizeOf
<1>2. cmd \in Nat /\ off \in Nat /\ cmd < MaxWriteOps
  BY <1>1, DriverAssumption DEF PositionInv, ArgsFitCalls
<1>3. k \in 1..MaxWriteOps /\ k - 1 = cmd
  <2> HIDE DEF cmd
  <2> QED BY <1>2, BufferAssumption
<1>4. s[cmd] \in Nat /\ s[k] = s[cmd] + size /\ size \in Nat /\ s[k] <= circ_total_size
  <2> HIDE DEF k
  <2> QED BY <1>3, RoundsWithinTotal
<1>5. p \in Nat /\ s[k - 1] <= p /\ p < s[k] /\ p - s[k - 1] = off
  <2>1. p = s[cmd] + off
    OBVIOUS
  <2> HIDE DEF p, off, size, k, s
  <2> QED BY <2>1, <1>1, <1>2, <1>3, <1>4
<1>6. Fpos(arg[t]) = p
  <2>1. Fpos(arg[t]) = ToInt(p)
    BY BytesBeforeIsSum DEF Fpos
  <2>2. p \in Nat /\ 2 * p < IntMod
    <3>1. circ_total_size \in Nat /\ IntMod \in Nat /\ 2 * circ_total_size < IntMod
      BY DriverAssumption DEF SumInv, IInv, DeviceTypeOK
    <3>2. p < s[k] /\ s[k] <= circ_total_size /\ s[k] \in Nat /\ p \in Nat
      BY <1>4, <1>5
    <3> HIDE DEF p, s, k
    <3> QED BY <3>1, <3>2
  <2> HIDE DEF p
  <2> QED BY <2>1, <2>2, SmallNumbers
<1> HIDE DEF p
<1> QED BY <1>1, <1>3, <1>5, <1>6

LEMMA SeekWithin ==
  ASSUME IInv, PositionInv, SumInv, WithinInv, NEW t \in Tasks, IoctlStep(t)
  PROVE  WithinInv'
<1>1. CASE IoctlInvalid(t)
  BY <1>1, FinishWithin DEF IoctlInvalid, dev
<1>2. CASE IoctlSeek(t)
  <2>1. /\ pc' = [pc EXCEPT ![t] = "store"] /\ f_pos' = f_pos /\ opened' = opened
        /\ circ_total_size' = circ_total_size
    BY <1>2 DEF IoctlSeek, Goto, dev
  <2>2. circ_total_size' \in Nat /\ circ_total_size <= circ_total_size'
    BY <2>1 DEF IInv, DeviceTypeOK
  <2>3. PICK k \in 1..MaxWriteOps, p \in Nat :
          pos' = [pos EXCEPT ![t] = p] /\ p < SumBefore(circ_buffer)[k]
    BY <1>2, SeekEffect
  <2>4. p <= circ_total_size
    <3> DEFINE s == SumBefore(circ_buffer)[k]
               before == SumBefore(circ_buffer)[k - 1]
               size == circ_buffer.entry[k - 1].size
    <3>1. s <= circ_total_size /\ s = before + size /\ before \in Nat /\ size \in Nat
      BY RoundsWithinTotal
    <3>2. p < s
      BY <2>3
    <3> HIDE DEF s, before, size
    <3> QED BY <3>1, <3>2, <2>1, <2>2
  <2> QED BY <2>1, <2>2, <2>3, <2>4, OneTaskWithin
<1> QED BY <1>1, <1>2 DEF IoctlStep

LEMMA WriteWithin ==
  ASSUME IInv, PositionInv, SumInv, WithinInv, Limits, NoOverwrite',
         NEW t \in Tasks, WriteStep(t)
  PROVE  WithinInv'
<1>1. CASE WriteNoMemory(t) \/ WriteFault(t)
  BY <1>1, FinishWithin DEF WriteNoMemory, WriteFault
<1>2. CASE WritePartial(t)
  <2>1. /\ pc' = [pc EXCEPT ![t] = "store"] /\ f_pos' = f_pos /\ opened' = opened
        /\ circ_total_size' = circ_total_size /\ pos' = pos
    BY <1>2 DEF WritePartial, Goto
  <2>2. circ_total_size' \in Nat /\ circ_total_size <= circ_total_size'
    BY <2>1 DEF IInv, DeviceTypeOK
  <2> QED BY <2>1, <2>2, OneTaskWithin
<1>3. CASE WritePacket(t)
  <2>1. PICK where \in {"store", "free"} :
          /\ pc' = [pc EXCEPT ![t] = where] /\ f_pos' = f_pos /\ opened' = opened /\ pos' = pos
    BY <1>3 DEF WritePacket, Goto
  <2>2. PICK n \in Nat : circ_total_size' = circ_total_size + n
    BY <1>3, PacketWithinLimits
  <2>3. circ_total_size' \in Nat /\ circ_total_size <= circ_total_size'
    BY <2>2 DEF IInv, DeviceTypeOK
  <2> QED BY <2>1, <2>3, OneTaskWithin
<1> QED BY <1>1, <1>2, <1>3 DEF WriteStep

LEMMA WithinStep ==
  ASSUME IInv, PositionInv, SumInv, WithinInv, Limits, NoOverwrite', [Next]_vars
  PROVE  WithinInv'
<1>1. CASE InitModule
  <2>1. opened = {} /\ opened' = opened /\ circ_total_size' = 0 /\ pos' = pos /\ pc' = pc
    BY <1>1 DEF InitModule, IInv, CallsNeedModule
  <2>2. \A t \in Tasks : pc[t] = "idle"
    BY <2>1 DEF IInv, CallsNeedModule
  <2>3. \A t \in Tasks : pos[t] = 0
    BY <2>2 DEF WithinInv, InFlightInData
  <2> QED BY <2>1, <2>2, <2>3 DEF WithinInv, PositionInData, InFlightInData
<1>2. ASSUME UNCHANGED <<opened, f_pos, circ_total_size, pc, pos>> PROVE WithinInv'
  BY <1>2 DEF WithinInv, PositionInData, InFlightInData
<1>3. CASE CleanupModule \/ UNCHANGED vars
  BY <1>2, <1>3 DEF CleanupModule, vars, dev
<1>4. ASSUME NEW f \in Files, Open(f) PROVE WithinInv'
  <2>1. /\ opened' = opened \cup {f} /\ f_pos' = [f_pos EXCEPT ![f] = 0]
        /\ circ_total_size' = circ_total_size /\ pos' = pos /\ pc' = pc
    BY <1>4 DEF Open, dev
  <2>2. /\ f_pos \in [Files -> Loff] /\ opened \subseteq Files
        /\ circ_total_size \in Nat
    BY DEF PositionInv, PositionTypeOK, IInv, DeviceTypeOK
  <2>3. ASSUME NEW g \in opened' PROVE f_pos'[g] \in 0..circ_total_size'
    <3>1. CASE g = f
      BY <3>1, <2>1, <2>2
    <3>2. CASE g # f
      BY <3>2, <2>1, <2>2 DEF WithinInv, PositionInData
    <3> QED BY <3>1, <3>2
  <2> QED BY <2>1, <2>3 DEF WithinInv, PositionInData, InFlightInData
<1>5. ASSUME NEW f \in Files, Release(f) PROVE WithinInv'
  BY <1>5 DEF Release, dev, WithinInv, PositionInData, InFlightInData
<1>6. ASSUME NEW t \in Tasks, Call(t) PROVE WithinInv'
  BY <1>6, CallWithin
<1>7. ASSUME NEW t \in Tasks, Interrupted(t) \/ StorePos(t) PROVE WithinInv'
  BY <1>7, FinishWithin DEF Interrupted, StorePos, dev
<1>8. ASSUME NEW t \in Tasks, ReadStep(t) PROVE WithinInv'
  BY <1>8, ReadWithin
<1>9. ASSUME NEW t \in Tasks, IoctlStep(t) PROVE WithinInv'
  BY <1>9, SeekWithin
<1>10. ASSUME NEW t \in Tasks, WriteStep(t) PROVE WithinInv'
  BY <1>10, WriteWithin
<1>11. ASSUME NEW t \in Tasks, WriteFree(t) PROVE WithinInv'
  BY <1>11 DEF WriteFree, Limits, NoOverwrite
<1> QED BY <1>1, <1>3, <1>4, <1>5, <1>6, <1>7, <1>8, <1>9, <1>10, <1>11 DEF Next, EndStep

LEMMA WithinInvHolds == Spec /\ []Limits => []WithinInv
<1>1. Init => WithinInv
  BY DEF Init, WithinInv, PositionInData, InFlightInData
<1>2. /\ IInv /\ PositionInv /\ SumInv /\ WithinInv /\ Limits /\ Limits' /\ [Next]_vars
      => WithinInv'
  BY WithinStep DEF Limits
<1> QED BY <1>1, <1>2, InvariantHolds, PositionInvHolds, SumInvHolds, PTL DEF Spec

\* No open file is left outside the data, although a read, a seek and an lseek
\* compute the position in one step and store it in a later one, and tasks that
\* share the file write each other's position over (StorePos).
THEOREM PositionsStayInData == Spec /\ []Limits => []PositionInData
<1>1. WithinInv => PositionInData
  BY DEF WithinInv
<1> QED BY <1>1, WithinInvHolds, PTL

-----------------------------------------------------------------------------
(***************************************************************************)
(* AESDCHAR_IOCSEEKTO: the position is computed under the lock and stored  *)
(* after it, and between the two other tasks read, write and seek.         *)
(***************************************************************************)
\* p is the position of the asked offset in the asked entry, counted from
\* entry 0, and the entries up to it are in use.
Aims(b, s, p) ==
  /\ s.write_cmd < MaxWriteOps
  /\ s.write_cmd_offset < b.entry[s.write_cmd].size
  /\ \A i \in 0..s.write_cmd : b.entry[i].size # 0
  /\ p = SumBefore(b)[s.write_cmd] + s.write_cmd_offset

\* A position that aesd_unlocked_ioctl has yet to store still aims right.
SeekInFlight ==
  \A t \in Tasks : pc[t] = "store" /\ arg[t] \in SeekArgs => Aims(circ_buffer, arg[t], pos[t])

AimsKept ==
  \A s \in SeekArgs : \A p : Aims(circ_buffer, s, p) => Aims(circ_buffer', s, p)

\* The arguments of an ioctl are those of no other call.
LEMMA SeekArgsAreApart ==
  ASSUME NEW s \in SeekArgs
  PROVE  /\ s.write_cmd \in Nat /\ s.write_cmd_offset \in Nat
         /\ s \notin LSeekArgs /\ s \notin WriteArgs /\ s \notin [count : Nat \ {0}] /\ s # NoArg
<1>1. s \in [write_cmd : Nat, write_cmd_offset : Nat]
  BY DriverAssumption
<1>2. DOMAIN s = {"write_cmd", "write_cmd_offset"}
  BY <1>1
<1>3. \A r \in [off : Int, whence : {"SEEK_SET", "SEEK_CUR", "SEEK_END"}] :
        DOMAIN r = {"off", "whence"}
  OBVIOUS
<1>4. \A r \in WriteArgs : DOMAIN r = {"id", "count", "newline"}
  BY DEF WriteArgs
<1>5. \A r \in [count : Nat \ {0}] : DOMAIN r = {"count"}
  OBVIOUS
<1>6. DOMAIN NoArg = {"count"}
  BY DEF NoArg
<1>7. s \notin LSeekArgs
  BY <1>2, <1>3, DriverAssumption
<1>8. s \notin WriteArgs
  BY <1>2, <1>4
<1>9. s \notin [count : Nat \ {0}] /\ s # NoArg
  BY <1>2, <1>5, <1>6
<1> QED BY <1>1, <1>7, <1>8, <1>9

\* A step of one task that does not leave it with an ioctl's position to store,
\* or leaves it with one that aims right.
LEMMA OneTaskAims ==
  ASSUME IInv, PositionInv, SeekInFlight, AimsKept, NEW t \in Tasks, NEW where,
         pc' = [pc EXCEPT ![t] = where],
         arg' = arg \/ \E a : arg' = [arg EXCEPT ![t] = a],
         pos' = pos \/ \E p : pos' = [pos EXCEPT ![t] = p],
         where = "store" /\ arg'[t] \in SeekArgs => Aims(circ_buffer', arg'[t], pos'[t])
  PROVE  SeekInFlight'
<1>1. pc \in [Tasks -> Locations] /\ DOMAIN arg = Tasks /\ DOMAIN pos = Tasks
  BY DEF IInv, DeviceTypeOK, PositionInv, PositionTypeOK
<1>2. ASSUME NEW u \in Tasks, pc'[u] = "store", arg'[u] \in SeekArgs
      PROVE  Aims(circ_buffer', arg'[u], pos'[u])
  <2>1. CASE u = t
    <3>1. where = "store"
      BY <1>1, <1>2, <2>1
    <3> QED BY <3>1, <1>2, <2>1
  <2>2. CASE u # t
    <3>1. pc[u] = pc'[u] /\ arg'[u] = arg[u] /\ pos'[u] = pos[u]
      BY <1>1, <2>2
    <3>2. Aims(circ_buffer, arg[u], pos[u])
      BY <3>1, <1>2 DEF SeekInFlight
    <3> QED BY <3>1, <3>2, <1>2 DEF AimsKept
  <2> QED BY <2>1, <2>2
<1> QED BY <1>2 DEF SeekInFlight

\* Only what lies behind the asked entry changes when a packet is added.
LEMMA PacketKeepsAims ==
  ASSUME IInv, PositionInv, SumInv, Limits, NoOverwrite', NEW t \in Tasks, WritePacket(t)
  PROVE  AimsKept
<1>1. PICK n \in Nat :
        /\ [buffptr |-> WriteBlock(t), size |-> n] \in Entry
        /\ circ_buffer' = AddEntry(circ_buffer, [buffptr |-> WriteBlock(t), size |-> n])
        /\ circ_buffer.entry[circ_buffer.in_offs].size = 0
  BY PacketWithinLimits
<1> DEFINE e == [buffptr |-> WriteBlock(t), size |-> n]
           i == circ_buffer.in_offs
<1>2. /\ circ_buffer \in Buffer /\ circ_buffer' \in Buffer /\ i \in Slots /\ i \in Nat
      /\ circ_buffer'.entry = [circ_buffer.entry EXCEPT ![i] = e]
  <2>1. circ_buffer \in Buffer /\ RingShape(circ_buffer)
    BY DEF IInv, DeviceTypeOK
  <2>2. circ_buffer' \in Buffer
    BY <1>1, <2>1, AddEntryShape
  <2>3. i \in Slots /\ i \in Nat
    BY <2>1, BufferAssumption DEF Buffer, Slots
  <2>4. circ_buffer'.entry = [circ_buffer.entry EXCEPT ![i] = e]
    BY <1>1 DEF AddEntry
  <2> QED BY <2>1, <2>2, <2>3, <2>4
<1>3. \A k \in 0..MaxWriteOps :
        SumBefore(circ_buffer')[k] = SumBefore(circ_buffer)[k] + (IF i < k THEN n ELSE 0)
  <2>1. e \in Entry /\ e.size = n /\ circ_buffer.entry[i].size = 0
    BY <1>1
  <2> HIDE DEF e, i
  <2> QED BY <2>1, <1>2, SumBeforeAdds
<1> HIDE DEF e, i
<1>4. ASSUME NEW s \in SeekArgs, NEW p, Aims(circ_buffer, s, p) PROVE Aims(circ_buffer', s, p)
  <2> DEFINE cmd == s.write_cmd
  <2>1. cmd \in Nat /\ cmd < MaxWriteOps /\ MaxWriteOps \in Nat
    BY <1>4, SeekArgsAreApart, BufferAssumption DEF Aims
  <2>2. ~(i <= cmd)
    <3>1. i <= cmd => i \in 0..cmd
      BY <1>2
    <3> QED BY <3>1, <1>1, <1>4 DEF Aims, i
  <2>3. \A j \in 0..cmd : circ_buffer'.entry[j] = circ_buffer.entry[j]
    <3>1. ASSUME NEW j \in 0..cmd PROVE j \in Slots /\ j # i
      BY <2>1, <2>2, <1>2 DEF Slots
    <3>2. circ_buffer.entry \in [Slots -> Entry]
      BY <1>2 DEF Buffer
    <3> QED BY <3>1, <3>2, <1>2
  <2>4. SumBefore(circ_buffer')[cmd] = SumBefore(circ_buffer)[cmd]
    <3>1. cmd \in 0..MaxWriteOps /\ ~(i < cmd)
      BY <2>1, <2>2, <1>2
    <3>2. SumBefore(circ_buffer)[cmd] \in Nat
      BY <3>1, <1>2, SumBeforeRounds
    <3>3. SumBefore(circ_buffer')[cmd] = SumBefore(circ_buffer)[cmd] + 0
      BY <3>1, <1>3
    <3> QED BY <3>2, <3>3
  <2>5. cmd \in 0..cmd
    BY <2>1
  <2> QED BY <2>1, <2>3, <2>4, <2>5, <1>4 DEF Aims
<1> QED BY <1>4 DEF AimsKept

LEMMA AimStep ==
  ASSUME IInv, PositionInv, SumInv, SeekInFlight, Limits, NoOverwrite', [Next]_vars
  PROVE  SeekInFlight'
<1>1. ASSUME circ_buffer' = circ_buffer PROVE AimsKept
  BY <1>1 DEF AimsKept
<1>2. ASSUME UNCHANGED <<circ_buffer, pc, arg, pos>> PROVE SeekInFlight'
  BY <1>2 DEF SeekInFlight
<1>3. CASE InitModule
  <2>1. opened = {} /\ pc' = pc
    BY <1>3 DEF InitModule, IInv, CallsNeedModule
  <2>2. \A t \in Tasks : pc'[t] = "idle"
    BY <2>1 DEF IInv, CallsNeedModule
  <2> QED BY <2>2 DEF SeekInFlight
<1>4. CASE CleanupModule \/ UNCHANGED vars
  BY <1>2, <1>4 DEF CleanupModule, vars, dev
<1>5. ASSUME NEW f \in Files, Open(f) \/ Release(f) PROVE SeekInFlight'
  BY <1>2, <1>5 DEF Open, Release, dev
<1>6. ASSUME NEW t \in Tasks, NEW where, where # "store", circ_buffer' = circ_buffer,
             pc' = [pc EXCEPT ![t] = where],
             arg' = arg \/ \E a : arg' = [arg EXCEPT ![t] = a],
             pos' = pos \/ \E p : pos' = [pos EXCEPT ![t] = p]
      PROVE  SeekInFlight'
  BY <1>1, <1>6, OneTaskAims
<1>7. ASSUME NEW t \in Tasks, Finish(t), circ_buffer' = circ_buffer PROVE SeekInFlight'
  BY <1>6, <1>7 DEF Finish, Goto
<1>8. ASSUME NEW t \in Tasks, Call(t) PROVE SeekInFlight'
  <2>1. CASE CallRead(t) \/ CallWrite(t) \/ CallIoctl(t)
    <3>1. PICK where \in {"read", "write", "ioctl"} : \E a, p : Enter(t, where, a, p)
      BY <2>1 DEF CallRead, CallWrite, CallIoctl
    <3> QED BY <3>1, <1>6 DEF Enter, Goto, dev
  <2>2. CASE CallLSeek(t)
    <3>0. PICK s \in LSeekArgs : Enter(t, "store", s, LSeekTarget(t, s))
      BY <2>2 DEF CallLSeek
    <3> DEFINE p == LSeekTarget(t, s)
    <3>1. Enter(t, "store", s, p)
      BY <3>0
    <3> HIDE DEF p
    <3>2. arg' = [arg EXCEPT ![t] = s] /\ arg'[t] = s /\ s \notin SeekArgs
      BY <3>1, SeekArgsAreApart DEF Enter, IInv, DeviceTypeOK
    <3>3. AimsKept /\ pc' = [pc EXCEPT ![t] = "store"] /\ pos' = [pos EXCEPT ![t] = p]
      BY <3>1, <1>1 DEF Enter, Goto, dev
    <3> QED BY <3>2, <3>3, OneTaskAims
  <2> QED BY <1>8, <2>1, <2>2 DEF Call
<1>9. ASSUME NEW t \in Tasks, Interrupted(t) \/ StorePos(t) PROVE SeekInFlight'
  BY <1>7, <1>9 DEF Interrupted, StorePos, dev
<1>10. ASSUME NEW t \in Tasks, ReadStep(t) PROVE SeekInFlight'
  <2>1. CASE ReadFault(t)
    BY <1>7, <2>1 DEF ReadFault, dev
  <2>2. CASE ReadData(t) \/ ReadEnd(t) \/ ReadHole(t)
    <3>1. /\ pc[t] = "read" /\ pc' = [pc EXCEPT ![t] = "store"] /\ arg' = arg
          /\ circ_buffer' = circ_buffer
      BY <2>2 DEF ReadData, ReadEnd, ReadHole, Locked, Goto, dev
    <3>2. arg'[t] \notin SeekArgs
      BY <3>1, SeekArgsAreApart DEF PositionInv, ArgsFitCalls
    <3>3. pos' = pos \/ \E p : pos' = [pos EXCEPT ![t] = p]
      BY <2>2 DEF ReadData, ReadEnd, ReadHole
    <3> QED BY <3>1, <3>2, <3>3, <1>1, OneTaskAims
  <2> QED BY <1>10, <2>1, <2>2 DEF ReadStep
<1>11. ASSUME NEW t \in Tasks, WriteStep(t) PROVE SeekInFlight'
  <2>1. CASE WriteNoMemory(t) \/ WriteFault(t)
    BY <1>7, <2>1 DEF WriteNoMemory, WriteFault
  <2>2. CASE WritePartial(t) \/ WritePacket(t)
    <3>1. AimsKept
      BY <2>2, <1>1, PacketKeepsAims DEF WritePartial
    <3>2. /\ pc[t] = "write" /\ pos' = pos
          /\ \/ pc' = [pc EXCEPT ![t] = "store"] /\ arg' = arg
             \/ pc' = [pc EXCEPT ![t] = "free"] /\ \E a : arg' = [arg EXCEPT ![t] = a]
      BY <2>2 DEF WritePartial, WritePacket, Locked, Goto
    <3>3. arg[t] \notin SeekArgs
      BY <3>2, SeekArgsAreApart DEF IInv, DeviceTypeOK
    <3>4. CASE pc' = [pc EXCEPT ![t] = "store"] /\ arg' = arg
      BY <3>1, <3>2, <3>3, <3>4, OneTaskAims
    <3>5. CASE pc' = [pc EXCEPT ![t] = "free"] /\ \E a : arg' = [arg EXCEPT ![t] = a]
      BY <3>1, <3>2, <3>5, OneTaskAims
    <3> QED BY <3>2, <3>4, <3>5
  <2> QED BY <1>11, <2>1, <2>2 DEF WriteStep
<1>12. ASSUME NEW t \in Tasks, IoctlStep(t) PROVE SeekInFlight'
  <2>1. CASE IoctlInvalid(t)
    BY <1>7, <2>1 DEF IoctlInvalid, dev
  <2>2. CASE IoctlSeek(t)
    <3>1. PICK k \in 1..MaxWriteOps, p \in Nat :
            /\ pc[t] = "ioctl" /\ pos' = [pos EXCEPT ![t] = p] /\ arg[t].write_cmd = k - 1
            /\ p - SumBefore(circ_buffer)[k - 1] = arg[t].write_cmd_offset
      BY <2>2, SeekEffect
    <3>2. /\ pc' = [pc EXCEPT ![t] = "store"] /\ arg' = arg /\ circ_buffer' = circ_buffer
          /\ SeekValid(arg[t])
      BY <2>2 DEF IoctlSeek, Goto, dev
    <3>3. /\ arg[t].write_cmd \in Nat /\ arg[t].write_cmd < MaxWriteOps
          /\ arg[t].write_cmd_offset \in Nat
      BY <3>1, SeekArgsAreApart DEF PositionInv, ArgsFitCalls
    <3>4. p = SumBefore(circ_buffer)[arg[t].write_cmd] + arg[t].write_cmd_offset
      <4> DEFINE sum == SumBefore(circ_buffer)[k - 1]
      <4>1. sum \in Nat
        BY RoundsWithinTotal
      <4> HIDE DEF sum
      <4>2. p = sum + arg[t].write_cmd_offset
        BY <4>1, <3>1, <3>3 DEF sum
      <4> QED BY <4>2, <3>1 DEF sum
    <3>5. \A i \in 0..arg[t].write_cmd : circ_buffer.entry[i].size # 0
      <4> SUFFICES ASSUME NEW i \in 0..arg[t].write_cmd PROVE circ_buffer.entry[i].size # 0
        OBVIOUS
      <4>1. CASE i = arg[t].write_cmd
        <5>1. circ_buffer.entry[i].size \in Nat /\ arg[t].write_cmd_offset < circ_buffer.entry[i].size
          BY <4>1, <3>1, <3>2, RoundsWithinTotal DEF SeekValid, SizeOf
        <5> QED BY <5>1, <3>3
      <4>2. CASE i # arg[t].write_cmd
        <5>1. i \in 0..(arg[t].write_cmd - 1)
          BY <4>2, <3>3
        <5> QED BY <5>1, <3>2 DEF SeekValid, SizeOf
      <4> QED BY <4>1, <4>2
    <3>6. Aims(circ_buffer, arg[t], p)
      BY <3>2, <3>3, <3>4, <3>5 DEF Aims, SeekValid, SizeOf
    <3>7. pos'[t] = p
      BY <3>1 DEF PositionInv, PositionTypeOK
    <3> QED BY <3>1, <3>2, <3>6, <3>7, <1>1, OneTaskAims
  <2> QED BY <1>12, <2>1, <2>2 DEF IoctlStep
<1>13. ASSUME NEW t \in Tasks, WriteFree(t) PROVE SeekInFlight'
  BY <1>13 DEF WriteFree, Limits, NoOverwrite
<1> QED BY <1>3, <1>4, <1>5, <1>8, <1>9, <1>10, <1>11, <1>12, <1>13 DEF Next, EndStep

\* A task leaves "store" by storing its position.
LEMMA OnlyStorePosStores ==
  ASSUME IInv, [Next]_vars, NEW t \in Tasks, pc[t] = "store", pc'[t] = "idle"
  PROVE  StorePos(t)
<1>1. pc \in [Tasks -> Locations]
  BY DEF IInv, DeviceTypeOK
<1>2. ASSUME pc' = pc PROVE FALSE
  BY <1>2
<1>3. ASSUME NEW u \in Tasks, NEW where, pc' = [pc EXCEPT ![u] = where], pc[u] # "store"
      PROVE  FALSE
  BY <1>1, <1>3
<1>4. ~InitModule /\ ~CleanupModule /\ ~UNCHANGED vars
  BY <1>2 DEF InitModule, CleanupModule, vars
<1>5. ASSUME NEW f \in Files, Open(f) \/ Release(f) PROVE FALSE
  BY <1>2, <1>5 DEF Open, Release
<1>6. ASSUME NEW u \in Tasks, Call(u) PROVE FALSE
  <2>1. pc[u] = "idle" /\ \E where : pc' = [pc EXCEPT ![u] = where]
    BY <1>6 DEF Call, CallRead, CallWrite, CallIoctl, CallLSeek, Enter, Goto
  <2> QED BY <2>1, <1>3
<1>7. ASSUME NEW u \in Tasks, Interrupted(u) PROVE FALSE
  BY <1>3, <1>7 DEF Interrupted, Finish, Goto
<1>8. ASSUME NEW u \in Tasks, ReadStep(u) \/ IoctlStep(u) PROVE FALSE
  <2>1. pc[u] # "store" /\ \E where : pc' = [pc EXCEPT ![u] = where]
    BY <1>8 DEF ReadStep, ReadData, ReadFault, ReadEnd, ReadHole, IoctlStep, IoctlSeek,
                IoctlInvalid, Locked, Finish, Goto
  <2> QED BY <2>1, <1>3
<1>9. ASSUME NEW u \in Tasks, WriteStep(u) \/ WriteFree(u) PROVE FALSE
  <2>1. pc[u] # "store" /\ \E where : pc' = [pc EXCEPT ![u] = where]
    BY <1>9 DEF WriteStep, WriteNoMemory, WriteFault, WritePartial, WritePacket, WriteFree,
                Locked, Finish, Goto
  <2> QED BY <2>1, <1>3
<1>10. ASSUME NEW u \in Tasks, StorePos(u) PROVE StorePos(t)
  <2>1. pc' = [pc EXCEPT ![u] = "idle"]
    BY <1>10 DEF StorePos, Finish, Goto
  <2>2. u = t
    BY <2>1, <1>1
  <2> QED BY <1>10, <2>2
<1> QED BY <1>4, <1>5, <1>6, <1>7, <1>8, <1>9, <1>10 DEF Next, EndStep

\* Before anything is overwritten a seek goes where it says: at the position that
\* aesd_unlocked_ioctl stores, after it has released the lock and whatever other
\* tasks have added since, the search of aesd_read finds the asked offset of the
\* asked command, although the ioctl counts entries of the array in an int and
\* the search counts from out_offs in a size_t.
THEOREM SeekFindsItsCommand == Spec /\ []Limits => SeekLandsOnCommand
<1> DEFINE Lands(t) ==
             \E hit \in FindEntryOffset(circ_buffer, ToSize(f_pos'[FileOf[t]])) :
               /\ hit.slot \in {arg[t].write_cmd, ReadSlot(circ_buffer, arg[t].write_cmd)}
               /\ hit.offset = arg[t].write_cmd_offset
           Step == \A t \in Tasks :
                     pc[t] = "store" /\ arg[t] \in SeekArgs /\ pc'[t] = "idle" => Lands(t)
<1>1. ASSUME IInv, PositionInv, SumInv, WithinInv, SeekInFlight, [Next]_vars,
             NEW t \in Tasks, pc[t] = "store", arg[t] \in SeekArgs, pc'[t] = "idle"
      PROVE  Lands(t)
  <2>1. StorePos(t)
    BY <1>1, OnlyStorePosStores
  <2>2. f_pos'[FileOf[t]] = pos[t] /\ ToSize(pos[t]) = pos[t] /\ pos[t] \in Nat
    <3>1. f_pos' = [f_pos EXCEPT ![FileOf[t]] = pos[t]] /\ FileOf[t] \in DOMAIN f_pos
      BY <1>1, <2>1, DriverAssumption DEF StorePos, PositionInv, PositionTypeOK
    <3> QED BY <3>1, <1>1, SmallPositions
  <2>3. Aims(circ_buffer, arg[t], pos[t])
    BY <1>1 DEF SeekInFlight
  <2> DEFINE s == SumBefore(circ_buffer)
             cmd == arg[t].write_cmd
             off == arg[t].write_cmd_offset
             k == cmd + 1
             p == pos[t]
             size == circ_buffer.entry[cmd].size
  <2>4. cmd \in Nat /\ off \in Nat /\ cmd < MaxWriteOps /\ off < size /\ p = s[cmd] + off
    BY <1>1, <2>3, SeekArgsAreApart DEF Aims
  <2>5. k \in 1..MaxWriteOps /\ k - 1 = cmd
    <3> HIDE DEF cmd
    <3> QED BY <2>4, BufferAssumption
  <2>6. /\ s[cmd] \in Nat /\ s[k] = s[cmd] + size /\ size \in Nat
        /\ TotalFits(circ_buffer) /\ BytesThrough(circ_buffer) = s /\ circ_buffer \in Buffer
    <3> HIDE DEF k
    <3> QED BY <1>1, <2>5, RoundsWithinTotal DEF IInv, DeviceTypeOK
  <2>7. p \in Nat /\ s[k - 1] <= p /\ p < s[k] /\ p - s[k - 1] = off
    <3>1. p \in Nat
      BY <2>2
    <3> HIDE DEF p, off, size, k, s
    <3> QED BY <3>1, <2>4, <2>5, <2>6
  <2> DEFINE hit == [slot |-> ReadSlot(circ_buffer, k - 1),
                     offset |-> p - BytesThrough(circ_buffer)[k - 1]]
  <2>8. FindEntryOffset(circ_buffer, p) = {hit}
    <3> HIDE DEF p, k
    <3> QED BY <2>5, <2>6, <2>7, SearchFinds
  <2>9. hit.slot = ReadSlot(circ_buffer, cmd) /\ hit.offset = off
    BY <2>5, <2>6, <2>7
  <2>10. hit \in FindEntryOffset(circ_buffer, ToSize(f_pos'[FileOf[t]]))
    BY <2>2, <2>8
  <2> HIDE DEF hit
  <2> QED BY <2>9, <2>10
<1>2. IInv /\ PositionInv /\ SumInv /\ WithinInv /\ SeekInFlight /\ [Next]_vars => [Step]_vars
  BY <1>1
<1>3. Init => SeekInFlight
  BY DEF Init, SeekInFlight
<1>4. /\ IInv /\ PositionInv /\ SumInv /\ SeekInFlight /\ Limits /\ Limits' /\ [Next]_vars
      => SeekInFlight'
  BY AimStep DEF Limits
<1> HIDE DEF Step
<1>5. Spec /\ []Limits => [][Step]_vars
  BY <1>2, <1>3, <1>4, InvariantHolds, PositionInvHolds, SumInvHolds, WithinInvHolds, PTL DEF Spec
<1> QED BY <1>5 DEF SeekLandsOnCommand, Step
=============================================================================
