--------------------- MODULE CircularBufferSpec_proofs ---------------------
(***************************************************************************)
(* Proofs about the circular buffer, for every MaxWriteOps from 1 to 255   *)
(* and every set of entries: its offsets stay consistent, and it always    *)
(* holds the latest MaxWriteOps entries in order.                          *)
(***************************************************************************)
EXTENDS CircularBufferSpec, AesdCircularBuffer_proofs

\* The offsets and the flag of the circular buffer never contradict each
\* other, whatever is added and however often the offsets wrap
\* (aesd_circular_buffer_add_entry).
THEOREM RingInvHolds == Spec => []RingInv
<1>1. Init => RingInv
  BY EmptyBufferShape DEF Init, RingInv, TypeOK
<1>2. RingInv /\ [Next]_circ_buffer => RingInv'
  <2> SUFFICES ASSUME RingInv, [Next]_circ_buffer PROVE RingInv'
    OBVIOUS
  <2>1. CASE Next
    <3>1. PICK e \in Entries : Add(e)
      BY <2>1 DEF Next
    <3> QED BY <3>1, AddEntryShape, EntriesAssumption DEF RingInv, TypeOK, Add
  <2>2. CASE UNCHANGED circ_buffer
    BY <2>2 DEF RingInv, TypeOK
  <2> QED BY <2>1, <2>2
<1> QED BY <1>1, <1>2, PTL DEF Spec

\* The circular buffer implements the log of the latest MaxWriteOps entries:
\* every aesd_circular_buffer_add_entry is one push.
THEOREM BufferKeepsLatestWrites == Spec => KeepsLatestWrites
<1>1. Init => Latest!Init
  <2> SUFFICES ASSUME Init PROVE Contents(circ_buffer) = <<>>
    BY DEF Latest!Init
  <2>1. circ_buffer \in Buffer /\ RingShape(circ_buffer) /\ Held(circ_buffer) = 0
    BY EmptyBufferShape DEF Init, Held, EmptyBuffer
  <2>2. Contents(circ_buffer) \in Seq(Entry) /\ Len(Contents(circ_buffer)) = 0
    BY <2>1, ContentsIsSequence
  <2> QED BY <2>2, EmptySeq
<1>2. RingInv /\ [Next]_circ_buffer => [Latest!Next]_(Contents(circ_buffer))
  <2> SUFFICES ASSUME RingInv, [Next]_circ_buffer
               PROVE  [Latest!Next]_(Contents(circ_buffer))
    OBVIOUS
  <2>1. CASE Next
    <3>1. PICK e \in Entries : Add(e)
      BY <2>1 DEF Next
    <3>2. /\ circ_buffer \in Buffer /\ RingShape(circ_buffer)
          /\ circ_buffer.full \in BOOLEAN /\ e \in Entry
      BY EntriesAssumption DEF RingInv, TypeOK, Buffer
    <3>3. Contents(circ_buffer)' = Pushed(Contents(circ_buffer), e)
      <4>1. Contents(AddEntry(circ_buffer, e)) = Pushed(Contents(circ_buffer), e)
        BY <3>2, AddEntryWhenFull, AddEntryBeforeFull
      <4>2. Contents(circ_buffer)' = Contents(AddEntry(circ_buffer, e))
        BY <3>1 DEF Add, Contents, Held, ReadSlot
      <4> QED BY <4>1, <4>2
    <3>4. Latest!Push(e)
      BY <3>3 DEF Latest!Push, Pushed
    <3> QED BY <3>4 DEF Latest!Next
  <2>2. CASE UNCHANGED circ_buffer
    BY <2>2 DEF Contents, Held, ReadSlot
  <2> QED BY <2>1, <2>2
<1> QED BY <1>1, <1>2, RingInvHolds, PTL DEF Spec, KeepsLatestWrites, Latest!Spec

\* The buffer of entries added so far, none larger than the callers' largest,
\* is empty behind the last one.
SearchInv(largest) ==
  RingInv /\ UnusedAreEmpty(circ_buffer) /\ SizesUpTo(circ_buffer, largest)

\* The sizes of a full buffer add up to a value of a size_t.
SizesFit ==
  \E largest \in Nat :
    (\A e \in Entries : e.size <= largest) /\ MaxWriteOps * largest < SizeMod

\* The search of aesd_circular_buffer_find_entry_offset_for_fpos is a lookup in
\* the entries end to end, for every capacity, every position and every
\* sequence of entries, as long as total_bytes cannot overflow.
THEOREM SearchFindsTheByte ==
  ASSUME SizesFit
  PROVE  Spec => []FindIsConcatenation
<1>1. PICK largest \in Nat : /\ \A e \in Entries : e.size <= largest
                             /\ MaxWriteOps * largest < SizeMod
  BY DEF SizesFit
<1>2. Init => SearchInv(largest)
  BY EmptyBufferShape
  DEF Init, SearchInv, RingInv, TypeOK, UnusedAreEmpty, SizesUpTo, EmptyBuffer
<1>3. SearchInv(largest) /\ [Next]_circ_buffer => SearchInv(largest)'
  <2> SUFFICES ASSUME SearchInv(largest), [Next]_circ_buffer PROVE SearchInv(largest)'
    OBVIOUS
  <2>1. CASE Next
    <3>1. PICK e \in Entries : Add(e)
      BY <2>1 DEF Next
    <3> DEFINE b == circ_buffer
               after == AddEntry(b, e)
    <3>2. /\ b \in Buffer /\ RingShape(b) /\ e \in Entry /\ e.size <= largest
          /\ UnusedAreEmpty(b) /\ SizesUpTo(b, largest)
      BY <1>1, EntriesAssumption DEF SearchInv, RingInv, TypeOK
    <3>3. after \in Buffer /\ RingShape(after)
      BY <3>2, AddEntryShape
    <3>4. UnusedAreEmpty(after)
      BY <3>2, AddEntryUnused
    <3>5. SizesUpTo(after, largest)
      BY <3>2 DEF SizesUpTo, AddEntry, Buffer
    <3> HIDE DEF after
    <3> QED BY <3>1, <3>3, <3>4, <3>5 DEF SearchInv, RingInv, TypeOK, Add, after
  <2>2. CASE UNCHANGED circ_buffer
    BY <2>2 DEF SearchInv, RingInv, TypeOK, UnusedAreEmpty, SizesUpTo
  <2> QED BY <2>1, <2>2
<1>4. SearchInv(largest) => FindIsConcatenation
  <2> SUFFICES ASSUME SearchInv(largest), NEW pos \in Positions
               PROVE  FindEntryOffset(circ_buffer, pos) =
                        IF pos < Len(Concatenated(circ_buffer))
                          THEN {Concatenated(circ_buffer)[pos + 1]} ELSE {}
    BY DEF FindIsConcatenation
  <2>1. /\ circ_buffer \in Buffer /\ RingShape(circ_buffer)
        /\ UnusedAreEmpty(circ_buffer) /\ SizesUpTo(circ_buffer, largest)
    BY DEF SearchInv, RingInv, TypeOK
  <2>2. TotalFits(circ_buffer)
    BY <2>1, <1>1, SmallEntriesFit
  <2>3. pos \in Nat
    BY PositionsAssumption
  <2> QED BY <2>1, <2>2, <2>3, SearchIsLookup, Zenon
<1> QED BY <1>2, <1>3, <1>4, PTL DEF Spec
=============================================================================
