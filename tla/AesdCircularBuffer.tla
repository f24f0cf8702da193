------------------------- MODULE AesdCircularBuffer -------------------------
(***************************************************************************)
(* The circular buffer of aesd-char-driver/aesd-circular-buffer.[ch]: an   *)
(* array of MaxWriteOps entries, each a pointer and a byte count, with the *)
(* slot of the next write (in_offs) and of the oldest entry (out_offs).    *)
(*                                                                         *)
(* This module has no variables.  It defines the C functions as operators  *)
(* on a buffer value; CircularBufferSpec runs them on their own and        *)
(* AesdChar runs them inside the driver.                                   *)
(*                                                                         *)
(* A pointer to an entry is its slot: what a returned pointer refers to is *)
(* read from the buffer at the time of use, so aliasing is kept.  A        *)
(* function that returns a pointer or NULL returns a set of at most one.   *)
(***************************************************************************)
EXTENDS Integers, SequencesExt

CONSTANTS
  MaxWriteOps,   \* AESDCHAR_MAX_WRITE_OPERATIONS_SUPPORTED, 10 in the code
  SizeMod        \* the number of values of a size_t, 2^64 or 2^32 in a build

\* in_offs and out_offs are uint8_t and are compared with MaxWriteOps after
\* the increment, so the array cannot have more than 255 entries.
ASSUME BufferAssumption ==
  /\ MaxWriteOps \in 1..255
  /\ SizeMod \in Nat \ {0}

NULL == 0                         \* the null pointer; blocks are 1, 2, ...
Slots == 0..(MaxWriteOps - 1)
Entry == [buffptr : Nat, size : Nat]

Buffer == [entry : [Slots -> Entry], in_offs : Slots, out_offs : Slots, full : BOOLEAN]

EmptyBuffer ==
  [entry |-> [i \in Slots |-> [buffptr |-> NULL, size |-> 0]],
   in_offs |-> 0, out_offs |-> 0, full |-> FALSE]

NextSlotNoReset(i) == IF i = MaxWriteOps THEN 0 ELSE i + 1  \* mutant: late reset

\* offs++, back to 0 when it reaches the end of the array.
NextSlot(i) == IF i + 1 = MaxWriteOps THEN 0 ELSE i + 1

\* The slot the k-th round of the search visits (k = 0 is the oldest entry).
ReadSlot(b, k) ==
  IF b.out_offs + k < MaxWriteOps THEN b.out_offs + k ELSE b.out_offs + k - MaxWriteOps

\* BytesThrough(b)[k]: total_bytes after k rounds of the search.
BytesThrough(b) ==
  LET total[k \in 0..MaxWriteOps] ==
        IF k = 0 THEN 0 ELSE (total[k - 1] + b.entry[ReadSlot(b, k - 1)].size) % SizeMod
  IN  total

HitsInclusive(b, char_offset) ==   \* mutant: <= instead of <
  {k \in 1..MaxWriteOps : char_offset <= BytesThrough(b)[k]}

\* The rounds at which the search would stop: the total passes char_offset.
Hits(b, char_offset) ==
  {k \in 1..MaxWriteOps : char_offset < BytesThrough(b)[k]}

\* aesd_circular_buffer_find_entry_offset_for_fpos: the entry that holds byte
\* char_offset and the byte's offset in it, or nothing.  The search stops at
\* the first hit.
FindEntryOffset(b, char_offset) ==
  LET hits == Hits(b, char_offset)
  IN  {[slot   |-> ReadSlot(b, k - 1),
        offset |-> (char_offset - BytesThrough(b)[k - 1]) % SizeMod] :
          k \in {j \in hits : \A i \in hits : j <= i}}

\* The pointer aesd_circular_buffer_add_entry returns: the slot of the oldest
\* entry when the buffer was full.  The same call stores the new entry there.
Overwritten(b) == IF b.full THEN {b.out_offs} ELSE {}

AddEntryKeepOut(b, e) ==         \* mutant: out_offs does not move when full
  LET in == NextSlot(b.in_offs)
  IN  [b EXCEPT !.entry[b.in_offs] = e, !.in_offs = in,
                !.full = b.full \/ in = b.out_offs]

\* What aesd_circular_buffer_add_entry leaves in the buffer.
AddEntry(b, e) ==
  LET out == IF b.full THEN NextSlot(b.out_offs) ELSE b.out_offs
      in  == NextSlot(b.in_offs)
  IN  [entry    |-> [b.entry EXCEPT ![b.in_offs] = e],
       in_offs  |-> in,
       out_offs |-> out,
       full     |-> b.full \/ in = out]

-----------------------------------------------------------------------------
(***************************************************************************)
(* How a reader of the code describes a buffer: the entries it holds, from *)
(* the oldest to the newest.                                               *)
(***************************************************************************)
Held(b) == IF b.full THEN MaxWriteOps ELSE b.in_offs

Contents(b) == [k \in 1..Held(b) |-> b.entry[ReadSlot(b, k - 1)]]

\* The bytes of all entries end to end, each named by its slot and offset.
Concatenated(b) ==
  FlattenSeq([k \in 1..Held(b) |->
    [j \in 1..Contents(b)[k].size |-> [slot |-> ReadSlot(b, k - 1), offset |-> j - 1]]])

\* The offsets agree with the flag: nothing has been dropped before the
\* buffer is full, and a full buffer writes next where it reads first.
RingShape(b) == IF b.full THEN b.in_offs = b.out_offs ELSE b.out_offs = 0
=============================================================================
