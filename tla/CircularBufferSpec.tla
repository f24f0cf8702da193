------------------------- MODULE CircularBufferSpec -------------------------
(***************************************************************************)
(* The circular buffer on its own: any sequence of calls of                *)
(* aesd_circular_buffer_add_entry on a buffer that                         *)
(* aesd_circular_buffer_init has set up, under the caller's lock.          *)
(***************************************************************************)
EXTENDS AesdCircularBuffer

CONSTANTS
  Entries,      \* the entries the callers add
  Positions     \* the positions the callers search for

ASSUME EntriesAssumption == Entries \subseteq Entry
ASSUME PositionsAssumption == Positions \subseteq Nat

VARIABLE circ_buffer

Init == circ_buffer = EmptyBuffer

Add(e) == circ_buffer' = AddEntry(circ_buffer, e)

Next == \E e \in Entries : Add(e)

Spec == Init /\ [][Next]_circ_buffer

-----------------------------------------------------------------------------
\* The fields stay in the ranges their C types and the resets give them.
TypeOK == circ_buffer \in Buffer

\* in_offs, out_offs and full never contradict each other: the wrap of the
\* two offsets in aesd_circular_buffer_add_entry keeps them together once the
\* buffer is full, and nothing is skipped before.
RingInv == TypeOK /\ RingShape(circ_buffer)

\* The search of aesd_circular_buffer_find_entry_offset_for_fpos returns, for
\* every position, the byte at that position of the concatenation of the
\* entries, and NULL beyond it, whatever the wrap of the offsets and also
\* past entries of no bytes.
FindIsConcatenation ==
  LET all == Concatenated(circ_buffer)
  IN  \A pos \in Positions :
        FindEntryOffset(circ_buffer, pos) =
          IF pos < Len(all) THEN {all[pos + 1]} ELSE {}

\* However many entries have been added, the buffer read from out_offs holds
\* exactly the latest MaxWriteOps of them in order: the buffer implements
\* LatestWrites.
Latest == INSTANCE LatestWrites
            WITH Bound <- MaxWriteOps, log <- Contents(circ_buffer)
KeepsLatestWrites == Latest!Spec
=============================================================================
