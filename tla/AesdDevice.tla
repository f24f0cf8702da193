----------------------------- MODULE AesdDevice -----------------------------
(***************************************************************************)
(* What /dev/aesdchar promises its users, with none of the driver's        *)
(* buffers, offsets or allocations: writes are collected until one holds a *)
(* newline, the device keeps the latest Bound packets, and a read hands    *)
(* out the packets end to end from the reader's position.                  *)
(***************************************************************************)
EXTENDS Integers, SequencesExt

CONSTANTS Tasks, Bound, Payloads   \* Payloads: what one write may offer

VARIABLES
  log,        \* the packets kept, oldest first, each a sequence of bytes
  pending,    \* the bytes written since the last newline
  view        \* view[t]: what t sees: whether it is reading or back from a
              \* call, its position, and the bytes its read returned

vars == <<log, pending, view>>

Stream == FlattenSeq(log)

Init ==
  /\ log = <<>>
  /\ pending = <<>>
  /\ view = [t \in Tasks |-> [status |-> "other", pos |-> 0, data |-> <<>>]]

Sees(t, status, pos, data) ==
  view' = [view EXCEPT ![t] = [status |-> status, pos |-> pos, data |-> data]]

\* A write without a newline adds to the packet being collected.
Collect(t, p) ==
  /\ p.newline = 0
  /\ pending' = pending \o p.bytes
  /\ Sees(t, "back", view[t].pos, <<>>)
  /\ UNCHANGED log

\* A write with a newline ends the packet there.  The bytes after the newline
\* are not kept.
Commit(t, p) ==
  /\ p.newline > 0
  /\ log' = Append(IF Len(log) = Bound THEN Tail(log) ELSE log,
                   pending \o SubSeq(p.bytes, 1, p.newline))
  /\ pending' = <<>>
  /\ Sees(t, "back", view[t].pos, <<>>)

\* A read returns bytes of the stream from the position and moves past them;
\* it returns nothing only at the end, and goes back to the start.
Read(t) ==
  LET from == view[t].pos
      rest == Len(Stream) - from
  IN  /\ view[t].status = "reading"
      /\ \/ rest > 0 /\ \E n \in 1..rest :
               Sees(t, "back", from + n, SubSeq(Stream, from + 1, from + n))
         \/ rest <= 0 /\ Sees(t, "back", 0, <<>>)
      /\ UNCHANGED <<log, pending>>

\* Any other step of a call of t, a failed call included, returns no data.
Position(t) ==
  /\ ~(view[t].status = "reading" /\ view'[t].status = "back")
  /\ Sees(t, view'[t].status, view'[t].pos, <<>>)
  /\ UNCHANGED <<log, pending>>

\* The module is unloaded or loaded: the device is empty.
Reset ==
  /\ log' = <<>>
  /\ pending' = <<>>
  /\ UNCHANGED view

Next ==
  \/ \E t \in Tasks : \/ \E p \in Payloads : Collect(t, p) \/ Commit(t, p)
                      \/ Read(t) \/ Position(t)
  \/ Reset

Spec == Init /\ [][Next]_vars
=============================================================================
