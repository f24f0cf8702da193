---------------------------- MODULE LatestWrites ----------------------------
(***************************************************************************)
(* What the circular buffer promises (aesd-circular-buffer.h: "memory      *)
(* allocated for the most recent write operations"): the last Bound        *)
(* entries pushed, in the order they were pushed.                          *)
(***************************************************************************)
EXTENDS Integers, Sequences

CONSTANTS Bound, Entries

VARIABLE log

Push(e) ==
  log' = Append(IF Len(log) = Bound THEN Tail(log) ELSE log, e)

Init == log = <<>>
Next == \E e \in Entries : Push(e)
Spec == Init /\ [][Next]_log
=============================================================================
