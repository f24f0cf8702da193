----------------------------- MODULE MCAesdChar -----------------------------
(***************************************************************************)
(* TLC instances of AesdChar.                                              *)
(***************************************************************************)
EXTENDS AesdChar, FiniteSetsExt

CONSTANTS t1, t2, f1, f2

OneTask  == (t1 :> f1)
OneFile  == (t1 :> f1 @@ t2 :> f1)
TwoFiles == (t1 :> f1 @@ t2 :> f2)

\* A packet of one byte, a piece of one byte, a packet of two bytes, and a
\* packet of one byte followed by a byte that is dropped.
MCWrites == {[count |-> 1, newline |-> 1], [count |-> 1, newline |-> 0],
             [count |-> 2, newline |-> 2], [count |-> 2, newline |-> 1]}
SmallWrites == {[count |-> 1, newline |-> 0], [count |-> 1, newline |-> 1],
                [count |-> 2, newline |-> 2]}

LinesOf1And2 == {[count |-> 1, newline |-> 1], [count |-> 2, newline |-> 2]}
LineOf128 == {[count |-> 128, newline |-> 128]}
PieceAndLine == {[count |-> 1, newline |-> 0], [count |-> 1, newline |-> 1]}

Symmetry == Permutations(Tasks)   \* tasks of one open file are alike

MCSeekArgs == [write_cmd : 0..MaxWriteOps, write_cmd_offset : 0..1]
OneSeekArg == {[write_cmd |-> 1, write_cmd_offset |-> 0]}
OneLSeekArg == {[off |-> -1, whence |-> "SEEK_END"]}
MCLSeekArgs == {[off |-> 1, whence |-> "SEEK_SET"], [off |-> 1, whence |-> "SEEK_CUR"],
                [off |-> -1, whence |-> "SEEK_END"]}
=============================================================================
