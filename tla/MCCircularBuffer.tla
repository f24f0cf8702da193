-------------------------- MODULE MCCircularBuffer --------------------------
(***************************************************************************)
(* TLC instance of CircularBufferSpec.  Entries differ in size, size 0     *)
(* included, so that a wrong start, order or offset shows.                 *)
(***************************************************************************)
EXTENDS CircularBufferSpec

MCEntries == {[buffptr |-> s + 1, size |-> s] : s \in 0..2}

\* Every position of a full buffer of the largest entries, and one beyond.
MCPositions == 0..(2 * MaxWriteOps + 1)
=============================================================================
