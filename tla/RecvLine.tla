------------------------------ MODULE RecvLine ------------------------------
(***************************************************************************)
(* The receive loop of thread_socket (server/aesdsocket.c): a line is      *)
(* collected in a storage buffer that grows by INIT_BUF_SIZE with every    *)
(* chunk that holds no newline.                                            *)
(*                                                                         *)
(* Byte i that the client sends is the number i, so that lost, moved and   *)
(* overwritten bytes show; Garbage is memory nobody wrote.  What a chunk   *)
(* holds after the newline is never used and is left out.                  *)
(***************************************************************************)
EXTENDS Integers, Sequences

CONSTANTS
  INIT_BUF_SIZE,   \* the size of a chunk, and of the steps the storage grows in
  Lengths          \* the number of bytes a client may send, the newline included

ASSUME ChunkAssumption == INIT_BUF_SIZE \in Nat \ {0}
ASSUME LengthAssumption == Lengths \subseteq Nat \ {0}

VARIABLES
  length, newline,   \* what the client sends: how much, and whether a newline ends it
  received,          \* the bytes recv has handed out
  storage_buffer,
  storage_buffer_size,
  storage_buffer_size_cnt,
  bytes_to_write,
  at,                \* "malloc", "recv", and then "line" (complete_flag) or "error"
  short, failed      \* history: a chunk was not full; a realloc failed

client  == <<length, newline>>
storage == <<storage_buffer, storage_buffer_size, storage_buffer_size_cnt>>
history == <<short, failed>>
vars    == <<client, received, storage, bytes_to_write, at, history>>

Garbage == 0

Init ==
  /\ length \in Lengths /\ newline \in BOOLEAN
  /\ received = 0
  /\ storage_buffer = <<>> /\ storage_buffer_size = 0 /\ storage_buffer_size_cnt = 1
  /\ bytes_to_write = 0
  /\ at = "malloc"
  /\ short = FALSE /\ failed = FALSE

Unwritten == [i \in 1..INIT_BUF_SIZE |-> Garbage]

Malloc ==
  /\ at = "malloc"
  /\ storage_buffer' = Unwritten
  /\ storage_buffer_size' = INIT_BUF_SIZE
  /\ at' = "recv"
  /\ UNCHANGED <<client, received, storage_buffer_size_cnt, bytes_to_write, history>>

MallocFails ==
  /\ at = "malloc"
  /\ at' = "error"
  /\ UNCHANGED <<client, received, storage, bytes_to_write, history>>

\* Where the next chunk is copied to, and the storage with n more bytes there.
Offset == (storage_buffer_size_cnt - 1) * INIT_BUF_SIZE
Copied(n) ==
  [i \in 1..storage_buffer_size |->
     IF Offset < i /\ i <= Offset + n THEN received + i - Offset ELSE storage_buffer[i]]

\* What recv may return: a stream hands out any part of what has been sent.
Chunks == 1..(IF INIT_BUF_SIZE < length - received THEN INIT_BUF_SIZE ELSE length - received)
HoldsNewline(n) == newline /\ received + n = length

\* A chunk without a newline is copied, and the storage grows.
Collect(n) ==
  /\ at = "recv" /\ ~HoldsNewline(n)
  /\ received' = received + n
  /\ storage_buffer' = Copied(n) \o Unwritten
  /\ storage_buffer_size' = storage_buffer_size + INIT_BUF_SIZE
  /\ storage_buffer_size_cnt' = storage_buffer_size_cnt + 1
  /\ short' = (short \/ n < INIT_BUF_SIZE)
  /\ UNCHANGED <<client, bytes_to_write, at, failed>>

CollectNoMemoryCounted(n) ==   \* mutant: the chunk is counted though realloc failed
  /\ at = "recv" /\ ~HoldsNewline(n)
  /\ received' = received + n
  /\ storage_buffer' = Copied(n)
  /\ storage_buffer_size_cnt' = storage_buffer_size_cnt + 1
  /\ short' = (short \/ n < INIT_BUF_SIZE)
  /\ failed' = TRUE
  /\ UNCHANGED <<client, storage_buffer_size, bytes_to_write, at>>

\* ... unless realloc fails: the next chunk is copied over this one.
CollectNoMemory(n) ==
  /\ at = "recv" /\ ~HoldsNewline(n)
  /\ received' = received + n
  /\ storage_buffer' = Copied(n)
  /\ short' = (short \/ n < INIT_BUF_SIZE)
  /\ failed' = TRUE
  /\ UNCHANGED <<client, storage_buffer_size, storage_buffer_size_cnt, bytes_to_write, at>>

CompleteAll(n) ==       \* mutant: the whole chunk size is counted
  /\ at = "recv" /\ HoldsNewline(n)
  /\ received' = received + n
  /\ storage_buffer' = Copied(n)
  /\ bytes_to_write' = storage_buffer_size
  /\ at' = "line"
  /\ UNCHANGED <<client, storage_buffer_size, storage_buffer_size_cnt, history>>

CompleteAtStart(n) ==   \* mutant: the last chunk is copied to the start
  /\ at = "recv" /\ HoldsNewline(n)
  /\ received' = received + n
  /\ storage_buffer' = [i \in 1..storage_buffer_size |->
                          IF i <= n THEN received + i ELSE storage_buffer[i]]
  /\ bytes_to_write' = Offset + n
  /\ at' = "line"
  /\ UNCHANGED <<client, storage_buffer_size, storage_buffer_size_cnt, history>>

\* A chunk with the newline: it is copied up to there, and the line is complete.
Complete(n) ==
  /\ at = "recv" /\ HoldsNewline(n)
  /\ received' = received + n
  /\ storage_buffer' = Copied(n)
  /\ bytes_to_write' = Offset + n
  /\ at' = "line"
  /\ UNCHANGED <<client, storage_buffer_size, storage_buffer_size_cnt, history>>

\* recv returns 0, when the client has closed without a newline, or -1: the
\* thread ends without a line.
NoLine ==
  /\ at = "recv"
  /\ at' = "error"
  /\ UNCHANGED <<client, received, storage, bytes_to_write, history>>

Next == \/ Malloc \/ MallocFails \/ NoLine
        \/ \E n \in Chunks : Collect(n) \/ CollectNoMemory(n) \/ Complete(n)

Spec == Init /\ [][Next]_vars

-----------------------------------------------------------------------------
Line == SubSeq(storage_buffer, 1, bytes_to_write)

\* Whatever recv returns and however often realloc has failed, the next chunk
\* fits in the storage, and so does the line that is written.
StorageInBounds ==
  /\ at = "recv" => Offset + INIT_BUF_SIZE <= storage_buffer_size
  /\ at = "line" => bytes_to_write <= storage_buffer_size
  /\ Len(storage_buffer) = storage_buffer_size

\* While the storage grows no byte is lost and none changes its order: every
\* byte sent is in the line, after the bytes sent before it, though a short
\* chunk leaves a gap behind it.
BytesInOrder ==
  at = "line" /\ ~failed =>
    /\ \A b \in 1..length : \E i \in 1..bytes_to_write : storage_buffer[i] = b
    /\ \A i, j \in 1..bytes_to_write :
         i < j /\ storage_buffer[j] # Garbage => storage_buffer[i] < storage_buffer[j]

\* With full chunks and memory the line is what the client sent.
FullChunksMakeTheLine ==
  at = "line" /\ ~short /\ ~failed => Line = [i \in 1..length |-> i]

\* "If transmission is complete, Copy to local fd and then rewrite/resend it
\* back to client": with memory, the line that is copied is what the client
\* transmitted, however the network has cut it up.
LineIsWhatWasSent ==
  at = "line" /\ ~failed => Line = [i \in 1..length |-> i]
=============================================================================
