-------------------------- MODULE Programs_proofs ---------------------------
(***************************************************************************)
(* Proofs about the receive loop, for any chunk size and any line, about   *)
(* the thread example, for any number of threads, and about the service    *)
(* and the system call example, for runs of any length.                    *)
(***************************************************************************)
EXTENDS MCPrograms, SequenceTheorems, TLAPS

-----------------------------------------------------------------------------
(***************************************************************************)
(* The receive loop of aesdsocket.c.                                       *)
(***************************************************************************)
LineTypeInv ==
  /\ length \in Nat \ {0} /\ newline \in BOOLEAN
  /\ received \in Nat /\ received <= length
  /\ storage_buffer \in Seq(Nat)
  /\ storage_buffer_size \in Nat
  /\ storage_buffer_size_cnt \in Nat \ {0}
  /\ bytes_to_write \in Nat
  /\ at \in {"malloc", "recv", "line", "error"}
  /\ short \in BOOLEAN /\ failed \in BOOLEAN

\* The storage has room for as many chunks as are counted.
Sizes ==
  /\ Len(storage_buffer) = storage_buffer_size
  /\ at = "malloc" => /\ storage_buffer_size_cnt = 1 /\ received = 0
                      /\ ~failed
  /\ at = "recv" => Offset + INIT_BUF_SIZE = storage_buffer_size
  /\ at = "line" => bytes_to_write <= storage_buffer_size

\* What has been received lies in order below Offset, and nothing above it.
Collected ==
  at = "recv" /\ ~failed =>
    /\ \A b \in 1..received : \E i \in 1..Offset : storage_buffer[i] = b
    /\ \A i \in 1..Offset : storage_buffer[i] <= received
    /\ \A i, j \in 1..Offset :
         i < j /\ storage_buffer[j] # Garbage => storage_buffer[i] < storage_buffer[j]
    /\ \A i \in (Offset + 1)..storage_buffer_size : storage_buffer[i] = Garbage

\* With full chunks byte i lies at place i.
Aligned ==
  at = "recv" /\ ~short /\ ~failed =>
    /\ received = Offset
    /\ \A i \in 1..received : storage_buffer[i] = i

LineInv == LineTypeInv /\ Sizes /\ Collected /\ Aligned

-----------------------------------------------------------------------------
\* Offset, as the number that the counted chunks make.
LEMMA OffsetType ==
  ASSUME LineTypeInv
  PROVE  /\ Offset \in Nat
         /\ storage_buffer_size_cnt = 1 => Offset = 0
BY ChunkAssumption, SMT DEF LineTypeInv, Offset

\* Counting one more chunk moves Offset by the size of a chunk.
LEMMA OffsetMoves ==
  ASSUME LineTypeInv, storage_buffer_size_cnt' = storage_buffer_size_cnt + 1
  PROVE  Offset' = Offset + INIT_BUF_SIZE
BY ChunkAssumption, SMT DEF LineTypeInv, Offset

\* What memory fresh from malloc is.
LEMMA UnwrittenType ==
  /\ Unwritten \in Seq(Nat) /\ Len(Unwritten) = INIT_BUF_SIZE
  /\ \A i \in 1..INIT_BUF_SIZE : Unwritten[i] = Garbage
BY ChunkAssumption DEF Unwritten, Garbage

\* The copy of a chunk changes the INIT_BUF_SIZE bytes from Offset at most.
LEMMA CopiedType ==
  ASSUME LineTypeInv, Sizes, at = "recv", NEW n \in Chunks
  PROVE  /\ n \in 1..INIT_BUF_SIZE /\ received + n <= length
         /\ Copied(n) \in Seq(Nat) /\ Len(Copied(n)) = storage_buffer_size
         /\ \A i \in 1..Offset : Copied(n)[i] = storage_buffer[i]
         /\ \A i \in (Offset + 1)..(Offset + n) : Copied(n)[i] = received + i - Offset
         /\ \A i \in (Offset + n + 1)..storage_buffer_size :
              Copied(n)[i] = storage_buffer[i]
<1>1. n \in 1..INIT_BUF_SIZE /\ received + n <= length
  BY ChunkAssumption DEF Chunks, LineTypeInv
<1>2. Offset \in Nat /\ storage_buffer_size \in Nat
      /\ Offset + INIT_BUF_SIZE = storage_buffer_size
      /\ Len(storage_buffer) = storage_buffer_size
  BY OffsetType DEF Sizes, LineTypeInv
<1> DEFINE f(i) == IF Offset < i /\ i <= Offset + n THEN received + i - Offset
                   ELSE storage_buffer[i]
<1>3. \A i \in 1..storage_buffer_size : f(i) \in Nat
  <2> SUFFICES ASSUME NEW i \in 1..storage_buffer_size PROVE f(i) \in Nat
    OBVIOUS
  <2>1. storage_buffer[i] \in Nat
    BY <1>2 DEF LineTypeInv
  <2>2. QED
    BY <1>1, <1>2, <2>1, ChunkAssumption DEF LineTypeInv
<1>4. Copied(n) = [i \in 1..storage_buffer_size |-> f(i)]
  BY DEF Copied
<1>5. Copied(n) \in Seq(Nat) /\ Len(Copied(n)) = storage_buffer_size
  <2> HIDE DEF f
  <2>1. QED
    BY <1>2, <1>3, <1>4
<1>6. \A i \in 1..storage_buffer_size : Copied(n)[i] = f(i)
  BY <1>4
<1>7. QED
  BY <1>1, <1>2, <1>5, <1>6, ChunkAssumption

-----------------------------------------------------------------------------
LEMMA InitLine == Init => LineInv
<1> SUFFICES ASSUME Init PROVE LineInv
  OBVIOUS
<1>1. LineTypeInv
  <2>1. length \in Nat \ {0} /\ received = 0 /\ received <= length
    BY LengthAssumption DEF Init
  <2>2. storage_buffer \in Seq(Nat)
    BY DEF Init
  <2>3. /\ received \in Nat /\ storage_buffer_size \in Nat /\ bytes_to_write \in Nat
        /\ storage_buffer_size_cnt \in Nat \ {0}
    BY DEF Init
  <2>4. newline \in BOOLEAN /\ short \in BOOLEAN /\ failed \in BOOLEAN
    BY DEF Init
  <2>5. at \in {"malloc", "recv", "line", "error"}
    BY DEF Init
  <2>6. QED
    BY <2>1, <2>2, <2>3, <2>4, <2>5, Zenon DEF LineTypeInv
<1>2. Sizes
  BY DEF Init, Sizes
<1>3. Collected /\ Aligned
  BY DEF Init, Collected, Aligned
<1>4. QED
  BY <1>1, <1>2, <1>3 DEF LineInv

LEMMA MallocLine ==
  ASSUME LineInv, Malloc
  PROVE  LineInv'
<1> USE DEF LineInv, Malloc, client, history
<1>1. LineTypeInv'
  BY UnwrittenType, ChunkAssumption DEF LineTypeInv
<1>2. Offset' = 0 /\ received' = 0
  BY <1>1, OffsetType DEF Sizes, LineTypeInv, Offset
<1>3. Sizes'
  BY <1>2, UnwrittenType, ChunkAssumption DEF Sizes, LineTypeInv
<1>4. Collected'
  BY <1>2, UnwrittenType, ChunkAssumption DEF Collected
<1>5. Aligned'
  BY <1>2, ChunkAssumption DEF Aligned
<1>6. QED
  BY <1>1, <1>3, <1>4, <1>5

\* A chunk without newline, copied and counted.
LEMMA CollectLine ==
  ASSUME LineInv, NEW n \in Chunks, Collect(n)
  PROVE  LineInv'
<1> DEFINE buf == Copied(n)
<1>1. /\ LineTypeInv /\ Sizes /\ Collected /\ Aligned
      /\ at = "recv" /\ at' = "recv" /\ failed' = failed
      /\ received' = received + n
      /\ storage_buffer' = buf \o Unwritten
      /\ storage_buffer_size' = storage_buffer_size + INIT_BUF_SIZE
      /\ storage_buffer_size_cnt' = storage_buffer_size_cnt + 1
      /\ short' = (short \/ n < INIT_BUF_SIZE)
      /\ length' = length /\ newline' = newline /\ bytes_to_write' = bytes_to_write
  BY DEF LineInv, Collect, client
<1>2. /\ n \in 1..INIT_BUF_SIZE /\ received + n <= length
      /\ buf \in Seq(Nat) /\ Len(buf) = storage_buffer_size
      /\ \A i \in 1..Offset : buf[i] = storage_buffer[i]
      /\ \A i \in (Offset + 1)..(Offset + n) : buf[i] = received + i - Offset
      /\ \A i \in (Offset + n + 1)..storage_buffer_size : buf[i] = storage_buffer[i]
  BY <1>1, CopiedType
<1> HIDE DEF buf
<1>3. /\ Offset \in Nat /\ Offset' = Offset + INIT_BUF_SIZE
      /\ Offset' = storage_buffer_size
      /\ INIT_BUF_SIZE \in Nat \ {0} /\ received \in Nat /\ length \in Nat
      /\ received' \in Nat /\ storage_buffer_size \in Nat
  BY <1>1, <1>2, OffsetType, OffsetMoves, ChunkAssumption DEF Sizes, LineTypeInv
<1>4. /\ storage_buffer' \in Seq(Nat)
      /\ Len(storage_buffer') = storage_buffer_size + INIT_BUF_SIZE
      /\ \A i \in 1..storage_buffer_size : storage_buffer'[i] = buf[i]
      /\ \A i \in (storage_buffer_size + 1)..(storage_buffer_size + INIT_BUF_SIZE) :
           storage_buffer'[i] = Garbage
  <2>1. /\ buf \in Seq(Nat) /\ Len(buf) = storage_buffer_size
        /\ Unwritten \in Seq(Nat) /\ Len(Unwritten) = INIT_BUF_SIZE
        /\ storage_buffer' = buf \o Unwritten
    BY <1>1, <1>2, UnwrittenType
  <2>2. /\ storage_buffer' \in Seq(Nat)
        /\ Len(storage_buffer') = storage_buffer_size + INIT_BUF_SIZE
        /\ \A i \in 1..(storage_buffer_size + INIT_BUF_SIZE) :
             storage_buffer'[i] = IF i <= storage_buffer_size
                                  THEN buf[i] ELSE Unwritten[i - storage_buffer_size]
    BY <2>1, ConcatProperties, Zenon
  <2>3. \A i \in 1..storage_buffer_size : storage_buffer'[i] = buf[i]
    BY <1>3, <2>2
  <2>4. ASSUME NEW i \in (storage_buffer_size + 1)..(storage_buffer_size + INIT_BUF_SIZE)
        PROVE  storage_buffer'[i] = Garbage
    <3>1. /\ i \in 1..(storage_buffer_size + INIT_BUF_SIZE) /\ ~(i <= storage_buffer_size)
          /\ i - storage_buffer_size \in 1..INIT_BUF_SIZE
      BY <1>3
    <3>2. QED
      BY <2>2, <3>1, UnwrittenType
  <2>5. QED
    BY <2>2, <2>3, <2>4
<1>5. LineTypeInv'
  BY <1>1, <1>2, <1>3, <1>4 DEF LineTypeInv
<1>6. Sizes'
  BY <1>1, <1>3, <1>4 DEF Sizes
<1>7. Collected'
  <2> SUFFICES ASSUME ~failed
               PROVE  /\ \A b \in 1..received' : \E i \in 1..Offset' : storage_buffer'[i] = b
                      /\ \A i \in 1..Offset' : storage_buffer'[i] <= received'
                      /\ \A i, j \in 1..Offset' :
                           i < j /\ storage_buffer'[j] # Garbage
                             => storage_buffer'[i] < storage_buffer'[j]
                      /\ \A i \in (Offset' + 1)..storage_buffer_size' :
                           storage_buffer'[i] = Garbage
    BY <1>1 DEF Collected, Garbage
  <2>1. /\ \A b \in 1..received : \E i \in 1..Offset : storage_buffer[i] = b
        /\ \A i \in 1..Offset : storage_buffer[i] <= received
        /\ \A i, j \in 1..Offset :
             i < j /\ storage_buffer[j] # Garbage => storage_buffer[i] < storage_buffer[j]
        /\ \A i \in (Offset + 1)..storage_buffer_size : storage_buffer[i] = Garbage
    BY <1>1 DEF Collected
  <2>2. /\ \A i \in 1..Offset : storage_buffer'[i] = storage_buffer[i]
        /\ \A i \in (Offset + 1)..(Offset + n) : storage_buffer'[i] = received + i - Offset
        /\ \A i \in (Offset + n + 1)..Offset' : storage_buffer'[i] = Garbage
    BY <1>2, <1>3, <1>4, <2>1, SMTT(30)
  <2>3. \A i \in 1..Offset : storage_buffer[i] \in Nat
    BY <1>1, <1>3 DEF LineTypeInv, Sizes
  <2>4. \A b \in 1..received' : \E i \in 1..Offset' : storage_buffer'[i] = b
    <3> SUFFICES ASSUME NEW b \in 1..received'
                 PROVE  \E i \in 1..Offset' : storage_buffer'[i] = b
      OBVIOUS
    <3>1. CASE b <= received
      <4>1. PICK i \in 1..Offset : storage_buffer[i] = b
        BY <1>3, <2>1, <3>1
      <4>2. i \in 1..Offset' /\ storage_buffer'[i] = b
        BY <1>3, <2>2, <4>1
      <4>3. QED
        BY <4>2
    <3>2. CASE b > received
      <4>1. Offset + (b - received) \in (Offset + 1)..(Offset + n)
        BY <1>1, <1>2, <1>3, <3>2
      <4>2. storage_buffer'[Offset + (b - received)] = b
        BY <1>3, <2>2, <4>1
      <4>3. Offset + (b - received) \in 1..Offset'
        BY <1>2, <1>3, <4>1
      <4>4. QED
        BY <4>2, <4>3
    <3>3. QED
      BY <1>3, <3>1, <3>2
  <2>5. \A i \in 1..Offset' : storage_buffer'[i] <= received'
    <3> SUFFICES ASSUME NEW i \in 1..Offset'
                 PROVE  storage_buffer'[i] <= received'
      OBVIOUS
    <3>1. CASE i <= Offset
      <4>1. i \in 1..Offset
        BY <1>3, <3>1
      <4>2. /\ storage_buffer'[i] = storage_buffer[i]
            /\ storage_buffer[i] \in Nat /\ storage_buffer[i] <= received
        BY <2>1, <2>2, <2>3, <4>1
      <4>3. received' = received + n /\ n \in Nat
        BY <1>1, <1>2, <1>3
      <4>4. QED
        BY <1>3, <4>2, <4>3
    <3>2. CASE i > Offset /\ i <= Offset + n
      BY <1>1, <1>2, <1>3, <2>2, <3>2
    <3>3. CASE i > Offset + n
      BY <1>1, <1>2, <1>3, <2>2, <3>3 DEF Garbage
    <3>4. QED
      BY <1>2, <1>3, <3>1, <3>2, <3>3
  <2>6. \A i, j \in 1..Offset' : i < j /\ storage_buffer'[j] # Garbage
          => storage_buffer'[i] < storage_buffer'[j]
    <3> SUFFICES ASSUME NEW i \in 1..Offset', NEW j \in 1..Offset',
                        i < j, storage_buffer'[j] # Garbage
                 PROVE  storage_buffer'[i] < storage_buffer'[j]
      OBVIOUS
    <3>1. j <= Offset + n
      BY <1>2, <1>3, <2>2
    <3>2. CASE j <= Offset
      BY <1>3, <2>1, <2>2, <3>2
    <3>3. CASE j > Offset /\ i <= Offset
      <4>1. i \in 1..Offset /\ j \in (Offset + 1)..(Offset + n)
        BY <1>2, <1>3, <3>1, <3>3
      <4>2. /\ storage_buffer'[i] = storage_buffer[i]
            /\ storage_buffer[i] \in Nat /\ storage_buffer[i] <= received
            /\ storage_buffer'[j] = received + j - Offset
        BY <2>1, <2>2, <2>3, <4>1
      <4>3. QED
        BY <1>3, <3>3, <4>1, <4>2
    <3>4. CASE j > Offset /\ i > Offset
      BY <1>2, <1>3, <2>2, <3>1, <3>4
    <3>5. QED
      BY <1>3, <3>2, <3>3, <3>4
  <2>7. \A i \in (Offset' + 1)..storage_buffer_size' : storage_buffer'[i] = Garbage
    BY <1>1, <1>3, <1>4
  <2>8. QED
    BY <2>4, <2>5, <2>6, <2>7
<1>8. Aligned'
  <2> SUFFICES ASSUME ~short', ~failed'
               PROVE  /\ received' = Offset'
                      /\ \A i \in 1..received' : storage_buffer'[i] = i
    BY DEF Aligned
  <2>0. ~short /\ ~failed /\ ~(n < INIT_BUF_SIZE)
    BY <1>1, Zenon
  <2>1. received = Offset /\ \A i \in 1..received : storage_buffer[i] = i
    BY <1>1, <2>0 DEF Aligned
  <2>2. received' = Offset'
    BY <1>1, <1>2, <1>3, <2>0, <2>1
  <2>3. QED
    BY <1>2, <1>3, <1>4, <2>0, <2>1, <2>2
<1>9. QED
  BY <1>5, <1>6, <1>7, <1>8 DEF LineInv

\* A chunk copied but not counted: only the sizes matter from here on.
LEMMA CollectNoMemoryLine ==
  ASSUME LineInv, NEW n \in Chunks, CollectNoMemory(n)
  PROVE  LineInv'
<1>1. /\ LineTypeInv /\ Sizes /\ at = "recv" /\ at' = at /\ failed' = TRUE
      /\ received' = received + n /\ storage_buffer' = Copied(n)
      /\ storage_buffer_size' = storage_buffer_size
      /\ storage_buffer_size_cnt' = storage_buffer_size_cnt
      /\ short' = (short \/ n < INIT_BUF_SIZE)
      /\ length' = length /\ newline' = newline /\ bytes_to_write' = bytes_to_write
  BY DEF LineInv, CollectNoMemory, client
<1>2. /\ n \in 1..INIT_BUF_SIZE /\ received + n <= length
      /\ storage_buffer' \in Seq(Nat) /\ Len(storage_buffer') = storage_buffer_size
  BY <1>1, CopiedType
<1>3. LineTypeInv'
  BY <1>1, <1>2 DEF LineTypeInv
<1>4. Offset' = Offset
  BY <1>1 DEF Offset
<1>5. Sizes'
  BY <1>1, <1>2, <1>4 DEF Sizes
<1>6. Collected' /\ Aligned'
  BY <1>1 DEF Collected, Aligned
<1>7. QED
  BY <1>3, <1>5, <1>6 DEF LineInv

\* The step that completes the line, with what it makes of the line.
LEMMA CompleteLine ==
  ASSUME LineInv, NEW n \in Chunks, Complete(n)
  PROVE  LineInv' /\ BytesInOrder' /\ FullChunksMakeTheLine'
<1> DEFINE buf == Copied(n)
<1>1. /\ LineTypeInv /\ Sizes /\ Collected /\ Aligned
      /\ at = "recv" /\ at' = "line" /\ failed' = failed /\ short' = short
      /\ received' = received + n /\ received + n = length
      /\ storage_buffer' = buf
      /\ storage_buffer_size' = storage_buffer_size
      /\ storage_buffer_size_cnt' = storage_buffer_size_cnt
      /\ length' = length /\ newline' = newline
      /\ bytes_to_write' = Offset + n
  BY DEF LineInv, Complete, HoldsNewline, client, history
<1>2. /\ n \in 1..INIT_BUF_SIZE
      /\ buf \in Seq(Nat) /\ Len(buf) = storage_buffer_size
      /\ \A i \in 1..Offset : buf[i] = storage_buffer[i]
      /\ \A i \in (Offset + 1)..(Offset + n) : buf[i] = received + i - Offset
  BY <1>1, CopiedType
<1> HIDE DEF buf
<1>3. /\ Offset \in Nat /\ Offset + INIT_BUF_SIZE = storage_buffer_size
      /\ INIT_BUF_SIZE \in Nat \ {0} /\ received \in Nat /\ length \in Nat
      /\ storage_buffer_size \in Nat
  BY <1>1, OffsetType, ChunkAssumption DEF Sizes, LineTypeInv
<1>4. LineTypeInv'
  BY <1>1, <1>2, <1>3 DEF LineTypeInv
<1>5. Sizes'
  BY <1>1, <1>2, <1>3 DEF Sizes
<1>6. Collected' /\ Aligned'
  BY <1>1 DEF Collected, Aligned
<1>7. BytesInOrder'
  <2> SUFFICES ASSUME ~failed
               PROVE  /\ \A b \in 1..length : \E i \in 1..(Offset + n) : buf[i] = b
                      /\ \A i, j \in 1..(Offset + n) :
                           i < j /\ buf[j] # Garbage => buf[i] < buf[j]
    BY <1>1 DEF BytesInOrder, Garbage
  <2>1. /\ \A b \in 1..received : \E i \in 1..Offset : storage_buffer[i] = b
        /\ \A i \in 1..Offset : storage_buffer[i] <= received
        /\ \A i, j \in 1..Offset :
             i < j /\ storage_buffer[j] # Garbage => storage_buffer[i] < storage_buffer[j]
    BY <1>1 DEF Collected
  <2>2. \A i \in 1..Offset : storage_buffer[i] \in Nat
    BY <1>1, <1>3 DEF LineTypeInv, Sizes
  <2>3. \A b \in 1..length : \E i \in 1..(Offset + n) : buf[i] = b
    <3> SUFFICES ASSUME NEW b \in 1..length
                 PROVE  \E i \in 1..(Offset + n) : buf[i] = b
      OBVIOUS
    <3>1. CASE b <= received
      <4>1. PICK i \in 1..Offset : storage_buffer[i] = b
        BY <1>3, <2>1, <3>1
      <4>2. i \in 1..(Offset + n) /\ buf[i] = b
        BY <1>2, <1>3, <4>1
      <4>3. QED
        BY <4>2
    <3>2. CASE b > received
      <4>1. Offset + (b - received) \in (Offset + 1)..(Offset + n)
        BY <1>1, <1>2, <1>3, <3>2
      <4>2. buf[Offset + (b - received)] = b
        BY <1>2, <1>3, <4>1
      <4>3. Offset + (b - received) \in 1..(Offset + n)
        BY <1>2, <1>3, <4>1
      <4>4. QED
        BY <4>2, <4>3
    <3>3. QED
      BY <1>3, <3>1, <3>2
  <2>4. \A i, j \in 1..(Offset + n) : i < j /\ buf[j] # Garbage => buf[i] < buf[j]
    <3> SUFFICES ASSUME NEW i \in 1..(Offset + n), NEW j \in 1..(Offset + n),
                        i < j, buf[j] # Garbage
                 PROVE  buf[i] < buf[j]
      OBVIOUS
    <3>1. CASE j <= Offset
      BY <1>2, <1>3, <2>1, <3>1
    <3>2. CASE j > Offset /\ i <= Offset
      <4>1. i \in 1..Offset /\ j \in (Offset + 1)..(Offset + n)
        BY <1>2, <1>3, <3>2
      <4>2. /\ buf[i] = storage_buffer[i]
            /\ storage_buffer[i] \in Nat /\ storage_buffer[i] <= received
            /\ buf[j] = received + j - Offset
        BY <1>2, <2>1, <2>2, <4>1
      <4>3. QED
        BY <1>3, <3>2, <4>1, <4>2
    <3>3. CASE j > Offset /\ i > Offset
      BY <1>2, <1>3, <3>3
    <3>4. QED
      BY <1>2, <1>3, <3>1, <3>2, <3>3
  <2>5. QED
    BY <2>3, <2>4
<1>8. FullChunksMakeTheLine'
  <2> SUFFICES ASSUME ~short, ~failed
               PROVE  SubSeq(buf, 1, Offset + n) = [i \in 1..length |-> i]
    BY <1>1 DEF FullChunksMakeTheLine, Line
  <2>1. received = Offset /\ \A i \in 1..received : storage_buffer[i] = i
    BY <1>1 DEF Aligned
  <2>2. Offset + n = length /\ length <= Len(buf)
    BY <1>1, <1>2, <1>3, <2>1
  <2>3. \A i \in 1..length : buf[i] = i
    BY <1>2, <1>3, <2>1, <2>2
  <2>4. QED
    BY <1>2, <1>3, <2>2, <2>3
<1>9. QED
  BY <1>4, <1>5, <1>6, <1>7, <1>8 DEF LineInv

-----------------------------------------------------------------------------
LineSafety == LineInv /\ BytesInOrder /\ FullChunksMakeTheLine

LEMMA NextLineSafety ==
  ASSUME LineSafety, [Next]_vars
  PROVE  LineSafety'
<1>1. CASE Malloc
  <2>1. at' = "recv"
    BY <1>1 DEF Malloc
  <2>2. QED
    BY <1>1, <2>1, MallocLine DEF LineSafety, BytesInOrder, FullChunksMakeTheLine
<1>2. CASE MallocFails \/ NoLine
  <2>1. /\ at' = "error"
        /\ UNCHANGED <<length, newline, received, storage_buffer, storage_buffer_size,
                       storage_buffer_size_cnt, bytes_to_write, short, failed>>
    BY <1>2 DEF MallocFails, NoLine, client, storage, history
  <2>2. LineInv'
    BY <2>1 DEF LineSafety, LineInv, LineTypeInv, Sizes, Collected, Aligned, Offset
  <2>3. QED
    BY <2>1, <2>2 DEF LineSafety, BytesInOrder, FullChunksMakeTheLine
<1>3. ASSUME NEW n \in Chunks, Collect(n) PROVE LineSafety'
  <2>1. at' = "recv"
    BY <1>3 DEF Collect
  <2>2. QED
    BY <1>3, <2>1, CollectLine DEF LineSafety, BytesInOrder, FullChunksMakeTheLine
<1>4. ASSUME NEW n \in Chunks, CollectNoMemory(n) PROVE LineSafety'
  <2>1. at' = "recv"
    BY <1>4 DEF CollectNoMemory
  <2>2. QED
    BY <1>4, <2>1, CollectNoMemoryLine DEF LineSafety, BytesInOrder, FullChunksMakeTheLine
<1>5. ASSUME NEW n \in Chunks, Complete(n) PROVE LineSafety'
  BY <1>5, CompleteLine DEF LineSafety
<1>6. CASE UNCHANGED vars
  BY <1>6 DEF LineSafety, LineInv, LineTypeInv, Sizes, Collected, Aligned, Offset, BytesInOrder,
              FullChunksMakeTheLine, Line, vars, client, storage, history
<1>7. QED
  BY <1>1, <1>2, <1>3, <1>4, <1>5, <1>6 DEF Next

\* The receive loop keeps its storage large enough and its line in order.
THEOREM LineSafetyHolds == Spec => []LineSafety
<1>1. Init => LineSafety
  BY InitLine DEF LineSafety, Init, BytesInOrder, FullChunksMakeTheLine
<1>2. LineSafety /\ [Next]_vars => LineSafety'
  BY NextLineSafety
<1>3. QED
  BY <1>1, <1>2, PTL DEF Spec

\* Whatever recv returns and however often realloc has failed, the memcpy of the
\* next chunk stays in the storage, and so does the line that is written.
THEOREM StorageStaysInBounds == Spec => []StorageInBounds
<1>1. LineSafety => StorageInBounds
  BY ChunkAssumption, OffsetType DEF LineSafety, LineInv, LineTypeInv, Sizes, StorageInBounds
<1>2. QED
  BY <1>1, LineSafetyHolds, PTL

\* While no realloc has failed the line holds every byte that the client sent, in
\* the order it was sent, however recv has cut it up.
THEOREM BytesStayInOrder == Spec => []BytesInOrder
<1>1. LineSafety => BytesInOrder
  BY DEF LineSafety
<1>2. QED
  BY <1>1, LineSafetyHolds, PTL

\* If, besides, every chunk without newline was full, the line is exactly what the
\* client sent.
THEOREM FullChunksMakeLines == Spec => []FullChunksMakeTheLine
<1>1. LineSafety => FullChunksMakeTheLine
  BY DEF LineSafety
<1>2. QED
  BY <1>1, LineSafetyHolds, PTL

-----------------------------------------------------------------------------
(***************************************************************************)
(* threading.c.                                                            *)
(***************************************************************************)
Places == {"none", "refused", "wait", "lock", "hold", "unlock", "ended", "joined"}

\* A thread reports only at its end, and the mutex is held by a thread that has
\* locked it.
MutexInv ==
  /\ thread \in [Threads -> Places]
  /\ thread_complete_success \in [Threads -> BOOLEAN]
  /\ mutex \in Threads \cup {Nobody}
  /\ \A t \in Threads :
       /\ thread_complete_success[t] => thread[t] \in {"ended", "joined"} /\ mutex # t
       /\ thread[t] \in {"hold", "unlock"} => mutex = t
  /\ mutex # Nobody => thread[mutex] \in {"hold", "unlock", "ended", "joined"}

LEMMA MutexInit == ThreadingInit => MutexInv
BY ThreadingAssumption DEF ThreadingInit, MutexInv, Places

LEMMA MutexStep ==
  ASSUME MutexInv, [ThreadingNext]_threadVars
  PROVE  MutexInv'
<1> USE ThreadingAssumption DEF MutexInv, Places, Goto
<1>1. ASSUME NEW t \in Threads, Start(t) PROVE MutexInv'
  BY <1>1 DEF Start
<1>2. ASSUME NEW t \in Threads, StartFails(t) PROVE MutexInv'
  BY <1>2 DEF StartFails
<1>3. ASSUME NEW t \in Threads, Join(t) PROVE MutexInv'
  BY <1>3 DEF Join
<1>4. ASSUME NEW t \in Threads, WaitToObtain(t) PROVE MutexInv'
  BY <1>4 DEF WaitToObtain
<1>5. ASSUME NEW t \in Threads, Lock(t) PROVE MutexInv'
  BY <1>5 DEF Lock
<1>6. ASSUME NEW t \in Threads, WaitToRelease(t) PROVE MutexInv'
  BY <1>6 DEF WaitToRelease
<1>7. ASSUME NEW t \in Threads, Unlock(t) PROVE MutexInv'
  BY <1>7 DEF Unlock
<1>8. ASSUME NEW t \in Threads, Fails(t) PROVE MutexInv'
  BY <1>8 DEF Fails
<1>9. CASE UNCHANGED threadVars
  BY <1>9 DEF threadVars
<1>10. QED
  BY <1>1, <1>2, <1>3, <1>4, <1>5, <1>6, <1>7, <1>8, <1>9 DEF ThreadingNext, ThreadStep

\* Whatever the number of threads and whichever call fails: a joiner that reads
\* TRUE in thread_complete_success knows that the thread has released the mutex.
THEOREM SuccessReleases == ThreadingSpec => []SuccessMeansReleased
<1>1. MutexInv /\ [ThreadingNext]_threadVars => MutexInv'
  BY MutexStep
<1>2. MutexInv => SuccessMeansReleased
  BY DEF MutexInv, SuccessMeansReleased
<1>3. QED
  BY MutexInit, <1>1, <1>2, PTL DEF ThreadingSpec

-----------------------------------------------------------------------------
(***************************************************************************)
(* aesdsocket-start-stop.sh.                                               *)
(***************************************************************************)
\* What the steps of a start that found the service stopped have achieved, one
\* after the other, with no daemon beside them.
FreshStartInv ==
  fresh => /\ script \in {"none", "load", "remove", "make", "spawn"}
           /\ script # "none" => daemon = "none"
           /\ script = "make" => node = "absent"
           /\ script = "spawn" => node = "device" /\ loaded

ServiceInv ==
  /\ script \in {"remove", "make"} => loaded
  /\ daemon \in {"none", "unlinking"} => fd = "none"
  /\ FreshStartInv
  /\ NodeNeedsModule /\ FreshStartServesDevice

LEMMA ServiceInit == V!Init => ServiceInv
BY DEF V!Init, ServiceInv, FreshStartInv, NodeNeedsModule, V!NodeNeedsModule,
       FreshStartServesDevice, V!FreshStartServesDevice

LEMMA ServiceStep ==
  ASSUME ServiceInv, V!Next
  PROVE  ServiceInv'
<1> USE DEF ServiceInv, FreshStartInv, NodeNeedsModule, V!NodeNeedsModule,
            FreshStartServesDevice, V!FreshStartServesDevice, V!Step
<1>1. CASE V!Start
  BY <1>1 DEF V!Start, V!Stopped
<1>2. CASE V!Load \/ V!LoadFails
  BY <1>2 DEF V!Load, V!LoadFails
<1>3. CASE V!RemoveNode \/ V!MakeNode
  BY <1>3 DEF V!RemoveNode, V!MakeNode
<1>4. CASE V!Spawn
  BY <1>4 DEF V!Spawn
<1>5. CASE V!Stop \/ V!Kill
  BY <1>5 DEF V!Stop, V!Kill
<1>6. CASE V!Unload \/ V!UnloadFails \/ V!RemoveStaleNode
  BY <1>6 DEF V!Unload, V!UnloadFails, V!RemoveStaleNode
<1>7. CASE V!OpenDevice \/ V!OpenFile \/ V!OpenFails
  BY <1>7 DEF V!OpenDevice, V!OpenFile, V!OpenFails
<1>8. CASE V!Close \/ V!Unlink
  BY <1>8 DEF V!Close, V!Unlink
<1>9. CASE V!Leave \/ V!Die
  BY <1>9 DEF V!Leave, V!Die
<1> QED
  BY <1>1, <1>2, <1>3, <1>4, <1>5, <1>6, <1>7, <1>8, <1>9
  DEF V!Next, V!ScriptStep, V!DaemonEnds

LEMMA ServiceInvHolds == ProgramsSpec => []ServiceInv
<1>1. ProgramsInit => ServiceInv
  BY ServiceInit DEF ProgramsInit
<1>2. ASSUME ServiceInv, UNCHANGED serviceVars PROVE ServiceInv'
  BY <1>2 DEF serviceVars, ServiceInv, FreshStartInv, NodeNeedsModule, V!NodeNeedsModule,
              FreshStartServesDevice, V!FreshStartServesDevice
<1>3. ServiceInv /\ [LineNext \/ ThreadNext \/ ServiceNext \/ CallNext]_allVars => ServiceInv'
  BY <1>2, ServiceStep DEF LineNext, ThreadNext, ServiceNext, CallNext, allVars
<1> QED BY <1>1, <1>3, PTL DEF ProgramsSpec

\* However often start and stop are called, in whatever order, and whatever the
\* daemon does beside them, no node of a module that is gone is left but inside
\* aesdchar_unload.
THEOREM NodesDieWithModule == ProgramsSpec => []NodeNeedsModule
<1>1. ServiceInv => NodeNeedsModule
  BY DEF ServiceInv
<1> QED BY <1>1, ServiceInvHolds, PTL

\* A start of the stopped service always ends in a daemon on the device: its
\* steps make the node before they spawn the daemon, and nobody else touches the
\* node in between.
THEOREM FreshStartsServe == ProgramsSpec => []FreshStartServesDevice
<1>1. ServiceInv => FreshStartServesDevice
  BY DEF ServiceInv
<1> QED BY <1>1, ServiceInvHolds, PTL

-----------------------------------------------------------------------------
(***************************************************************************)
(* systemcalls.c.                                                          *)
(***************************************************************************)
\* The child of do_exec and do_exec_redirect exits with 0 only as the command.
ChildInv ==
  /\ parent = "idle" => child = "none" /\ open_fd = {}
  /\ call = "system" => parent = "back"
  /\ child \in {"exec", "command"} => (call = "redirect" => stdout = "file")
  /\ child = "command" => ran
  /\ child \in {"none", "dup", "exec", "command"} => status = "running"
  /\ status = "zero" /\ call # "system" => ran /\ (call = "redirect" => stdout = "file")

\* The caller has TRUE only from a child that exited with 0, and holds the
\* output file only before it waits, or for ever after fork has failed.
CallerInv ==
  /\ result => parent = "back"
  /\ result /\ call # "system" => status = "zero" /\ child = "reaped"
  /\ "parent" \in open_fd =>
       parent = "close" \/ (parent = "back" /\ call = "redirect" /\ fault = "fork")
  /\ parent = "back" => child \in {"none", "reaped"} \/ fault = "wait"

CallInv == ChildInv /\ CallerInv

LEMMA CallInit == S!Init => CallInv
BY DEF S!Init, CallInv, ChildInv, CallerInv

LEMMA CallStepInv ==
  ASSUME CallInv, S!Next
  PROVE  CallInv'
<1> USE DEF CallInv, ChildInv, CallerInv, S!Returns, S!Ends
<1>1. ASSUME NEW c \in {"exec", "redirect"}, S!Fork(c) PROVE CallInv'
  BY <1>1 DEF S!Fork
<1>2. ASSUME NEW c \in {"exec", "redirect"}, S!ForkFails(c) PROVE CallInv'
  BY <1>2 DEF S!ForkFails
<1>3. CASE S!System
  BY <1>3 DEF S!System
<1>4. CASE S!OpenFails
  BY <1>4 DEF S!OpenFails
<1>5. CASE S!WaitFails
  BY <1>5 DEF S!WaitFails
<1>6. CASE S!CloseFile
  BY <1>6 DEF S!CloseFile
<1>7. CASE S!Wait
  BY <1>7 DEF S!Wait
<1>8. CASE S!Dup \/ S!DupFails
  BY <1>8 DEF S!Dup, S!DupFails
<1>9. CASE S!Execv \/ S!ExecvFails
  BY <1>9 DEF S!Execv, S!ExecvFails
<1>10. CASE S!CommandEnds
  BY <1>10 DEF S!CommandEnds
<1> QED
  BY <1>1, <1>2, <1>3, <1>4, <1>5, <1>6, <1>7, <1>8, <1>9, <1>10
  DEF S!Next, S!CallerStep, S!ChildStep

LEMMA CallInvHolds == ProgramsSpec => []CallInv
<1>1. ProgramsInit => CallInv
  BY CallInit DEF ProgramsInit
<1>2. ASSUME CallInv, UNCHANGED callVars PROVE CallInv'
  BY <1>2 DEF callVars, CallInv, ChildInv, CallerInv
<1>3. CallInv /\ [LineNext \/ ThreadNext \/ ServiceNext \/ CallNext]_allVars => CallInv'
  BY <1>2, CallStepInv DEF LineNext, ThreadNext, ServiceNext, CallNext, allVars
<1> QED BY <1>1, <1>3, PTL DEF ProgramsSpec

\* A TRUE of do_exec or do_exec_redirect means that the command was executed,
\* ended with 0 and wrote to the file, in every interleaving of the caller and
\* the child and with every call that can fail failing.
THEOREM TrueIsExecuted == ProgramsSpec => []TrueMeansExecuted
<1>1. CallInv => TrueMeansExecuted
  BY DEF CallInv, ChildInv, CallerInv, TrueMeansExecuted, S!TrueMeansExecuted
<1> QED BY <1>1, CallInvHolds, PTL

\* No child and no descriptor is left behind, but where waitpid or the fork of
\* do_exec_redirect has failed.
THEOREM CallsCleanUp == ProgramsSpec => []NothingLeftBehind
<1>1. CallInv => NothingLeftBehind
  BY DEF CallInv, CallerInv, NothingLeftBehind, S!NothingLeftBehind
<1> QED BY <1>1, CallInvHolds, PTL
=============================================================================
