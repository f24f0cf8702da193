--------------------- MODULE AesdCircularBuffer_proofs ---------------------
(***************************************************************************)
(* Lemmas about the operators of AesdCircularBuffer, for every MaxWriteOps *)
(* from 1 to 255: what adding an entry does to a well-formed buffer, and   *)
(* what the search for a byte returns.                                     *)
(***************************************************************************)
EXTENDS AesdCircularBuffer, SequenceTheorems, WellFoundedInduction, TLAPS

(***************************************************************************)
(* Induction.  A property of numbers is given as a set, so that no lemma   *)
(* takes an operator as its parameter.                                     *)
(***************************************************************************)
\* The natural numbers have no set of counterexamples without a least one:
\* induction, for a property given as a set.
LEMMA NatSetInduction ==
  ASSUME NEW S, 0 \in S, \A n \in Nat : n \in S => n + 1 \in S
  PROVE  Nat \subseteq S
<1> DEFINE less == {ss \in Nat \X Nat : ss[1] < ss[2]}
           rest == {n \in Nat : n \notin S}
<1> SUFFICES ASSUME rest # {} PROVE FALSE
  OBVIOUS
<1>1. IsWellFoundedOn(less, Nat)
  BY NatLessThanWellFounded DEF OpToRel
<1>2. PICK n \in rest : \A m \in rest : ~ (<<m, n>> \in less)
  <2>1. rest \subseteq Nat
    OBVIOUS
  <2> HIDE DEF rest, less
  <2> QED BY <1>1, <2>1, WFMin
<1>3. n \in Nat /\ n \notin S /\ n # 0
  OBVIOUS
<1>4. n - 1 \in Nat /\ n - 1 < n
  BY <1>3
<1>5. n - 1 \in S
  BY <1>2, <1>3, <1>4
<1> QED BY <1>3, <1>4, <1>5

\* A loop of N rounds over the values V, and its trace: f[k] is the value after
\* k rounds.  (The lemmas name their hypotheses so that the provers find them.)
IsLoop(N, V, first, round) ==
  N \in Nat /\ first \in V /\ round \in [0..(N - 1) -> [V -> V]]
IsTrace(f, N, V, first, round) ==
  f \in [0..N -> V] /\ f[0] = first /\ \A k \in 1..N : f[k] = round[k - 1][f[k - 1]]

LEMMA LoopHasTrace ==
  ASSUME NEW N, NEW V, NEW first, NEW round, IsLoop(N, V, first, round)
  PROVE  \E f : IsTrace(f, N, V, first, round)
<1> DEFINE good == {n \in Nat : n <= N => \E f : IsTrace(f, n, V, first, round)}
<1> USE DEF IsLoop
<1>1. 0 \in good
  <2>1. IsTrace([k \in 0..0 |-> first], 0, V, first, round)
    BY DEF IsTrace
  <2> QED BY <2>1
<1>2. ASSUME NEW n \in Nat, n \in good PROVE n + 1 \in good
  <2> SUFFICES ASSUME n + 1 <= N PROVE \E g : IsTrace(g, n + 1, V, first, round)
    OBVIOUS
  <2>1. PICK f : IsTrace(f, n, V, first, round)
    BY <1>2
  <2>2. round[n] \in [V -> V] /\ f[n] \in V
    BY <2>1 DEF IsTrace
  <2> DEFINE g == [k \in 0..(n + 1) |-> IF k = n + 1 THEN round[n][f[n]] ELSE f[k]]
  <2>3. g \in [0..(n + 1) -> V] /\ g[0] = first
    BY <2>1, <2>2 DEF IsTrace
  <2>4. ASSUME NEW k \in 1..(n + 1) PROVE g[k] = round[k - 1][g[k - 1]]
    <3>1. g[k - 1] = f[k - 1]
      OBVIOUS
    <3>2. CASE k = n + 1
      BY <3>1, <3>2
    <3>3. CASE k # n + 1
      BY <3>1, <3>3, <2>1 DEF IsTrace
    <3> QED BY <3>2, <3>3
  <2>5. IsTrace(g, n + 1, V, first, round)
    <3> HIDE DEF g
    <3> QED BY <2>3, <2>4 DEF IsTrace
  <2> QED BY <2>5
<1>3. N \in good
  <2> HIDE DEF good
  <2> QED BY <1>1, <1>2, NatSetInduction
<1> QED BY <1>3

\* Two functions that start alike and whose rounds keep them alike are the same.
InStep(f, g, N) ==
  /\ N \in Nat
  /\ f = [k \in 0..N |-> f[k]] /\ g = [k \in 0..N |-> g[k]]
  /\ f[0] = g[0]
  /\ \A k \in 1..N : f[k - 1] = g[k - 1] => f[k] = g[k]

LEMMA SameTrace ==
  ASSUME NEW N, NEW f, NEW g, InStep(f, g, N)
  PROVE  f = g
<1> USE DEF InStep
<1> DEFINE same == {n \in Nat : n <= N => f[n] = g[n]}
<1>1. 0 \in same
  OBVIOUS
<1>2. ASSUME NEW n \in Nat, n \in same PROVE n + 1 \in same
  <2> SUFFICES ASSUME n + 1 <= N PROVE f[n + 1] = g[n + 1]
    OBVIOUS
  <2>1. f[n] = g[n] /\ n + 1 \in 1..N /\ (n + 1) - 1 = n
    BY <1>2
  <2> QED BY <2>1
<1>3. Nat \subseteq same
  <2> HIDE DEF same
  <2> QED BY <1>1, <1>2, NatSetInduction
<1>4. \A k \in 0..N : f[k] = g[k]
  BY <1>3
<1> QED BY <1>4

LEMMA Remainder ==
  ASSUME NEW x \in Nat, NEW m \in Nat \ {0}
  PROVE  x % m \in 0..(m - 1) /\ x % m <= x /\ (x < m => x % m = x)
OBVIOUS

-----------------------------------------------------------------------------
(***************************************************************************)
(* Adding an entry.                                                        *)
(***************************************************************************)
\* Advancing an offset leaves it in the array.
LEMMA NextSlotInSlots ==
  ASSUME NEW i \in Slots
  PROVE  NextSlot(i) \in Slots
BY BufferAssumption DEF NextSlot, Slots

\* The k-th round of the search looks at a slot of the array, and the rounds
\* before the last never meet the slot of round 0 again.
LEMMA ReadSlotInSlots ==
  ASSUME NEW b \in Buffer, NEW k \in 0..(MaxWriteOps - 1)
  PROVE  /\ ReadSlot(b, k) \in Slots
         /\ k # 0 => ReadSlot(b, k) # b.out_offs
BY BufferAssumption DEF ReadSlot, Slots, Buffer

\* The zeroed buffer of aesd_circular_buffer_init is well formed.
LEMMA EmptyBufferShape == EmptyBuffer \in Buffer /\ RingShape(EmptyBuffer)
BY BufferAssumption DEF EmptyBuffer, Buffer, RingShape, Slots, Entry, NULL

\* aesd_circular_buffer_add_entry keeps a well-formed buffer well formed.
LEMMA AddEntryShape ==
  ASSUME NEW b \in Buffer, RingShape(b), NEW e \in Entry
  PROVE  AddEntry(b, e) \in Buffer /\ RingShape(AddEntry(b, e))
<1>1. b.in_offs \in Slots /\ b.out_offs \in Slots /\ b.full \in BOOLEAN
      /\ b.entry \in [Slots -> Entry]
  BY DEF Buffer
<1>2. NextSlot(b.in_offs) \in Slots /\ NextSlot(b.out_offs) \in Slots
  BY <1>1, NextSlotInSlots
<1>3. [b.entry EXCEPT ![b.in_offs] = e] \in [Slots -> Entry]
  BY <1>1
<1>4. AddEntry(b, e) \in Buffer
  BY <1>1, <1>2, <1>3 DEF AddEntry, Buffer
<1>5. RingShape(AddEntry(b, e))
  BY <1>1, <1>2 DEF AddEntry, RingShape
<1> QED BY <1>4, <1>5

-----------------------------------------------------------------------------
(***************************************************************************)
(* The entries held, as a sequence.                                        *)
(***************************************************************************)
LEMMA ContentsIsSequence ==
  ASSUME NEW b \in Buffer, RingShape(b)
  PROVE  /\ Held(b) \in 0..MaxWriteOps
         /\ Contents(b) \in Seq(Entry)
         /\ Len(Contents(b)) = Held(b)
         /\ \A k \in 1..Held(b) : Contents(b)[k] = b.entry[ReadSlot(b, k - 1)]
<1>1. Held(b) \in 0..MaxWriteOps
  BY BufferAssumption DEF Held, Buffer, Slots
<1>2. \A k \in 1..Held(b) : b.entry[ReadSlot(b, k - 1)] \in Entry
  <2> SUFFICES ASSUME NEW k \in 1..Held(b)
               PROVE  b.entry[ReadSlot(b, k - 1)] \in Entry
    OBVIOUS
  <2>1. k - 1 \in 0..(MaxWriteOps - 1)
    BY <1>1, BufferAssumption
  <2> QED BY <2>1, ReadSlotInSlots DEF Buffer
<1>3. Contents(b) \in [1..Held(b) -> Entry]
  BY <1>2 DEF Contents
<1>4. Contents(b) \in Seq(Entry) /\ Len(Contents(b)) = Held(b)
  BY <1>1, <1>3
<1> QED BY <1>1, <1>4 DEF Contents

\* What a push on the abstract log does to the buffer's contents.
Pushed(s, e) == Append(IF Len(s) = MaxWriteOps THEN Tail(s) ELSE s, e)

LEMMA AddEntryWhenFull ==
  ASSUME NEW b \in Buffer, RingShape(b), NEW e \in Entry, b.full
  PROVE  Contents(AddEntry(b, e)) = Pushed(Contents(b), e)
<1> DEFINE after == AddEntry(b, e)
           N     == MaxWriteOps
<1>1. after \in Buffer /\ RingShape(after)
  BY AddEntryShape
<1>2. /\ after.full
      /\ after.entry = [b.entry EXCEPT ![b.out_offs] = e]
      /\ after.out_offs = NextSlot(b.out_offs)
      /\ b.out_offs \in Slots /\ b.entry \in [Slots -> Entry]
  BY DEF AddEntry, RingShape, Buffer
<1>3. Held(b) = N /\ Held(after) = N
  BY <1>2 DEF Held
<1>4. \A k \in 1..N : after.entry[ReadSlot(after, k - 1)] =
                        IF k = N THEN e ELSE b.entry[ReadSlot(b, k)]
  <2> SUFFICES ASSUME NEW k \in 1..N
               PROVE  after.entry[ReadSlot(after, k - 1)] =
                        IF k = N THEN e ELSE b.entry[ReadSlot(b, k)]
    OBVIOUS
  <2>1. CASE k = N
    <3>1. ReadSlot(after, k - 1) = b.out_offs
      BY <2>1, <1>2, BufferAssumption DEF ReadSlot, NextSlot, Slots
    <3> QED BY <3>1, <2>1, <1>2
  <2>2. CASE k # N
    <3>1. ReadSlot(after, k - 1) = ReadSlot(b, k)
      BY <2>2, <1>2, BufferAssumption DEF ReadSlot, NextSlot, Slots
    <3>2. ReadSlot(b, k) \in Slots /\ ReadSlot(b, k) # b.out_offs
      BY <2>2, ReadSlotInSlots, BufferAssumption
    <3> QED BY <3>1, <3>2, <2>2, <1>2
  <2> QED BY <2>1, <2>2
<1> HIDE DEF after
<1>5. /\ Contents(b) \in Seq(Entry) /\ Len(Contents(b)) = N
      /\ \A k \in 1..N : Contents(b)[k] = b.entry[ReadSlot(b, k - 1)]
  BY <1>3, ContentsIsSequence
<1>6. /\ Contents(after) \in Seq(Entry) /\ Len(Contents(after)) = N
      /\ \A k \in 1..N : Contents(after)[k] = after.entry[ReadSlot(after, k - 1)]
  BY <1>1, <1>3, ContentsIsSequence
<1>7. /\ Tail(Contents(b)) \in Seq(Entry)
      /\ Len(Tail(Contents(b))) = N - 1
      /\ \A k \in 1..(N - 1) : Tail(Contents(b))[k] = Contents(b)[k + 1]
  <2>1. Contents(b) # <<>>
    BY <1>5, BufferAssumption
  <2> QED BY <2>1, <1>5, HeadTailProperties
<1> DEFINE pushed == Append(Tail(Contents(b)), e)
<1>8. /\ pushed \in Seq(Entry) /\ Len(pushed) = N
      /\ \A k \in 1..N : pushed[k] = IF k = N THEN e ELSE Tail(Contents(b))[k]
  BY <1>7, BufferAssumption
<1>9. \A k \in 1..N : Contents(after)[k] = pushed[k]
  <2> SUFFICES ASSUME NEW k \in 1..N PROVE Contents(after)[k] = pushed[k]
    OBVIOUS
  <2>1. CASE k = N
    BY <2>1, <1>4, <1>6, <1>8
  <2>2. CASE k # N
    <3>1. k \in 1..(N - 1) /\ k + 1 \in 1..N /\ (k + 1) - 1 = k
      BY <2>2, BufferAssumption
    <3>2. pushed[k] = b.entry[ReadSlot(b, k)]
      BY <3>1, <2>2, <1>5, <1>7, <1>8
    <3> QED BY <3>2, <2>2, <1>4, <1>6
  <2> QED BY <2>1, <2>2
<1>10. Contents(after) = pushed
  <2> HIDE DEF pushed
  <2> QED BY <1>6, <1>8, <1>9, SeqEqual
<1> QED BY <1>10, <1>5 DEF Pushed, after

LEMMA AddEntryBeforeFull ==
  ASSUME NEW b \in Buffer, RingShape(b), NEW e \in Entry, ~b.full
  PROVE  Contents(AddEntry(b, e)) = Pushed(Contents(b), e)
<1> DEFINE after == AddEntry(b, e)
           n     == b.in_offs
<1>1. after \in Buffer /\ RingShape(after)
  BY AddEntryShape
<1>2. /\ n \in Slots /\ n \in Nat /\ n < MaxWriteOps
      /\ b.out_offs = 0 /\ b.entry \in [Slots -> Entry]
      /\ after.out_offs = 0
      /\ after.entry = [b.entry EXCEPT ![n] = e]
      /\ after.full = (NextSlot(n) = 0)
      /\ after.in_offs = NextSlot(n)
  BY BufferAssumption DEF AddEntry, RingShape, Buffer, Slots
<1>3. Held(b) = n /\ Held(after) = n + 1
  <2>1. Held(b) = n
    BY DEF Held
  <2>2. Held(after) = n + 1
    <3> HIDE DEF after
    <3>1. after.full = (n + 1 = MaxWriteOps) /\ (n + 1 # MaxWriteOps => after.in_offs = n + 1)
      BY <1>2, BufferAssumption DEF NextSlot
    <3> QED BY <3>1 DEF Held
  <2> QED BY <2>1, <2>2
<1>4. \A k \in 0..n : ReadSlot(after, k) = k /\ ReadSlot(b, k) = k /\ k \in Slots
  BY <1>2, BufferAssumption DEF ReadSlot, Slots
<1> HIDE DEF after
<1>5. /\ Contents(b) \in Seq(Entry) /\ Len(Contents(b)) = n
      /\ \A k \in 1..n : Contents(b)[k] = b.entry[ReadSlot(b, k - 1)]
  BY <1>3, ContentsIsSequence
<1>6. /\ Contents(after) \in Seq(Entry) /\ Len(Contents(after)) = n + 1
      /\ \A k \in 1..(n + 1) : Contents(after)[k] = after.entry[ReadSlot(after, k - 1)]
  BY <1>1, <1>3, ContentsIsSequence
<1>7. Len(Contents(b)) # MaxWriteOps
  BY <1>2, <1>5
<1> DEFINE pushed == Append(Contents(b), e)
<1>8. /\ pushed \in Seq(Entry) /\ Len(pushed) = n + 1
      /\ \A k \in 1..(n + 1) : pushed[k] = IF k = n + 1 THEN e ELSE Contents(b)[k]
  BY <1>2, <1>5
<1>9. \A k \in 1..(n + 1) : Contents(after)[k] = pushed[k]
  <2> SUFFICES ASSUME NEW k \in 1..(n + 1) PROVE Contents(after)[k] = pushed[k]
    OBVIOUS
  <2>1. k - 1 \in 0..n
    BY <1>2
  <2>2. Contents(after)[k] = after.entry[k - 1] /\ k - 1 \in Slots
    BY <2>1, <1>4, <1>6
  <2>3. CASE k = n + 1
    BY <2>2, <2>3, <1>2, <1>8
  <2>4. CASE k # n + 1
    <3>1. k \in 1..n
      BY <2>4, <1>2
    <3>2. pushed[k] = b.entry[k - 1]
      BY <3>1, <2>1, <2>4, <1>4, <1>5, <1>8
    <3> QED BY <3>1, <3>2, <2>2, <1>2
  <2> QED BY <2>3, <2>4
<1>10. Contents(after) = pushed
  <2> HIDE DEF pushed
  <2> QED BY <1>6, <1>8, <1>9, SeqEqual
<1> QED BY <1>10, <1>7 DEF Pushed, after

-----------------------------------------------------------------------------
(***************************************************************************)
(* The search.                                                             *)
(***************************************************************************)
\* total_bytes of the search, round by round.
LEMMA BytesThroughRounds ==
  ASSUME NEW b \in Buffer
  PROVE  LET total == BytesThrough(b)
         IN  /\ total \in [0..MaxWriteOps -> 0..(SizeMod - 1)]
             /\ total[0] = 0
             /\ \A k \in 1..MaxWriteOps :
                  total[k] = (total[k - 1] + b.entry[ReadSlot(b, k - 1)].size) % SizeMod
<1> DEFINE N == MaxWriteOps
           size(k) == b.entry[ReadSlot(b, k)].size
           V == 0..(SizeMod - 1)
           round == [k \in 0..(N - 1) |-> [v \in V |-> (v + size(k)) % SizeMod]]
           Body(g) == [k \in 0..N |-> IF k = 0 THEN 0 ELSE (g[k - 1] + size(k - 1)) % SizeMod]
<1>0. N \in Nat /\ SizeMod \in Nat \ {0} /\ 0 \in V
  BY BufferAssumption
<1>1. \A k \in 0..(N - 1) : size(k) \in Nat
  BY ReadSlotInSlots DEF Buffer, Entry
<1>2. round \in [0..(N - 1) -> [V -> V]]
  <2>1. ASSUME NEW k \in 0..(N - 1), NEW v \in V PROVE (v + size(k)) % SizeMod \in V
    <3>1. v + size(k) \in Nat
      BY <1>0, <1>1
    <3> HIDE DEF size
    <3> QED BY <3>1, <1>0, Remainder
  <2> QED BY <2>1
<1>3. PICK f : f \in [0..N -> V] /\ f[0] = 0 /\ \A k \in 1..N : f[k] = round[k - 1][f[k - 1]]
  <2> HIDE DEF round, V, N
  <2>1. IsLoop(N, V, 0, round)
    BY <1>0, <1>2 DEF IsLoop
  <2>2. \E f : IsTrace(f, N, V, 0, round)
    BY <2>1, LoopHasTrace
  <2> QED BY <2>2 DEF IsTrace
<1>4. f = Body(f)
  <2>1. ASSUME NEW k \in 1..N PROVE f[k] = (f[k - 1] + size(k - 1)) % SizeMod
    <3>1. k - 1 \in 0..(N - 1) /\ f[k - 1] \in V
      BY <1>0, <1>3
    <3> QED BY <1>3, <3>1
  <2> QED BY <2>1, <1>0, <1>3
<1>5. BytesThrough(b) = CHOOSE g : g = Body(g)
  BY DEF BytesThrough
<1>6. BytesThrough(b) = Body(BytesThrough(b))
  <2> HIDE DEF Body
  <2> QED BY <1>4, <1>5
<1>7. BytesThrough(b) = f
  <2> DEFINE t == BytesThrough(b)
  <2>1. t = [k \in 0..N |-> t[k]] /\ f = [k \in 0..N |-> f[k]]
    <3>1. t = Body(t)
      BY <1>6
    <3> HIDE DEF t, size, V
    <3> QED BY <3>1, <1>3
  <2>2. t[0] = f[0]
    BY <1>3, <1>6, <1>0
  <2>3. ASSUME NEW k \in 1..N, t[k - 1] = f[k - 1] PROVE t[k] = f[k]
    <3> HIDE DEF t, size, round, V
    <3>1. t = Body(t) /\ f = Body(f)
      BY <1>4, <1>6 DEF t
    <3> QED BY <3>1, <2>3, <1>0
  <2> HIDE DEF t, N
  <2>4. InStep(t, f, N)
    BY <2>1, <2>2, <2>3, <1>0 DEF InStep
  <2>5. t = f
    BY <2>4, SameTrace
  <2> QED BY <2>5 DEF t
<1>8. \A k \in 1..N : f[k] = (f[k - 1] + size(k - 1)) % SizeMod
  <2> HIDE DEF size, round, V
  <2> QED BY <1>4, <1>0
<1> QED BY <1>3, <1>7, <1>8

\* What the search returns is a byte of an entry: the offset lies in the entry,
\* and the bytes of the entries before it and the offset make up char_offset.
\* This holds also when total_bytes overflows.
LEMMA HitIsInEntry ==
  ASSUME NEW b \in Buffer, NEW char_offset \in Nat, NEW hit \in FindEntryOffset(b, char_offset)
  PROVE  \E k \in 1..MaxWriteOps :
           /\ hit.slot = ReadSlot(b, k - 1) /\ hit.slot \in Slots
           /\ BytesThrough(b)[k - 1] <= char_offset /\ char_offset < BytesThrough(b)[k]
           /\ hit.offset = char_offset - BytesThrough(b)[k - 1]
           /\ hit.offset \in Nat /\ hit.offset < b.entry[hit.slot].size
<1> DEFINE t == BytesThrough(b)
           N == MaxWriteOps
<1>0. N \in 1..255 /\ SizeMod \in Nat \ {0}
  BY BufferAssumption
<1>1. t \in [0..N -> 0..(SizeMod - 1)] /\ t[0] = 0
  BY BytesThroughRounds
<1>2. PICK k \in 1..N : /\ char_offset < t[k]
                        /\ \A i \in 1..N : char_offset < t[i] => k <= i
                        /\ hit = [slot |-> ReadSlot(b, k - 1),
                                  offset |-> (char_offset - t[k - 1]) % SizeMod]
  BY DEF FindEntryOffset, Hits
<1>3. k - 1 \in 0..(N - 1) /\ t[k - 1] \in Nat /\ t[k] \in 0..(SizeMod - 1)
  BY <1>0, <1>1
<1>4. t[k - 1] <= char_offset
  <2>1. CASE k = 1
    BY <2>1, <1>1
  <2>2. CASE k # 1
    <3>1. k - 1 \in 1..N /\ ~ (k <= k - 1)
      BY <2>2, <1>0
    <3> HIDE DEF t
    <3> QED BY <3>1, <1>2, <1>3
  <2> QED BY <2>1, <2>2
<1> DEFINE size == b.entry[ReadSlot(b, k - 1)].size
<1>5. size \in Nat /\ ReadSlot(b, k - 1) \in Slots
  BY <1>0, <1>3, ReadSlotInSlots DEF Buffer, Entry
<1>6. t[k] <= t[k - 1] + size
  <2>1. t[k] = (t[k - 1] + size) % SizeMod
    BY BytesThroughRounds
  <2> HIDE DEF size, t
  <2>2. t[k - 1] + size \in Nat
    BY <1>3, <1>5
  <2> QED BY <2>1, <2>2, <1>0, Remainder
<1>7. (char_offset - t[k - 1]) % SizeMod = char_offset - t[k - 1]
  <2>1. char_offset - t[k - 1] \in Nat /\ char_offset - t[k - 1] < SizeMod
    BY <1>2, <1>3, <1>4, <1>0
  <2> HIDE DEF t
  <2> QED BY <2>1, <1>0, Remainder
<1>8. /\ hit.slot = ReadSlot(b, k - 1) /\ hit.offset = char_offset - t[k - 1]
  BY <1>2, <1>7
<1>9. hit.offset \in Nat /\ hit.offset < size
  <2> HIDE DEF t, size
  <2> QED BY <1>8, <1>2, <1>3, <1>4, <1>5, <1>6
<1> QED BY <1>2, <1>4, <1>5, <1>8, <1>9

\* total_bytes never overflows: the totals are the sums of the sizes.
TotalFits(b) ==
  \A k \in 1..MaxWriteOps :
    BytesThrough(b)[k - 1] + b.entry[ReadSlot(b, k - 1)].size < SizeMod

LEMMA TotalsAreSums ==
  ASSUME NEW b \in Buffer, TotalFits(b)
  PROVE  /\ \A k \in 1..MaxWriteOps :
              BytesThrough(b)[k] = BytesThrough(b)[k - 1] + b.entry[ReadSlot(b, k - 1)].size
         /\ \A j \in 0..MaxWriteOps : \A i \in 0..j : BytesThrough(b)[i] <= BytesThrough(b)[j]
<1> DEFINE t == BytesThrough(b)
           N == MaxWriteOps
           size(k) == b.entry[ReadSlot(b, k)].size
<1>0. N \in 1..255 /\ SizeMod \in Nat \ {0}
  BY BufferAssumption
<1>1. t \in [0..N -> 0..(SizeMod - 1)] /\ t[0] = 0
  BY BytesThroughRounds
<1>2. \A k \in 0..(N - 1) : size(k) \in Nat
  BY ReadSlotInSlots DEF Buffer, Entry
<1>3. ASSUME NEW k \in 1..N PROVE t[k] = t[k - 1] + size(k - 1)
  <2>1. t[k] = (t[k - 1] + size(k - 1)) % SizeMod /\ t[k - 1] + size(k - 1) < SizeMod
    BY BytesThroughRounds DEF TotalFits
  <2> HIDE DEF t, size
  <2>2. k - 1 \in 0..(N - 1) /\ t[k - 1] \in Nat /\ size(k - 1) \in Nat
    BY <1>0, <1>1, <1>2
  <2> DEFINE x == t[k - 1] + size(k - 1)
  <2>3. x \in Nat /\ x < SizeMod /\ t[k] = x % SizeMod
    BY <2>1, <2>2
  <2> HIDE DEF x
  <2>4. t[k] = x
    BY <2>3, <1>0, Remainder
  <2> QED BY <2>4 DEF x
<1> DEFINE good == {j \in Nat : j <= N => \A i \in 0..j : t[i] <= t[j]}
<1>4. 0 \in good
  BY <1>1
<1>5. ASSUME NEW j \in Nat, j \in good PROVE j + 1 \in good
  <2> SUFFICES ASSUME j + 1 <= N, NEW i \in 0..(j + 1) PROVE t[i] <= t[j + 1]
    OBVIOUS
  <2>1. t[j + 1] = t[j] + size(j) /\ size(j) \in Nat
    <3>1. j + 1 \in 1..N /\ (j + 1) - 1 = j /\ j \in 0..(N - 1)
      BY <1>0
    <3> HIDE DEF t, size
    <3> QED BY <3>1, <1>2, <1>3
  <2>2. i \in 0..j => t[i] <= t[j] /\ t[i] \in Nat
    <3>1. j <= N /\ (i \in 0..j => i \in 0..N)
      BY <1>0
    <3> HIDE DEF t
    <3> QED BY <3>1, <1>5, <1>1
  <2> HIDE DEF t, size
  <2>3. t[j] \in Nat /\ t[j + 1] \in Nat
    BY <1>1, <1>0
  <2> QED BY <2>1, <2>2, <2>3
<1>6. Nat \subseteq good
  <2> HIDE DEF good
  <2> QED BY <1>4, <1>5, NatSetInduction
<1> QED BY <1>3, <1>6

\* It does not overflow when no entry is larger than a share of a size_t.
SizesUpTo(b, largest) == \A i \in Slots : b.entry[i].size <= largest

LEMMA SmallEntriesFit ==
  ASSUME NEW b \in Buffer, NEW largest \in Nat, MaxWriteOps * largest < SizeMod,
         SizesUpTo(b, largest)
  PROVE  TotalFits(b)
<1> DEFINE t == BytesThrough(b)
           N == MaxWriteOps
           size(k) == b.entry[ReadSlot(b, k)].size
           good == {k \in Nat : k <= N => t[k] <= k * largest}
<1>0. N \in 1..255 /\ SizeMod \in Nat \ {0} /\ t \in [0..N -> 0..(SizeMod - 1)] /\ t[0] = 0
  BY BytesThroughRounds, BufferAssumption
<1>1. \A k \in 0..(N - 1) : size(k) \in Nat /\ size(k) <= largest
  BY ReadSlotInSlots DEF Buffer, Entry, SizesUpTo
<1>2. ASSUME NEW k \in Nat, k + 1 <= N, t[k] <= k * largest
      PROVE  /\ t[k] + size(k) < SizeMod /\ t[k] + size(k) \in Nat
             /\ t[k + 1] <= (k + 1) * largest
  <2>1. /\ k \in 0..N /\ k \in 0..(N - 1) /\ k + 1 \in 1..N /\ (k + 1) - 1 = k
    <3> HIDE DEF t
    <3> QED BY <1>0, <1>2
  <2>2. t[k] \in Nat /\ size(k) \in Nat /\ size(k) <= largest
    <3>1. t[k] \in 0..(SizeMod - 1)
      BY <2>1, <1>0
    <3> HIDE DEF t, size
    <3> QED BY <2>1, <3>1, <1>1, BufferAssumption
  <2>3. t[k + 1] = (t[k] + size(k)) % SizeMod
    BY <2>1, BytesThroughRounds
  <2> HIDE DEF t, size
  <2>4. /\ k * largest + largest = (k + 1) * largest
        /\ (k + 1) * largest <= N * largest
        /\ k * largest \in Nat /\ N * largest \in Nat
    <3>1. PICK d \in Nat : N = (k + 1) + d
      BY <2>1, <1>0
    <3>2. N * largest = (k + 1) * largest + d * largest /\ d * largest \in Nat
      BY <3>1
    <3> QED BY <3>2
  <2> DEFINE x == t[k] + size(k)
  <2>5. x \in Nat /\ x < SizeMod /\ x <= (k + 1) * largest
    <3> DEFINE p == k * largest
               q == N * largest
               r == (k + 1) * largest
    <3>1. p \in Nat /\ q \in Nat /\ p + largest = r /\ r <= q /\ t[k] <= p /\ q < SizeMod
      BY <1>2, <2>4
    <3> HIDE DEF p, q, r
    <3>2. x \in Nat /\ x < SizeMod /\ x <= r
      BY <2>2, <3>1, <1>0
    <3> QED BY <3>2 DEF r
  <2> HIDE DEF x
  <2>6. x % SizeMod = x
    BY <2>5, <1>0, Remainder
  <2> QED BY <2>3, <2>5, <2>6 DEF x
<1>3. 0 \in good
  <2> HIDE DEF t
  <2> QED BY <1>0
<1>4. ASSUME NEW k \in Nat, k \in good PROVE k + 1 \in good
  <2> SUFFICES ASSUME k + 1 <= N PROVE t[k + 1] <= (k + 1) * largest
    OBVIOUS
  <2>1. t[k] <= k * largest
    BY <1>4, <1>0
  <2> QED BY <2>1, <1>2
<1>5. Nat \subseteq good
  <2> HIDE DEF good
  <2> QED BY <1>3, <1>4, NatSetInduction
<1>6. ASSUME NEW k \in 1..N PROVE t[k - 1] + size(k - 1) < SizeMod
  <2>1. k - 1 \in Nat /\ (k - 1) + 1 = k /\ k <= N /\ k - 1 <= N
    BY <1>0
  <2>2. t[k - 1] <= (k - 1) * largest
    BY <2>1, <1>5
  <2> HIDE DEF t, size
  <2> QED BY <2>1, <2>2, <1>2
<1> QED BY <1>6 DEF TotalFits

\* Without overflow the search returns the byte of the k-th entry that
\* char_offset reaches, and nothing behind the last.
LEMMA SearchFinds ==
  ASSUME NEW b \in Buffer, TotalFits(b), NEW k \in 1..MaxWriteOps,
         NEW char_offset \in Nat,
         BytesThrough(b)[k - 1] <= char_offset, char_offset < BytesThrough(b)[k]
  PROVE  FindEntryOffset(b, char_offset) =
           {[slot |-> ReadSlot(b, k - 1), offset |-> char_offset - BytesThrough(b)[k - 1]]}
<1> DEFINE t == BytesThrough(b)
           N == MaxWriteOps
<1>0. N \in 1..255 /\ SizeMod \in Nat \ {0}
  BY BufferAssumption
<1>1. t \in [0..N -> 0..(SizeMod - 1)]
  BY BytesThroughRounds
<1>2. \A j \in 0..N : \A i \in 0..j : t[i] <= t[j]
  BY TotalsAreSums
<1>3. \A i \in 1..N : i < k => ~ (char_offset < t[i])
  <2> SUFFICES ASSUME NEW i \in 1..N, i < k PROVE ~ (char_offset < t[i])
    OBVIOUS
  <2>1. k - 1 \in 0..N /\ i \in 0..(k - 1)
    BY <1>0
  <2>2. t[i] <= t[k - 1] /\ t[i] \in Nat /\ t[k - 1] \in Nat
    BY <2>1, <1>1, <1>2
  <2> QED BY <2>2
<1>4. {j \in Hits(b, char_offset) : \A i \in Hits(b, char_offset) : j <= i} = {k}
  BY <1>3, <1>0 DEF Hits
<1>5. (char_offset - t[k - 1]) % SizeMod = char_offset - t[k - 1]
  <2>1. t[k - 1] \in Nat /\ t[k] \in 0..(SizeMod - 1)
    BY <1>0, <1>1
  <2>2. char_offset - t[k - 1] \in Nat /\ char_offset - t[k - 1] < SizeMod
    BY <2>1, <1>0
  <2> HIDE DEF t
  <2> QED BY <2>2, <1>0, Remainder
<1> QED BY <1>4, <1>5 DEF FindEntryOffset

LEMMA SearchEnds ==
  ASSUME NEW b \in Buffer, TotalFits(b), NEW char_offset \in Nat,
         BytesThrough(b)[MaxWriteOps] <= char_offset
  PROVE  FindEntryOffset(b, char_offset) = {}
<1> DEFINE t == BytesThrough(b)
           N == MaxWriteOps
<1>1. N \in 1..255 /\ t \in [0..N -> 0..(SizeMod - 1)]
  BY BytesThroughRounds, BufferAssumption
<1>2. \A j \in 0..N : \A i \in 0..j : t[i] <= t[j]
  BY TotalsAreSums
<1>3. \A i \in 1..N : ~ (char_offset < t[i])
  <2> SUFFICES ASSUME NEW i \in 1..N PROVE ~ (char_offset < t[i])
    OBVIOUS
  <2>1. t[i] <= t[N] /\ t[i] \in Nat /\ t[N] \in Nat
    <3>1. N \in 0..N /\ i \in 0..N
      BY <1>1
    <3> QED BY <3>1, <1>1, <1>2
  <2> QED BY <2>1
<1> QED BY <1>3 DEF FindEntryOffset, Hits

-----------------------------------------------------------------------------
(***************************************************************************)
(* The entries end to end.                                                 *)
(***************************************************************************)
\* FlattenSeq puts the sequences end to end: f[k] is the concatenation of the first k.
IsPrefixes(f, ss, X) ==
  /\ f \in [0..Len(ss) -> Seq(X)]
  /\ f[0] = <<>>
  /\ \A k \in 1..Len(ss) : f[k] = f[k - 1] \o ss[k]

LEMMA FlattenSeqPrefixes ==
  ASSUME NEW X, NEW ss \in Seq(Seq(X))
  PROVE  \E f : IsPrefixes(f, ss, X) /\ FlattenSeq(ss) = f[Len(ss)]
<1> DEFINE n == Len(ss)
           V == Seq(X)
           round == [k \in 0..(n - 1) |-> [v \in V |-> v \o ss[k + 1]]]
           Body(g) == [i \in 1..n |-> IF i = 1 THEN ss[i] ELSE g[i - 1] \o ss[i]]
<1>0. n \in Nat /\ <<>> \in V /\ \A k \in 1..n : ss[k] \in V
  BY ElementOfSeq
<1>1. round \in [0..(n - 1) -> [V -> V]]
  <2>1. ASSUME NEW k \in 0..(n - 1), NEW v \in V PROVE v \o ss[k + 1] \in V
    <3>1. ss[k + 1] \in V
      BY <1>0
    <3> QED BY <3>1, ConcatProperties
  <2> QED BY <2>1
<1>2. PICK f : IsTrace(f, n, V, <<>>, round)
  <2> HIDE DEF round, V, n
  <2>1. IsLoop(n, V, <<>>, round)
    BY <1>0, <1>1 DEF IsLoop
  <2> QED BY <2>1, LoopHasTrace
<1>3. f \in [0..n -> V] /\ f[0] = <<>>
  BY <1>2 DEF IsTrace
<1>4. ASSUME NEW k \in 1..n PROVE f[k] = f[k - 1] \o ss[k]
  <2>1. k - 1 \in 0..(n - 1) /\ (k - 1) + 1 = k /\ f[k - 1] \in V
    <3> HIDE DEF V, n, round
    <3> QED BY <1>0, <1>3
  <2>2. f[k] = round[k - 1][f[k - 1]]
    BY <1>2 DEF IsTrace
  <2> QED BY <2>1, <2>2
<1>5. IsPrefixes(f, ss, X)
  BY <1>3, <1>4 DEF IsPrefixes
<1>6. CASE n = 0
  <2>1. ss = <<>>
    BY <1>6
  <2> QED BY <2>1, <1>3, <1>5, <1>6 DEF FlattenSeq
<1>7. CASE n # 0
  <2> DEFINE t == CHOOSE g : g = Body(g)
             g == [k \in 1..n |-> f[k]]
  <2>1. f[1] = ss[1]
    <3>1. 1 \in 1..n /\ 1 - 1 = 0
      BY <1>0, <1>7
    <3>2. f[1] = <<>> \o ss[1]
      BY <3>1, <1>3, <1>4
    <3> QED BY <3>1, <3>2, <1>0, ConcatEmptySeq
  <2>2. g = Body(g)
    <3> HIDE DEF V
    <3>1. \A k \in 1..n : k # 1 => k - 1 \in 1..n
      BY <1>0
    <3> QED BY <2>1, <3>1, <1>4
  <2>3. t = Body(t)
    <3> HIDE DEF Body, g
    <3> QED BY <2>2
  <2> HIDE DEF t
  <2> DEFINE t0 == [k \in 0..n |-> IF k = 0 THEN <<>> ELSE t[k]]
  <2>4. InStep(t0, f, n)
    <3>1. ASSUME NEW k \in 1..n, t0[k - 1] = f[k - 1] PROVE t0[k] = f[k]
      <4>1. t[k] = IF k = 1 THEN ss[k] ELSE t[k - 1] \o ss[k]
        BY <2>3
      <4>2. k # 1 => t[k - 1] = f[k - 1]
        BY <3>1, <1>0
      <4>3. t0[k] = t[k]
        BY <1>0
      <4>4. f[k] = f[k - 1] \o ss[k]
        BY <1>4
      <4> QED BY <4>1, <4>2, <4>3, <4>4, <2>1
    <3>2. t0[0] = f[0] /\ f = [k \in 0..n |-> f[k]] /\ t0 = [k \in 0..n |-> t0[k]]
      BY <1>0, <1>3
    <3> HIDE DEF t0, n
    <3> QED BY <3>1, <3>2, <1>0 DEF InStep
  <2>5. t0 = f
    <3> HIDE DEF t0
    <3> QED BY <2>4, SameTrace
  <2>6. FlattenSeq(ss) = t[n]
    BY <1>7 DEF FlattenSeq, t
  <2>7. t0[n] = t[n]
    BY <1>0, <1>7
  <2> HIDE DEF t0, n
  <2>8. FlattenSeq(ss) = f[n]
    BY <2>5, <2>6, <2>7
  <2> QED BY <2>8, <1>5 DEF n
<1> QED BY <1>0, <1>6, <1>7

\* Where the elements of the sequences are in the prefixes.
Locates(f, ss) ==
  /\ \A k \in 1..Len(ss) : Len(f[k]) = Len(f[k - 1]) + Len(ss[k])
  /\ \A n \in 0..Len(ss) : \A k \in 1..n : \A j \in 1..Len(ss[k]) :
       /\ Len(f[k - 1]) + j \in 1..Len(f[n])
       /\ f[n][Len(f[k - 1]) + j] = ss[k][j]

LEMMA PrefixesLocate ==
  ASSUME NEW X, NEW ss \in Seq(Seq(X)), NEW f, IsPrefixes(f, ss, X)
  PROVE  Locates(f, ss)
<1> DEFINE N == Len(ss)
           At(n) == \A k \in 1..n : \A j \in 1..Len(ss[k]) :
                      /\ Len(f[k - 1]) + j \in 1..Len(f[n])
                      /\ f[n][Len(f[k - 1]) + j] = ss[k][j]
           good == {n \in Nat : n <= N => At(n)}
<1>0. N \in Nat /\ \A k \in 1..N : ss[k] \in Seq(X) /\ Len(ss[k]) \in Nat
  BY ElementOfSeq, LenProperties
<1>1. /\ f \in [0..N -> Seq(X)]
      /\ \A k \in 0..N : Len(f[k]) \in Nat
  <2>1. f \in [0..N -> Seq(X)]
    BY DEF IsPrefixes
  <2> QED BY <2>1, LenProperties
<1>2. ASSUME NEW k \in 1..N
      PROVE  /\ f[k] = f[k - 1] \o ss[k] /\ f[k - 1] \in Seq(X)
             /\ Len(f[k]) = Len(f[k - 1]) + Len(ss[k])
  <2>1. f[k] = f[k - 1] \o ss[k]
    BY DEF IsPrefixes
  <2>2. f[k - 1] \in Seq(X) /\ ss[k] \in Seq(X)
    <3>1. k - 1 \in 0..N
      BY <1>0
    <3> HIDE DEF N
    <3> QED BY <3>1, <1>0, <1>1
  <2>3. Len(f[k - 1] \o ss[k]) = Len(f[k - 1]) + Len(ss[k])
    BY <2>2, ConcatProperties
  <2> QED BY <2>1, <2>2, <2>3
<1>3. 0 \in good
  OBVIOUS
<1>4. ASSUME NEW n \in Nat, n \in good PROVE n + 1 \in good
  <2> SUFFICES ASSUME n + 1 <= N, NEW k \in 1..(n + 1), NEW j \in 1..Len(ss[k])
               PROVE  /\ Len(f[k - 1]) + j \in 1..Len(f[n + 1])
                      /\ f[n + 1][Len(f[k - 1]) + j] = ss[k][j]
    OBVIOUS
  <2>1. n + 1 \in 1..N /\ (n + 1) - 1 = n /\ n <= N /\ n \in 0..N
    BY <1>0
  <2>2. /\ f[n + 1] = f[n] \o ss[n + 1] /\ f[n] \in Seq(X) /\ ss[n + 1] \in Seq(X)
        /\ Len(f[n + 1]) = Len(f[n]) + Len(ss[n + 1])
        /\ Len(f[n]) \in Nat /\ Len(ss[n + 1]) \in Nat
    BY <2>1, <1>0, <1>1, <1>2
  <2>3. \A i \in 1..(Len(f[n]) + Len(ss[n + 1])) :
           f[n + 1][i] = IF i <= Len(f[n]) THEN f[n][i] ELSE ss[n + 1][i - Len(f[n])]
    <3>1. \A i \in 1..(Len(f[n]) + Len(ss[n + 1])) :
             (f[n] \o ss[n + 1])[i] = IF i <= Len(f[n]) THEN f[n][i] ELSE ss[n + 1][i - Len(f[n])]
      BY <2>2, ConcatProperties, Zenon
    <3> QED BY <3>1, <2>2
  <2>4. CASE k = n + 1
    <3> DEFINE i == Len(f[n]) + j
    <3>1. Len(f[k - 1]) + j = i /\ ss[k] = ss[n + 1]
      BY <2>1, <2>4
    <3>2. i \in 1..(Len(f[n]) + Len(ss[n + 1])) /\ ~ (i <= Len(f[n])) /\ i - Len(f[n]) = j
      <4> DEFINE p == Len(f[n])
                 q == Len(ss[n + 1])
      <4>1. p \in Nat /\ q \in Nat /\ j \in 1..q
        BY <2>2, <2>4
      <4> HIDE DEF p, q
      <4>2. p + j \in 1..(p + q) /\ ~ (p + j <= p) /\ (p + j) - p = j
        BY <4>1
      <4> QED BY <4>2 DEF p, q
    <3>3. f[n + 1][i] = ss[n + 1][j]
      <4> HIDE DEF i
      <4> QED BY <3>2, <2>3
    <3> QED BY <3>1, <3>2, <3>3, <2>2
  <2>5. CASE k # n + 1
    <3>1. k \in 1..n
      BY <2>5
    <3>2. /\ Len(f[k - 1]) + j \in 1..Len(f[n])
          /\ f[n][Len(f[k - 1]) + j] = ss[k][j]
      BY <3>1, <2>1, <1>4
    <3> DEFINE i == Len(f[k - 1]) + j
    <3>3. i \in 1..(Len(f[n]) + Len(ss[n + 1])) /\ i <= Len(f[n]) /\ i \in 1..Len(f[n + 1])
      <4> HIDE DEF i
      <4> DEFINE p == Len(f[n])
                 q == Len(ss[n + 1])
      <4>1. i \in 1..p /\ p \in Nat /\ q \in Nat /\ Len(f[n + 1]) = p + q
        BY <3>2, <2>2 DEF i
      <4> HIDE DEF p, q
      <4>2. i \in 1..(p + q) /\ i <= p
        BY <4>1
      <4> QED BY <4>1, <4>2 DEF p, q
    <3>4. f[n + 1][i] = f[n][i]
      <4> HIDE DEF i
      <4> QED BY <3>3, <2>3
    <3> QED BY <3>2, <3>3, <3>4
  <2> QED BY <2>4, <2>5
<1>5. Nat \subseteq good
  <2> HIDE DEF good
  <2> QED BY <1>3, <1>4, NatSetInduction
<1>6. \A n \in 0..N : At(n)
  <2> HIDE DEF At
  <2> QED BY <1>5, <1>0
<1> QED BY <1>2, <1>6 DEF Locates

\* A position inside the data is a byte of some entry.
LEMMA PositionHasRound ==
  ASSUME NEW b \in Buffer, NEW n \in 0..MaxWriteOps, NEW p \in Nat, p < BytesThrough(b)[n]
  PROVE  \E k \in 1..n : BytesThrough(b)[k - 1] <= p /\ p < BytesThrough(b)[k]
<1> DEFINE t == BytesThrough(b)
           N == MaxWriteOps
           good == {m \in Nat : m <= N /\ p < t[m] => \E k \in 1..m : t[k - 1] <= p /\ p < t[k]}
<1>0. N \in 1..255 /\ t \in [0..N -> 0..(SizeMod - 1)] /\ t[0] = 0
  BY BytesThroughRounds, BufferAssumption
<1>1. 0 \in good
  <2> HIDE DEF t
  <2> QED BY <1>0
<1>2. ASSUME NEW m \in Nat, m \in good PROVE m + 1 \in good
  <2> SUFFICES ASSUME m + 1 <= N, p < t[m + 1]
               PROVE  \E k \in 1..(m + 1) : t[k - 1] <= p /\ p < t[k]
    OBVIOUS
  <2> HIDE DEF t
  <2>1. t[m] \in Nat
    BY <1>0
  <2>2. CASE p < t[m]
    <3>1. PICK k \in 1..m : t[k - 1] <= p /\ p < t[k]
      BY <2>2, <1>2, <1>0
    <3> QED BY <3>1
  <2>3. CASE ~ (p < t[m])
    <3>1. m + 1 \in 1..(m + 1) /\ (m + 1) - 1 = m
      OBVIOUS
    <3> QED BY <2>1, <2>3, <3>1
  <2> QED BY <2>2, <2>3
<1>3. Nat \subseteq good
  <2> HIDE DEF good
  <2> QED BY <1>1, <1>2, NatSetInduction
<1>4. n \in good /\ n <= N
  BY <1>0, <1>3
<1> QED BY <1>4

\* Slots that have never been written count no bytes.
UnusedAreEmpty(b) ==
  ~b.full => \A i \in Slots : i >= b.in_offs => b.entry[i].size = 0

LEMMA AddEntryUnused ==
  ASSUME NEW b \in Buffer, RingShape(b), UnusedAreEmpty(b), NEW e \in Entry
  PROVE  UnusedAreEmpty(AddEntry(b, e))
<1> DEFINE after == AddEntry(b, e)
<1>1. /\ b.entry \in [Slots -> Entry] /\ b.in_offs \in Slots /\ b.full \in BOOLEAN
      /\ after.entry = [b.entry EXCEPT ![b.in_offs] = e]
      /\ after.in_offs = NextSlot(b.in_offs)
      /\ ~after.full => ~b.full /\ NextSlot(b.in_offs) # b.out_offs
  BY DEF Buffer, AddEntry
<1>2. ~after.full => after.in_offs = b.in_offs + 1
  BY <1>1 DEF NextSlot, RingShape
<1> HIDE DEF after
<1>3. UnusedAreEmpty(after)
  BY <1>1, <1>2, BufferAssumption DEF UnusedAreEmpty, Slots
<1> QED BY <1>3 DEF after

LEMMA TotalOfHeld ==
  ASSUME NEW b \in Buffer, RingShape(b), UnusedAreEmpty(b), TotalFits(b)
  PROVE  BytesThrough(b)[Held(b)] = BytesThrough(b)[MaxWriteOps]
<1> DEFINE t == BytesThrough(b)
           N == MaxWriteOps
           H == Held(b)
           good == {m \in Nat : H + m <= N => t[H + m] = t[H]}
<1>0. /\ N \in 1..255 /\ t \in [0..N -> 0..(SizeMod - 1)]
      /\ \A k \in 1..N : t[k] = t[k - 1] + b.entry[ReadSlot(b, k - 1)].size
  BY BytesThroughRounds, BufferAssumption, TotalsAreSums
<1>1. H \in 0..N
  BY ContentsIsSequence
<1>2. CASE b.full
  BY <1>2 DEF Held
<1>3. CASE ~b.full
  <2>1. H = b.in_offs /\ b.out_offs = 0
    BY <1>3 DEF Held, RingShape
  <2>2. 0 \in good
    <3> HIDE DEF t, H
    <3>1. H + 0 = H
      BY <1>1
    <3> QED BY <3>1
  <2>3. ASSUME NEW m \in Nat, m \in good PROVE m + 1 \in good
    <3> SUFFICES ASSUME H + (m + 1) <= N PROVE t[H + (m + 1)] = t[H]
      OBVIOUS
    <3>1. ReadSlot(b, H + m) = H + m /\ H + m \in Slots /\ H + m >= b.in_offs
      <4>1. b.out_offs = 0 /\ b.in_offs = H /\ H + m \in Nat /\ H + m < MaxWriteOps
        <5>1. H \in Nat /\ MaxWriteOps \in Nat
          BY <1>0, <1>1
        <5> HIDE DEF H
        <5> QED BY <5>1, <2>1
      <4> HIDE DEF H
      <4>2. b.out_offs + (H + m) = H + m /\ H + m >= H /\ H + m \in 0..(MaxWriteOps - 1)
        BY <4>1, <1>0, <1>1
      <4> QED BY <4>1, <4>2 DEF ReadSlot, Slots
    <3>2. b.entry[ReadSlot(b, H + m)].size = 0
      BY <3>1, <1>3 DEF UnusedAreEmpty
    <3> DEFINE k == H + (m + 1)
    <3>3. k \in 1..N /\ k - 1 = H + m /\ H + m \in 0..N /\ H + m <= N
      <4> HIDE DEF H
      <4> QED BY <1>0, <1>1
    <3>4. t[H + m] = t[H] /\ t[H + m] \in Nat
      <4>1. t[H + m] = t[H]
        BY <2>3, <3>3
      <4>2. t[H + m] \in 0..(SizeMod - 1)
        <5> HIDE DEF t, H
        <5> QED BY <3>3, <1>0
      <4> HIDE DEF t, H
      <4> QED BY <4>1, <4>2, BufferAssumption
    <3>5. t[k] = t[k - 1] + b.entry[ReadSlot(b, k - 1)].size
      BY <3>3, <1>0
    <3> HIDE DEF t, H, k
    <3>6. t[k] = t[H]
      BY <3>2, <3>3, <3>4, <3>5
    <3> QED BY <3>6 DEF k
  <2>4. Nat \subseteq good
    <3> HIDE DEF good
    <3> QED BY <2>2, <2>3, NatSetInduction
  <2>5. N - H \in Nat /\ H + (N - H) = N
    BY <1>0, <1>1
  <2>6. N - H \in good
    <3> HIDE DEF good, H
    <3> QED BY <2>4, <2>5
  <2>7. H + (N - H) <= N
    <3> HIDE DEF H, t, good
    <3>1. N <= N
      BY BufferAssumption
    <3> QED BY <3>1, <2>5
  <2>8. t[H + (N - H)] = t[H]
    <3> HIDE DEF t, H
    <3> QED BY <2>6, <2>7
  <2> QED BY <2>5, <2>8
<1> QED BY <1>2, <1>3

\* One sequence for each entry held, of the entry's size.
SpellsOut(ss, b) ==
  /\ Len(ss) = Held(b)
  /\ \A k \in 1..Held(b) : Len(ss[k]) = b.entry[ReadSlot(b, k - 1)].size

\* Where they are when they are put end to end.
Spelled(all, ss, b) ==
  /\ Len(all) = BytesThrough(b)[MaxWriteOps]
  /\ Len(all) = BytesThrough(b)[Held(b)]
  /\ \A k \in 1..Held(b) : \A j \in 1..Len(ss[k]) :
       all[BytesThrough(b)[k - 1] + j] = ss[k][j]

LEMMA FlattenedEntries ==
  ASSUME NEW b \in Buffer, RingShape(b), UnusedAreEmpty(b), TotalFits(b),
         NEW X, NEW ss \in Seq(Seq(X)), SpellsOut(ss, b)
  PROVE  FlattenSeq(ss) \in Seq(X) /\ Spelled(FlattenSeq(ss), ss, b)
<1> DEFINE t == BytesThrough(b)
           N == MaxWriteOps
           H == Held(b)
           size(k) == b.entry[ReadSlot(b, k)].size
           all == FlattenSeq(ss)
<1>0. /\ N \in 1..255 /\ t[0] = 0
      /\ \A k \in 1..N : t[k] = t[k - 1] + size(k - 1)
  <2>1. \A k \in 1..N : t[k] = t[k - 1] + size(k - 1)
    BY TotalsAreSums
  <2>2. t[0] = 0
    BY BytesThroughRounds
  <2> QED BY <2>1, <2>2, BufferAssumption
<1>1. H \in 0..N
  BY ContentsIsSequence
<1>2. Len(ss) = H /\ \A k \in 1..H : Len(ss[k]) = size(k - 1)
  BY DEF SpellsOut
<1>3. PICK f : IsPrefixes(f, ss, X) /\ all = f[Len(ss)]
  BY FlattenSeqPrefixes
<1>4. /\ \A k \in 1..H : Len(f[k]) = Len(f[k - 1]) + Len(ss[k])
      /\ \A k \in 1..H : \A j \in 1..Len(ss[k]) : f[H][Len(f[k - 1]) + j] = ss[k][j]
  <2>1. Locates(f, ss)
    BY <1>3, PrefixesLocate
  <2>2. H \in 0..H
    BY <1>1
  <2> HIDE DEF H
  <2> QED BY <2>1, <2>2, <1>2 DEF Locates
<1>5. \A k \in 0..H : Len(f[k]) = t[k]
  <2> DEFINE g == [k \in 0..H |-> Len(f[k])]
             u == [k \in 0..H |-> t[k]]
  <2>1. g[0] = u[0]
    <3>1. f[0] = <<>>
      BY <1>3 DEF IsPrefixes
    <3> QED BY <3>1, <1>0, <1>1
  <2>2. ASSUME NEW k \in 1..H, g[k - 1] = u[k - 1] PROVE g[k] = u[k]
    <3> HIDE DEF t, size
    <3>1. k \in 1..N /\ k - 1 \in 0..H /\ k \in 0..H
      BY <1>0, <1>1
    <3>2. Len(f[k]) = Len(f[k - 1]) + size(k - 1) /\ t[k] = t[k - 1] + size(k - 1)
      BY <3>1, <1>0, <1>2, <1>4
    <3> QED BY <2>2, <3>1, <3>2
  <2>3. InStep(g, u, H)
    <3>1. g = [k \in 0..H |-> g[k]] /\ u = [k \in 0..H |-> u[k]]
      OBVIOUS
    <3>2. H \in Nat
      BY <1>1
    <3> HIDE DEF g, u, H
    <3> QED BY <2>1, <2>2, <3>1, <3>2 DEF InStep
  <2>4. g = u
    BY <2>3, SameTrace
  <2> QED BY <2>4
<1>6. all = f[H] /\ Len(all) = t[H] /\ t[H] = t[N] /\ all \in Seq(X)
  <2>1. all = f[H]
    BY <1>2, <1>3
  <2>2. t[H] = t[N]
    BY TotalOfHeld
  <2>3. H \in 0..H
    BY <1>1
  <2>4. f \in [0..H -> Seq(X)]
    BY <1>2, <1>3 DEF IsPrefixes
  <2> HIDE DEF all, t, H
  <2> QED BY <2>1, <2>2, <2>3, <2>4, <1>5
<1>7. ASSUME NEW k \in 1..H, NEW j \in 1..Len(ss[k]) PROVE all[t[k - 1] + j] = ss[k][j]
  <2>1. k - 1 \in 0..H
    BY <1>1
  <2> HIDE DEF all, t, H
  <2> QED BY <2>1, <1>4, <1>5, <1>6
<1> HIDE DEF all, t, H
<1>8. Spelled(all, ss, b)
  BY <1>6, <1>7 DEF Spelled, t, H
<1> QED BY <1>6, <1>8 DEF all

\* The search is a lookup in the entries end to end.
LEMMA SearchIsLookup ==
  ASSUME NEW b \in Buffer, RingShape(b), UnusedAreEmpty(b), TotalFits(b), NEW p \in Nat
  PROVE  FindEntryOffset(b, p) =
           IF p < Len(Concatenated(b)) THEN {Concatenated(b)[p + 1]} ELSE {}
<1> DEFINE t == BytesThrough(b)
           N == MaxWriteOps
           H == Held(b)
           X == [slot : Slots, offset : Nat]
           size(k) == b.entry[ReadSlot(b, k)].size
           byte(k, j) == [slot |-> ReadSlot(b, k - 1), offset |-> j - 1]
           ss == [k \in 1..H |-> [j \in 1..size(k - 1) |-> byte(k, j)]]
           all == Concatenated(b)
<1>0. /\ N \in 1..255 /\ t \in [0..N -> 0..(SizeMod - 1)] /\ t[0] = 0
      /\ \A k \in 1..N : t[k] = t[k - 1] + size(k - 1)
  <2>1. \A k \in 1..N : t[k] = t[k - 1] + size(k - 1)
    BY TotalsAreSums
  <2>2. t \in [0..N -> 0..(SizeMod - 1)] /\ t[0] = 0
    BY BytesThroughRounds
  <2> QED BY <2>1, <2>2, BufferAssumption
<1>1. H \in 0..N /\ \A k \in 1..H : Contents(b)[k] = b.entry[ReadSlot(b, k - 1)]
  BY ContentsIsSequence
<1>2. \A k \in 1..N : k - 1 \in 0..(N - 1) /\ ReadSlot(b, k - 1) \in Slots /\ size(k - 1) \in Nat
  BY <1>0, ReadSlotInSlots DEF Buffer, Entry
<1>3. all = FlattenSeq(ss)
  <2>1. [k \in 1..H |-> [j \in 1..Contents(b)[k].size |-> byte(k, j)]] = ss
    BY <1>1
  <2> QED BY <2>1 DEF Concatenated
<1>4. \A k \in 1..H : /\ ss[k] \in Seq(X) /\ Len(ss[k]) = size(k - 1)
                      /\ \A j \in 1..size(k - 1) : ss[k][j] = byte(k, j)
  <2> SUFFICES ASSUME NEW k \in 1..H
               PROVE  /\ ss[k] \in Seq(X) /\ Len(ss[k]) = size(k - 1)
                      /\ \A j \in 1..size(k - 1) : ss[k][j] = byte(k, j)
    OBVIOUS
  <2>1. k \in 1..N
    BY <1>0, <1>1
  <2>2. size(k - 1) \in Nat /\ ReadSlot(b, k - 1) \in Slots
    BY <2>1, <1>2
  <2> DEFINE n == size(k - 1)
  <2>3. ss[k] = [j \in 1..n |-> byte(k, j)]
    OBVIOUS
  <2> HIDE DEF n, ss
  <2>4. n \in Nat /\ \A j \in 1..n : byte(k, j) \in X
    BY <2>2 DEF n
  <2> HIDE DEF byte, X
  <2>5. ss[k] \in [1..n -> X]
    BY <2>3, <2>4
  <2>6. ss[k] \in Seq(X) /\ Len(ss[k]) = n /\ \A j \in 1..n : ss[k][j] = byte(k, j)
    BY <2>3, <2>4, <2>5
  <2> QED BY <2>6 DEF n
<1>5. ss \in Seq(Seq(X)) /\ Len(ss) = H
  <2>1. ss \in [1..H -> Seq(X)]
    <3> HIDE DEF X, size
    <3> QED BY <1>4
  <2> HIDE DEF ss, X, H
  <2> QED BY <2>1, <1>1
<1> HIDE DEF ss, X
<1>6. \A k \in 1..H : \A j \in 1..size(k - 1) : all[t[k - 1] + j] = byte(k, j)
  <2>1. SpellsOut(ss, b)
    BY <1>4, <1>5 DEF SpellsOut
  <2>2. Spelled(FlattenSeq(ss), ss, b)
    BY <2>1, <1>5, FlattenedEntries
  <2> HIDE DEF all, size, byte
  <2> QED BY <2>2, <1>3, <1>4 DEF Spelled
<1>7. Len(all) = t[H] /\ t[H] = t[N]
  <2>1. SpellsOut(ss, b)
    BY <1>4, <1>5 DEF SpellsOut
  <2>2. Spelled(FlattenSeq(ss), ss, b)
    BY <2>1, <1>5, FlattenedEntries
  <2> HIDE DEF all
  <2> QED BY <2>2, <1>3 DEF Spelled
<1>8. CASE p < Len(all)
  <2>1. p < t[H]
    BY <1>7, <1>8
  <2>2. PICK k \in 1..H : t[k - 1] <= p /\ p < t[k]
    BY <2>1, <1>1, PositionHasRound
  <2>3. k \in 1..N
    BY <1>0, <1>1
  <2>4. FindEntryOffset(b, p) = {[slot |-> ReadSlot(b, k - 1), offset |-> p - t[k - 1]]}
    BY <2>2, <2>3, SearchFinds
  <2> DEFINE j == p - t[k - 1] + 1
  <2>5. t[k - 1] \in Nat /\ t[k] \in Nat /\ t[k] = t[k - 1] + size(k - 1) /\ k - 1 \in 0..H
    BY <2>3, <1>0, <1>1
  <2>6. j \in 1..size(k - 1) /\ t[k - 1] + j = p + 1 /\ j - 1 = p - t[k - 1]
    <3> HIDE DEF t, size
    <3> QED BY <2>2, <2>5, <2>3, <1>2
  <2>7. all[p + 1] = byte(k, j)
    <3> HIDE DEF j, t, size, byte, all, H
    <3> QED BY <2>6, <1>6
  <2> HIDE DEF j, t
  <2> QED BY <2>4, <2>6, <2>7, <1>8
<1>9. CASE ~ (p < Len(all))
  <2>1. t[N] <= p
    <3>1. t[N] \in Nat
      <4> HIDE DEF t
      <4>1. N \in 0..N
        BY <1>0
      <4> QED BY <4>1, <1>0
    <3>2. Len(all) = t[N]
      BY <1>7
    <3> HIDE DEF all, t
    <3> QED BY <3>1, <3>2, <1>9
  <2>2. FindEntryOffset(b, p) = {}
    BY <2>1, SearchEnds
  <2> QED BY <2>2, <1>9
<1> QED BY <1>8, <1>9
=============================================================================
