----------------------- MODULE AesdServerThreads_proofs -----------------------
(***************************************************************************)
(* Proofs about the threads, nodes and connections of the socket server,   *)
(* for any number of clients and failing calls: ll_clean forgets no        *)
(* thread, and the device's position is back at 0 when no replay runs.     *)
(***************************************************************************)
EXTENDS AesdServer_proofs, FiniteSetTheorems, FunctionTheorems

\* The device: every position lies in the data, and the shared one is 0 unless a
\* thread is on its way to the end of its replay, a send has failed, or the
\* device is full and the position is at a line without memory.
AtFreed == Len(data) = Capacity /\ f_pos < Len(data) /\ data[f_pos + 1] = Hole
Rewound ==
  ~FileBuild =>
    /\ timer = "none" /\ f_pos <= Len(data)
    /\ \A i \in 1..Len(data) : data[i] = Hole => Len(data) = Capacity
    /\ \A c \in Clients : pos[c] <= Len(data)
    /\ (\A c \in Clients : thread[c] \notin Replaying \cup {"killed"})
         => f_pos = 0 \/ SomeSendFailed \/ AtFreed

\* Every step keeps that.
LEMMA RewoundStep ==
  ASSUME TypeInv, Life, Rewound, [Next]_vars
  PROVE  Rewound'
<1> USE ServerAssumption
    DEF TypeInv, TypeOK, Life, Rewound, AtFreed, Replaying, SomeSendFailed, At, Goto,
        control, list, threads, locals, network, storage, others, clock
<1>1. CASE Signal
  BY <1>1 DEF Signal
<1>2. CASE StartServer
  BY <1>2 DEF StartServer
<1>3. CASE LeaveLoop
  BY <1>3 DEF LeaveLoop, Leave
<1>4. CASE AcceptNothing
  BY <1>4 DEF AcceptNothing
<1>5. CASE KeepNode
  BY <1>5 DEF KeepNode, Takes
<1>6. CASE TakeNode
  BY <1>6 DEF TakeNode, Takes
<1>7. CASE Join
  BY <1>7 DEF Join
<1>8. CASE Cleaned
  BY <1>8 DEF Cleaned
<1>9. CASE JoinTimer
  BY <1>9 DEF JoinTimer
<1>10. CASE TimerWakes
  BY <1>10 DEF TimerWakes
<1>11. CASE TimerWrites
  BY <1>11 DEF TimerWrites
<1>12. CASE TimerWriteFails
  BY <1>12 DEF TimerWriteFails, CallFails
<1>13. CASE TimerFails
  BY <1>13 DEF TimerFails, CallFails
<1>14. CASE StartNoTimer
  BY <1>14 DEF StartNoTimer, CallFails
<1>15. CASE StartFails
  BY <1>15 DEF StartFails, CallFails
<1>16. CASE AcceptFails
  BY <1>16 DEF AcceptFails, Leave, CallFails
<1>17. ASSUME NEW c \in Clients, Connect(c) PROVE Rewound'
  BY <1>17 DEF Connect
<1>18. ASSUME NEW c \in Clients, Send(c) PROVE Rewound'
  BY <1>18 DEF Send
<1>19. ASSUME NEW c \in Clients, Accept(c) PROVE Rewound'
  BY <1>19 DEF Accept, Accepts, OpenData
<1>20. ASSUME NEW c \in Clients, ReceiveLine(c) PROVE Rewound'
  BY <1>20 DEF ReceiveLine
<1>21. ASSUME NEW c \in Clients, ReceiveNothing(c) PROVE Rewound'
  BY <1>21 DEF ReceiveNothing
<1>22. ASSUME NEW c \in Clients, Ioctl(c) PROVE Rewound'
  BY <1>22 DEF Ioctl
<1>23. ASSUME NEW c \in Clients, WriteStart(c) PROVE Rewound'
  BY <1>23 DEF WriteStart
<1>24. ASSUME NEW c \in Clients, WriteEnd(c) PROVE Rewound'
  BY <1>24, SMTT(30) DEF WriteEnd
<1>25. ASSUME NEW c \in Clients, LockMutex(c) PROVE Rewound'
  BY <1>25 DEF LockMutex
<1>26. ASSUME NEW c \in Clients, WriteFile(c) PROVE Rewound'
  BY <1>26 DEF WriteFile
<1>27. ASSUME NEW c \in Clients, ReadStart(c) PROVE Rewound'
  BY <1>27 DEF ReadStart
<1>28. ASSUME NEW c \in Clients, ReadLine(c) PROVE Rewound'
  BY <1>28 DEF ReadLine
<1>29. ASSUME NEW c \in Clients, ReadEnd(c) PROVE Rewound'
  BY <1>29 DEF ReadEnd
<1>30. ASSUME NEW c \in Clients, ReadFreed(c) PROVE Rewound'
  BY <1>30 DEF ReadFreed, Freed
<1>31. ASSUME NEW c \in Clients, SendLine(c) PROVE Rewound'
  BY <1>31, SMTT(30) DEF SendLine
<1>32. ASSUME NEW c \in Clients, SetComplete(c) PROVE Rewound'
  BY <1>32 DEF SetComplete
<1>33. ASSUME NEW c \in Clients, CloseClient(c) PROVE Rewound'
  BY <1>33 DEF CloseClient
<1>34. ASSUME NEW c \in Clients, SpawnFails(c) PROVE Rewound'
  BY <1>34 DEF SpawnFails, Accepts, OpenData, Leave, CallFails
<1>35. ASSUME NEW c \in Clients, OpenFails(c) PROVE Rewound'
  BY <1>35 DEF OpenFails, Accepts, CallFails
<1>36. ASSUME NEW c \in Clients, ReceiveFails(c) PROVE Rewound'
  <2>1. /\ thread[c] = "recv" /\ thread' = [thread EXCEPT ![c] = "finish"]
        /\ conn' = [conn EXCEPT ![c] = "failed"]
        /\ UNCHANGED <<FileBuild, timer, f_pos, data, pos>>
    BY <1>36 DEF ReceiveFails, CallFails
  <2>2. \A d \in Clients :
          thread[d] \in Replaying \cup {"killed"} => thread'[d] = thread[d]
    BY <2>1
  <2>3. SomeSendFailed => SomeSendFailed'
    BY <2>1
  <2> USE DEF AtFreed
  <2> HIDE DEF TypeInv, TypeOK, Life, Replaying, SomeSendFailed
  <2>4. QED
    BY <2>1, <2>2, <2>3
<1>37. ASSUME NEW c \in Clients, WriteFails(c) PROVE Rewound'
  BY <1>37 DEF WriteFails, CallFails
<1>38. ASSUME NEW c \in Clients, SendFails(c) PROVE Rewound'
  BY <1>38 DEF SendFails
<1>39. ASSUME NEW c \in Clients, SendKills(c) PROVE Rewound'
  BY <1>39 DEF SendKills
<1>40. CASE UNCHANGED vars
  BY <1>40 DEF vars
<1>41. QED
  BY <1>1, <1>2, <1>3, <1>4, <1>5, <1>6, <1>7, <1>8, <1>9, <1>10, <1>11,
     <1>12, <1>13, <1>14, <1>15, <1>16, <1>17, <1>18, <1>19, <1>20, <1>21,
     <1>22, <1>23, <1>24, <1>25, <1>26, <1>27, <1>28, <1>29, <1>30, <1>31,
     <1>32, <1>33, <1>34, <1>35, <1>36, <1>37, <1>38, <1>39, <1>40
  DEF Next, MainStep, ThreadStep, ThreadRuns, TimerStep, Fault

\* For any number of clients and lines: between the replays of the device the
\* shared position is 0, unless a send has failed or the device is full and the
\* position is at a line whose memory has been freed.
THEOREM PositionIsRewound == Spec => []RewoundWhenIdle
<1>1. ASSUME Init PROVE Rewound
  <2>1. PICK n \in Earlier, lost \in 0..Capacity :
          /\ lost > 0 => n = Capacity
          /\ data = [i \in 1..n |-> IF i <= n - lost THEN Old ELSE Hole]
    BY <1>1 DEF Init, EarlierData
  <2>2. n \in Nat /\ lost \in Nat
    BY ServerAssumption
  <2>3. Len(data) = n /\ \A i \in 1..n : data[i] = Hole => i > n - lost
    BY <2>1, <2>2 DEF Old, Hole
  <2>4. \A i \in 1..Len(data) : data[i] = Hole => Len(data) = Capacity
    BY <2>1, <2>2, <2>3
  <2>5. QED
    BY <1>1, <2>2, <2>3, <2>4 DEF Init, Rewound
<1>2. Inv /\ Rewound /\ [Next]_vars => Rewound'
  BY RewoundStep DEF Inv
<1>3. Inv /\ Rewound => RewoundWhenIdle
  BY DEF Inv, TypeInv, TypeOK, Rewound, AtFreed, RewoundWhenIdle
<1>4. QED
  BY <1>1, <1>2, <1>3, Invariance, PTL DEF Spec

-----------------------------------------------------------------------------
\* Threads, their nodes and their connections: a running thread has its node,
\* and a connection without a thread is the one main leaves its loop with.
Owned ==
  /\ main \in {"start", "accept"} => ~is_clear
  /\ \A c \in Clients :
       /\ thread[c] \in Running => c \in node
       /\ c \in node => thread[c] # "none"
       /\ thread[c] = "done" => c \notin client_fd
       /\ c \in client_fd /\ thread[c] = "none" =>
            is_clear /\ \A d \in client_fd : thread[d] = "none" => c = d

\* Every step keeps that.
LEMMA OwnedStep ==
  ASSUME TypeInv, Life, Owned, [Next]_vars
  PROVE  Owned'
<1> USE ServerAssumption
    DEF TypeInv, TypeOK, Life, Owned, Replaying, Running, At, Goto,
        control, list, threads, locals, network, storage, others, clock
<1>1. CASE Signal
  BY <1>1 DEF Signal
<1>2. CASE StartServer
  BY <1>2 DEF StartServer
<1>3. CASE LeaveLoop
  BY <1>3 DEF LeaveLoop, Leave
<1>4. CASE AcceptNothing
  BY <1>4 DEF AcceptNothing
<1>5. CASE KeepNode
  BY <1>5 DEF KeepNode, Takes
<1>6. CASE TakeNode
  BY <1>6 DEF TakeNode, Takes
<1>7. CASE Join
  BY <1>7 DEF Join
<1>8. CASE Cleaned
  BY <1>8 DEF Cleaned
<1>9. CASE JoinTimer
  BY <1>9 DEF JoinTimer
<1>10. CASE TimerWakes
  BY <1>10 DEF TimerWakes
<1>11. CASE TimerWrites
  BY <1>11 DEF TimerWrites
<1>12. CASE TimerWriteFails
  BY <1>12 DEF TimerWriteFails, CallFails
<1>13. CASE TimerFails
  BY <1>13 DEF TimerFails, CallFails
<1>14. CASE StartNoTimer
  BY <1>14 DEF StartNoTimer, CallFails
<1>15. CASE StartFails
  BY <1>15 DEF StartFails, CallFails
<1>16. CASE AcceptFails
  BY <1>16 DEF AcceptFails, Leave, CallFails
<1>17. ASSUME NEW c \in Clients, Connect(c) PROVE Owned'
  BY <1>17 DEF Connect
<1>18. ASSUME NEW c \in Clients, Send(c) PROVE Owned'
  BY <1>18 DEF Send
<1>19. ASSUME NEW c \in Clients, Accept(c) PROVE Owned'
  BY <1>19 DEF Accept, Accepts, OpenData
<1>20. ASSUME NEW c \in Clients, ReceiveLine(c) PROVE Owned'
  BY <1>20 DEF ReceiveLine
<1>21. ASSUME NEW c \in Clients, ReceiveNothing(c) PROVE Owned'
  BY <1>21 DEF ReceiveNothing
<1>22. ASSUME NEW c \in Clients, Ioctl(c) PROVE Owned'
  BY <1>22 DEF Ioctl
<1>23. ASSUME NEW c \in Clients, WriteStart(c) PROVE Owned'
  BY <1>23 DEF WriteStart
<1>24. ASSUME NEW c \in Clients, WriteEnd(c) PROVE Owned'
  BY <1>24 DEF WriteEnd
<1>25. ASSUME NEW c \in Clients, LockMutex(c) PROVE Owned'
  BY <1>25 DEF LockMutex
<1>26. ASSUME NEW c \in Clients, WriteFile(c) PROVE Owned'
  BY <1>26 DEF WriteFile
<1>27. ASSUME NEW c \in Clients, ReadStart(c) PROVE Owned'
  BY <1>27 DEF ReadStart
<1>28. ASSUME NEW c \in Clients, ReadLine(c) PROVE Owned'
  BY <1>28 DEF ReadLine
<1>29. ASSUME NEW c \in Clients, ReadEnd(c) PROVE Owned'
  BY <1>29 DEF ReadEnd
<1>30. ASSUME NEW c \in Clients, ReadFreed(c) PROVE Owned'
  BY <1>30 DEF ReadFreed, Freed
<1>31. ASSUME NEW c \in Clients, SendLine(c) PROVE Owned'
  BY <1>31 DEF SendLine
<1>32. ASSUME NEW c \in Clients, SetComplete(c) PROVE Owned'
  BY <1>32 DEF SetComplete
<1>33. ASSUME NEW c \in Clients, CloseClient(c) PROVE Owned'
  BY <1>33 DEF CloseClient
<1>34. ASSUME NEW c \in Clients, SpawnFails(c) PROVE Owned'
  BY <1>34 DEF SpawnFails, Accepts, OpenData, Leave, CallFails
<1>35. ASSUME NEW c \in Clients, OpenFails(c) PROVE Owned'
  BY <1>35 DEF OpenFails, Accepts, CallFails
<1>36. ASSUME NEW c \in Clients, ReceiveFails(c) PROVE Owned'
  BY <1>36 DEF ReceiveFails, CallFails
<1>37. ASSUME NEW c \in Clients, WriteFails(c) PROVE Owned'
  BY <1>37 DEF WriteFails, CallFails
<1>38. ASSUME NEW c \in Clients, SendFails(c) PROVE Owned'
  BY <1>38 DEF SendFails
<1>39. ASSUME NEW c \in Clients, SendKills(c) PROVE Owned'
  BY <1>39 DEF SendKills
<1>40. CASE UNCHANGED vars
  BY <1>40 DEF vars
<1>41. QED
  BY <1>1, <1>2, <1>3, <1>4, <1>5, <1>6, <1>7, <1>8, <1>9, <1>10, <1>11,
     <1>12, <1>13, <1>14, <1>15, <1>16, <1>17, <1>18, <1>19, <1>20, <1>21,
     <1>22, <1>23, <1>24, <1>25, <1>26, <1>27, <1>28, <1>29, <1>30, <1>31,
     <1>32, <1>33, <1>34, <1>35, <1>36, <1>37, <1>38, <1>39, <1>40
  DEF Next, MainStep, ThreadStep, ThreadRuns, TimerStep, Fault

-----------------------------------------------------------------------------
\* l is the list from head on, with n nodes, of which ll_clean has passed k.  It
\* holds every node but the one that is being joined.
Chain(n, l, k) ==
  /\ \A i, j \in 1..n : l[i] = l[j] => i = j
  /\ head = IF n = 0 THEN NoNode ELSE l[1]
  /\ \A i \in 1..n : next[l[i]] = IF i < n THEN l[i + 1] ELSE NoNode
  /\ \A c \in Clients :
       c \in node <=> (\E i \in 1..n : l[i] = c) \/ (main = "join" /\ c = current)
  /\ main \in {"clean", "join"} => previous = IF k = 0 THEN NoNode ELSE l[k]
  /\ main = "clean" => current = IF k < n THEN l[k + 1] ELSE NoNode
  /\ main = "join" =>
       /\ \A i \in 1..n : l[i] # current
       /\ next[current] = IF k < n THEN l[k + 1] ELSE NoNode
  /\ is_clear => k = 0
  /\ main \in {"timer", "exit"} => n = 0

IsChain == \E n \in Nat : \E l \in [1..n -> Clients], k \in 0..n : Chain(n, l, k)

\* The steps that leave the list and main's place alone.
LEMMA QuietChain ==
  ASSUME IsChain, UNCHANGED <<list, main, is_clear>>
  PROVE  IsChain'
BY SMTT(30) DEF IsChain, Chain, list

\* main moves outside ll_clean.
LEMMA MoveChain ==
  ASSUME IsChain, UNCHANGED <<list, is_clear>>, main \notin {"clean", "join"},
         main' \notin {"clean", "join"},
         main' \in {"timer", "exit"} => main \in {"timer", "exit"}
  PROVE  IsChain'
<1>0. PICK n \in Nat : \E l \in [1..n -> Clients], k \in 0..n : Chain(n, l, k)
  BY DEF IsChain
<1>1. PICK l \in [1..n -> Clients], k \in 0..n : Chain(n, l, k)
  BY <1>0
<1>2. Chain(n, l, k)'
  BY <1>1 DEF Chain, list
<1>3. QED
  BY <1>2 DEF IsChain

\* main goes to the start of the list.
LEMMA RestartChain ==
  ASSUME IsChain, main \notin {"join", "timer", "exit"}, UNCHANGED <<head, next, node>>,
         main' = "clean", current' = head, previous' = NoNode
  PROVE  IsChain'
<1>0. PICK n \in Nat : \E l \in [1..n -> Clients], k \in 0..n : Chain(n, l, k)
  BY DEF IsChain
<1>1. PICK l \in [1..n -> Clients], k \in 0..n : Chain(n, l, k)
  BY <1>0
<1>2. Chain(n, l, 0)'
  BY <1>1 DEF Chain
<1>3. QED
  BY <1>1, <1>2 DEF IsChain

\* A new node goes to the head.
LEMMA AcceptChain ==
  ASSUME TypeInv, Life, Owned, IsChain, NEW c \in Clients, Accept(c)
  PROVE  IsChain'
<1>0. PICK n \in Nat : \E l \in [1..n -> Clients], k \in 0..n : Chain(n, l, k)
  BY DEF IsChain
<1>1. PICK l \in [1..n -> Clients], k \in 0..n : Chain(n, l, k)
  BY <1>0
<1> DEFINE m == [i \in 1..(n + 1) |-> IF i = 1 THEN c ELSE l[i - 1]]
<1>2. m \in [1..(n + 1) -> Clients] /\ m[1] = c
  OBVIOUS
<1>3. \A i \in 1..n : m[i + 1] = l[i]
  OBVIOUS
<1>4. \A i \in 2..(n + 1) : m[i] = l[i - 1] /\ i - 1 \in 1..n
  OBVIOUS
<1>5. c \notin node /\ \A i \in 1..n : l[i] # c /\ l[i] \in Clients
  BY <1>1 DEF Accept, Accepts, Life, Owned, Chain
<1>6. /\ next' = [next EXCEPT ![c] = head] /\ head' = c /\ node' = node \cup {c}
      /\ main = "accept" /\ main' = "clean" /\ current' = c /\ previous' = NoNode
      /\ UNCHANGED is_clear /\ ~is_clear
      /\ next \in [Clients -> Clients \cup {NoNode}]
  BY DEF Accept, Accepts, Owned, TypeInv, TypeOK
<1> HIDE DEF m
<1>7. \A i, j \in 1..(n + 1) : m[i] = m[j] => i = j
  BY <1>1, <1>2, <1>4, <1>5 DEF Chain
<1>8. \A i \in 1..(n + 1) : next'[m[i]] = IF i < n + 1 THEN m[i + 1] ELSE NoNode
  <2> SUFFICES ASSUME NEW i \in 1..(n + 1)
               PROVE  next'[m[i]] = IF i < n + 1 THEN m[i + 1] ELSE NoNode
    OBVIOUS
  <2>1. CASE i = 1
    BY <2>1, <1>1, <1>2, <1>3, <1>6 DEF Chain
  <2>2. CASE i # 1
    <3>1. m[i] = l[i - 1] /\ i - 1 \in 1..n /\ (i < n + 1 => m[i + 1] = l[i])
      BY <2>2, <1>3, <1>4
    <3>2. next'[l[i - 1]] = next[l[i - 1]]
      BY <3>1, <1>5, <1>6
    <3>3. next[l[i - 1]] = IF i - 1 < n THEN l[i - 1 + 1] ELSE NoNode
      BY <3>1, <1>1 DEF Chain
    <3>4. QED
      BY <3>1, <3>2, <3>3
  <2>3. QED
    BY <2>1, <2>2
<1>9. \A d \in Clients : d \in node' <=> \E i \in 1..(n + 1) : m[i] = d
  <2>1. \A d \in Clients : d \in node <=> \E i \in 1..n : l[i] = d
    BY <1>1, <1>6 DEF Chain
  <2>2. QED
    BY <2>1, <1>2, <1>3, <1>4, <1>6, SMTT(30)
<1>10. Chain(n + 1, m, 0)'
  BY <1>2, <1>6, <1>7, <1>8, <1>9 DEF Chain
<1>11. QED
  BY <1>2, <1>10 DEF IsChain

\* ll_clean goes past a node.
LEMMA KeepChain ==
  ASSUME TypeInv, IsChain, KeepNode
  PROVE  IsChain'
<1>0. PICK n \in Nat : \E l \in [1..n -> Clients], k \in 0..n : Chain(n, l, k)
  BY DEF IsChain
<1>1. PICK l \in [1..n -> Clients], k \in 0..n : Chain(n, l, k)
  BY <1>0
<1>2. k < n /\ current = l[k + 1] /\ ~is_clear
  BY <1>1 DEF Chain, KeepNode, Takes
<1>3. current' = IF k + 1 < n THEN l[k + 2] ELSE NoNode
  BY <1>1, <1>2 DEF Chain, KeepNode
<1>4. Chain(n, l, k + 1)'
  BY <1>1, <1>2, <1>3 DEF Chain, KeepNode, control
<1>5. QED
  BY <1>1, <1>2, <1>4 DEF IsChain

\* ll_clean takes a node out, at the head, in the middle or at the end.
LEMMA TakeChain ==
  ASSUME TypeInv, IsChain, TakeNode
  PROVE  IsChain'
<1>0. PICK n \in Nat : \E l \in [1..n -> Clients], k \in 0..n : Chain(n, l, k)
  BY DEF IsChain
<1>1. PICK l \in [1..n -> Clients], k \in 0..n : Chain(n, l, k)
  BY <1>0
<1>2. /\ main = "clean" /\ main' = "join" /\ current # NoNode
      /\ UNCHANGED <<current, previous, node, is_clear>>
      /\ next \in [Clients -> Clients \cup {NoNode}]
  BY DEF TakeNode, TypeInv, TypeOK
<1>3. k < n /\ current = l[k + 1] /\ k + 1 \in 1..n
  BY <1>1, <1>2 DEF Chain
<1>4. next[current] = IF k + 1 < n THEN l[k + 2] ELSE NoNode
  BY <1>1, <1>3 DEF Chain
<1> DEFINE m == [i \in 1..(n - 1) |-> IF i <= k THEN l[i] ELSE l[i + 1]]
<1>5. n - 1 \in Nat /\ m \in [1..(n - 1) -> Clients]
  BY <1>3
<1>6. \A i \in 1..(n - 1) :
        /\ i <= k => m[i] = l[i] /\ i \in 1..n
        /\ i > k => m[i] = l[i + 1] /\ i + 1 \in 1..n
  BY <1>3
<1> HIDE DEF m
<1>7. \A i, j \in 1..(n - 1) : m[i] = m[j] => i = j
  BY <1>1, <1>6 DEF Chain
<1>8. \A i \in 1..(n - 1) : m[i] # current
  BY <1>1, <1>3, <1>6 DEF Chain
<1>9. \A c \in Clients :
        c \in node <=> (\E i \in 1..(n - 1) : m[i] = c) \/ c = current
  <2>1. \A c \in Clients : c \in node <=> \E i \in 1..n : l[i] = c
    BY <1>1, <1>2 DEF Chain
  <2>2. \A i \in 1..n : l[i] = current \/ \E j \in 1..(n - 1) : m[j] = l[i]
    <3> SUFFICES ASSUME NEW i \in 1..n, l[i] # current
                 PROVE  \E j \in 1..(n - 1) : m[j] = l[i]
      OBVIOUS
    <3>1. CASE i <= k
      BY <3>1, <1>3, <1>6
    <3>2. CASE i > k + 1
      <4>1. i - 1 \in 1..(n - 1) /\ i - 1 > k /\ i - 1 + 1 = i
        BY <3>2
      <4>2. m[i - 1] = l[i]
        BY <4>1, <1>6
      <4>3. QED
        BY <4>1, <4>2
    <3>3. QED
      BY <3>1, <3>2, <1>3
  <2>3. \A j \in 1..(n - 1) : \E i \in 1..n : l[i] = m[j]
    BY <1>6
  <2>4. \E i \in 1..n : l[i] = current
    BY <1>3
  <2>5. QED
    BY <2>1, <2>2, <2>3, <2>4
<1>10. CASE k = 0
  <2>1. /\ head' = next[current] /\ next' = next
    BY <1>1, <1>3, <1>10 DEF TakeNode, Chain
  <2>2. head' = IF n - 1 = 0 THEN NoNode ELSE m[1]
    BY <2>1, <1>3, <1>4, <1>6, <1>10
  <2>3. \A i \in 1..(n - 1) : next[m[i]] = IF i < n - 1 THEN m[i + 1] ELSE NoNode
    <3> SUFFICES ASSUME NEW i \in 1..(n - 1)
                 PROVE  next[m[i]] = IF i < n - 1 THEN m[i + 1] ELSE NoNode
      OBVIOUS
    <3>1. m[i] = l[i + 1] /\ i + 1 \in 1..n /\ (i < n - 1 => m[i + 1] = l[i + 2])
      BY <1>6, <1>10
    <3>2. next[l[i + 1]] = IF i + 1 < n THEN l[i + 1 + 1] ELSE NoNode
      BY <3>1, <1>1 DEF Chain
    <3>3. QED
      BY <3>1, <3>2
  <2>4. next[current] = IF 0 < n - 1 THEN m[1] ELSE NoNode
    BY <1>3, <1>4, <1>6, <1>10
  <2>5. Chain(n - 1, m, 0)'
    BY <1>1, <1>2, <1>7, <1>8, <1>9, <1>10, <2>1, <2>2, <2>3, <2>4 DEF Chain
  <2>6. QED
    BY <1>5, <2>5 DEF IsChain
<1>11. CASE k # 0
  <2>1. k \in 1..(n - 1) /\ k \in 1..n /\ previous = l[k] /\ l[k] \in Clients
    BY <1>1, <1>2, <1>3, <1>11 DEF Chain
  <2>2. current # head
    BY <1>1, <1>3, <1>11 DEF Chain
  <2>3. /\ head' = head /\ next' = [next EXCEPT ![l[k]] = next[current]]
    BY <2>1, <2>2 DEF TakeNode
  <2>4. head' = IF n - 1 = 0 THEN NoNode ELSE m[1]
    BY <2>1, <2>3, <1>1, <1>6 DEF Chain
  <2>5. \A i \in 1..(n - 1) : next'[m[i]] = IF i < n - 1 THEN m[i + 1] ELSE NoNode
    <3> SUFFICES ASSUME NEW i \in 1..(n - 1)
                 PROVE  next'[m[i]] = IF i < n - 1 THEN m[i + 1] ELSE NoNode
      OBVIOUS
    <3>1. CASE i < k
      <4>1. m[i] = l[i] /\ m[i + 1] = l[i + 1] /\ i \in 1..n /\ i < n - 1 /\ l[i] \in Clients
        BY <3>1, <1>6, <2>1
      <4>2. l[i] # l[k]
        BY <3>1, <4>1, <2>1, <1>1 DEF Chain
      <4>3. next'[l[i]] = next[l[i]]
        BY <4>1, <4>2, <2>3, <1>2
      <4>4. next[l[i]] = l[i + 1]
        BY <4>1, <1>1 DEF Chain
      <4>5. QED
        BY <4>1, <4>3, <4>4
    <3>2. CASE i = k
      <4>1. m[i] = l[k] /\ (i < n - 1 => m[i + 1] = l[k + 2])
        BY <3>2, <1>6, <2>1
      <4>2. next'[l[k]] = next[current]
        BY <2>1, <2>3, <1>2
      <4>3. QED
        BY <3>2, <4>1, <4>2, <1>4
    <3>3. CASE i > k
      <4>1. m[i] = l[i + 1] /\ i + 1 \in 1..n /\ (i < n - 1 => m[i + 1] = l[i + 2])
            /\ l[i + 1] \in Clients
        BY <3>3, <1>6
      <4>2. l[i + 1] # l[k]
        BY <3>3, <4>1, <2>1, <1>1 DEF Chain
      <4>3. next'[l[i + 1]] = next[l[i + 1]]
        BY <4>1, <4>2, <2>3, <1>2
      <4>4. next[l[i + 1]] = IF i + 1 < n THEN l[i + 1 + 1] ELSE NoNode
        BY <4>1, <1>1 DEF Chain
      <4>5. QED
        BY <4>1, <4>3, <4>4
    <3>4. QED
      BY <3>1, <3>2, <3>3, <2>1
  <2>6. next'[current] = IF k < n - 1 THEN m[k + 1] ELSE NoNode
    <3>1. current # l[k] /\ current \in Clients
      BY <1>1, <1>3, <2>1 DEF Chain
    <3>2. next'[current] = next[current]
      BY <3>1, <2>3, <1>2
    <3>3. k < n - 1 => m[k + 1] = l[k + 2]
      BY <2>1, <1>6
    <3>4. QED
      BY <3>2, <3>3, <1>3, <1>4
  <2>7. previous' = m[k] /\ (is_clear' => k = 0)
    BY <1>1, <1>2, <1>6, <2>1 DEF Chain
  <2>8. Chain(n - 1, m, k)'
    BY <1>2, <1>7, <1>8, <1>9, <1>11, <2>4, <2>5, <2>6, <2>7 DEF Chain
  <2>9. QED
    BY <1>5, <2>1, <2>8 DEF IsChain
<1>12. QED
  BY <1>10, <1>11

\* The node of a thread that has ended is freed.
LEMMA JoinChain ==
  ASSUME TypeInv, IsChain, Join
  PROVE  IsChain'
<1>0. PICK n \in Nat : \E l \in [1..n -> Clients], k \in 0..n : Chain(n, l, k)
  BY DEF IsChain
<1>1. PICK l \in [1..n -> Clients], k \in 0..n : Chain(n, l, k)
  BY <1>0
<1>2. /\ main = "join" /\ main' = "clean" /\ node' = node \ {current}
      /\ current' = next[current] /\ next' = [next EXCEPT ![current] = NoNode]
      /\ UNCHANGED <<is_clear, head, previous>>
      /\ current \in Clients /\ next \in [Clients -> Clients \cup {NoNode}]
  BY DEF Join, TypeInv, TypeOK
<1>3. \A i \in 1..n : l[i] # current /\ l[i] \in Clients /\ next'[l[i]] = next[l[i]]
  BY <1>1, <1>2 DEF Chain
<1>4. \A c \in Clients : c \in node' <=> \E i \in 1..n : l[i] = c
  BY <1>1, <1>2, <1>3 DEF Chain
<1>5. Chain(n, l, k)'
  BY <1>1, <1>2, <1>3, <1>4 DEF Chain
<1>6. QED
  BY <1>1, <1>5 DEF IsChain

\* ll_clean ends: after the loop has been left the list is empty.
LEMMA CleanedChain ==
  ASSUME TypeInv, IsChain, Cleaned
  PROVE  IsChain'
<1>0. PICK n \in Nat : \E l \in [1..n -> Clients], k \in 0..n : Chain(n, l, k)
  BY DEF IsChain
<1>1. PICK l \in [1..n -> Clients], k \in 0..n : Chain(n, l, k)
  BY <1>0
<1>2. /\ main = "clean" /\ current = NoNode
      /\ main' \in {"accept", "timer", "exit"}
      /\ main' \in {"timer", "exit"} => is_clear
      /\ UNCHANGED <<list, is_clear>>
  BY DEF Cleaned
<1>3. k = n
  BY <1>1, <1>2, ServerAssumption, SMTT(30) DEF Chain
<1>4. Chain(n, l, k)'
  BY <1>1, <1>2, <1>3 DEF Chain, list
<1>5. QED
  BY <1>1, <1>4 DEF IsChain

\* A process that has been ended leaves its list where it was.
ListInv == main # "abort" => IsChain

\* Every step keeps the list.
LEMMA ListStep ==
  ASSUME TypeInv, Life, Owned, ListInv, [Next]_vars
  PROVE  ListInv'
<1> USE DEF control, list, threads, locals, network, storage, others, clock
<1>1. CASE Signal
  <2>1. UNCHANGED <<list, main, is_clear>>
    BY <1>1 DEF Signal
  <2>2. QED
    BY <2>1, QuietChain DEF ListInv
<1>2. CASE StartServer
  <2>1. IsChain /\ main = "start" /\ main' = "accept" /\ UNCHANGED <<list, is_clear>>
    BY <1>2 DEF StartServer, ListInv
  <2>2. IsChain'
    BY <2>1, MoveChain
  <2>3. QED
    BY <2>2 DEF ListInv
<1>3. CASE LeaveLoop
  <2>1. /\ main = "accept" /\ main' = "clean" /\ current' = head /\ previous' = NoNode
        /\ UNCHANGED <<head, next, node>>
    BY <1>3 DEF LeaveLoop, Leave
  <2>2. IsChain
    BY <2>1 DEF ListInv
  <2>3. QED
    BY <2>1, <2>2, RestartChain DEF ListInv
<1>4. CASE AcceptNothing
  <2>1. /\ main = "accept" /\ main' = "clean" /\ current' = head /\ previous' = NoNode
        /\ UNCHANGED <<head, next, node>>
    BY <1>4 DEF AcceptNothing
  <2>2. IsChain
    BY <2>1 DEF ListInv
  <2>3. QED
    BY <2>1, <2>2, RestartChain DEF ListInv
<1>5. CASE KeepNode
  <2>1. main # "abort"
    BY <1>5 DEF KeepNode
  <2>2. QED
    BY <1>5, <2>1, KeepChain DEF ListInv
<1>6. CASE TakeNode
  <2>1. main # "abort"
    BY <1>6 DEF TakeNode
  <2>2. QED
    BY <1>6, <2>1, TakeChain DEF ListInv
<1>7. CASE Join
  <2>1. main # "abort"
    BY <1>7 DEF Join
  <2>2. QED
    BY <1>7, <2>1, JoinChain DEF ListInv
<1>8. CASE Cleaned
  <2>1. main # "abort"
    BY <1>8 DEF Cleaned
  <2>2. QED
    BY <1>8, <2>1, CleanedChain DEF ListInv
<1>9. CASE JoinTimer
  <2>1. IsChain /\ main = "timer" /\ main' \in {"exit", "abort"} /\ UNCHANGED <<list, is_clear>>
    BY <1>9 DEF JoinTimer, ListInv
  <2>2. main' = "exit" => IsChain'
    BY <2>1, MoveChain
  <2>3. QED
    BY <2>1, <2>2 DEF ListInv
<1>10. CASE TimerWakes
  <2>1. UNCHANGED <<list, main, is_clear>>
    BY <1>10 DEF TimerWakes
  <2>2. QED
    BY <2>1, QuietChain DEF ListInv
<1>11. CASE TimerWrites
  <2>1. UNCHANGED <<list, main, is_clear>>
    BY <1>11 DEF TimerWrites
  <2>2. QED
    BY <2>1, QuietChain DEF ListInv
<1>12. CASE TimerWriteFails
  <2>1. UNCHANGED <<list, main, is_clear>>
    BY <1>12 DEF TimerWriteFails, CallFails
  <2>2. QED
    BY <2>1, QuietChain DEF ListInv
<1>13. CASE TimerFails
  <2>1. UNCHANGED <<list, main, is_clear>>
    BY <1>13 DEF TimerFails, CallFails
  <2>2. QED
    BY <2>1, QuietChain DEF ListInv
<1>14. CASE StartNoTimer
  <2>1. IsChain /\ main = "start" /\ main' = "accept" /\ UNCHANGED <<list, is_clear>>
    BY <1>14 DEF StartNoTimer, ListInv
  <2>2. IsChain'
    BY <2>1, MoveChain
  <2>3. QED
    BY <2>2 DEF ListInv
<1>15. CASE StartFails
  BY <1>15 DEF StartFails, ListInv
<1>16. CASE AcceptFails
  <2>1. /\ main = "accept" /\ main' = "clean" /\ current' = head /\ previous' = NoNode
        /\ UNCHANGED <<head, next, node>>
    BY <1>16 DEF AcceptFails, Leave
  <2>2. IsChain
    BY <2>1 DEF ListInv
  <2>3. QED
    BY <2>1, <2>2, RestartChain DEF ListInv
<1>17. ASSUME NEW c \in Clients, Connect(c) PROVE ListInv'
  <2>1. UNCHANGED <<list, main, is_clear>>
    BY <1>17 DEF Connect
  <2>2. QED
    BY <2>1, QuietChain DEF ListInv
<1>18. ASSUME NEW c \in Clients, Send(c) PROVE ListInv'
  <2>1. UNCHANGED <<list, main, is_clear>>
    BY <1>18 DEF Send
  <2>2. QED
    BY <2>1, QuietChain DEF ListInv
<1>19. ASSUME NEW c \in Clients, Accept(c) PROVE ListInv'
  <2>1. main # "abort"
    BY <1>19 DEF Accept, Accepts
  <2>2. QED
    BY <1>19, <2>1, AcceptChain DEF ListInv
<1>20. ASSUME NEW c \in Clients, ReceiveLine(c) PROVE ListInv'
  <2>1. UNCHANGED <<list, main, is_clear>>
    BY <1>20 DEF ReceiveLine
  <2>2. QED
    BY <2>1, QuietChain DEF ListInv
<1>21. ASSUME NEW c \in Clients, ReceiveNothing(c) PROVE ListInv'
  <2>1. UNCHANGED <<list, main, is_clear>>
    BY <1>21 DEF ReceiveNothing
  <2>2. QED
    BY <2>1, QuietChain DEF ListInv
<1>22. ASSUME NEW c \in Clients, Ioctl(c) PROVE ListInv'
  <2>1. UNCHANGED <<list, main, is_clear>>
    BY <1>22 DEF Ioctl
  <2>2. QED
    BY <2>1, QuietChain DEF ListInv
<1>23. ASSUME NEW c \in Clients, WriteStart(c) PROVE ListInv'
  <2>1. UNCHANGED <<list, main, is_clear>>
    BY <1>23 DEF WriteStart
  <2>2. QED
    BY <2>1, QuietChain DEF ListInv
<1>24. ASSUME NEW c \in Clients, WriteEnd(c) PROVE ListInv'
  <2>1. UNCHANGED <<list, main, is_clear>>
    BY <1>24 DEF WriteEnd
  <2>2. QED
    BY <2>1, QuietChain DEF ListInv
<1>25. ASSUME NEW c \in Clients, LockMutex(c) PROVE ListInv'
  <2>1. UNCHANGED <<list, main, is_clear>>
    BY <1>25 DEF LockMutex
  <2>2. QED
    BY <2>1, QuietChain DEF ListInv
<1>26. ASSUME NEW c \in Clients, WriteFile(c) PROVE ListInv'
  <2>1. UNCHANGED <<list, main, is_clear>>
    BY <1>26 DEF WriteFile
  <2>2. QED
    BY <2>1, QuietChain DEF ListInv
<1>27. ASSUME NEW c \in Clients, ReadStart(c) PROVE ListInv'
  <2>1. UNCHANGED <<list, main, is_clear>>
    BY <1>27 DEF ReadStart
  <2>2. QED
    BY <2>1, QuietChain DEF ListInv
<1>28. ASSUME NEW c \in Clients, ReadLine(c) PROVE ListInv'
  <2>1. UNCHANGED <<list, main, is_clear>>
    BY <1>28 DEF ReadLine
  <2>2. QED
    BY <2>1, QuietChain DEF ListInv
<1>29. ASSUME NEW c \in Clients, ReadEnd(c) PROVE ListInv'
  <2>1. UNCHANGED <<list, main, is_clear>>
    BY <1>29 DEF ReadEnd
  <2>2. QED
    BY <2>1, QuietChain DEF ListInv
<1>30. ASSUME NEW c \in Clients, ReadFreed(c) PROVE ListInv'
  <2>1. UNCHANGED <<list, main, is_clear>>
    BY <1>30 DEF ReadFreed
  <2>2. QED
    BY <2>1, QuietChain DEF ListInv
<1>31. ASSUME NEW c \in Clients, SendLine(c) PROVE ListInv'
  <2>1. UNCHANGED <<list, main, is_clear>>
    BY <1>31 DEF SendLine
  <2>2. QED
    BY <2>1, QuietChain DEF ListInv
<1>32. ASSUME NEW c \in Clients, SetComplete(c) PROVE ListInv'
  <2>1. UNCHANGED <<list, main, is_clear>>
    BY <1>32 DEF SetComplete
  <2>2. QED
    BY <2>1, QuietChain DEF ListInv
<1>33. ASSUME NEW c \in Clients, CloseClient(c) PROVE ListInv'
  <2>1. UNCHANGED <<list, main, is_clear>>
    BY <1>33 DEF CloseClient
  <2>2. QED
    BY <2>1, QuietChain DEF ListInv
<1>34. ASSUME NEW c \in Clients, SpawnFails(c) PROVE ListInv'
  <2>1. /\ main = "accept" /\ main' = "clean" /\ current' = head /\ previous' = NoNode
        /\ UNCHANGED <<head, next, node>>
    BY <1>34 DEF SpawnFails, Accepts, Leave
  <2>2. IsChain
    BY <2>1 DEF ListInv
  <2>3. QED
    BY <2>1, <2>2, RestartChain DEF ListInv
<1>35. ASSUME NEW c \in Clients, OpenFails(c) PROVE ListInv'
  BY <1>35 DEF OpenFails, ListInv
<1>36. ASSUME NEW c \in Clients, ReceiveFails(c) PROVE ListInv'
  <2>1. UNCHANGED <<list, main, is_clear>>
    BY <1>36 DEF ReceiveFails, CallFails
  <2>2. QED
    BY <2>1, QuietChain DEF ListInv
<1>37. ASSUME NEW c \in Clients, WriteFails(c) PROVE ListInv'
  <2>1. UNCHANGED <<list, main, is_clear>>
    BY <1>37 DEF WriteFails, CallFails
  <2>2. QED
    BY <2>1, QuietChain DEF ListInv
<1>38. ASSUME NEW c \in Clients, SendFails(c) PROVE ListInv'
  <2>1. UNCHANGED <<list, main, is_clear>>
    BY <1>38 DEF SendFails
  <2>2. QED
    BY <2>1, QuietChain DEF ListInv
<1>39. ASSUME NEW c \in Clients, SendKills(c) PROVE ListInv'
  BY <1>39 DEF SendKills, ListInv
<1>40. CASE UNCHANGED vars
  <2>1. UNCHANGED <<list, main, is_clear>>
    BY <1>40 DEF vars
  <2>2. QED
    BY <2>1, QuietChain DEF ListInv
<1>41. QED
  BY <1>1, <1>2, <1>3, <1>4, <1>5, <1>6, <1>7, <1>8, <1>9, <1>10, <1>11,
     <1>12, <1>13, <1>14, <1>15, <1>16, <1>17, <1>18, <1>19, <1>20, <1>21,
     <1>22, <1>23, <1>24, <1>25, <1>26, <1>27, <1>28, <1>29, <1>30, <1>31,
     <1>32, <1>33, <1>34, <1>35, <1>36, <1>37, <1>38, <1>39, <1>40
  DEF Next, MainStep, ThreadStep, ThreadRuns, TimerStep, Fault

-----------------------------------------------------------------------------
\* The list as ListHoldsNodes sees it: a chain is a numbering of the nodes.
LEMMA ChainHoldsNodes ==
  ASSUME TypeInv, IsChain
  PROVE  ListHoldsNodes
<1>0. PICK n \in Nat : \E l \in [1..n -> Clients], k \in 0..n : Chain(n, l, k)
  BY DEF IsChain
<1>1. PICK l \in [1..n -> Clients], k \in 0..n : Chain(n, l, k)
  BY <1>0
<1> DEFINE listed == node \ (IF main = "join" THEN {current} ELSE {})
<1>2. /\ \A c \in listed : \E i \in 1..n : l[i] = c
      /\ \A i \in 1..n : l[i] \in listed
      /\ main = "join" => current \in node
  BY <1>1 DEF Chain, TypeInv, TypeOK
<1> HIDE DEF listed
<1>3. l \in [1..n -> listed]
  BY <1>2
<1>4. Cardinality(listed) = n
  <2>1. \A i, j \in 1..n : l[i] = l[j] => i = j
    BY <1>1 DEF Chain
  <2>2. l \in Bijection(1..n, listed)
    BY <1>2, <1>3, <2>1, Fun_IsBij
  <2>3. ExistsBijection(1..n, listed)
    BY <2>2 DEF ExistsBijection
  <2>4. QED
    BY <2>3, FS_CountingElements
<1>5. /\ head = IF n = 0 THEN NoNode ELSE l[1]
      /\ \A i \in 1..n : next[l[i]] = IF i < n THEN l[i + 1] ELSE NoNode
  BY <1>1 DEF Chain
<1>6. \E f \in [1..Cardinality(listed) -> listed] :
        /\ \A c \in listed : \E i \in 1..Cardinality(listed) : f[i] = c
        /\ head = IF Cardinality(listed) = 0 THEN NoNode ELSE f[1]
        /\ \A i \in 1..Cardinality(listed) :
             next[f[i]] = IF i < Cardinality(listed) THEN f[i + 1] ELSE NoNode
  BY <1>2, <1>3, <1>4, <1>5
<1>7. QED
  BY <1>2, <1>6, Zenon DEF ListHoldsNodes, listed

LEMMA ThreadsInit == Init => Owned /\ ListInv
<1> SUFFICES ASSUME Init PROVE Owned /\ ListInv
  OBVIOUS
<1>1. Owned
  BY DEF Init, Owned, Running, Replaying
<1> DEFINE l == [i \in 1..0 |-> CHOOSE c \in Clients : TRUE]
<1>2. l \in [1..0 -> Clients] /\ 0 \in 0..0
  OBVIOUS
<1>3. Chain(0, l, 0)
  BY DEF Init, Chain
<1> HIDE DEF l
<1>4. \E f \in [1..0 -> Clients], k \in 0..0 : Chain(0, f, k)
  BY <1>2, <1>3, Zenon
<1>5. IsChain
  BY <1>4 DEF IsChain
<1>6. QED
  BY <1>1, <1>5 DEF ListInv

LEMMA ThreadsInvariance == Spec => [](Inv /\ Owned /\ ListInv)
<1>1. Inv /\ Owned /\ ListInv /\ [Next]_vars => (Owned /\ ListInv)'
  BY OwnedStep, ListStep DEF Inv
<1>2. QED
  BY ThreadsInit, <1>1, Invariance, PTL DEF Spec

\* For any number of clients: the list always ends and holds every node once, but
\* the one that is being joined.
THEOREM ListIsComplete == Spec => []ListHoldsNodes
<1>1. Inv /\ ListInv => ListHoldsNodes
  <2>1. CASE main = "abort"
    BY <2>1 DEF ListHoldsNodes
  <2>2. CASE main # "abort"
    BY <2>2, ChainHoldsNodes DEF Inv, ListInv
  <2>3. QED
    BY <2>1, <2>2
<1>2. QED
  BY <1>1, ThreadsInvariance, PTL

\* For any number of clients: a node is freed only when its thread has ended, and
\* before main returns it has joined every thread and freed every node.
THEOREM NoThreadIsForgotten == Spec => []ThreadsHaveNodes
<1>1. ASSUME Inv, Owned, ListInv PROVE ThreadsHaveNodes
  <2>1. \A c \in Clients : thread[c] \in Running => c \in node
    BY <1>1 DEF Owned
  <2>2. ASSUME main \in {"timer", "exit"}
        PROVE  /\ node = {} /\ \A c \in client_fd : thread[c] = "none"
               /\ Cardinality(client_fd) <= 1
    <3>0. PICK n \in Nat : \E l \in [1..n -> Clients], k \in 0..n : Chain(n, l, k)
      BY <1>1, <2>2 DEF ListInv, IsChain
    <3>1. PICK l \in [1..n -> Clients], k \in 0..n : Chain(n, l, k)
      BY <3>0
    <3>2. node = {}
      BY <1>1, <2>2, <3>1 DEF Chain, Inv, TypeInv, TypeOK
    <3>3. client_fd \subseteq Clients /\ \A c \in client_fd : thread[c] = "none"
      BY <1>1, <2>1, <2>2, <3>2 DEF Inv, TypeInv, TypeOK, Life, Owned
    <3>4. \A c, d \in client_fd : c = d
      BY <1>1, <3>3 DEF Owned
    <3>5. CASE client_fd = {}
      BY <3>2, <3>3, <3>5, FS_EmptySet
    <3>6. CASE client_fd # {}
      <4>1. PICK c \in client_fd : client_fd = {c}
        BY <3>4, <3>6
      <4>2. Cardinality(client_fd) = 1
        BY <4>1, FS_Singleton
      <4>3. QED
        BY <3>2, <3>3, <4>2
    <3>7. QED
      BY <3>5, <3>6
  <2>3. QED
    BY <2>1, <2>2 DEF ThreadsHaveNodes
<1>2. QED
  BY <1>1, ThreadsInvariance, PTL
=============================================================================
