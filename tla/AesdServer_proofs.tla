-------------------------- MODULE AesdServer_proofs --------------------------
(***************************************************************************)
(* Proofs about the socket server, for any number of clients, failing      *)
(* calls and timestamps: its types, and in the file build that the mutex   *)
(* gives every client the whole file and keeps the lines of all clients.   *)
(***************************************************************************)
EXTENDS AesdServer, SequenceTheorems, TLAPS

\* TypeOK, with what its bounds rest on.
TypeInv ==
  /\ TypeOK
  /\ timer_pos = ticks
  /\ timer = "lock" => ticks < MaxTicks
  /\ main = "join" => current \in Clients
  /\ main = "start" => ~is_fd_created
  /\ ~is_fd_created => \A c \in Clients : thread[c] = "none"
  /\ timer # "none" => FileBuild

LEMMA WriteAtType ==
  ASSUME NEW s \in Seq(Lines), NEW p \in Nat, NEW x \in Lines
  PROVE  /\ WriteAt(s, p, x) \in Seq(Lines)
         /\ Len(WriteAt(s, p, x)) \in Nat
         /\ Len(s) <= Len(WriteAt(s, p, x)) /\ p < Len(WriteAt(s, p, x))
         /\ WriteAt(s, p, x)[p + 1] = x
         /\ \A i \in 1..Len(s) : i # p + 1 => WriteAt(s, p, x)[i] = s[i]
         /\ \A i \in 1..Len(WriteAt(s, p, x)) :
              i > Len(s) /\ i # p + 1 => WriteAt(s, p, x)[i] = Hole
<1> DEFINE n == IF p < Len(s) THEN Len(s) ELSE p + 1
           f(i) == IF i = p + 1 THEN x ELSE IF i <= Len(s) THEN s[i] ELSE Hole
<1>1. n \in Nat /\ Len(s) \in Nat /\ Len(s) <= n /\ p < n
  OBVIOUS
<1>2. \A i \in 1..n : f(i) \in Lines
  BY DEF Lines
<1>3. WriteAt(s, p, x) = [i \in 1..n |-> f(i)]
  BY DEF WriteAt
<1>4. WriteAt(s, p, x) \in Seq(Lines) /\ Len(WriteAt(s, p, x)) = n
  <2> HIDE DEF f, n
  <2>1. QED
    BY <1>1, <1>2, <1>3
<1>5. \A i \in 1..n : WriteAt(s, p, x)[i] = f(i)
  BY <1>3
<1>6. QED
  BY <1>1, <1>4, <1>5

\* What the write of a client's line makes of the file.
LEMMA FileWrite ==
  ASSUME TypeInv, NEW c \in Clients
  PROVE  /\ WriteAt(data, f_pos, c) \in Seq(Lines)
         /\ Len(data) <= Len(WriteAt(data, f_pos, c))
         /\ Holds(WriteAt(data, f_pos, c), c)
         /\ \A i \in 1..Len(data) : i <= f_pos => WriteAt(data, f_pos, c)[i] = data[i]
<1> DEFINE w == WriteAt(data, f_pos, c)
<1>1. data \in Seq(Lines) /\ f_pos \in Nat /\ c \in Lines
  BY DEF TypeInv, TypeOK, Lines
<1>2. /\ w \in Seq(Lines) /\ Len(w) \in Nat
      /\ Len(data) <= Len(w) /\ f_pos < Len(w) /\ w[f_pos + 1] = c
      /\ \A i \in 1..Len(data) : i # f_pos + 1 => w[i] = data[i]
  <2>1. w \in Seq(Lines)
    BY <1>1, WriteAtType
  <2>2. Len(w) \in Nat /\ Len(data) <= Len(w) /\ f_pos < Len(w)
    BY <1>1, WriteAtType
  <2>3. w[f_pos + 1] = c
    BY <1>1, WriteAtType
  <2>4. \A i \in 1..Len(data) : i # f_pos + 1 => w[i] = data[i]
    BY <1>1, WriteAtType
  <2>5. QED
    BY <2>1, <2>2, <2>3, <2>4
<1> HIDE DEF w
<1>3. Holds(w, c)
  BY <1>1, <1>2 DEF Holds
<1>4. \A i \in 1..Len(data) : i <= f_pos => w[i] = data[i]
  BY <1>1, <1>2
<1>5. QED
  BY <1>2, <1>3, <1>4 DEF w

\* What the write of a timestamp leaves of it.
LEMMA StampWrite ==
  ASSUME TypeInv
  PROVE  /\ WriteAt(data, timer_pos, Stamp) \in Seq(Lines)
         /\ Len(data) <= Len(WriteAt(data, timer_pos, Stamp))
         /\ \A i \in 1..Len(WriteAt(data, timer_pos, Stamp)) :
              WriteAt(data, timer_pos, Stamp)[i] \in Clients =>
                i \in 1..Len(data) /\ WriteAt(data, timer_pos, Stamp)[i] = data[i]
<1> DEFINE w == WriteAt(data, timer_pos, Stamp)
<1>1. data \in Seq(Lines) /\ timer_pos \in Nat /\ Stamp \in Lines
  BY ServerAssumption DEF TypeInv, TypeOK, Lines
<1>2. /\ w \in Seq(Lines) /\ Len(w) \in Nat /\ Len(data) <= Len(w)
      /\ w[timer_pos + 1] = Stamp
      /\ \A i \in 1..Len(data) : i # timer_pos + 1 => w[i] = data[i]
      /\ \A i \in 1..Len(w) : i > Len(data) /\ i # timer_pos + 1 => w[i] = Hole
  <2>1. w \in Seq(Lines)
    BY <1>1, WriteAtType
  <2>2. Len(w) \in Nat /\ Len(data) <= Len(w)
    BY <1>1, WriteAtType
  <2>3. w[timer_pos + 1] = Stamp
    BY <1>1, WriteAtType
  <2>4. \A i \in 1..Len(data) : i # timer_pos + 1 => w[i] = data[i]
    BY <1>1, WriteAtType, ZenonT(40)
  <2>5. \A i \in 1..Len(w) : i > Len(data) /\ i # timer_pos + 1 => w[i] = Hole
    BY <1>1, WriteAtType, ZenonT(40)
  <2>6. QED
    BY <2>1, <2>2, <2>3, <2>4, <2>5
<1> HIDE DEF w
<1>3. ASSUME NEW i \in 1..Len(w), w[i] \in Clients
      PROVE  i \in 1..Len(data) /\ w[i] = data[i]
  <2>1. Stamp \notin Clients /\ Hole \notin Clients
    BY ServerAssumption
  <2>2. i # timer_pos + 1 /\ i <= Len(data)
    BY <1>1, <1>2, <1>3, <2>1
  <2>3. QED
    BY <1>1, <1>2, <1>3, <2>2
<1>4. QED
  BY <1>2, <1>3 DEF w

\* Every step keeps the types.
LEMMA TypeStep ==
  ASSUME TypeInv, [Next]_vars
  PROVE  TypeInv'
<1> USE ServerAssumption
    DEF TypeInv, TypeOK, Running, Replaying, At, Goto, Serving,
        control, list, threads, locals, network, storage, others, clock
<1>1. CASE Signal
  BY <1>1 DEF Signal
<1>2. CASE StartServer
  BY <1>2 DEF StartServer
<1>3. CASE LeaveLoop
  BY <1>3 DEF LeaveLoop, Leave
<1>4. CASE AcceptNothing
  BY <1>4 DEF AcceptNothing
<1>5. CASE KeepNode
  BY <1>5 DEF KeepNode, Takes
<1>6. CASE TakeNode
  <2>1. main = "clean" /\ main' = "join" /\ current \in Clients
    BY <1>6 DEF TakeNode
  <2>2. next[current] \in Clients \cup {NoNode}
    BY <2>1
  <2>3. head' \in Clients \cup {NoNode} /\ next' \in [Clients -> Clients \cup {NoNode}]
    BY <1>6, <2>2, ZenonT(40) DEF TakeNode
  <2>4. QED
    BY <1>6, <2>1, <2>3 DEF TakeNode
<1>7. CASE Join
  BY <1>7 DEF Join
<1>8. CASE Cleaned
  BY <1>8 DEF Cleaned
<1>9. CASE JoinTimer
  BY <1>9 DEF JoinTimer
<1>10. CASE TimerWakes
  BY <1>10 DEF TimerWakes
<1>11. CASE TimerWrites
  <2>1. data' \in Seq(Lines)
    BY <1>11, StampWrite DEF TimerWrites
  <2>2. Len(data) <= Len(data')
    BY <1>11, StampWrite DEF TimerWrites
  <2>3. QED
    BY <1>11, <2>1, <2>2 DEF TimerWrites, Lines
<1>12. CASE TimerWriteFails
  BY <1>12 DEF TimerWriteFails, CallFails
<1>13. CASE TimerFails
  BY <1>13 DEF TimerFails, CallFails
<1>14. CASE StartNoTimer
  BY <1>14 DEF StartNoTimer, CallFails
<1>15. CASE StartFails
  BY <1>15 DEF StartFails, CallFails
<1>16. CASE AcceptFails
  BY <1>16 DEF AcceptFails, Leave, CallFails
<1>17. ASSUME NEW c \in Clients, Connect(c) PROVE TypeInv'
  BY <1>17, SMTT(30) DEF Connect
<1>18. ASSUME NEW c \in Clients, Send(c) PROVE TypeInv'
  BY <1>18, SMTT(30) DEF Send
<1>19. ASSUME NEW c \in Clients, Accept(c) PROVE TypeInv'
  BY <1>19 DEF Accept, Accepts, OpenData
<1>20. ASSUME NEW c \in Clients, ReceiveLine(c) PROVE TypeInv'
  BY <1>20, SMTT(30) DEF ReceiveLine
<1>21. ASSUME NEW c \in Clients, ReceiveNothing(c) PROVE TypeInv'
  BY <1>21 DEF ReceiveNothing
<1>22. ASSUME NEW c \in Clients, Ioctl(c) PROVE TypeInv'
  BY <1>22, SMTT(30) DEF Ioctl
<1>23. ASSUME NEW c \in Clients, WriteStart(c) PROVE TypeInv'
  BY <1>23 DEF WriteStart
<1>24. ASSUME NEW c \in Clients, WriteEnd(c) PROVE TypeInv'
  <2>1. c \in Lines /\ Hole \in Lines
    BY DEF Lines
  <2>2. data' \in Seq(Lines) /\ (Len(data) <= Capacity => Len(data') <= Capacity)
    <3>1. CASE Len(data) < Capacity
      BY <1>24, <2>1, <3>1 DEF WriteEnd
    <3>2. CASE ~(Len(data) < Capacity)
      <4>1. Tail(data) \in Seq(Lines) /\ Len(Tail(data)) = Len(data) - 1
        BY <3>2
      <4>2. data' = Append(Tail(data), Hole)
        BY <1>24, <3>2 DEF WriteEnd
      <4>3. QED
        BY <2>1, <4>1, <4>2
    <3>3. QED
      BY <3>1, <3>2
  <2>3. QED
    BY <1>24, <2>2 DEF WriteEnd
<1>25. ASSUME NEW c \in Clients, LockMutex(c) PROVE TypeInv'
  BY <1>25 DEF LockMutex
<1>26. ASSUME NEW c \in Clients, WriteFile(c) PROVE TypeInv'
  <2>1. data' \in Seq(Lines) /\ Len(data) <= Len(data')
    BY <1>26, FileWrite DEF WriteFile, Lines
  <2>2. QED
    BY <1>26, <2>1 DEF WriteFile, Lines
<1>27. ASSUME NEW c \in Clients, ReadStart(c) PROVE TypeInv'
  BY <1>27 DEF ReadStart
<1>28. ASSUME NEW c \in Clients, ReadLine(c) PROVE TypeInv'
  BY <1>28 DEF ReadLine
<1>29. ASSUME NEW c \in Clients, ReadEnd(c) PROVE TypeInv'
  BY <1>29 DEF ReadEnd
<1>30. ASSUME NEW c \in Clients, ReadFreed(c) PROVE TypeInv'
  BY <1>30 DEF ReadFreed, Freed
<1>31. ASSUME NEW c \in Clients, SendLine(c) PROVE TypeInv'
  <2>1. reply' \in [Clients -> Seq(Lines)]
    BY <1>31 DEF SendLine
  <2>2. read_buffer' \in [Clients -> Lines]
    BY <1>31 DEF SendLine, Lines
  <2>3. QED
    BY <1>31, <2>1, <2>2 DEF SendLine
<1>32. ASSUME NEW c \in Clients, SetComplete(c) PROVE TypeInv'
  BY <1>32 DEF SetComplete
<1>33. ASSUME NEW c \in Clients, CloseClient(c) PROVE TypeInv'
  BY <1>33 DEF CloseClient
<1>34. ASSUME NEW c \in Clients, SpawnFails(c) PROVE TypeInv'
  BY <1>34 DEF SpawnFails, Accepts, OpenData, Leave, CallFails
<1>35. ASSUME NEW c \in Clients, OpenFails(c) PROVE TypeInv'
  BY <1>35 DEF OpenFails, Accepts, CallFails
<1>36. ASSUME NEW c \in Clients, ReceiveFails(c) PROVE TypeInv'
  BY <1>36 DEF ReceiveFails, CallFails
<1>37. ASSUME NEW c \in Clients, WriteFails(c) PROVE TypeInv'
  BY <1>37 DEF WriteFails, CallFails
<1>38. ASSUME NEW c \in Clients, SendFails(c) PROVE TypeInv'
  <2>1. read_buffer' \in [Clients -> Lines]
    BY <1>38 DEF SendFails, Lines
  <2>2. QED
    BY <1>38, <2>1 DEF SendFails
<1>39. ASSUME NEW c \in Clients, SendKills(c) PROVE TypeInv'
  BY <1>39 DEF SendKills
<1>40. CASE UNCHANGED vars
  BY <1>40 DEF vars
<1>41. QED
  BY <1>1, <1>2, <1>3, <1>4, <1>5, <1>6, <1>7, <1>8, <1>9, <1>10, <1>11,
     <1>12, <1>13, <1>14, <1>15, <1>16, <1>17, <1>18, <1>19, <1>20, <1>21,
     <1>22, <1>23, <1>24, <1>25, <1>26, <1>27, <1>28, <1>29, <1>30, <1>31,
     <1>32, <1>33, <1>34, <1>35, <1>36, <1>37, <1>38, <1>39, <1>40
  DEF Next, MainStep, ThreadStep, ThreadRuns, TimerStep, Fault

-----------------------------------------------------------------------------
\* Between LockMutex and the end of its replay a thread of the file build holds
\* the mutex.
Locked == {"write", "read", "reading", "send"}

\* The life of a client and its thread, and who holds the mutex.
Life ==
  /\ \A c \in Clients :
       /\ conn[c] \in {"away", "queued"} => thread[c] = "none"
       /\ conn[c] = "broken" => thread[c] \in {"finish", "close", "done", "killed"}
       /\ thread[c] \in Locked \cup {"ioctl", "lock", "writing"} => input[c] \in Orders
       /\ thread[c] \in {"none", "recv", "ioctl", "lock", "write", "writing"}
            => reply[c] = <<>>
       /\ thread[c] = "killed" =>
            main = "abort" /\ \A d \in Clients : thread[d] \in {"none", "killed"}
       /\ FileBuild =>
            /\ thread[c] \notin {"ioctl", "writing"}
            /\ thread[c] \in Locked => mutex = c

\* Every step keeps the order of a client's life.
LEMMA LifeStep ==
  ASSUME TypeInv, Life, [Next]_vars
  PROVE  Life'
<1> USE ServerAssumption
    DEF TypeInv, TypeOK, Life, Locked, Running, Replaying, At, Goto, Serving,
        control, list, threads, locals, network, storage, others, clock
<1>1. CASE Signal
  BY <1>1 DEF Signal
<1>2. CASE StartServer
  BY <1>2 DEF StartServer
<1>3. CASE LeaveLoop
  BY <1>3 DEF LeaveLoop, Leave
<1>4. CASE AcceptNothing
  BY <1>4 DEF AcceptNothing
<1>5. CASE KeepNode
  BY <1>5 DEF KeepNode, Takes
<1>6. CASE TakeNode
  BY <1>6 DEF TakeNode, Takes
<1>7. CASE Join
  BY <1>7 DEF Join
<1>8. CASE Cleaned
  BY <1>8 DEF Cleaned
<1>9. CASE JoinTimer
  BY <1>9 DEF JoinTimer
<1>10. CASE TimerWakes
  BY <1>10 DEF TimerWakes
<1>11. CASE TimerWrites
  BY <1>11 DEF TimerWrites
<1>12. CASE TimerWriteFails
  BY <1>12 DEF TimerWriteFails, CallFails
<1>13. CASE TimerFails
  BY <1>13 DEF TimerFails, CallFails
<1>14. CASE StartNoTimer
  BY <1>14 DEF StartNoTimer, CallFails
<1>15. CASE StartFails
  BY <1>15 DEF StartFails, CallFails
<1>16. CASE AcceptFails
  BY <1>16 DEF AcceptFails, Leave, CallFails
<1>17. ASSUME NEW c \in Clients, Connect(c) PROVE Life'
  BY <1>17 DEF Connect
<1>18. ASSUME NEW c \in Clients, Send(c) PROVE Life'
  BY <1>18 DEF Send
<1>19. ASSUME NEW c \in Clients, Accept(c) PROVE Life'
  BY <1>19 DEF Accept, Accepts, OpenData
<1>20. ASSUME NEW c \in Clients, ReceiveLine(c) PROVE Life'
  BY <1>20 DEF ReceiveLine
<1>21. ASSUME NEW c \in Clients, ReceiveNothing(c) PROVE Life'
  BY <1>21 DEF ReceiveNothing
<1>22. ASSUME NEW c \in Clients, Ioctl(c) PROVE Life'
  BY <1>22 DEF Ioctl
<1>23. ASSUME NEW c \in Clients, WriteStart(c) PROVE Life'
  BY <1>23 DEF WriteStart
<1>24. ASSUME NEW c \in Clients, WriteEnd(c) PROVE Life'
  BY <1>24, SMTT(30) DEF WriteEnd
<1>25. ASSUME NEW c \in Clients, LockMutex(c) PROVE Life'
  BY <1>25 DEF LockMutex
<1>26. ASSUME NEW c \in Clients, WriteFile(c) PROVE Life'
  BY <1>26 DEF WriteFile
<1>27. ASSUME NEW c \in Clients, ReadStart(c) PROVE Life'
  BY <1>27 DEF ReadStart
<1>28. ASSUME NEW c \in Clients, ReadLine(c) PROVE Life'
  BY <1>28 DEF ReadLine
<1>29. ASSUME NEW c \in Clients, ReadEnd(c) PROVE Life'
  BY <1>29 DEF ReadEnd
<1>30. ASSUME NEW c \in Clients, ReadFreed(c) PROVE Life'
  BY <1>30 DEF ReadFreed, Freed
<1>31. ASSUME NEW c \in Clients, SendLine(c) PROVE Life'
  BY <1>31, SMTT(30) DEF SendLine
<1>32. ASSUME NEW c \in Clients, SetComplete(c) PROVE Life'
  BY <1>32 DEF SetComplete
<1>33. ASSUME NEW c \in Clients, CloseClient(c) PROVE Life'
  BY <1>33 DEF CloseClient
<1>34. ASSUME NEW c \in Clients, SpawnFails(c) PROVE Life'
  BY <1>34 DEF SpawnFails, Accepts, OpenData, Leave, CallFails
<1>35. ASSUME NEW c \in Clients, OpenFails(c) PROVE Life'
  BY <1>35 DEF OpenFails, Accepts, CallFails
<1>36. ASSUME NEW c \in Clients, ReceiveFails(c) PROVE Life'
  BY <1>36 DEF ReceiveFails, CallFails
<1>37. ASSUME NEW c \in Clients, WriteFails(c) PROVE Life'
  BY <1>37 DEF WriteFails, CallFails
<1>38. ASSUME NEW c \in Clients, SendFails(c) PROVE Life'
  BY <1>38 DEF SendFails
<1>39. ASSUME NEW c \in Clients, SendKills(c) PROVE Life'
  BY <1>39 DEF SendKills
<1>40. CASE UNCHANGED vars
  BY <1>40 DEF vars
<1>41. QED
  BY <1>1, <1>2, <1>3, <1>4, <1>5, <1>6, <1>7, <1>8, <1>9, <1>10, <1>11,
     <1>12, <1>13, <1>14, <1>15, <1>16, <1>17, <1>18, <1>19, <1>20, <1>21,
     <1>22, <1>23, <1>24, <1>25, <1>26, <1>27, <1>28, <1>29, <1>30, <1>31,
     <1>32, <1>33, <1>34, <1>35, <1>36, <1>37, <1>38, <1>39, <1>40
  DEF Next, MainStep, ThreadStep, ThreadRuns, TimerStep, Fault

-----------------------------------------------------------------------------
\* Without a failing send the shared position is above every client's line
\* whenever no replay is under way, so that the next line goes above them too.
Keeps ==
  /\ \A i \in 1..Len(data) : data[i] \in Clients => is_fd_created
  /\ FileBuild /\ ~SomeSendFailed
     /\ (\A c \in Clients : thread[c] \notin {"read", "reading", "send", "killed"})
       => \A i \in 1..Len(data) : data[i] \in Clients => i <= f_pos


\* Every step keeps the shared position above the lines.
LEMMA KeepsStep ==
  ASSUME TypeInv, Life, Keeps, [Next]_vars
  PROVE  Keeps'
<1> USE ServerAssumption
    DEF TypeInv, TypeOK, Life, Keeps, SomeSendFailed, Locked, Running, Replaying, At, Goto,
        control, list, threads, locals, network, storage, others, clock
<1>1. CASE Signal
  BY <1>1 DEF Signal
<1>2. CASE StartServer
  BY <1>2 DEF StartServer
<1>3. CASE LeaveLoop
  BY <1>3 DEF LeaveLoop, Leave
<1>4. CASE AcceptNothing
  BY <1>4 DEF AcceptNothing
<1>5. CASE KeepNode
  BY <1>5 DEF KeepNode, Takes
<1>6. CASE TakeNode
  BY <1>6 DEF TakeNode, Takes
<1>7. CASE Join
  BY <1>7 DEF Join
<1>8. CASE Cleaned
  BY <1>8 DEF Cleaned
<1>9. CASE JoinTimer
  BY <1>9 DEF JoinTimer
<1>10. CASE TimerWakes
  BY <1>10 DEF TimerWakes
<1>11. CASE TimerWrites
  <2>1. \A i \in 1..Len(data') :
          data'[i] \in Clients => i \in 1..Len(data) /\ data'[i] = data[i]
    BY <1>11, StampWrite DEF TimerWrites
  <2>2. QED
    BY <1>11, <2>1 DEF TimerWrites
<1>12. CASE TimerWriteFails
  BY <1>12 DEF TimerWriteFails, CallFails
<1>13. CASE TimerFails
  BY <1>13 DEF TimerFails, CallFails
<1>14. CASE StartNoTimer
  BY <1>14 DEF StartNoTimer, CallFails
<1>15. CASE StartFails
  BY <1>15 DEF StartFails, CallFails
<1>16. CASE AcceptFails
  BY <1>16 DEF AcceptFails, Leave, CallFails
<1>17. ASSUME NEW c \in Clients, Connect(c) PROVE Keeps'
  BY <1>17 DEF Connect
<1>18. ASSUME NEW c \in Clients, Send(c) PROVE Keeps'
  BY <1>18 DEF Send
<1>19. ASSUME NEW c \in Clients, Accept(c) PROVE Keeps'
  BY <1>19 DEF Accept, Accepts, OpenData
<1>20. ASSUME NEW c \in Clients, ReceiveLine(c) PROVE Keeps'
  BY <1>20 DEF ReceiveLine
<1>21. ASSUME NEW c \in Clients, ReceiveNothing(c) PROVE Keeps'
  BY <1>21 DEF ReceiveNothing
<1>22. ASSUME NEW c \in Clients, Ioctl(c) PROVE Keeps'
  BY <1>22 DEF Ioctl
<1>23. ASSUME NEW c \in Clients, WriteStart(c) PROVE Keeps'
  BY <1>23 DEF WriteStart
<1>24. ASSUME NEW c \in Clients, WriteEnd(c) PROVE Keeps'
  BY <1>24 DEF WriteEnd
<1>25. ASSUME NEW c \in Clients, LockMutex(c) PROVE Keeps'
  BY <1>25 DEF LockMutex
<1>26. ASSUME NEW c \in Clients, WriteFile(c) PROVE Keeps'
  BY <1>26 DEF WriteFile
<1>27. ASSUME NEW c \in Clients, ReadStart(c) PROVE Keeps'
  BY <1>27 DEF ReadStart
<1>28. ASSUME NEW c \in Clients, ReadLine(c) PROVE Keeps'
  BY <1>28 DEF ReadLine
<1>29. ASSUME NEW c \in Clients, ReadEnd(c) PROVE Keeps'
  BY <1>29 DEF ReadEnd
<1>30. ASSUME NEW c \in Clients, ReadFreed(c) PROVE Keeps'
  BY <1>30 DEF ReadFreed, Freed
<1>31. ASSUME NEW c \in Clients, SendLine(c) PROVE Keeps'
  BY <1>31 DEF SendLine
<1>32. ASSUME NEW c \in Clients, SetComplete(c) PROVE Keeps'
  BY <1>32 DEF SetComplete
<1>33. ASSUME NEW c \in Clients, CloseClient(c) PROVE Keeps'
  BY <1>33 DEF CloseClient
<1>34. ASSUME NEW c \in Clients, SpawnFails(c) PROVE Keeps'
  BY <1>34 DEF SpawnFails, Accepts, OpenData, Leave, CallFails
<1>35. ASSUME NEW c \in Clients, OpenFails(c) PROVE Keeps'
  BY <1>35 DEF OpenFails, Accepts, CallFails
<1>36. ASSUME NEW c \in Clients, ReceiveFails(c) PROVE Keeps'
  <2>1. thread[c] = "recv" /\ conn' = [conn EXCEPT ![c] = "failed"] /\ conn[c] # "broken"
    BY <1>36 DEF ReceiveFails
  <2>2. SomeSendFailed => SomeSendFailed'
    BY <2>1
  <2>3. QED
    BY <1>36, <2>2 DEF ReceiveFails
<1>37. ASSUME NEW c \in Clients, WriteFails(c) PROVE Keeps'
  BY <1>37 DEF WriteFails, CallFails
<1>38. ASSUME NEW c \in Clients, SendFails(c) PROVE Keeps'
  BY <1>38 DEF SendFails
<1>39. ASSUME NEW c \in Clients, SendKills(c) PROVE Keeps'
  BY <1>39 DEF SendKills
<1>40. CASE UNCHANGED vars
  BY <1>40 DEF vars
<1>41. QED
  BY <1>1, <1>2, <1>3, <1>4, <1>5, <1>6, <1>7, <1>8, <1>9, <1>10, <1>11,
     <1>12, <1>13, <1>14, <1>15, <1>16, <1>17, <1>18, <1>19, <1>20, <1>21,
     <1>22, <1>23, <1>24, <1>25, <1>26, <1>27, <1>28, <1>29, <1>30, <1>31,
     <1>32, <1>33, <1>34, <1>35, <1>36, <1>37, <1>38, <1>39, <1>40
  DEF Next, MainStep, ThreadStep, ThreadRuns, TimerStep, Fault

-----------------------------------------------------------------------------
\* A replay of the file build has sent the file up to its position.
Replay ==
  FileBuild => \A c \in Clients :
    /\ thread[c] = "read" =>
         f_pos <= Len(data) /\ Len(reply[c]) = f_pos
         /\ \A i \in 1..f_pos : reply[c][i] = data[i]
    /\ thread[c] = "reading" =>
         pos[c] <= Len(data) /\ Len(reply[c]) = pos[c]
         /\ \A i \in 1..pos[c] : reply[c][i] = data[i]
    /\ thread[c] = "send" =>
         f_pos <= Len(data) /\ Len(reply[c]) + 1 = f_pos
         /\ read_buffer[c] = data[f_pos]
         /\ \A i \in 1..Len(reply[c]) : reply[c][i] = data[i]
    /\ /\ thread[c] \in {"read", "reading", "send"}
       /\ input[c] = "line" /\ conn[c] = "accepted"
       => Holds(data, c)


\* Every step keeps the replays equal to the file.
LEMMA ReplayStep ==
  ASSUME TypeInv, Life, Replay, [Next]_vars
  PROVE  Replay'
<1> USE ServerAssumption
    DEF TypeInv, TypeOK, Life, Replay, Holds, Locked, Running, Replaying, At, Goto,
        control, list, threads, locals, network, storage, others, clock
<1>1. CASE Signal
  BY <1>1 DEF Signal
<1>2. CASE StartServer
  BY <1>2 DEF StartServer
<1>3. CASE LeaveLoop
  BY <1>3 DEF LeaveLoop, Leave
<1>4. CASE AcceptNothing
  BY <1>4 DEF AcceptNothing
<1>5. CASE KeepNode
  BY <1>5 DEF KeepNode, Takes
<1>6. CASE TakeNode
  BY <1>6 DEF TakeNode, Takes
<1>7. CASE Join
  BY <1>7 DEF Join
<1>8. CASE Cleaned
  BY <1>8 DEF Cleaned
<1>9. CASE JoinTimer
  BY <1>9 DEF JoinTimer
<1>10. CASE TimerWakes
  BY <1>10 DEF TimerWakes
<1>11. CASE TimerWrites
  BY <1>11 DEF TimerWrites
<1>12. CASE TimerWriteFails
  BY <1>12 DEF TimerWriteFails, CallFails
<1>13. CASE TimerFails
  BY <1>13 DEF TimerFails, CallFails
<1>14. CASE StartNoTimer
  BY <1>14 DEF StartNoTimer, CallFails
<1>15. CASE StartFails
  BY <1>15 DEF StartFails, CallFails
<1>16. CASE AcceptFails
  BY <1>16 DEF AcceptFails, Leave, CallFails
<1>17. ASSUME NEW c \in Clients, Connect(c) PROVE Replay'
  BY <1>17 DEF Connect
<1>18. ASSUME NEW c \in Clients, Send(c) PROVE Replay'
  BY <1>18 DEF Send
<1>19. ASSUME NEW c \in Clients, Accept(c) PROVE Replay'
  BY <1>19 DEF Accept, Accepts, OpenData
<1>20. ASSUME NEW c \in Clients, ReceiveLine(c) PROVE Replay'
  BY <1>20 DEF ReceiveLine
<1>21. ASSUME NEW c \in Clients, ReceiveNothing(c) PROVE Replay'
  BY <1>21 DEF ReceiveNothing
<1>22. ASSUME NEW c \in Clients, Ioctl(c) PROVE Replay'
  BY <1>22 DEF Ioctl
<1>23. ASSUME NEW c \in Clients, WriteStart(c) PROVE Replay'
  BY <1>23 DEF WriteStart
<1>24. ASSUME NEW c \in Clients, WriteEnd(c) PROVE Replay'
  BY <1>24 DEF WriteEnd
<1>25. ASSUME NEW c \in Clients, LockMutex(c) PROVE Replay'
  BY <1>25 DEF LockMutex
<1>26. ASSUME NEW c \in Clients, WriteFile(c) PROVE Replay'
  <2>1. /\ FileBuild /\ thread[c] = "write" /\ thread' = [thread EXCEPT ![c] = "read"]
        /\ data' = IF input[c] = "seek" THEN data ELSE WriteAt(data, f_pos, c)
        /\ f_pos' = 0
        /\ UNCHANGED <<FileBuild, pos, reply, input, conn>>
    BY <1>26 DEF WriteFile
  <2>2. ASSUME NEW d \in Clients, d # c
        PROVE  thread'[d] \notin {"read", "reading", "send"}
    BY <2>1, <2>2
  <2>3. thread'[c] = "read" /\ reply'[c] = <<>>
    BY <2>1
  <2>4. input[c] = "line" => Holds(data', c)
    <3>1. input[c] = "line" => data' = WriteAt(data, f_pos, c)
      BY <2>1
    <3>2. Holds(WriteAt(data, f_pos, c), c)
      BY FileWrite
    <3> HIDE DEF Holds
    <3>3. QED
      BY <3>1, <3>2
  <2>5. Len(data') \in Nat
    BY TypeStep
  <2>6. f_pos' <= Len(data') /\ Len(reply'[c]) = f_pos' /\ 1..f_pos' = {}
    BY <2>1, <2>3, <2>5
  <2> HIDE DEF TypeInv, TypeOK, Life, Holds
  <2>7. QED
    BY <2>1, <2>2, <2>3, <2>4, <2>6
<1>27. ASSUME NEW c \in Clients, ReadStart(c) PROVE Replay'
  <2>1. /\ thread[c] = "read" /\ thread' = [thread EXCEPT ![c] = "reading"]
        /\ pos' = [pos EXCEPT ![c] = f_pos]
        /\ UNCHANGED <<FileBuild, reply, data, f_pos, input, conn>>
    BY <1>27 DEF ReadStart
  <2>2. ASSUME FileBuild, NEW d \in Clients, d # c
        PROVE  thread'[d] \notin {"read", "reading", "send"}
    BY <2>1, <2>2
  <2>3. thread'[c] = "reading" /\ pos'[c] = f_pos
    BY <2>1
  <2> HIDE DEF TypeInv, TypeOK, Life, Holds
  <2>4. QED
    BY <2>1, <2>2, <2>3
<1>28. ASSUME NEW c \in Clients, ReadLine(c) PROVE Replay'
  <2>1. /\ thread[c] = "reading" /\ thread' = [thread EXCEPT ![c] = "send"]
        /\ pos[c] < Len(data) /\ f_pos' = pos[c] + 1
        /\ read_buffer' = [read_buffer EXCEPT ![c] = data[pos[c] + 1]]
        /\ UNCHANGED <<FileBuild, reply, data, input, conn>>
    BY <1>28 DEF ReadLine
  <2>2. ASSUME FileBuild, NEW d \in Clients, d # c
        PROVE  thread'[d] \notin {"read", "reading", "send"}
    BY <2>1, <2>2
  <2>3. thread'[c] = "send" /\ read_buffer'[c] = data[pos[c] + 1]
    BY <2>1
  <2>4. pos[c] \in Nat /\ Len(data) \in Nat
    OBVIOUS
  <2> HIDE DEF TypeInv, TypeOK, Life, Holds
  <2>5. QED
    BY <2>1, <2>2, <2>3, <2>4
<1>29. ASSUME NEW c \in Clients, ReadEnd(c) PROVE Replay'
  <2>1. /\ thread[c] = "reading" /\ thread' = [thread EXCEPT ![c] = "finish"]
        /\ UNCHANGED <<FileBuild, reply, data, input, conn>>
    BY <1>29 DEF ReadEnd
  <2>2. ASSUME FileBuild, NEW d \in Clients, d # c
        PROVE  thread'[d] \notin {"read", "reading", "send"}
    BY <2>1, <2>2
  <2>3. thread'[c] = "finish"
    BY <2>1
  <2>4. QED
    BY <2>1, <2>2, <2>3
<1>30. ASSUME NEW c \in Clients, ReadFreed(c) PROVE Replay'
  BY <1>30 DEF ReadFreed, Freed
<1>31. ASSUME NEW c \in Clients, SendLine(c) PROVE Replay'
  <2>1. /\ thread[c] = "send" /\ thread' = [thread EXCEPT ![c] = "read"]
        /\ reply' = [reply EXCEPT ![c] = Append(@, read_buffer[c])]
        /\ UNCHANGED <<FileBuild, data, f_pos, input, conn>>
    BY <1>31 DEF SendLine
  <2>2. ASSUME FileBuild, NEW d \in Clients, d # c
        PROVE  thread'[d] \notin {"read", "reading", "send"}
    BY <2>1, <2>2
  <2>3. thread'[c] = "read" /\ reply'[c] = Append(reply[c], read_buffer[c])
    BY <2>1
  <2>4. ASSUME FileBuild
        PROVE  /\ f_pos <= Len(data) /\ Len(reply'[c]) = f_pos
               /\ \A i \in 1..f_pos : reply'[c][i] = data[i]
    <3>1. /\ reply[c] \in Seq(Lines) /\ Len(reply[c]) + 1 = f_pos /\ f_pos <= Len(data)
          /\ read_buffer[c] \in Lines /\ read_buffer[c] = data[f_pos]
          /\ \A i \in 1..Len(reply[c]) : reply[c][i] = data[i]
      BY <2>1, <2>4
    <3>2. QED
      BY <2>3, <3>1
  <2> HIDE DEF TypeInv, TypeOK, Life, Holds
  <2>5. QED
    BY <2>1, <2>2, <2>3, <2>4
<1>32. ASSUME NEW c \in Clients, SetComplete(c) PROVE Replay'
  BY <1>32 DEF SetComplete
<1>33. ASSUME NEW c \in Clients, CloseClient(c) PROVE Replay'
  BY <1>33 DEF CloseClient
<1>34. ASSUME NEW c \in Clients, SpawnFails(c) PROVE Replay'
  BY <1>34, SMTT(30) DEF SpawnFails, Accepts, OpenData, Leave, CallFails
<1>35. ASSUME NEW c \in Clients, OpenFails(c) PROVE Replay'
  BY <1>35 DEF OpenFails, Accepts, CallFails
<1>36. ASSUME NEW c \in Clients, ReceiveFails(c) PROVE Replay'
  BY <1>36 DEF ReceiveFails, CallFails
<1>37. ASSUME NEW c \in Clients, WriteFails(c) PROVE Replay'
  <2>1. /\ thread[c] = "write" /\ thread' = [thread EXCEPT ![c] = "read"]
        /\ conn' = [conn EXCEPT ![c] = "failed"]
        /\ FileBuild => f_pos' = 0
        /\ UNCHANGED <<FileBuild, reply, data, input>>
    BY <1>37 DEF WriteFails, CallFails
  <2>2. ASSUME FileBuild, NEW d \in Clients, d # c
        PROVE  thread'[d] \notin {"read", "reading", "send"}
    BY <2>1, <2>2
  <2>3. thread'[c] = "read" /\ reply'[c] = <<>> /\ conn'[c] = "failed"
    BY <2>1
  <2>4. QED
    BY <2>1, <2>2, <2>3
<1>38. ASSUME NEW c \in Clients, SendFails(c) PROVE Replay'
  <2>1. /\ thread[c] = "send" /\ thread' = [thread EXCEPT ![c] = "finish"]
        /\ conn' = [conn EXCEPT ![c] = "broken"]
        /\ UNCHANGED <<FileBuild, reply, data, f_pos, input>>
    BY <1>38 DEF SendFails
  <2>2. ASSUME FileBuild, NEW d \in Clients, d # c
        PROVE  thread'[d] \notin {"read", "reading", "send"}
    BY <2>1, <2>2
  <2>3. thread'[c] = "finish"
    BY <2>1
  <2>4. QED
    BY <2>1, <2>2, <2>3
<1>39. ASSUME NEW c \in Clients, SendKills(c) PROVE Replay'
  BY <1>39 DEF SendKills
<1>40. CASE UNCHANGED vars
  BY <1>40 DEF vars
<1>41. QED
  BY <1>1, <1>2, <1>3, <1>4, <1>5, <1>6, <1>7, <1>8, <1>9, <1>10, <1>11,
     <1>12, <1>13, <1>14, <1>15, <1>16, <1>17, <1>18, <1>19, <1>20, <1>21,
     <1>22, <1>23, <1>24, <1>25, <1>26, <1>27, <1>28, <1>29, <1>30, <1>31,
     <1>32, <1>33, <1>34, <1>35, <1>36, <1>37, <1>38, <1>39, <1>40
  DEF Next, MainStep, ThreadStep, ThreadRuns, TimerStep, Fault

-----------------------------------------------------------------------------
Inv == TypeInv /\ Life /\ Keeps /\ Replay

LEMMA InitInv == Init => Inv
<1> SUFFICES ASSUME Init PROVE Inv
  OBVIOUS
<1>1. TypeInv
  <2>1. /\ FileBuild \in BOOLEAN /\ failures \in 0..MaxFailures
        /\ timer_pos \in 0..MaxTicks /\ ticks \in 0..MaxTicks
        /\ data \in Seq(Lines) /\ f_pos \in Nat
        /\ Len(data) <= Capacity
    <3>1. PICK n \in Earlier :
            \E lost \in 0..Capacity :
              data = [i \in 1..n |-> IF i <= n - lost THEN Old ELSE Hole]
      BY DEF Init, EarlierData
    <3>2. n \in 0..Capacity /\ data \in Seq(Lines) /\ Len(data) = n
      BY <3>1, ServerAssumption DEF Lines
    <3>3. QED
      BY <3>2, ServerAssumption DEF Init
  <2>2. /\ pos \in [Clients -> Nat]
        /\ read_buffer \in [Clients -> Lines]
        /\ reply \in [Clients -> Seq(Lines)]
        /\ next \in [Clients -> Clients \cup {NoNode}]
        /\ thread \in [Clients -> Running \cup {"none", "done", "killed"}]
        /\ conn \in [Clients -> {"away", "queued", "accepted", "failed", "broken"}]
        /\ input \in [Clients -> {"none", "nothing"} \cup Orders]
    BY DEF Init, Lines
  <2>3. /\ complete_exec \in BOOLEAN /\ is_clear \in BOOLEAN /\ is_fd_created \in BOOLEAN
        /\ main \in {"start", "accept", "clean", "join", "timer", "exit", "abort"}
        /\ {head, current, previous} \subseteq Clients \cup {NoNode}
        /\ node \subseteq Clients /\ complete_flag \subseteq Clients
        /\ client_fd \subseteq Clients
        /\ mutex \in Clients \cup {Nobody}
        /\ timer \in {"none", "sleep", "lock", "done", "killed"}
    BY DEF Init
  <2>4. TypeOK
    BY <2>1, <2>2, <2>3, Zenon DEF TypeOK
  <2>5. QED
    BY <2>4 DEF Init, TypeInv
<1>2. Life
  BY DEF Init, Life, Locked
<1>3. Keeps
  <2>1. \A i \in 1..Len(data) : data[i] \in {Old, Hole}
    BY ServerAssumption DEF Init, EarlierData
  <2>2. \A i \in 1..Len(data) : data[i] \notin Clients
    BY <2>1, ServerAssumption
  <2>3. QED
    BY <2>2 DEF Keeps
<1>4. Replay
  BY DEF Init, Replay
<1>5. QED
  BY <1>1, <1>2, <1>3, <1>4 DEF Inv

LEMMA NextInv == Inv /\ [Next]_vars => Inv'
BY TypeStep, LifeStep, KeepsStep, ReplayStep DEF Inv

LEMMA Invariance == Spec => []Inv
BY InitInv, NextInv, PTL DEF Spec

\* The state of the server is of its type in every behaviour: with it no index
\* of the data and no node of the list is out of range.
THEOREM TypesHold == Spec => []TypeOK
<1>1. Inv => TypeOK
  BY DEF Inv, TypeInv
<1>2. QED
  BY <1>1, Invariance, PTL


-----------------------------------------------------------------------------
\* The steps that change the data.
LEMMA DataSteps ==
  ASSUME [Next]_vars
  PROVE  \/ data' = data \/ StartServer \/ StartNoTimer \/ TimerWrites
         \/ \E c \in Clients : Accept(c) \/ SpawnFails(c) \/ WriteEnd(c) \/ WriteFile(c)
<1> USE DEF control, list, threads, locals, network, storage, others, clock
<1>1. CASE Signal
  BY <1>1 DEF Signal
<1>2. CASE MainStep
  BY <1>2 DEF MainStep, LeaveLoop, AcceptNothing, KeepNode, TakeNode, Join, Cleaned, JoinTimer
<1>3. CASE TimerStep
  BY <1>3 DEF TimerStep, TimerWakes, TimerWriteFails, TimerFails
<1>4. ASSUME NEW c \in Clients, Connect(c) \/ Send(c) PROVE data' = data
  BY <1>4 DEF Connect, Send
<1>5. ASSUME NEW c \in Clients, ThreadStep(c)
      PROVE  data' = data \/ WriteEnd(c) \/ WriteFile(c)
  BY <1>5 DEF ThreadStep, ThreadRuns, ReceiveLine, ReceiveNothing, Ioctl, WriteStart, LockMutex,
       ReadStart, ReadLine, ReadEnd, ReadFreed, SendLine, SetComplete, CloseClient
<1>6. ASSUME NEW c \in Clients, Fault(c)
      PROVE  data' = data \/ StartNoTimer \/ SpawnFails(c)
  BY <1>6 DEF Fault, StartFails, AcceptFails, OpenFails, ReceiveFails, WriteFails, SendFails,
       SendKills
<1>7. CASE UNCHANGED vars
  BY <1>7 DEF vars
<1>8. QED
  BY <1>1, <1>2, <1>3, <1>4, <1>5, <1>6, <1>7 DEF Next

\* A replay of the file build ends at the end of the file only.
LEMMA ReplayEnds ==
  ASSUME TypeInv, [Next]_vars, FileBuild, NEW c \in Clients,
         thread[c] = "reading", thread'[c] = "finish"
  PROVE  pos[c] >= Len(data)
<1> USE DEF control, list, threads, locals, network, storage, others, clock, At, Goto, TypeInv, TypeOK,
        Freed
<1>1. CASE Signal
  BY <1>1 DEF Signal
<1>2. CASE MainStep
  BY <1>2 DEF MainStep, StartServer, LeaveLoop, AcceptNothing, Accept, KeepNode, TakeNode,
       Join, Cleaned, JoinTimer
<1>3. CASE TimerStep
  BY <1>3 DEF TimerStep, TimerWakes, TimerWrites, TimerWriteFails,
       TimerFails
<1>4. ASSUME NEW d \in Clients, Connect(d) \/ Send(d) PROVE FALSE
  BY <1>4 DEF Connect, Send
<1>5. ASSUME NEW d \in Clients, ThreadStep(d) PROVE pos[c] >= Len(data)
  BY <1>5 DEF ThreadStep, ThreadRuns, ReceiveLine, ReceiveNothing, Ioctl, WriteStart, WriteEnd, LockMutex,
       WriteFile, ReadStart, ReadLine, ReadEnd, ReadFreed, SendLine, SetComplete, CloseClient
<1>6. ASSUME NEW d \in Clients, Fault(d) PROVE FALSE
  BY <1>6 DEF Fault, StartNoTimer, StartFails, AcceptFails, SpawnFails, OpenFails,
       ReceiveFails, WriteFails, SendFails, SendKills
<1>7. CASE UNCHANGED vars
  BY <1>7 DEF vars
<1>8. QED
  BY <1>1, <1>2, <1>3, <1>4, <1>5, <1>6, <1>7 DEF Next

-----------------------------------------------------------------------------
\* In the file build a client whose replay ends has been sent exactly the file,
\* and its own line with it: nobody writes between its write and its last read.
THEOREM RepliesAreWholeFiles == Spec => ReplyIsWholeFile
<1> DEFINE Step ==
      \A c \in Clients :
        FileBuild /\ thread[c] = "reading" /\ thread'[c] = "finish" =>
          /\ reply[c] = data
          /\ input[c] = "line" /\ conn[c] = "accepted" => Holds(data, c)
<1>1. ASSUME Inv, [Next]_vars PROVE Step
  <2> SUFFICES ASSUME NEW c \in Clients, FileBuild,
                      thread[c] = "reading", thread'[c] = "finish"
               PROVE  /\ reply[c] = data
                      /\ input[c] = "line" /\ conn[c] = "accepted" => Holds(data, c)
    OBVIOUS
  <2>1. /\ pos[c] <= Len(data) /\ Len(reply[c]) = pos[c]
        /\ \A i \in 1..pos[c] : reply[c][i] = data[i]
        /\ input[c] = "line" /\ conn[c] = "accepted" => Holds(data, c)
    BY <1>1 DEF Inv, Replay
  <2>2. pos[c] >= Len(data)
    BY <1>1, ReplayEnds, Zenon DEF Inv
  <2>3. /\ reply[c] \in Seq(Lines) /\ data \in Seq(Lines) /\ pos[c] \in Nat
        /\ Len(data) \in Nat
    BY <1>1 DEF Inv, TypeInv, TypeOK, Lines
  <2>4. Len(reply[c]) = Len(data) /\ \A i \in 1..Len(data) : reply[c][i] = data[i]
    BY <2>1, <2>2, <2>3
  <2>5. reply[c] = data
    BY <2>3, <2>4
  <2>6. QED
    BY <2>1, <2>5
<1>2. Inv /\ [Next]_vars => [Step]_vars
  BY <1>1
<1>3. QED
  BY <1>2, Invariance, PTL DEF Spec, ReplyIsWholeFile

\* The line of a client is lost from the file to a timestamp or after a failing
\* send only, and from the device only as the oldest of a full one: clients that
\* the server serves at the same time never overwrite one another.
THEOREM ConcurrentClientsKeepLines == Spec => ClientsKeepLines
<1> DEFINE Step ==
      (FileBuild => ticks' = ticks /\ ~SomeSendFailed) =>
        \A i \in 1..Len(data) :
          data[i] \in Clients =>
            (i <= Len(data') /\ data'[i] = data[i]) \/ Shifted(i)
<1>1. ASSUME Inv, [Next]_vars PROVE Step
  <2> SUFFICES ASSUME FileBuild => ticks' = ticks /\ ~SomeSendFailed,
                      NEW i \in 1..Len(data), data[i] \in Clients
               PROVE  (i <= Len(data') /\ data'[i] = data[i]) \/ Shifted(i)
    OBVIOUS
  <2>1. data \in Seq(Lines) /\ f_pos \in Nat /\ ticks \in Nat /\ Len(data) \in Nat
    BY <1>1, ServerAssumption DEF Inv, TypeInv, TypeOK, Lines
  <2>2. is_fd_created /\ main # "start"
    BY <1>1 DEF Inv, Keeps, TypeInv
  <2>3. CASE data' = data
    BY <2>1, <2>3
  <2>4. CASE StartServer \/ StartNoTimer
    BY <2>2, <2>4 DEF StartServer, StartNoTimer
  <2>5. CASE TimerWrites
    BY <1>1, <2>1, <2>5 DEF TimerWrites, Inv, TypeInv
  <2>6. ASSUME NEW c \in Clients, Accept(c) \/ SpawnFails(c)
        PROVE  i <= Len(data') /\ data'[i] = data[i]
    BY <2>1, <2>2, <2>6 DEF Accept, SpawnFails, OpenData
  <2>7. ASSUME NEW c \in Clients, WriteEnd(c)
        PROVE  (i <= Len(data') /\ data'[i] = data[i]) \/ Shifted(i)
    <3>1. c \in Lines /\ Hole \in Lines
      BY DEF Lines
    <3>2. CASE Len(data) < Capacity
      <4>1. data' = Append(data, c)
        BY <2>7, <3>2 DEF WriteEnd
      <4>2. QED
        BY <2>1, <3>1, <4>1
    <3>3. CASE Len(data) >= Capacity
      <4>1. data' = Append(Tail(data), Hole)
        BY <2>1, <2>7, <3>3, ServerAssumption DEF WriteEnd
      <4>2. ~FileBuild /\ Len(data) = Capacity
        <5>1. thread[c] = "writing"
          BY <2>7 DEF WriteEnd, At
        <5>2. ~FileBuild
          BY <1>1, <5>1 DEF Inv, Life
        <5>3. QED
          BY <1>1, <2>1, <3>3, <5>2, ServerAssumption DEF Inv, TypeInv, TypeOK
      <4>3. /\ Tail(data) \in Seq(Lines) /\ Len(Tail(data)) = Len(data) - 1
            /\ i > 1 => Tail(data)[i - 1] = data[i]
        BY <2>1, <4>2, ServerAssumption
      <4>4. /\ Len(data') = Len(data)
            /\ i > 1 => data'[i - 1] = data[i]
        BY <2>1, <3>1, <4>1, <4>3
      <4>5. QED
        BY <4>2, <4>4 DEF Shifted
    <3>4. QED
      BY <2>1, <3>2, <3>3, ServerAssumption
  <2>8. ASSUME NEW c \in Clients, WriteFile(c)
        PROVE  (i <= Len(data') /\ data'[i] = data[i]) \/ Shifted(i)
    <3>1. /\ FileBuild /\ thread[c] = "write"
          /\ data' = data \/ data' = WriteAt(data, f_pos, c)
      BY <2>8 DEF WriteFile, At
    <3>2. mutex = c /\ \A d \in Clients : thread[d] # "killed"
      BY <1>1, <3>1 DEF Inv, Life, Locked
    <3>3. \A d \in Clients : thread[d] \notin {"read", "reading", "send", "killed"}
      BY <1>1, <3>1, <3>2 DEF Inv, Life, Locked
    <3>4. i <= f_pos
      BY <1>1, <3>1, <3>3 DEF Inv, Keeps
    <3>5. /\ Len(WriteAt(data, f_pos, c)) \in Nat
          /\ Len(data) <= Len(WriteAt(data, f_pos, c))
          /\ WriteAt(data, f_pos, c)[i] = data[i]
      BY <1>1, <3>4, FileWrite DEF Inv
    <3>6. QED
      BY <2>1, <3>1, <3>5
  <2>9. QED
    BY <1>1, <2>3, <2>4, <2>5, <2>6, <2>7, <2>8, DataSteps
<1>2. Inv /\ [Next]_vars => [Step]_vars
  BY <1>1
<1>3. QED
  BY <1>2, Invariance, PTL DEF Spec, ClientsKeepLines
=============================================================================
