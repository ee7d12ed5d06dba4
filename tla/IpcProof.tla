------------------------------ MODULE IpcProof ------------------------------
(***************************************************************************)
(* Theorems about modules Ipc and Service, for every number of threads and *)
(* processes, every thread list and every boot order: the invariants of    *)
(* the system calls whatever the programs do; for programs that keep the   *)
(* rules of CourteousSpec, that the calls implement Rendezvous, that the   *)
(* chains of senders have no cycle and that the kernel never faults; and   *)
(* what a server and its clients make of the calls.                        *)
(***************************************************************************)
EXTENDS Service, QueueLemmas

-----------------------------------------------------------------------------
(* The invariant of Ipc                                                    *)

\* The inductive invariant. The type of the ready queue rests on ksetup_th
\* being in it (the head of an empty sequence has no type), and that on what
\* the queues hold.
IInv == TypeOK /\ QueuesMatchStates /\ RunningIsReady

\* A new thread starts outside every IPC.
LEMMA InitIInv == Init => IInv
  <1> SUFFICES ASSUME Init PROVE IInv
    OBVIOUS
  <1> USE ThreadsAssumption, ListsAssumption DEF Init
  <1>1. BootOrder \in Seq(AnyThread) /\ <<Ksetup>> \in Seq(AnyThread)
    BY SeqMonotonic DEF AnyThread
  <1>2. /\ ready \in Seq(AnyThread)
        /\ Len(ready) = 1 + Len(BootOrder)
        /\ ready[1] = Ksetup
        /\ \A i \in 1..Len(BootOrder) : ready[i + 1] = BootOrder[i]
    <2>1. /\ ready \in Seq(AnyThread)
          /\ Len(ready) = Len(<<Ksetup>>) + Len(BootOrder)
          /\ \A i \in 1..(Len(<<Ksetup>>) + Len(BootOrder)) :
               ready[i] = IF i <= Len(<<Ksetup>>) THEN <<Ksetup>>[i]
                          ELSE BootOrder[i - Len(<<Ksetup>>)]
      BY <1>1, ConcatProperties
    <2>2. Len(<<Ksetup>>) = 1 /\ <<Ksetup>>[1] = Ksetup /\ Len(BootOrder) \in Nat
      BY LenProperties
    <2> QED BY <2>1, <2>2
  <1>3. Range(ready) = AnyThread
    <2>1. DOMAIN ready = 1..(1 + Len(BootOrder)) /\ DOMAIN BootOrder = 1..Len(BootOrder)
          /\ Len(BootOrder) \in Nat
      BY <1>2, LenProperties
    <2>2. Ksetup \in Range(ready)
      <3>1. 1 \in DOMAIN ready
        BY <2>1
      <3> QED BY <1>2, <3>1 DEF Range
    <2>3. ASSUME NEW t \in Thread PROVE t \in Range(ready)
      <3>1. PICK i \in 1..Len(BootOrder) : BootOrder[i] = t
        BY <2>1 DEF Range
      <3>2. i + 1 \in DOMAIN ready /\ ready[i + 1] = t
        BY <1>2, <2>1, <3>1
      <3> QED BY <3>2 DEF Range
    <2>4. Range(ready) \subseteq AnyThread
      BY <1>2, RangeOfSeq
    <2> QED BY <2>2, <2>3, <2>4 DEF AnyThread
  <1>4. IsInjective(ready)
    <2> SUFFICES ASSUME NEW i \in 1..(1 + Len(BootOrder)),
                        NEW j \in 1..(1 + Len(BootOrder)),
                        ready[i] = ready[j]
                 PROVE  i = j
      BY <1>2, LenProperties DEF IsInjective
    <2>1. DOMAIN BootOrder = 1..Len(BootOrder) /\ Len(BootOrder) \in Nat
      BY LenProperties
    <2>2. \A k \in 2..(1 + Len(BootOrder)) :
            /\ k - 1 \in DOMAIN BootOrder
            /\ ready[k] = BootOrder[k - 1]
            /\ ready[k] # Ksetup
      BY <1>2, <2>1, ElementOfSeq
    <2>3. CASE i = 1 \/ j = 1
      BY <1>2, <2>1, <2>2, <2>3
    <2>4. CASE i # 1 /\ j # 1
      <3>1. i - 1 \in DOMAIN BootOrder /\ j - 1 \in DOMAIN BootOrder
            /\ BootOrder[i - 1] = BootOrder[j - 1]
        BY <2>1, <2>2, <2>4
      <3>2. i - 1 = j - 1
        BY <3>1 DEF IsInjective
      <3> QED BY <2>1, <3>2
    <2> QED BY <2>3, <2>4
  <1>5. TypeOK
    BY <1>2, EmptySeq DEF TypeOK, AnyThread, IpcBits, Result
  <1>6. IsInjective(<<>>) /\ Range(<<>>) = {}
    BY DEF IsInjective, Range
  <1>7. QueuesMatchStates
    BY <1>3, <1>4, <1>6
       DEF QueuesMatchStates, NoDuplicates, ReadyQueued, BlockedQueued,
           SendersQueued, OneThingAtATime, AnyThread
  <1>8. RunningIsReady
    BY DEF RunningIsReady, AnyThread
  <1> QED BY <1>5, <1>7, <1>8 DEF IInv

\* An election runs a thread of the queue and keeps what is in it.
LEMMA ElectFacts ==
    ASSUME NEW q \in Seq(AnyThread), Range(q) # {}, Elect(q),
           addrSpace \in Proc \cup {None}
    PROVE  /\ cur' \in Range(q) /\ cur' \in AnyThread
           /\ ready' \in Seq(AnyThread)
           /\ Range(ready') = Range(q)
           /\ IsInjective(q) => IsInjective(ready')
           /\ addrSpace' \in Proc \cup {None}
  <1>1. q # <<>>
    BY DEF Range
  <1>2. Head(q) \in AnyThread
    BY <1>1, RotateElements
  <1>3. addrSpace' \in Proc \cup {None}
    BY <1>2, ThreadsAssumption DEF Elect, AnyThread
  <1> QED BY <1>1, <1>3, RotateElements DEF Elect

\* What the invariant says of a thread that makes a call.
LEMMA CallerFacts ==
    ASSUME IInv, Calling
    PROVE  /\ cur \in Thread /\ cur \in Range(ready) /\ cur \notin Range(blocked)
           /\ state[cur] = "READY" /\ ipcState[cur] = {}
           /\ ProcOf[cur] \in Proc
           /\ \A p \in Proc : cur \notin Range(waitList[p])
  <1>1. cur \in Thread
    BY DEF IInv, TypeOK, Calling, AnyThread
  <1>2. state[cur] = "READY" /\ ipcState[cur] = {}
    BY <1>1 DEF IInv, RunningIsReady, QueuesMatchStates, OneThingAtATime
  <1> QED BY <1>1, <1>2, ThreadsAssumption
          DEF IInv, QueuesMatchStates, ReadyQueued, BlockedQueued, SendersQueued,
              AnyThread

\* A call that changes neither a queue nor a state.
LEMMA QuietCall ==
    ASSUME IInv, Calling, NEW m \in Msg, Enter(m), ret' \in [Thread -> Result],
           UNCHANGED <<sched, state, ipcState, links, blocked, waitList, fault>>
    PROVE  IInv'
  <1>1. cur \in Thread /\ ProcOf[cur] \in Proc
    BY CallerFacts
  <1>2. TypeOK'
    BY <1>1 DEF IInv, TypeOK, Enter, sched, links
  <1>3. QueuesMatchStates' /\ RunningIsReady'
    BY DEF IInv, QueuesMatchStates, NoDuplicates, ReadyQueued, BlockedQueued,
           SendersQueued, OneThingAtATime,
           RunningIsReady, sched, links
  <1> QED BY <1>2, <1>3 DEF IInv

\* A call that ends in a fault changes nothing else.
LEMMA FaultyCall ==
    ASSUME IInv, fault' \in {"list", "stack", "null"},
           UNCHANGED <<sched, state, ipcState, links, blocked, waitList, regs, ret>>
    PROVE  IInv'
  BY DEF IInv, TypeOK, QueuesMatchStates, NoDuplicates, ReadyQueued, BlockedQueued,
         SendersQueued, OneThingAtATime, RunningIsReady, sched, links, regs

\* The clock only turns the ready queue.
LEMMA ClockStep == IInv /\ Clock => IInv'
  <1> SUFFICES ASSUME IInv, Clock PROVE IInv'
    OBVIOUS
  <1>1. ready \in Seq(AnyThread) /\ Ksetup \in Range(ready)
        /\ addrSpace \in Proc \cup {None}
    BY DEF IInv, TypeOK, QueuesMatchStates, ReadyQueued, RunningIsReady, AnyThread
  <1>2. Elect(ready)
    BY DEF Clock
  <1>3. /\ cur' \in Range(ready) /\ cur' \in AnyThread
        /\ ready' \in Seq(AnyThread)
        /\ Range(ready') = Range(ready)
        /\ IsInjective(ready) => IsInjective(ready')
        /\ addrSpace' \in Proc \cup {None}
    BY <1>1, <1>2, ElectFacts
  <1>4. TypeOK'
    BY <1>3 DEF IInv, TypeOK, Clock, links, regs
  <1>5. QueuesMatchStates' /\ RunningIsReady'
    BY <1>3 DEF IInv, QueuesMatchStates, NoDuplicates, ReadyQueued, BlockedQueued,
           SendersQueued, OneThingAtATime,
           RunningIsReady, Clock, links, regs
  <1> QED BY <1>4, <1>5 DEF IInv

\* The sender leaves the ready queue for a wait list.
LEMMA SendQueueStep ==
    ASSUME IInv, NEW p \in Proc, NEW m \in Msg, SendQueue(p, m)
    PROVE  IInv'
  <1> DEFINE q == Without(ready, cur)
             w == Append(waitList[p], cur)
  <1>1. Calling
    BY DEF SendQueue
  <1>2. /\ cur \in Thread /\ cur \in Range(ready) /\ cur \notin Range(blocked)
        /\ state[cur] = "READY" /\ ipcState[cur] = {}
        /\ ProcOf[cur] \in Proc
        /\ \A r \in Proc : cur \notin Range(waitList[r])
    BY <1>1, CallerFacts
  <1>3. /\ q \in Seq(AnyThread)
        /\ Range(q) = Range(ready) \ {cur} /\ IsInjective(q)
    BY WithoutElements DEF IInv, TypeOK, QueuesMatchStates, NoDuplicates
  <1>4. /\ w \in Seq(Thread)
        /\ Range(w) = Range(waitList[p]) \cup {cur} /\ IsInjective(w)
    BY <1>2, AppendElements DEF IInv, TypeOK, QueuesMatchStates, NoDuplicates
  <1> HIDE DEF q, w
  <1>5. Ksetup \in Range(q)
    BY <1>2, <1>3, ThreadsAssumption
       DEF IInv, QueuesMatchStates, ReadyQueued, RunningIsReady, AnyThread
  <1>6. Elect(q)
    BY DEF SendQueue, q
  <1>7. /\ cur' \in Range(q) /\ cur' \in AnyThread
        /\ ready' \in Seq(AnyThread)
        /\ Range(ready') = Range(q) /\ IsInjective(ready')
        /\ addrSpace' \in Proc \cup {None}
    BY <1>3, <1>5, <1>6, ElectFacts DEF IInv, TypeOK
  <1>8. TypeOK'
    BY <1>2, <1>4, <1>7
       DEF IInv, TypeOK, SendQueue, Enter, Return, IpcBits, Result, w, AnyThread
  <1>9. /\ ipcState' = [ipcState EXCEPT ![cur] = {"SENDING"}]
        /\ waitList' = [waitList EXCEPT ![p] = w]
        /\ sendTo' = [sendTo EXCEPT ![cur] = p]
        /\ state' = [state EXCEPT ![cur] = "BLOCKED"]
        /\ blocked' = blocked
    BY <1>2 DEF SendQueue, w
  <1>10. NoDuplicates'
    BY <1>4, <1>7, <1>9 DEF IInv, TypeOK, QueuesMatchStates, NoDuplicates
  <1>11. ReadyQueued'
    BY <1>2, <1>3, <1>7, <1>9
       DEF IInv, TypeOK, QueuesMatchStates, ReadyQueued, AnyThread
  <1>12. BlockedQueued'
    BY <1>2, <1>9 DEF IInv, TypeOK, QueuesMatchStates, BlockedQueued, AnyThread
  <1>13. SendersQueued'
    <2> SUFFICES ASSUME NEW r \in Proc
                 PROVE  Range(waitList'[r]) =
                          {t \in Thread : /\ state'[t] = "BLOCKED"
                                          /\ ipcState'[t] = {"SENDING"}
                                          /\ sendTo'[t] = r}
      BY DEF SendersQueued
    <2>1. Range(waitList[r]) = {t \in Thread : /\ state[t] = "BLOCKED"
                                               /\ ipcState[t] = {"SENDING"}
                                               /\ sendTo[t] = r}
      BY DEF IInv, QueuesMatchStates, SendersQueued
    <2>2. /\ state'[cur] = "BLOCKED" /\ ipcState'[cur] = {"SENDING"}
          /\ sendTo'[cur] = p
          /\ \A t \in Thread : t # cur => /\ state'[t] = state[t]
                                          /\ ipcState'[t] = ipcState[t]
                                          /\ sendTo'[t] = sendTo[t]
      BY <1>2, <1>9 DEF IInv, TypeOK, AnyThread
    <2>3. CASE r = p
      <3>1. Range(waitList'[r]) = Range(waitList[r]) \cup {cur}
        BY <1>4, <1>9, <2>3 DEF IInv, TypeOK
      <3> QED BY <1>2, <2>1, <2>2, <2>3, <3>1
    <2>4. CASE r # p
      <3>1. waitList'[r] = waitList[r]
        BY <1>9, <2>4 DEF IInv, TypeOK
      <3> QED BY <1>2, <2>1, <2>2, <2>4, <3>1
    <2> QED BY <2>3, <2>4
  <1>14. OneThingAtATime'
    BY <1>2, <1>9 DEF IInv, TypeOK, QueuesMatchStates, OneThingAtATime, AnyThread
  <1>15. RunningIsReady'
    BY <1>5, <1>7, <1>11 DEF ReadyQueued, RunningIsReady
  <1> QED BY <1>8, <1>10, <1>11, <1>12, <1>13, <1>14, <1>15
          DEF IInv, QueuesMatchStates

\* The receiver leaves the ready queue for the blocked queue.
LEMMA ReceiveBlockStep ==
    ASSUME IInv, NEW p \in Proc \cup {None}, NEW m \in Msg, ReceiveBlock(p, m)
    PROVE  IInv'
  <1> DEFINE q == Without(ready, cur)
             b == Append(blocked, cur)
  <1>1. Calling
    BY DEF ReceiveBlock
  <1>2. /\ cur \in Thread /\ cur \in Range(ready) /\ cur \notin Range(blocked)
        /\ state[cur] = "READY" /\ ipcState[cur] = {}
        /\ ProcOf[cur] \in Proc
        /\ \A r \in Proc : cur \notin Range(waitList[r])
    BY <1>1, CallerFacts
  <1>3. /\ q \in Seq(AnyThread)
        /\ Range(q) = Range(ready) \ {cur} /\ IsInjective(q)
    BY WithoutElements DEF IInv, TypeOK, QueuesMatchStates, NoDuplicates
  <1>4. /\ b \in Seq(Thread)
        /\ Range(b) = Range(blocked) \cup {cur} /\ IsInjective(b)
    BY <1>2, AppendElements DEF IInv, TypeOK, QueuesMatchStates, NoDuplicates
  <1> HIDE DEF q, b
  <1>5. Ksetup \in Range(q)
    BY <1>2, <1>3, ThreadsAssumption
       DEF IInv, QueuesMatchStates, ReadyQueued, RunningIsReady, AnyThread
  <1>6. Elect(q)
    BY DEF ReceiveBlock, q
  <1>7. /\ cur' \in Range(q) /\ cur' \in AnyThread
        /\ ready' \in Seq(AnyThread)
        /\ Range(ready') = Range(q) /\ IsInjective(ready')
        /\ addrSpace' \in Proc \cup {None}
    BY <1>3, <1>5, <1>6, ElectFacts DEF IInv, TypeOK
  <1>8. TypeOK'
    BY <1>2, <1>4, <1>7
       DEF IInv, TypeOK, ReceiveBlock, Enter, Return, IpcBits, Result, b, AnyThread
  <1>9. /\ state'[cur] = "BLOCKED" /\ ipcState'[cur] = {"RECEIVING"}
        /\ \A t \in AnyThread : t # cur => state'[t] = state[t]
        /\ \A t \in Thread : t # cur => ipcState'[t] = ipcState[t]
        /\ blocked' = b /\ sendTo' = sendTo /\ waitList' = waitList
    BY <1>2 DEF IInv, TypeOK, ReceiveBlock, AnyThread, b
  <1>10. NoDuplicates'
    BY <1>4, <1>7, <1>9 DEF IInv, TypeOK, QueuesMatchStates, NoDuplicates
  <1>11. ReadyQueued'
    BY <1>2, <1>3, <1>7, <1>9 DEF IInv, QueuesMatchStates, ReadyQueued, AnyThread
  <1>12. BlockedQueued'
    BY <1>2, <1>4, <1>9 DEF IInv, QueuesMatchStates, BlockedQueued, AnyThread
  <1>13. SendersQueued'
    <2> SUFFICES ASSUME NEW r \in Proc
                 PROVE  Range(waitList'[r]) =
                          {t \in Thread : /\ state'[t] = "BLOCKED"
                                          /\ ipcState'[t] = {"SENDING"}
                                          /\ sendTo'[t] = r}
      BY DEF SendersQueued
    <2>1. Range(waitList[r]) = {t \in Thread : /\ state[t] = "BLOCKED"
                                               /\ ipcState[t] = {"SENDING"}
                                               /\ sendTo[t] = r}
      BY DEF IInv, QueuesMatchStates, SendersQueued
    <2> QED BY <1>2, <1>9, <2>1 DEF AnyThread
  <1>14. OneThingAtATime'
    BY <1>2, <1>9 DEF IInv, QueuesMatchStates, OneThingAtATime, AnyThread
  <1>15. RunningIsReady'
    BY <1>5, <1>7, <1>11 DEF ReadyQueued, RunningIsReady
  <1> QED BY <1>8, <1>10, <1>11, <1>12, <1>13, <1>14, <1>15
          DEF IInv, QueuesMatchStates

\* The sender taken leaves a wait list for the ready queue.
LEMMA ReceiveTakeStep ==
    ASSUME IInv, NEW p \in Proc \cup {None}, ReceiveTake(p)
    PROVE  IInv'
  <1>1. Calling
    BY DEF ReceiveTake
  <1>2. /\ cur \in Thread /\ cur \in Range(ready) /\ cur \notin Range(blocked)
        /\ state[cur] = "READY" /\ ipcState[cur] = {}
        /\ ProcOf[cur] \in Proc
        /\ \A r \in Proc : cur \notin Range(waitList[r])
    BY <1>1, CallerFacts
  <1> DEFINE me == ProcOf[cur]
  <1>3. PICK s \in Thread :
        /\ IsFirst(s, waitList[me], WaitingSenders(me, p))
        /\ waitList' = [waitList EXCEPT ![me] = Without(@, s)]
        /\ src' = [src EXCEPT ![cur] = src[s]]
        /\ msg' = [msg EXCEPT ![cur] = msg[s]]
        /\ ipcState' = [ipcState EXCEPT ![s] = @ \ {"SENDING"},
                                        ![cur] = @ \ {"RECEIVING"}]
        /\ recvFrom' = [recvFrom EXCEPT ![cur] = p]
        /\ state' = [state EXCEPT ![s] = "READY"]
        /\ ready' = Append(ready, s)
        /\ Return("SUCCESS")
        /\ UNCHANGED <<cur, addrSpace, sendTo, blocked, fault>>
    BY DEF ReceiveTake
  <1> DEFINE w == Without(waitList[me], s)
             q == Append(ready, s)
  <1>4. s \in Range(waitList[me])
    BY <1>3 DEF IsFirst, Range
  <1>5. /\ state[s] = "BLOCKED" /\ ipcState[s] = {"SENDING"} /\ sendTo[s] = me
        /\ s # cur /\ s \notin Range(ready) /\ s \notin Range(blocked)
    BY <1>2, <1>4
       DEF IInv, QueuesMatchStates, SendersQueued, ReadyQueued, BlockedQueued
  <1>6. /\ w \in Seq(Thread)
        /\ Range(w) = Range(waitList[me]) \ {s} /\ IsInjective(w)
    BY <1>2, WithoutElements DEF IInv, TypeOK, QueuesMatchStates, NoDuplicates
  <1>7. /\ q \in Seq(AnyThread)
        /\ Range(q) = Range(ready) \cup {s} /\ IsInjective(q)
    BY <1>5, AppendElements
       DEF IInv, TypeOK, QueuesMatchStates, NoDuplicates, AnyThread
  <1> HIDE DEF w, q, me
  <1>8. TypeOK'
    <2>1. me \in Proc /\ waitList' = [waitList EXCEPT ![me] = w] /\ ready' = q
      BY <1>2, <1>3 DEF me, w, q
    <2> QED BY <1>2, <1>3, <1>6, <1>7, <2>1
            DEF IInv, TypeOK, Return, IpcBits, Result, AnyThread
  <1>9. /\ state'[s] = "READY" /\ ipcState'[s] = {}
        /\ \A t \in AnyThread : t # s => state'[t] = state[t]
        /\ \A t \in Thread : t # s => ipcState'[t] = ipcState[t]
        /\ ready' = q /\ blocked' = blocked /\ sendTo' = sendTo /\ cur' = cur
        /\ waitList' = [waitList EXCEPT ![me] = w]
    BY <1>2, <1>3, <1>5 DEF IInv, TypeOK, AnyThread, me, w, q
  <1>10. NoDuplicates'
    BY <1>6, <1>7, <1>9 DEF IInv, TypeOK, QueuesMatchStates, NoDuplicates
  <1>11. ReadyQueued'
    BY <1>5, <1>7, <1>9 DEF IInv, QueuesMatchStates, ReadyQueued, AnyThread
  <1>12. BlockedQueued'
    BY <1>5, <1>9 DEF IInv, QueuesMatchStates, BlockedQueued, AnyThread
  <1>13. SendersQueued'
    <2> SUFFICES ASSUME NEW r \in Proc
                 PROVE  Range(waitList'[r]) =
                          {t \in Thread : /\ state'[t] = "BLOCKED"
                                          /\ ipcState'[t] = {"SENDING"}
                                          /\ sendTo'[t] = r}
      BY DEF SendersQueued
    <2>1. Range(waitList[r]) = {t \in Thread : /\ state[t] = "BLOCKED"
                                               /\ ipcState[t] = {"SENDING"}
                                               /\ sendTo[t] = r}
      BY DEF IInv, QueuesMatchStates, SendersQueued
    <2>2. Range(waitList'[r]) = Range(waitList[r]) \ {s}
      <3>1. CASE r = me
        BY <1>6, <1>9, <3>1 DEF IInv, TypeOK
      <3>2. CASE r # me
        BY <1>5, <1>9, <2>1, <3>2 DEF IInv, TypeOK
      <3> QED BY <3>1, <3>2
    <2> QED BY <1>5, <1>9, <2>1, <2>2 DEF AnyThread
  <1>14. OneThingAtATime'
    BY <1>9 DEF IInv, QueuesMatchStates, OneThingAtATime, AnyThread
  <1>15. RunningIsReady'
    BY <1>2, <1>9 DEF IInv, RunningIsReady, AnyThread
  <1> QED BY <1>8, <1>10, <1>11, <1>12, <1>13, <1>14, <1>15
          DEF IInv, QueuesMatchStates

\* The receiver found and the sender change places.
LEMMA SendDeliverStep ==
    ASSUME IInv, NEW p \in Proc, NEW m \in Msg, SendDeliver(p, m)
    PROVE  IInv'
  <1>1. PICK r \in Thread :
        /\ Calling
        /\ IsFirst(r, ThreadList[p], Receivers(p, ProcOf[cur]))
        /\ src' = [src EXCEPT ![cur] = ProcOf[cur], ![r] = ProcOf[cur]]
        /\ msg' = [msg EXCEPT ![cur] = m, ![r] = m]
        /\ ipcState' = [ipcState EXCEPT ![r] = @ \ {"RECEIVING"},
                                        ![cur] = @ \ {"SENDING"}]
        /\ sendTo' = [sendTo EXCEPT ![cur] = p]
        /\ state' = [state EXCEPT ![r] = "READY", ![cur] = "BLOCKED"]
        /\ blocked' = Append(Without(blocked, r), cur)
        /\ Elect(Without(Append(ready, r), cur))
        /\ Return("SUCCESS")
        /\ UNCHANGED <<recvFrom, waitList, fault>>
    BY DEF SendDeliver
  <1>2. /\ cur \in Thread /\ cur \in Range(ready) /\ cur \notin Range(blocked)
        /\ state[cur] = "READY" /\ ipcState[cur] = {}
        /\ ProcOf[cur] \in Proc
        /\ \A n \in Proc : cur \notin Range(waitList[n])
    BY <1>1, CallerFacts
  <1>3. ipcState[r] = {"RECEIVING"}
    BY <1>1 DEF IsFirst, Receivers
  <1>4. /\ state[r] = "BLOCKED" /\ r # cur
        /\ r \in Range(blocked) /\ r \notin Range(ready)
    BY <1>2, <1>3 DEF IInv, TypeOK, QueuesMatchStates, OneThingAtATime, BlockedQueued,
                      ReadyQueued, AnyThread
  <1> DEFINE a == Append(ready, r)
             q == Without(a, cur)
             c == Without(blocked, r)
             b == Append(c, cur)
  <1>5. /\ a \in Seq(AnyThread)
        /\ Range(a) = Range(ready) \cup {r} /\ IsInjective(a)
    BY <1>4, AppendElements
       DEF IInv, TypeOK, QueuesMatchStates, NoDuplicates, AnyThread
  <1>6. /\ c \in Seq(Thread)
        /\ Range(c) = Range(blocked) \ {r} /\ IsInjective(c)
    BY WithoutElements DEF IInv, TypeOK, QueuesMatchStates, NoDuplicates
  <1> HIDE DEF a, c
  <1>7. /\ q \in Seq(AnyThread)
        /\ Range(q) = (Range(ready) \cup {r}) \ {cur} /\ IsInjective(q)
    BY <1>5, WithoutElements
  <1>8. /\ b \in Seq(Thread)
        /\ Range(b) = (Range(blocked) \ {r}) \cup {cur} /\ IsInjective(b)
    BY <1>2, <1>6, AppendElements
  <1> HIDE DEF q, b
  <1>9. Ksetup \in Range(q)
    BY <1>2, <1>7, ThreadsAssumption
       DEF IInv, QueuesMatchStates, ReadyQueued, RunningIsReady, AnyThread
  <1>10. Elect(q) /\ blocked' = b
    BY <1>1 DEF q, b, a, c
  <1>11. /\ cur' \in Range(q) /\ cur' \in AnyThread
         /\ ready' \in Seq(AnyThread)
         /\ Range(ready') = Range(q) /\ IsInjective(ready')
         /\ addrSpace' \in Proc \cup {None}
    BY <1>7, <1>9, <1>10, ElectFacts DEF IInv, TypeOK
  <1>12. TypeOK'
    BY <1>1, <1>2, <1>8, <1>10, <1>11
       DEF IInv, TypeOK, Return, IpcBits, Result, AnyThread
  <1>13. /\ state'[r] = "READY" /\ ipcState'[r] = {}
         /\ state'[cur] = "BLOCKED" /\ ipcState'[cur] = {}
         /\ \A t \in AnyThread : t \notin {r, cur} => state'[t] = state[t]
         /\ \A t \in Thread : t \notin {r, cur} => ipcState'[t] = ipcState[t]
         /\ \A t \in Thread : t # cur => sendTo'[t] = sendTo[t]
         /\ waitList' = waitList
    BY <1>1, <1>2, <1>3, <1>4 DEF IInv, TypeOK, AnyThread
  <1>14. NoDuplicates'
    BY <1>8, <1>10, <1>11, <1>13 DEF IInv, QueuesMatchStates, NoDuplicates
  <1>15. ReadyQueued'
    BY <1>2, <1>7, <1>11, <1>13 DEF IInv, QueuesMatchStates, ReadyQueued, AnyThread
  <1>16. BlockedQueued'
    BY <1>2, <1>8, <1>10, <1>13
       DEF IInv, QueuesMatchStates, BlockedQueued, AnyThread
  <1>17. SendersQueued'
    <2> SUFFICES ASSUME NEW n \in Proc
                 PROVE  Range(waitList'[n]) =
                          {t \in Thread : /\ state'[t] = "BLOCKED"
                                          /\ ipcState'[t] = {"SENDING"}
                                          /\ sendTo'[t] = n}
      BY DEF SendersQueued
    <2>1. Range(waitList[n]) = {t \in Thread : /\ state[t] = "BLOCKED"
                                               /\ ipcState[t] = {"SENDING"}
                                               /\ sendTo[t] = n}
      BY DEF IInv, QueuesMatchStates, SendersQueued
    <2> QED BY <1>2, <1>3, <1>13, <2>1 DEF AnyThread
  <1>18. OneThingAtATime'
    BY <1>13 DEF IInv, QueuesMatchStates, OneThingAtATime, AnyThread
  <1>19. RunningIsReady'
    BY <1>9, <1>11, <1>15 DEF ReadyQueued, RunningIsReady
  <1> QED BY <1>12, <1>14, <1>15, <1>16, <1>17, <1>18, <1>19
          DEF IInv, QueuesMatchStates

\* The sender found leaves the list it is in, be it the blocked queue or the
\* wait list, for the ready queue.
LEMMA NotifyWakeStep ==
    ASSUME IInv, NEW p \in Proc, NEW m \in Msg, NotifyWake(p, m)
    PROVE  IInv'
  <1>1. Calling
    BY DEF NotifyWake
  <1>2. /\ cur \in Thread /\ cur \in Range(ready) /\ cur \notin Range(blocked)
        /\ state[cur] = "READY" /\ ipcState[cur] = {}
        /\ ProcOf[cur] \in Proc
        /\ \A r \in Proc : cur \notin Range(waitList[r])
    BY <1>1, CallerFacts
  <1> DEFINE me == ProcOf[cur]
  <1>3. PICK t \in Thread :
        /\ IsFirst(t, ThreadList[p], BlockedSenders(me, p))
        /\ waitList' = [waitList EXCEPT ![me] = Without(@, t)]
        /\ Enter(m)
        /\ ipcState' = [ipcState EXCEPT ![t] = @ \ {"SENDING"}]
        /\ state' = [state EXCEPT ![t] = "READY"]
        /\ blocked' = Without(blocked, t)
        /\ ready' = Append(ready, t)
        /\ Return("SUCCESS")
        /\ UNCHANGED <<cur, addrSpace, links, fault>>
    BY DEF NotifyWake
  <1> DEFINE w == Without(waitList[me], t)
             b == Without(blocked, t)
             q == Append(ready, t)
  <1>4. /\ state[t] = "BLOCKED" /\ sendTo[t] = me
        /\ ipcState[t] \in {{}, {"SENDING"}}
    BY <1>3 DEF IsFirst, BlockedSenders, IInv, QueuesMatchStates, OneThingAtATime
  <1>5. t # cur /\ t \notin Range(ready)
    BY <1>2, <1>4 DEF IInv, QueuesMatchStates, ReadyQueued
  <1>6. /\ w \in Seq(Thread)
        /\ Range(w) = Range(waitList[me]) \ {t} /\ IsInjective(w)
    BY <1>2, WithoutElements DEF IInv, TypeOK, QueuesMatchStates, NoDuplicates
  <1>7. /\ b \in Seq(Thread)
        /\ Range(b) = Range(blocked) \ {t} /\ IsInjective(b)
    BY WithoutElements DEF IInv, TypeOK, QueuesMatchStates, NoDuplicates
  <1>8. /\ q \in Seq(AnyThread)
        /\ Range(q) = Range(ready) \cup {t} /\ IsInjective(q)
    BY <1>5, AppendElements
       DEF IInv, TypeOK, QueuesMatchStates, NoDuplicates, AnyThread
  <1>9. /\ me \in Proc /\ waitList' = [waitList EXCEPT ![me] = w]
        /\ blocked' = b /\ ready' = q
    BY <1>2, <1>3
  <1> HIDE DEF w, b, q, me
  <1>10. TypeOK'
    BY <1>2, <1>3, <1>6, <1>7, <1>8, <1>9
       DEF IInv, TypeOK, Enter, Return, IpcBits, Result, AnyThread, links
  <1>11. /\ state'[t] = "READY" /\ ipcState'[t] = {}
         /\ \A u \in AnyThread : u # t => state'[u] = state[u]
         /\ \A u \in Thread : u # t => ipcState'[u] = ipcState[u]
         /\ sendTo' = sendTo /\ cur' = cur
    BY <1>2, <1>3, <1>4 DEF IInv, TypeOK, AnyThread, links
  <1>12. NoDuplicates'
    BY <1>6, <1>7, <1>8, <1>9 DEF IInv, TypeOK, QueuesMatchStates, NoDuplicates
  <1>13. ReadyQueued'
    BY <1>8, <1>9, <1>11 DEF IInv, QueuesMatchStates, ReadyQueued, AnyThread
  <1>14. BlockedQueued'
    BY <1>7, <1>9, <1>11 DEF IInv, QueuesMatchStates, BlockedQueued, AnyThread
  <1>15. SendersQueued'
    <2> SUFFICES ASSUME NEW r \in Proc
                 PROVE  Range(waitList'[r]) =
                          {u \in Thread : /\ state'[u] = "BLOCKED"
                                          /\ ipcState'[u] = {"SENDING"}
                                          /\ sendTo'[u] = r}
      BY DEF SendersQueued
    <2>1. Range(waitList[r]) = {u \in Thread : /\ state[u] = "BLOCKED"
                                               /\ ipcState[u] = {"SENDING"}
                                               /\ sendTo[u] = r}
      BY DEF IInv, QueuesMatchStates, SendersQueued
    <2>2. Range(waitList'[r]) = Range(waitList[r]) \ {t}
      <3>1. CASE r = me
        BY <1>6, <1>9, <3>1 DEF IInv, TypeOK
      <3>2. CASE r # me
        BY <1>4, <1>9, <2>1, <3>2 DEF IInv, TypeOK
      <3> QED BY <3>1, <3>2
    <2> QED BY <1>11, <2>1, <2>2 DEF AnyThread
  <1>16. OneThingAtATime'
    BY <1>11 DEF IInv, QueuesMatchStates, OneThingAtATime, AnyThread
  <1>17. RunningIsReady'
    BY <1>2, <1>11 DEF IInv, RunningIsReady, AnyThread
  <1> QED BY <1>10, <1>12, <1>13, <1>14, <1>15, <1>16, <1>17
          DEF IInv, QueuesMatchStates

LEMMA StepIInv == IInv /\ [Next]_vars => IInv'
  <1> SUFFICES ASSUME IInv, [Next]_vars PROVE IInv'
    OBVIOUS
  <1>1. CASE Clock
    BY <1>1, ClockStep
  <1>2. ASSUME NEW m \in Msg, Reject(m) PROVE IInv'
    <2>1. ret' \in [Thread -> Result]
      BY <1>2 DEF IInv, TypeOK, Reject, Return, Result
    <2> QED BY <1>2, <2>1, QuietCall DEF Reject
  <1>3. ASSUME NEW p \in Proc, NEW m \in Msg, Send(p, m) PROVE IInv'
    <2>1. CASE SendOverflow(p)
      BY <2>1, FaultyCall DEF SendOverflow
    <2>2. CASE SendDeadlock(p, m)
      <3>1. ret' \in [Thread -> Result]
        BY <2>2 DEF IInv, TypeOK, SendDeadlock, Return, Result
      <3> QED BY <2>2, <3>1, QuietCall DEF SendDeadlock
    <2>3. CASE SendDeliver(p, m)
      BY <2>3, SendDeliverStep
    <2>4. CASE SendQueue(p, m)
      BY <2>4, SendQueueStep
    <2> QED BY <1>3, <2>1, <2>2, <2>3, <2>4 DEF Send
  <1>4. ASSUME NEW p \in Proc \cup {None}, NEW m \in Msg, Receive(p, m) PROVE IInv'
    BY <1>4, ReceiveTakeStep, ReceiveBlockStep DEF Receive
  <1>5. ASSUME NEW p \in Proc, NEW m \in Msg, Notify(p, m) PROVE IInv'
    <2>1. CASE NotifyQueued(p)
      BY <2>1, FaultyCall DEF NotifyQueued
    <2>2. CASE NotifyWake(p, m)
      BY <2>2, NotifyWakeStep
    <2>3. CASE NotifyNobody(p, m)
      <3>1. ret' \in [Thread -> Result]
        BY <2>3 DEF IInv, TypeOK, NotifyNobody, Return, Result
      <3> QED BY <2>3, <3>1, QuietCall DEF NotifyNobody
    <2> QED BY <1>5, <2>1, <2>2, <2>3 DEF Notify
  <1>6. CASE NotifyAny
    BY <1>6, FaultyCall DEF NotifyAny
  <1>7. CASE UNCHANGED vars
    BY <1>7 DEF IInv, TypeOK, QueuesMatchStates, NoDuplicates, ReadyQueued,
                BlockedQueued, SendersQueued, OneThingAtATime, RunningIsReady, vars
  <1> QED BY <1>1, <1>2, <1>3, <1>4, <1>5, <1>6, <1>7 DEF Next

LEMMA Invariance == Spec => []IInv
  BY InitIInv, StepIInv, PTL DEF Spec

\* Whatever programs do, every variable keeps its type, as far as the kernel
\* goes without a fault.
THEOREM TypeCorrect == Spec => []TypeOK
  <1>1. IInv => TypeOK
    BY DEF IInv
  <1> QED BY Invariance, <1>1, PTL

\* Whatever programs do, each thread is in the one list that its states name.
THEOREM QueuesCorrect == Spec => []QueuesMatchStates
  <1>1. IInv => QueuesMatchStates
    BY DEF IInv
  <1> QED BY Invariance, <1>1, PTL

\* Whatever programs do, there is a thread to elect and the one that runs may.
THEOREM RunningCorrect == Spec => []RunningIsReady
  <1>1. IInv => RunningIsReady
    BY DEF IInv
  <1> QED BY Invariance, <1>1, PTL

-----------------------------------------------------------------------------
(* Registers                                                               *)

\* A call returns to its caller, or changes nobody's result.
LEMMA ReturnsToCaller ==
    IInv /\ [Next]_vars => \A t \in Thread : ret'[t] # ret[t] => t = cur
  <1> SUFFICES ASSUME IInv, [Next]_vars
               PROVE  ret' = ret \/ \E r \in Result : ret' = [ret EXCEPT ![cur] = r]
    BY DEF IInv, TypeOK
  <1>1. CASE Clock
    BY <1>1 DEF Clock
  <1>2. ASSUME NEW m \in Msg, Reject(m)
        PROVE  \E r \in Result : ret' = [ret EXCEPT ![cur] = r]
    BY <1>2 DEF Reject, Return, Result
  <1>3. ASSUME NEW p \in Proc, NEW m \in Msg, Send(p, m)
        PROVE  ret' = ret \/ \E r \in Result : ret' = [ret EXCEPT ![cur] = r]
    BY <1>3 DEF Send, SendOverflow, SendDeadlock, SendDeliver, SendQueue, Return, Result
  <1>4. ASSUME NEW p \in Proc \cup {None}, NEW m \in Msg, Receive(p, m)
        PROVE  \E r \in Result : ret' = [ret EXCEPT ![cur] = r]
    BY <1>4 DEF Receive, ReceiveTake, ReceiveBlock, Return, Result
  <1>5. ASSUME NEW p \in Proc, NEW m \in Msg, Notify(p, m)
        PROVE  ret' = ret \/ \E r \in Result : ret' = [ret EXCEPT ![cur] = r]
    BY <1>5 DEF Notify, NotifyQueued, NotifyWake, NotifyNobody, Return, Result
  <1>6. CASE NotifyAny
    BY <1>6 DEF NotifyAny
  <1>7. CASE UNCHANGED vars
    BY <1>7 DEF vars
  <1> QED BY <1>1, <1>2, <1>3, <1>4, <1>5, <1>6, <1>7 DEF Next

\* The registers of a thread that neither runs nor waits for a message stay.
LEMMA RegistersStep ==
    ASSUME IInv, [Next]_vars, NEW t \in Thread, t # cur,
           <<src[t], msg[t]>>' # <<src[t], msg[t]>>
    PROVE  ipcState[t] = {"RECEIVING"} /\ ipcState'[t] = {}
  <1> USE DEF IInv, TypeOK
  <1>1. ASSUME NEW m, Enter(m) PROVE FALSE
    BY <1>1 DEF Enter
  <1>2. ASSUME UNCHANGED regs PROVE FALSE
    BY <1>2 DEF regs
  <1>3. CASE Clock
    BY <1>2, <1>3 DEF Clock
  <1>4. ASSUME NEW m \in Msg, Reject(m) PROVE FALSE
    BY <1>1, <1>4 DEF Reject
  <1>5. ASSUME NEW p \in Proc, NEW m \in Msg, Send(p, m)
        PROVE  ipcState[t] = {"RECEIVING"} /\ ipcState'[t] = {}
    <2>1. ASSUME SendDeliver(p, m)
          PROVE  ipcState[t] = {"RECEIVING"} /\ ipcState'[t] = {}
      <3>1. PICK r \in Thread :
              /\ r \in Receivers(p, ProcOf[cur])
              /\ src' = [src EXCEPT ![cur] = ProcOf[cur], ![r] = ProcOf[cur]]
              /\ msg' = [msg EXCEPT ![cur] = m, ![r] = m]
              /\ ipcState' = [ipcState EXCEPT ![r] = @ \ {"RECEIVING"},
                                              ![cur] = @ \ {"SENDING"}]
        BY <2>1 DEF SendDeliver, IsFirst
      <3>2. t = r
        BY <3>1
      <3> QED BY <3>1, <3>2 DEF Receivers
    <2> QED BY <1>1, <1>2, <1>5, <2>1 DEF Send, SendOverflow, SendDeadlock, SendQueue
  <1>6. ASSUME NEW p \in Proc \cup {None}, NEW m \in Msg, Receive(p, m) PROVE FALSE
    BY <1>1, <1>6 DEF Receive, ReceiveTake, ReceiveBlock
  <1>7. ASSUME NEW p \in Proc, NEW m \in Msg, Notify(p, m) PROVE FALSE
    BY <1>1, <1>2, <1>7 DEF Notify, NotifyQueued, NotifyWake, NotifyNobody
  <1>8. CASE NotifyAny
    BY <1>2, <1>8 DEF NotifyAny
  <1>9. CASE UNCHANGED vars
    BY <1>2, <1>9 DEF vars, regs
  <1> QED BY <1>3, <1>4, <1>5, <1>6, <1>7, <1>8, <1>9 DEF Next

\* Nobody writes into the registers of a thread that does not run, but to hand
\* it the message it waits for; its result is left alone even then.
THEOREM RegistersCorrect == Spec => BlockedRegistersKept
  <1>1. ASSUME IInv, [Next]_vars, NEW t \in Thread \ {cur},
               <<src[t], msg[t], ret[t]>>' # <<src[t], msg[t], ret[t]>>
        PROVE  ipcState[t] = {"RECEIVING"} /\ ipcState'[t] = {} /\ ret'[t] = ret[t]
    <2>1. ret'[t] = ret[t]
      BY <1>1, ReturnsToCaller
    <2> QED BY <1>1, <2>1, RegistersStep
  <1>2. IInv /\ [Next]_vars =>
          \A t \in Thread \ {cur} :
            <<src[t], msg[t], ret[t]>>' # <<src[t], msg[t], ret[t]>> =>
                ipcState[t] = {"RECEIVING"} /\ ipcState'[t] = {} /\ ret'[t] = ret[t]
    BY <1>1
  <1> QED BY Invariance, <1>2, PTL DEF Spec, BlockedRegistersKept

-----------------------------------------------------------------------------
(* Address spaces                                                          *)

\* A switch loads the space of the thread it switches to, unless that is
\* ksetup_th, whatever space was loaded before.
LEMMA SpaceStep == IInv /\ RunsInItsSpace /\ [Next]_vars => RunsInItsSpace'
  <1> SUFFICES ASSUME IInv, RunsInItsSpace, [Next]_vars PROVE RunsInItsSpace'
    OBVIOUS
  <1>1. ASSUME NEW q, Elect(q) PROVE RunsInItsSpace'
    BY <1>1 DEF Elect, RunsInItsSpace
  <1>2. ASSUME UNCHANGED <<cur, addrSpace>> PROVE RunsInItsSpace'
    BY <1>2 DEF RunsInItsSpace
  <1>3. CASE Clock
    BY <1>1, <1>3 DEF Clock
  <1>4. ASSUME NEW m \in Msg, Reject(m) PROVE RunsInItsSpace'
    BY <1>2, <1>4 DEF Reject, sched
  <1>5. ASSUME NEW p \in Proc, NEW m \in Msg, Send(p, m) PROVE RunsInItsSpace'
    BY <1>1, <1>2, <1>5
       DEF Send, SendOverflow, SendDeadlock, SendDeliver, SendQueue, sched
  <1>6. ASSUME NEW p \in Proc \cup {None}, NEW m \in Msg, Receive(p, m)
        PROVE  RunsInItsSpace'
    BY <1>1, <1>2, <1>6 DEF Receive, ReceiveTake, ReceiveBlock
  <1>7. ASSUME NEW p \in Proc, NEW m \in Msg, Notify(p, m) PROVE RunsInItsSpace'
    BY <1>2, <1>7 DEF Notify, NotifyQueued, NotifyWake, NotifyNobody, sched
  <1>8. CASE NotifyAny
    BY <1>2, <1>8 DEF NotifyAny, sched
  <1>9. CASE UNCHANGED vars
    BY <1>2, <1>9 DEF vars
  <1> QED BY <1>3, <1>4, <1>5, <1>6, <1>7, <1>8, <1>9 DEF Next

\* A user thread never runs in another process's address space, although
\* ksetup_th runs in any.
THEOREM SpaceCorrect == Spec => []RunsInItsSpace
  <1>1. Init => RunsInItsSpace
    BY DEF Init, RunsInItsSpace
  <1> QED BY Invariance, <1>1, SpaceStep, PTL DEF Spec

-----------------------------------------------------------------------------
(* Rendezvous                                                              *)

\* s is blocked with a message that r, blocked too, waits for.
Missed(r, s) ==
    /\ ipcState[r] = {"RECEIVING"} /\ recvFrom[r] \in {None, ProcOf[s]}
    /\ ipcState[s] = {"SENDING"} /\ state[s] = "BLOCKED" /\ sendTo[s] = ProcOf[r]

\* With the queues as IInv has them, the invariant is about states alone.
LEMMA MissedInStates ==
    IInv => (NoMissedRendezvous <=> \A r, s \in Thread : ~ Missed(r, s))
  <1> SUFFICES ASSUME IInv
               PROVE  NoMissedRendezvous <=> \A r, s \in Thread : ~ Missed(r, s)
    OBVIOUS
  <1>1. \A r \in Thread : ProcOf[r] \in Proc
    BY ThreadsAssumption
  <1>2. \A r \in Thread : Range(waitList[ProcOf[r]]) =
          {t \in Thread : /\ state[t] = "BLOCKED"
                          /\ ipcState[t] = {"SENDING"}
                          /\ sendTo[t] = ProcOf[r]}
    BY <1>1 DEF IInv, QueuesMatchStates, SendersQueued
  <1> QED BY <1>2 DEF NoMissedRendezvous, Missed

\* Only a thread that blocks can miss another, and each kind looks first.
LEMMA MissedStep ==
    ASSUME IInv, [Next]_vars, NEW r \in Thread, NEW s \in Thread,
           \A x, y \in Thread : ~ Missed(x, y), Missed(r, s)'
    PROVE  FALSE
  <1> USE DEF IInv, TypeOK
  <1>1. ASSUME UNCHANGED <<state, ipcState, links>> PROVE FALSE
    BY <1>1 DEF Missed, links
  <1>2. ASSUME NEW p \in Proc, NEW m \in Msg, SendDeliver(p, m) PROVE FALSE
    <2>1. /\ cur \in Thread /\ ipcState[cur] = {}
      BY <1>2, CallerFacts DEF SendDeliver
    <2>2. PICK x \in Thread :
            /\ x \in Receivers(p, ProcOf[cur])
            /\ ipcState' = [ipcState EXCEPT ![x] = @ \ {"RECEIVING"},
                                            ![cur] = @ \ {"SENDING"}]
            /\ sendTo' = [sendTo EXCEPT ![cur] = p]
            /\ state' = [state EXCEPT ![x] = "READY", ![cur] = "BLOCKED"]
            /\ recvFrom' = recvFrom
      BY <1>2 DEF SendDeliver, IsFirst
    <2>3. ipcState'[x] = {} /\ ipcState'[cur] = {}
      BY <2>1, <2>2 DEF Receivers
    <2>4. r \notin {x, cur} /\ s \notin {x, cur}
      BY <2>3 DEF Missed
    <2>5. Missed(r, s)
      BY <2>1, <2>2, <2>4 DEF Missed, AnyThread
    <2> QED BY <2>5
  <1>3. ASSUME NEW p \in Proc, NEW m \in Msg, SendQueue(p, m) PROVE FALSE
    <2>1. cur \in Thread /\ ipcState[cur] = {}
      BY <1>3, CallerFacts DEF SendQueue
    <2>2. /\ ipcState' = [ipcState EXCEPT ![cur] = @ \cup {"SENDING"}]
          /\ sendTo' = [sendTo EXCEPT ![cur] = p]
          /\ state' = [state EXCEPT ![cur] = "BLOCKED"]
          /\ recvFrom' = recvFrom
          /\ Receivers(p, ProcOf[cur]) = {}
      BY <1>3 DEF SendQueue
    <2>3. r # cur /\ ipcState[r] = {"RECEIVING"} /\ recvFrom[r] \in {None, ProcOf[s]}
      BY <2>1, <2>2 DEF Missed
    <2>4. CASE s = cur
      <3>1. p = ProcOf[r]
        BY <2>1, <2>2, <2>4 DEF Missed
      <3>2. r \in Range(ThreadList[p])
        BY <3>1, ListsAssumption
      <3> QED BY <2>2, <2>3, <2>4, <3>2 DEF Receivers
    <2>5. CASE s # cur
      BY <2>1, <2>2, <2>3, <2>5 DEF Missed, AnyThread
    <2> QED BY <2>4, <2>5
  <1>4. ASSUME NEW p \in Proc \cup {None}, ReceiveTake(p) PROVE FALSE
    <2>1. cur \in Thread /\ ipcState[cur] = {}
      BY <1>4, CallerFacts DEF ReceiveTake
    <2>2. PICK x \in Thread :
            /\ x \in WaitingSenders(ProcOf[cur], p)
            /\ ipcState' = [ipcState EXCEPT ![x] = @ \ {"SENDING"},
                                            ![cur] = @ \ {"RECEIVING"}]
            /\ recvFrom' = [recvFrom EXCEPT ![cur] = p]
            /\ state' = [state EXCEPT ![x] = "READY"]
            /\ sendTo' = sendTo
      BY <1>4 DEF ReceiveTake, IsFirst
    <2>3. ipcState[x] = {"SENDING"}
      <3>1. ProcOf[cur] \in Proc
        BY <2>1, ThreadsAssumption
      <3> QED BY <2>2, <3>1 DEF WaitingSenders, QueuesMatchStates, SendersQueued
    <2>4. ipcState'[x] = {} /\ ipcState'[cur] = {}
      BY <2>1, <2>2, <2>3
    <2>5. r \notin {x, cur} /\ s \notin {x, cur}
      BY <2>4 DEF Missed
    <2>6. Missed(r, s)
      BY <2>1, <2>2, <2>5 DEF Missed, AnyThread
    <2> QED BY <2>6
  <1>5. ASSUME NEW p \in Proc \cup {None}, NEW m \in Msg, ReceiveBlock(p, m)
        PROVE  FALSE
    <2>1. cur \in Thread /\ ipcState[cur] = {} /\ ProcOf[cur] \in Proc
      BY <1>5, CallerFacts DEF ReceiveBlock
    <2>2. /\ ipcState' = [ipcState EXCEPT ![cur] = @ \cup {"RECEIVING"}]
          /\ recvFrom' = [recvFrom EXCEPT ![cur] = p]
          /\ state' = [state EXCEPT ![cur] = "BLOCKED"]
          /\ sendTo' = sendTo
          /\ WaitingSenders(ProcOf[cur], p) = {}
      BY <1>5 DEF ReceiveBlock
    <2>3. s # cur /\ ipcState[s] = {"SENDING"} /\ state[s] = "BLOCKED"
          /\ sendTo[s] = ProcOf[r]
      BY <2>1, <2>2 DEF Missed, AnyThread
    <2>4. CASE r = cur
      <3>1. s \in Range(waitList[ProcOf[cur]])
        BY <2>1, <2>3, <2>4 DEF QueuesMatchStates, SendersQueued
      <3>2. p \in {None, ProcOf[s]}
        BY <2>1, <2>2, <2>4 DEF Missed
      <3> QED BY <2>2, <3>1, <3>2 DEF WaitingSenders
    <2>5. CASE r # cur
      BY <2>1, <2>2, <2>3, <2>5 DEF Missed
    <2> QED BY <2>4, <2>5
  <1>6. ASSUME NEW p \in Proc, NEW m \in Msg, NotifyWake(p, m) PROVE FALSE
    <2>1. PICK x \in Thread :
            /\ ipcState' = [ipcState EXCEPT ![x] = @ \ {"SENDING"}]
            /\ state' = [state EXCEPT ![x] = "READY"]
            /\ x \in BlockedSenders(ProcOf[cur], p)
            /\ UNCHANGED links
      BY <1>6 DEF NotifyWake, IsFirst
    <2>2. ipcState[x] # {"RECEIVING"} /\ ipcState'[x] = {}
      BY <2>1 DEF BlockedSenders, QueuesMatchStates, OneThingAtATime
    <2>3. r # x /\ s # x
      BY <2>2 DEF Missed
    <2>4. Missed(r, s)
      BY <2>1, <2>3 DEF Missed, links, AnyThread
    <2> QED BY <2>4
  <1>7. CASE Clock
    BY <1>1, <1>7 DEF Clock
  <1>8. ASSUME NEW m \in Msg, Reject(m) PROVE FALSE
    BY <1>1, <1>8 DEF Reject
  <1>9. ASSUME NEW p \in Proc, NEW m \in Msg, Send(p, m) PROVE FALSE
    BY <1>1, <1>2, <1>3, <1>9 DEF Send, SendOverflow, SendDeadlock
  <1>10. ASSUME NEW p \in Proc \cup {None}, NEW m \in Msg, Receive(p, m) PROVE FALSE
    BY <1>4, <1>5, <1>10 DEF Receive
  <1>11. ASSUME NEW p \in Proc, NEW m \in Msg, Notify(p, m) PROVE FALSE
    BY <1>1, <1>6, <1>11 DEF Notify, NotifyQueued, NotifyNobody
  <1>12. CASE NotifyAny
    BY <1>1, <1>12 DEF NotifyAny
  <1>13. CASE UNCHANGED vars
    BY <1>1, <1>13 DEF vars, links
  <1> QED BY <1>7, <1>8, <1>9, <1>10, <1>11, <1>12, <1>13 DEF Next

\* A receiver and the sender it waits for are never both blocked: the search
\* each makes before it blocks finds the other, whatever the programs do.
THEOREM RendezvousCorrect == Spec => []NoMissedRendezvous
  <1> DEFINE NoneMissed == \A r, s \in Thread : ~ Missed(r, s)
  <1>1. Init => NoneMissed
    BY DEF Init, Missed
  <1>2. IInv /\ NoneMissed /\ [Next]_vars => NoneMissed'
    <2> SUFFICES ASSUME IInv, NoneMissed, [Next]_vars, NEW r \in Thread, NEW s \in Thread,
                        Missed(r, s)'
                 PROVE  FALSE
      BY DEF Missed
    <2> QED BY MissedStep
  <1>3. IInv /\ NoneMissed => NoMissedRendezvous
    BY MissedInStates
  <1> QED BY Invariance, <1>1, <1>2, <1>3, PTL DEF Spec

-----------------------------------------------------------------------------
(* Courteous programs: the mapping to Rendezvous                           *)

\* The promise's variables.
Phases == [t \in Thread |-> Phase(t)]
Peers  == [t \in Thread |-> Peer(t)]
Pages  == [t \in Thread |-> [from |-> src[t], text |-> msg[t]]]

\* By what the invariant says of a thread, its phase is one of four.
LEMMA PhaseFacts ==
    ASSUME IInv, NEW t \in Thread
    PROVE  /\ Phase(t) = "free" <=> state[t] = "READY"
           /\ Phase(t) = "sending" <=> ipcState[t] = {"SENDING"}
           /\ Phase(t) = "receiving" <=> ipcState[t] = {"RECEIVING"}
           /\ Phase(t) = "served" <=> state[t] = "BLOCKED" /\ ipcState[t] = {}
           /\ Phase(t) = "free" => Peer(t) = None
           /\ Phase(t) = "receiving" => Peer(t) = recvFrom[t]
           /\ Phase(t) \in {"sending", "served"} => Peer(t) = sendTo[t]
<1>1. /\ state[t] \in {"READY", "BLOCKED"}
      /\ ipcState[t] \in {{}, {"SENDING"}, {"RECEIVING"}}
      /\ state[t] = "READY" => ipcState[t] = {}
  BY DEF IInv, TypeOK, QueuesMatchStates, OneThingAtATime, AnyThread
<1>2. {"SENDING"} # {"RECEIVING"} /\ {"SENDING"} # {} /\ {"RECEIVING"} # {}
  OBVIOUS
<1> QED  BY <1>1, <1>2 DEF Phase, Peer

\* A step that leaves the states of a thread alone leaves its phase alone.
LEMMA PhaseKept ==
    ASSUME NEW t \in Thread,
           state'[t] = state[t], ipcState'[t] = ipcState[t],
           sendTo'[t] = sendTo[t], recvFrom'[t] = recvFrom[t]
    PROVE  Phase(t)' = Phase(t) /\ Peer(t)' = Peer(t)
BY DEF Phase, Peer

\* The phase of a thread after a step that sets its states.
LEMMA NextPhase ==
    ASSUME NEW t \in Thread
    PROVE  /\ state'[t] = "READY" /\ ipcState'[t] = {}
                 => Phase(t)' = "free" /\ Peer(t)' = None
           /\ state'[t] = "BLOCKED" /\ ipcState'[t] = {"SENDING"}
                 => Phase(t)' = "sending" /\ Peer(t)' = sendTo'[t]
           /\ state'[t] = "BLOCKED" /\ ipcState'[t] = {"RECEIVING"}
                 => Phase(t)' = "receiving" /\ Peer(t)' = recvFrom'[t]
           /\ state'[t] = "BLOCKED" /\ ipcState'[t] = {}
                 => Phase(t)' = "served" /\ Peer(t)' = sendTo'[t]
<1>1. {"SENDING"} # {"RECEIVING"} /\ {"SENDING"} # {} /\ {"RECEIVING"} # {}
  OBVIOUS
<1> QED  BY <1>1 DEF Phase, Peer

\* A caller is free, in the promise as well.
LEMMA CallerFree ==
    ASSUME IInv, Calling
    PROVE  cur \in Thread /\ ProcOf[cur] \in Proc /\ Phase(cur) = "free" /\ Peer(cur) = None
BY CallerFacts, PhaseFacts

\* Messages put together by a handler.
LEMMA Entered ==
    ASSUME IInv, NEW m \in Msg, Calling, Enter(m)
    PROVE  Pages' = [Pages EXCEPT ![cur] = Promise!Own(cur, m)]
<1>1. cur \in Thread
  BY CallerFacts
<1> QED  BY <1>1 DEF IInv, TypeOK, Enter, Pages, Promise!Own

-----------------------------------------------------------------------------
(* Courteous programs: the handlers                                        *)

\* No queue, no state: the caller has written a message, that is all.
LEMMA QuietKeeps ==
    ASSUME IInv, NEW m \in Msg, Calling, Enter(m), UNCHANGED <<state, ipcState, links>>
    PROVE  Promise!Next
<1>1. cur \in Thread /\ Phase(cur) = "free"
  BY CallerFree
<1>2. Phases' = Phases /\ Peers' = Peers
  BY DEF Phases, Peers, Phase, Peer, links
<1>3. Promise!Write(cur, m)
  BY <1>1, <1>2, Entered DEF Promise!Write, Phases, Peers, Pages
<1> QED  BY <1>1, <1>3 DEF Promise!Next

LEMMA StutterKeeps ==
    ASSUME UNCHANGED <<state, ipcState, links, regs>>
    PROVE  UNCHANGED Promise!vars
BY DEF Promise!vars, Phase, Peer, links, regs

LEMMA SendQueueKeeps ==
    ASSUME IInv, NEW p \in Proc, NEW m \in Msg, SendQueue(p, m)
    PROVE  Promise!Next
<1>1. /\ cur \in Thread /\ ProcOf[cur] \in Proc
      /\ Phase(cur) = "free" /\ Peer(cur) = None /\ ipcState[cur] = {}
  BY CallerFree, CallerFacts DEF SendQueue
<1>2. \A r \in Thread : ProcOf[r] = p => ~ Promise!Awaits(r, ProcOf[cur])
  <2> SUFFICES ASSUME NEW r \in Thread, ProcOf[r] = p, Promise!Awaits(r, ProcOf[cur])
               PROVE  FALSE
    OBVIOUS
  <2>1. Phase(r) = "receiving" /\ Peer(r) \in {None, ProcOf[cur]}
    BY DEF Promise!Awaits
  <2>2. ipcState[r] = {"RECEIVING"} /\ recvFrom[r] \in {None, ProcOf[cur]}
    BY <2>1, PhaseFacts
  <2>3. r \in Range(ThreadList[p])
    BY ListsAssumption
  <2> QED  BY <2>2, <2>3 DEF SendQueue, Receivers
<1>0. PICK c \in Thread : c = cur
  BY <1>1
<1>3. /\ Phase(c)' = "sending" /\ Peer(c)' = p
      /\ \A t \in Thread \ {c} : Phase(t)' = Phase(t) /\ Peer(t)' = Peer(t)
  <2>1. /\ ipcState'[c] = {"SENDING"} /\ sendTo'[c] = p /\ state'[c] = "BLOCKED"
    BY <1>1, <1>0 DEF SendQueue, IInv, TypeOK, AnyThread
  <2>2. \A t \in Thread \ {c} : /\ state'[t] = state[t] /\ ipcState'[t] = ipcState[t]
                                /\ sendTo'[t] = sendTo[t] /\ recvFrom'[t] = recvFrom[t]
    BY <1>0 DEF SendQueue, IInv, TypeOK, AnyThread
  <2>3. Phase(c)' = "sending" /\ Peer(c)' = p
    BY <2>1, NextPhase
  <2> QED  BY <2>2, <2>3, PhaseKept
<1>4. /\ Phases' = [Phases EXCEPT ![cur] = "sending"]
      /\ Peers' = [Peers EXCEPT ![cur] = p]
  BY <1>0, <1>3 DEF Phases, Peers
<1>5. Pages' = [Pages EXCEPT ![cur] = Promise!Own(cur, m)]
  BY Entered DEF SendQueue
<1>6. Promise!Post(cur, p, m)
  BY <1>1, <1>2, <1>4, <1>5 DEF Promise!Post, Phases, Peers, Pages
<1> QED  BY <1>1, <1>6 DEF Promise!Next

LEMMA SendDeliverKeeps ==
    ASSUME IInv, NEW p \in Proc, NEW m \in Msg, SendDeliver(p, m)
    PROVE  Promise!Next
<1>1. /\ cur \in Thread /\ ProcOf[cur] \in Proc
      /\ Phase(cur) = "free" /\ ipcState[cur] = {}
  BY CallerFree, CallerFacts DEF SendDeliver
<1>2. PICK r \in Thread :
        /\ r \in Receivers(p, ProcOf[cur])
        /\ src' = [src EXCEPT ![cur] = ProcOf[cur], ![r] = ProcOf[cur]]
        /\ msg' = [msg EXCEPT ![cur] = m, ![r] = m]
        /\ ipcState' = [ipcState EXCEPT ![r] = @ \ {"RECEIVING"},
                                        ![cur] = @ \ {"SENDING"}]
        /\ sendTo' = [sendTo EXCEPT ![cur] = p]
        /\ state' = [state EXCEPT ![r] = "READY", ![cur] = "BLOCKED"]
        /\ recvFrom' = recvFrom
  BY DEF SendDeliver, IsFirst
<1>3. /\ ipcState[r] = {"RECEIVING"} /\ recvFrom[r] \in {None, ProcOf[cur]}
      /\ ProcOf[r] = p /\ r # cur
  BY <1>1, <1>2, ListsAssumption DEF Receivers
<1>4. Promise!Awaits(r, ProcOf[cur])
  BY <1>3, PhaseFacts DEF Promise!Awaits
<1>0. PICK c \in Thread : c = cur
  BY <1>1
<1>5. /\ Phase(c)' = "served" /\ Peer(c)' = p
      /\ Phase(r)' = "free" /\ Peer(r)' = None
      /\ \A t \in Thread \ {c, r} : Phase(t)' = Phase(t) /\ Peer(t)' = Peer(t)
  <2>1. /\ state'[c] = "BLOCKED" /\ ipcState'[c] = {} /\ sendTo'[c] = p
        /\ state'[r] = "READY" /\ ipcState'[r] = {}
    BY <1>1, <1>0, <1>2, <1>3 DEF IInv, TypeOK, AnyThread
  <2>2. \A t \in Thread \ {c, r} :
           /\ state'[t] = state[t] /\ ipcState'[t] = ipcState[t]
           /\ sendTo'[t] = sendTo[t] /\ recvFrom'[t] = recvFrom[t]
    BY <1>0, <1>2 DEF IInv, TypeOK, AnyThread
  <2>3. Phase(c)' = "served" /\ Peer(c)' = p /\ Phase(r)' = "free" /\ Peer(r)' = None
    BY <2>1, NextPhase
  <2> QED  BY <2>2, <2>3, PhaseKept
<1>6. /\ Phases' = [Phases EXCEPT ![cur] = "served", ![r] = "free"]
      /\ Peers' = [Peers EXCEPT ![cur] = ProcOf[r], ![r] = None]
  BY <1>0, <1>3, <1>5 DEF Phases, Peers
<1>7. Pages' = [Pages EXCEPT ![cur] = Promise!Own(cur, m), ![r] = Promise!Own(cur, m)]
  BY <1>1, <1>2 DEF IInv, TypeOK, Pages, Promise!Own
<1>8. Promise!HandOver(cur, r, m)
  BY <1>1, <1>4, <1>6, <1>7 DEF Promise!HandOver, Phases, Peers, Pages
<1> QED  BY <1>1, <1>8 DEF Promise!Next

LEMMA ReceiveTakeKeeps ==
    ASSUME IInv, NEW p \in Proc \cup {None}, ReceiveTake(p)
    PROVE  Promise!Next
<1>1. /\ cur \in Thread /\ ProcOf[cur] \in Proc
      /\ Phase(cur) = "free" /\ Peer(cur) = None
      /\ ipcState[cur] = {} /\ state[cur] = "READY"
  BY CallerFree, CallerFacts DEF ReceiveTake
<1>2. PICK s \in Thread :
        /\ s \in WaitingSenders(ProcOf[cur], p)
        /\ src' = [src EXCEPT ![cur] = src[s]]
        /\ msg' = [msg EXCEPT ![cur] = msg[s]]
        /\ ipcState' = [ipcState EXCEPT ![s] = @ \ {"SENDING"},
                                        ![cur] = @ \ {"RECEIVING"}]
        /\ recvFrom' = [recvFrom EXCEPT ![cur] = p]
        /\ state' = [state EXCEPT ![s] = "READY"]
        /\ sendTo' = sendTo
  BY DEF ReceiveTake, IsFirst
<1>3. /\ ipcState[s] = {"SENDING"} /\ sendTo[s] = ProcOf[cur]
      /\ p \in {None, ProcOf[s]} /\ s # cur
  BY <1>1, <1>2 DEF WaitingSenders, IInv, QueuesMatchStates, SendersQueued
<1>4. Promise!Posted(s, ProcOf[cur])
  BY <1>3, PhaseFacts DEF Promise!Posted
<1>5. /\ Phase(s)' = "free" /\ Peer(s)' = None
      /\ \A t \in Thread \ {s} : Phase(t)' = Phase(t) /\ Peer(t)' = Peer(t)
  <2>1. PICK c \in Thread : c = cur
    BY <1>1
  <2>2. /\ state'[s] = "READY" /\ ipcState'[s] = {}
        /\ state'[c] = "READY" /\ ipcState'[c] = {}
    BY <1>1, <1>2, <1>3, <2>1 DEF IInv, TypeOK, AnyThread
  <2>3. \A t \in Thread \ {c, s} :
           /\ state'[t] = state[t] /\ ipcState'[t] = ipcState[t]
           /\ sendTo'[t] = sendTo[t] /\ recvFrom'[t] = recvFrom[t]
    BY <1>2, <2>1 DEF IInv, TypeOK, AnyThread
  <2>4. Phase(s)' = "free" /\ Peer(s)' = None /\ Phase(c)' = "free" /\ Peer(c)' = None
    BY <2>2, NextPhase
  <2> QED  BY <1>1, <2>1, <2>3, <2>4, PhaseKept
<1>6. /\ Phases' = [Phases EXCEPT ![s] = "free"]
      /\ Peers' = [Peers EXCEPT ![s] = None]
  BY <1>5 DEF Phases, Peers
<1>7. Pages' = [Pages EXCEPT ![cur] = Pages[s]]
  BY <1>1, <1>2 DEF IInv, TypeOK, Pages
<1>8. Promise!Collect(cur, s, p)
  BY <1>1, <1>3, <1>4, <1>6, <1>7 DEF Promise!Collect, Phases, Peers, Pages
<1> QED  BY <1>1, <1>8 DEF Promise!Next

LEMMA ReceiveBlockKeeps ==
    ASSUME IInv, NEW p \in Proc \cup {None}, NEW m \in Msg, ReceiveBlock(p, m)
    PROVE  Promise!Next
<1>1. /\ cur \in Thread /\ ProcOf[cur] \in Proc
      /\ Phase(cur) = "free" /\ ipcState[cur] = {}
  BY CallerFree, CallerFacts DEF ReceiveBlock
<1>2. \A s \in Thread : p \in {None, ProcOf[s]} => ~ Promise!Posted(s, ProcOf[cur])
  <2> SUFFICES ASSUME NEW s \in Thread, p \in {None, ProcOf[s]},
                      Promise!Posted(s, ProcOf[cur])
               PROVE  FALSE
    OBVIOUS
  <2>1. Phase(s) = "sending" /\ Peer(s) = ProcOf[cur]
    BY DEF Promise!Posted
  <2>2. ipcState[s] = {"SENDING"} /\ sendTo[s] = ProcOf[cur]
    BY <2>1, PhaseFacts
  <2>3. state[s] = "BLOCKED"
    BY <2>2 DEF IInv, TypeOK, AnyThread, QueuesMatchStates, OneThingAtATime
  <2>4. s \in Range(waitList[ProcOf[cur]])
    BY <1>1, <2>2, <2>3 DEF IInv, QueuesMatchStates, SendersQueued
  <2> QED  BY <2>4 DEF ReceiveBlock, WaitingSenders
<1>0. PICK c \in Thread : c = cur
  BY <1>1
<1>3. /\ Phase(c)' = "receiving" /\ Peer(c)' = p
      /\ \A t \in Thread \ {c} : Phase(t)' = Phase(t) /\ Peer(t)' = Peer(t)
  <2>1. /\ ipcState'[c] = {"RECEIVING"} /\ recvFrom'[c] = p /\ state'[c] = "BLOCKED"
    BY <1>1, <1>0 DEF ReceiveBlock, IInv, TypeOK, AnyThread
  <2>2. \A t \in Thread \ {c} : /\ state'[t] = state[t] /\ ipcState'[t] = ipcState[t]
                                /\ sendTo'[t] = sendTo[t] /\ recvFrom'[t] = recvFrom[t]
    BY <1>0 DEF ReceiveBlock, IInv, TypeOK, AnyThread
  <2>3. Phase(c)' = "receiving" /\ Peer(c)' = p
    BY <2>1, NextPhase
  <2> QED  BY <2>2, <2>3, PhaseKept
<1>4. /\ Phases' = [Phases EXCEPT ![cur] = "receiving"]
      /\ Peers' = [Peers EXCEPT ![cur] = p]
  BY <1>0, <1>3 DEF Phases, Peers
<1>5. Pages' = [Pages EXCEPT ![cur] = Promise!Own(cur, m)]
  BY Entered DEF ReceiveBlock
<1>6. Promise!Await(cur, p, m)
  BY <1>1, <1>2, <1>4, <1>5 DEF Promise!Await, Phases, Peers, Pages
<1> QED  BY <1>1, <1>6 DEF Promise!Next

\* A courteous program notifies no process that has a sender in its wait
\* list, so that the one it finds was handed to it before.
LEMMA NotifyWakeKeeps ==
    ASSUME IInv, NEW p \in Proc, NEW m \in Msg, MayNotify(p), NotifyWake(p, m)
    PROVE  Promise!Next
<1>1. /\ cur \in Thread /\ ProcOf[cur] \in Proc
      /\ Phase(cur) = "free" /\ state[cur] = "READY"
  BY CallerFree, CallerFacts DEF NotifyWake
<1>2. PICK s \in Thread :
        /\ s \in BlockedSenders(ProcOf[cur], p)
        /\ ipcState' = [ipcState EXCEPT ![s] = @ \ {"SENDING"}]
        /\ state' = [state EXCEPT ![s] = "READY"]
        /\ Enter(m)
        /\ UNCHANGED links
  BY DEF NotifyWake, IsFirst
<1>3. /\ state[s] = "BLOCKED" /\ sendTo[s] = ProcOf[cur] /\ ipcState[s] # {"RECEIVING"}
      /\ ProcOf[s] = p
  BY <1>2, ListsAssumption DEF BlockedSenders
<1>4. ipcState[s] # {"SENDING"}
  <2>1. s \notin Range(waitList[ProcOf[cur]])
    BY <1>3 DEF MayNotify
  <2> QED  BY <1>1, <1>3, <2>1 DEF IInv, QueuesMatchStates, SendersQueued
<1>5. Phase(s) = "served" /\ Peer(s) = ProcOf[cur]
  <2>1. ipcState[s] = {}
    BY <1>3, <1>4 DEF IInv, QueuesMatchStates, OneThingAtATime
  <2> QED  BY <1>3, <2>1, PhaseFacts
<1>6. /\ Phase(s)' = "free" /\ Peer(s)' = None
      /\ \A t \in Thread \ {s} : Phase(t)' = Phase(t) /\ Peer(t)' = Peer(t)
  <2>1. state'[s] = "READY" /\ ipcState'[s] = {}
    BY <1>2, <1>3, <1>4
       DEF IInv, TypeOK, QueuesMatchStates, OneThingAtATime, AnyThread
  <2>2. \A t \in Thread \ {s} :
           /\ state'[t] = state[t] /\ ipcState'[t] = ipcState[t]
           /\ sendTo'[t] = sendTo[t] /\ recvFrom'[t] = recvFrom[t]
    BY <1>2 DEF IInv, TypeOK, AnyThread, links
  <2>3. Phase(s)' = "free" /\ Peer(s)' = None
    BY <2>1, NextPhase
  <2> QED  BY <2>2, <2>3, PhaseKept
<1>7. /\ Phases' = [Phases EXCEPT ![s] = "free"]
      /\ Peers' = [Peers EXCEPT ![s] = None]
  BY <1>6 DEF Phases, Peers
<1>8. Pages' = [Pages EXCEPT ![cur] = Promise!Own(cur, m)]
  BY <1>2, Entered DEF NotifyWake
<1>9. Promise!Release(cur, s, m)
  BY <1>1, <1>5, <1>7, <1>8 DEF Promise!Release, Phases, Peers, Pages
<1> QED  BY <1>1, <1>9 DEF Promise!Next

-----------------------------------------------------------------------------
(* Courteous programs: the calls implement Rendezvous                      *)

LEMMA InitKeeps == Init => Promise!Init
<1> SUFFICES ASSUME Init PROVE Promise!Init
  OBVIOUS
<1>1. \A t \in Thread : src[t] = None /\ msg[t] \in Msg
  BY DEF Init
<1>2. \A t \in Thread : Phase(t) = "free" /\ Peer(t) = None
  BY InitIInv, PhaseFacts DEF Init, AnyThread
<1>3. Pages \in [Thread -> {l \in Promise!Letter : l.from = None}]
  BY <1>1 DEF Pages, Promise!Letter
<1> QED  BY <1>2, <1>3 DEF Promise!Init, Pages

\* A step of courteous programs is a step of programs, and one of the promise.
LEMMA CourteousIsNext == [CourteousNext]_vars => [Next]_vars
BY DEF CourteousNext, Next

LEMMA StepKeeps == IInv /\ [CourteousNext]_vars => [Promise!Next]_(Promise!vars)
<1> SUFFICES ASSUME IInv, [CourteousNext]_vars
             PROVE  Promise!Next \/ UNCHANGED Promise!vars
  OBVIOUS
<1>1. CASE Clock
  BY <1>1, StutterKeeps DEF Clock
<1>2. ASSUME NEW m \in Msg, Reject(m) PROVE Promise!Next
  BY <1>2, QuietKeeps DEF Reject
<1>3. ASSUME NEW p \in Proc, NEW m \in Msg, Send(p, m)
      PROVE  Promise!Next \/ UNCHANGED Promise!vars
  <2>1. CASE SendOverflow(p)
    BY <2>1, StutterKeeps DEF SendOverflow
  <2>2. CASE SendDeadlock(p, m)
    BY <2>2, QuietKeeps DEF SendDeadlock
  <2> QED  BY <1>3, <2>1, <2>2, SendDeliverKeeps, SendQueueKeeps DEF Send
<1>4. ASSUME NEW p \in Proc \cup {None}, NEW m \in Msg, Receive(p, m) PROVE Promise!Next
  BY <1>4, ReceiveTakeKeeps, ReceiveBlockKeeps DEF Receive
<1>5. ASSUME NEW p \in Proc, NEW m \in Msg, MayNotify(p), Notify(p, m)
      PROVE  Promise!Next \/ UNCHANGED Promise!vars
  <2>1. CASE NotifyQueued(p)
    BY <2>1, StutterKeeps DEF NotifyQueued
  <2>2. CASE NotifyNobody(p, m)
    BY <2>2, QuietKeeps DEF NotifyNobody
  <2> QED  BY <1>5, <2>1, <2>2, NotifyWakeKeeps DEF Notify
<1>6. CASE UNCHANGED vars
  BY <1>6, StutterKeeps DEF vars, links, regs
<1> QED  BY <1>1, <1>2, <1>3, <1>4, <1>5, <1>6 DEF CourteousNext

\* The invariant holds of courteous programs as of any.
LEMMA CourteousInvariance == CourteousSpec => []IInv
BY InitIInv, CourteousIsNext, StepIInv, PTL DEF CourteousSpec

\* For any threads and processes, as long as programs keep the rules, send,
\* receive and notify do what Rendezvous says and nothing else.
THEOREM PromiseKept == CourteousSpec => KeepsPromise
BY CourteousInvariance, InitKeeps, StepKeeps, PTL
   DEF CourteousSpec, KeepsPromise, Promise!Spec

-----------------------------------------------------------------------------
(* Courteous programs: chains of senders                                   *)

\* A thread with a pending message has a receiver.
SendersNamed == \A t \in Thread : ipcState[t] = {"SENDING"} => sendTo[t] \in Proc

\* S is closed under the edges that syscall_deadlock follows for a sender.
Closed(S, sender) == \A p \in S : SendsTo(p) \ {sender} \subseteq S

LEMMA SendsToProc ==
    ASSUME SendersNamed, NEW p \in Proc
    PROVE  SendsTo(p) \subseteq Proc
<1>1. \A t \in Range(ThreadList[p]) : t \in Thread
  BY ListsAssumption
<1> QED  BY <1>1 DEF SendsTo, SendersNamed

\* Visited is the least closed set.
LEMMA VisitedIsClosed ==
    ASSUME SendersNamed, NEW sender, NEW target \in Proc
    PROVE  /\ target \in Visited(sender, target)
           /\ Visited(sender, target) \subseteq Proc
           /\ Closed(Visited(sender, target), sender)
<1>1. \A p \in Proc : SendsTo(p) \subseteq Proc
  BY SendsToProc
<1> QED  BY <1>1 DEF Visited, Closed

LEMMA VisitedIsLeast ==
    ASSUME NEW sender, NEW target, NEW S \in SUBSET Proc,
           target \in S, Closed(S, sender)
    PROVE  Visited(sender, target) \subseteq S
BY DEF Visited, Closed

\* The invariant in terms of closed sets, which can be said of the next state.
Acyclic ==
    \A p \in Proc : \A q \in SendsTo(p) :
        \E S \in SUBSET Proc : q \in S /\ p \notin S /\ Closed(S, None)

LEMMA AcyclicIsGraphAcyclic ==
    SendersNamed => (Acyclic <=> SendGraphAcyclic)
<1> SUFFICES ASSUME SendersNamed PROVE Acyclic <=> SendGraphAcyclic
  OBVIOUS
<1>1. ASSUME Acyclic, NEW p \in Proc, NEW q \in SendsTo(p) PROVE p \notin Visited(None, q)
  <2>1. PICK S \in SUBSET Proc : q \in S /\ p \notin S /\ Closed(S, None)
    BY <1>1 DEF Acyclic
  <2> QED  BY <2>1, VisitedIsLeast
<1>2. ASSUME SendGraphAcyclic, NEW p \in Proc, NEW q \in SendsTo(p)
      PROVE  \E S \in SUBSET Proc : q \in S /\ p \notin S /\ Closed(S, None)
  <2>1. q \in Proc
    BY SendsToProc
  <2>2. /\ Visited(None, q) \in SUBSET Proc /\ q \in Visited(None, q)
        /\ Closed(Visited(None, q), None)
    BY <2>1, VisitedIsClosed
  <2>3. p \notin Visited(None, q)
    BY <1>2 DEF SendGraphAcyclic
  <2> QED  BY <2>2, <2>3
<1> QED  BY <1>1, <1>2 DEF Acyclic, SendGraphAcyclic

\* A step that adds no edge adds no cycle.
LEMMA FewerEdges ==
    ASSUME Acyclic, \A p \in Proc : SendsTo(p)' \subseteq SendsTo(p)
    PROVE  Acyclic'
<1> SUFFICES ASSUME NEW p \in Proc, NEW q \in SendsTo(p)'
             PROVE  \E S \in SUBSET Proc : q \in S /\ p \notin S /\ Closed(S, None)'
  BY DEF Acyclic
<1>1. PICK S \in SUBSET Proc : q \in S /\ p \notin S /\ Closed(S, None)
  BY DEF Acyclic
<1>2. Closed(S, None)'
  BY <1>1 DEF Closed
<1> QED  BY <1>1, <1>2

\* An edge that the check lets pass closes no cycle: what is visited from the
\* receiver does not lead back to the sender, and stays as it is.
LEMMA CheckedEdge ==
    ASSUME SendersNamed, Acyclic, NEW c \in Proc, NEW d \in Proc, c # d,
           ~ ChainClosed(c, d),
           \A p \in Proc : SendsTo(p)' \subseteq SendsTo(p) \cup (IF p = c THEN {d} ELSE {})
    PROVE  Acyclic'
<1> SUFFICES ASSUME NEW p \in Proc, NEW q \in SendsTo(p)'
             PROVE  \E S \in SUBSET Proc : q \in S /\ p \notin S /\ Closed(S, None)'
  BY DEF Acyclic
<1>1. PICK V \in SUBSET Proc : V = Visited(c, d)
  BY VisitedIsClosed
<1>2. d \in V /\ Closed(V, c)
  BY <1>1, VisitedIsClosed
<1>3. c \notin V
  <2>1. V \ {c} \in SUBSET Proc /\ d \in V \ {c} /\ Closed(V \ {c}, c)
    BY <1>2 DEF Closed
  <2> QED  BY <1>1, <2>1, VisitedIsLeast
<1>4. Closed(V, None)
  BY <1>1, <1>2 DEF ChainClosed, Closed
<1>5. Closed(V, None)'
  BY <1>3, <1>4 DEF Closed
<1>6. CASE q \in SendsTo(p)
  <2>1. PICK U \in SUBSET Proc : q \in U /\ p \notin U /\ Closed(U, None)
    BY <1>6 DEF Acyclic
  <2>2. CASE p \in V
    <3>1. q \in V
      BY <1>4, <1>6, <2>1, <2>2, SendsToProc, ThreadsAssumption DEF Closed
    <3>2. c \notin U \cap V /\ Closed(U \cap V, None)
      BY <1>3, <1>4, <2>1 DEF Closed
    <3>3. Closed(U \cap V, None)'
      BY <3>2 DEF Closed
    <3> QED  BY <2>1, <3>1, <3>3
  <2>3. CASE p \notin V
    <3>1. Closed(U \cup V, None)'
      BY <1>2, <1>3, <1>4, <2>1 DEF Closed
    <3> QED  BY <2>1, <2>3, <3>1
  <2> QED  BY <2>2, <2>3
<1>7. CASE q \notin SendsTo(p)
  <2>1. p = c /\ q = d
    BY <1>7
  <2> QED  BY <1>2, <1>3, <1>5, <2>1
<1> QED  BY <1>6, <1>7

\* A chain without cycles is walked to its end.
LEMMA NoLoops ==
    ASSUME SendersNamed, Acyclic, NEW sender \in Proc, NEW target \in Proc
    PROVE  ~ ChainLoops(sender, target)
<1> SUFFICES ASSUME NEW p \in Proc, NEW q \in SendsTo(p) \ {sender}, p \in Visited(sender, q)
             PROVE  FALSE
  BY DEF ChainLoops
<1>1. PICK S \in SUBSET Proc : q \in S /\ p \notin S /\ Closed(S, None)
  BY DEF Acyclic
<1>2. Closed(S, sender)
  <2>1. \A x \in S : None \notin SendsTo(x)
    BY SendsToProc, ThreadsAssumption
  <2> QED  BY <1>1, <2>1 DEF Closed
<1> QED  BY <1>1, <1>2, VisitedIsLeast

CInv == SendersNamed /\ Acyclic /\ NoFault

LEMMA CInvStep == IInv /\ CInv /\ [CourteousNext]_vars => CInv'
<1> SUFFICES ASSUME IInv, CInv, [CourteousNext]_vars PROVE CInv'
  OBVIOUS
<1> USE DEF CInv
<1>1. ASSUME fault' = fault,
             \A t \in Thread : ipcState'[t] = {"SENDING"} =>
                 ipcState[t] = {"SENDING"} /\ sendTo'[t] = sendTo[t]
      PROVE  CInv'
  <2>1. SendersNamed' /\ NoFault'
    BY <1>1 DEF SendersNamed, NoFault
  <2>2. \A p \in Proc : SendsTo(p)' \subseteq SendsTo(p)
    <3>1. \A p \in Proc : Range(ThreadList[p]) \subseteq Thread
      BY ListsAssumption
    <3> QED  BY <1>1, <3>1 DEF SendsTo
  <2> QED  BY <2>1, <2>2, FewerEdges
<1>2. ASSUME UNCHANGED <<ipcState, links, fault>> PROVE CInv'
  BY <1>1, <1>2 DEF links
<1>3. CASE Clock
  BY <1>2, <1>3 DEF Clock
<1>4. ASSUME NEW m \in Msg, Reject(m) PROVE CInv'
  BY <1>2, <1>4 DEF Reject
<1>5. ASSUME NEW p \in Proc, NEW m \in Msg, MaySend(p), Send(p, m) PROVE CInv'
  <2>1. cur \in Thread /\ ProcOf[cur] \in Proc /\ ipcState[cur] = {} /\ p # ProcOf[cur]
    BY <1>5, CallerFacts DEF MaySend
  <2>2. CASE SendOverflow(p)
    BY <2>1, <2>2, NoLoops DEF SendOverflow
  <2>3. CASE SendDeadlock(p, m)
    BY <1>2, <2>3 DEF SendDeadlock
  <2>4. CASE SendDeliver(p, m)
    <3>1. PICK r \in Thread :
            /\ r \in Receivers(p, ProcOf[cur])
            /\ ipcState' = [ipcState EXCEPT ![r] = @ \ {"RECEIVING"},
                                            ![cur] = @ \ {"SENDING"}]
            /\ sendTo' = [sendTo EXCEPT ![cur] = p]
            /\ fault' = fault
      BY <2>4 DEF SendDeliver, IsFirst
    <3>2. /\ ipcState'[r] = {} /\ ipcState'[cur] = {}
          /\ \A t \in Thread \ {r, cur} : ipcState'[t] = ipcState[t] /\ sendTo'[t] = sendTo[t]
      BY <2>1, <3>1 DEF Receivers, IInv, TypeOK
    <3> QED  BY <1>1, <3>1, <3>2
  <2>5. CASE SendQueue(p, m)
    <3>1. PICK c \in Thread : c = cur
      BY <2>1
    <3>2. /\ ipcState'[c] = {"SENDING"} /\ sendTo'[c] = p /\ fault' = fault
          /\ \A t \in Thread \ {c} : ipcState'[t] = ipcState[t] /\ sendTo'[t] = sendTo[t]
          /\ ~ ChainClosed(ProcOf[c], p)
      BY <2>1, <2>5, <3>1 DEF SendQueue, PassesDeadlock, IInv, TypeOK
    <3>3. SendersNamed' /\ NoFault'
      BY <3>2 DEF SendersNamed, NoFault
    <3>4. \A q \in Proc : SendsTo(q)' \subseteq
                              SendsTo(q) \cup (IF q = ProcOf[c] THEN {p} ELSE {})
      <4>1. \A q \in Proc : Range(ThreadList[q]) = {t \in Thread : ProcOf[t] = q}
        BY ListsAssumption
      <4> QED  BY <3>2, <4>1 DEF SendsTo
    <3> QED  BY <2>1, <3>1, <3>2, <3>3, <3>4, CheckedEdge
  <2> QED  BY <1>5, <2>2, <2>3, <2>4, <2>5 DEF Send
<1>6. ASSUME NEW p \in Proc \cup {None}, NEW m \in Msg, Receive(p, m) PROVE CInv'
  <2>1. CASE ReceiveTake(p)
    <3>1. cur \in Thread /\ ProcOf[cur] \in Proc /\ ipcState[cur] = {}
      BY <2>1, CallerFacts DEF ReceiveTake
    <3>2. PICK s \in Thread :
            /\ ipcState' = [ipcState EXCEPT ![s] = @ \ {"SENDING"},
                                            ![cur] = @ \ {"RECEIVING"}]
            /\ UNCHANGED <<sendTo, fault>>
      BY <2>1 DEF ReceiveTake
    <3>3. /\ \A t \in Thread \ {s, cur} : ipcState'[t] = ipcState[t]
          /\ ipcState'[s] # {"SENDING"} /\ ipcState'[cur] # {"SENDING"}
      BY <3>1, <3>2 DEF IInv, TypeOK
    <3> QED  BY <1>1, <3>2, <3>3
  <2>2. CASE ReceiveBlock(p, m)
    <3>1. cur \in Thread /\ ipcState[cur] = {}
      BY <2>2, CallerFacts DEF ReceiveBlock
    <3>2. /\ ipcState'[cur] = {"RECEIVING"} /\ UNCHANGED <<sendTo, fault>>
          /\ \A t \in Thread \ {cur} : ipcState'[t] = ipcState[t]
      BY <2>2, <3>1 DEF ReceiveBlock, IInv, TypeOK
    <3>3. {"RECEIVING"} # {"SENDING"}
      OBVIOUS
    <3> QED  BY <1>1, <3>2, <3>3
  <2> QED  BY <1>6, <2>1, <2>2 DEF Receive
<1>7. ASSUME NEW p \in Proc, NEW m \in Msg, MayNotify(p), Notify(p, m) PROVE CInv'
  <2>1. CASE NotifyQueued(p)
    <3>1. PICK t \in Thread : /\ t \in Range(ThreadList[p])
                              /\ t \in Range(waitList[ProcOf[cur]])
      BY <2>1 DEF NotifyQueued, IsFirst, BlockedSenders
    <3> QED  BY <1>7, <3>1, ListsAssumption DEF MayNotify
  <2>2. CASE NotifyWake(p, m)
    <3>1. PICK t \in Thread :
            /\ ipcState' = [ipcState EXCEPT ![t] = @ \ {"SENDING"}]
            /\ UNCHANGED <<links, fault>>
      BY <2>2 DEF NotifyWake
    <3>2. /\ \A u \in Thread \ {t} : ipcState'[u] = ipcState[u]
          /\ ipcState'[t] # {"SENDING"}
      BY <3>1 DEF IInv, TypeOK
    <3> QED  BY <1>1, <3>1, <3>2 DEF links
  <2>3. CASE NotifyNobody(p, m)
    BY <1>2, <2>3 DEF NotifyNobody
  <2> QED  BY <1>7, <2>1, <2>2, <2>3 DEF Notify
<1>8. CASE UNCHANGED vars
  BY <1>2, <1>8 DEF vars, links
<1> QED  BY <1>3, <1>4, <1>5, <1>6, <1>7, <1>8 DEF CourteousNext

LEMMA CourteousChains == CourteousSpec => []CInv
<1>1. Init => CInv
  <2> SUFFICES ASSUME Init PROVE CInv
    OBVIOUS
  <2>1. \A t \in Thread : ipcState[t] # {"SENDING"}
    BY DEF Init
  <2>2. \A p \in Proc : SendsTo(p) = {}
    BY <2>1, ListsAssumption DEF SendsTo
  <2> QED  BY <2>1, <2>2 DEF Init, CInv, SendersNamed, Acyclic, NoFault
<1> QED  BY <1>1, CInvStep, CourteousInvariance, PTL DEF CourteousSpec

\* As long as programs keep the rules, no processes wait for each other in a
\* circle with their messages pending, however many there are: the check at
\* every send sees the whole chain although each send only adds its end.
THEOREM ChainsCorrect == CourteousSpec => []SendGraphAcyclic
<1>1. CInv => SendGraphAcyclic
  BY AcyclicIsGraphAcyclic DEF CInv
<1> QED  BY <1>1, CourteousChains, PTL

\* ... and no call takes the kernel down: the walk of the chain ends, and no
\* thread is unlinked through the head of a list it is not in.
THEOREM FaultsNever == CourteousSpec => []NoFault
<1>1. CInv => NoFault
  BY DEF CInv
<1> QED  BY <1>1, CourteousChains, PTL

-----------------------------------------------------------------------------
(* Service: who the server is busy with                                    *)

\* The server has taken the request of client c, and has not answered it.
Attends(c) ==
    \/ pc[Server] = "notify" /\ state[Server] = "READY" /\ src[Server] = ProcOf[c]
    \/ pc[Server] = "reply" /\ buf[Server].from = ProcOf[c]
    \/ /\ pc[Server] = "receive" /\ ipcState[Server] = {"SENDING"}
       /\ sendTo[Server] = ProcOf[c]

\* The data it will answer, or is answering, wherever it is by now.
Holds(d) ==
    CASE pc[Server] = "notify"  -> msg[Server] = d
      [] pc[Server] = "reply"   -> buf[Server].data = d
      [] pc[Server] = "receive" -> src[Server] = ProcOf[Server] /\ msg[Server] = d

\* The server has handed client c its answer and waits to be let go.
Handed(c) ==
    /\ pc[Server] = "receive" /\ state[Server] = "BLOCKED" /\ ipcState[Server] = {}
    /\ sendTo[Server] = ProcOf[c]

\* Where a client is in ipc_sendrec, and what the server is doing for it.
Idle(c) ==
    pc[c] = "send" /\ state[c] = "READY" /\ ~ Attends(c) /\ ~ Handed(c)

Asking(c) ==
    /\ pc[c] = "receive" /\ ipcState[c] = {"SENDING"} /\ sendTo[c] = ProcOf[Server]
    /\ src[c] = ProcOf[c] /\ msg[c] = buf[c].data
    /\ ~ Attends(c) /\ ~ Handed(c)

Heard(c) ==
    /\ pc[c] = "receive" /\ state[c] = "BLOCKED" /\ ipcState[c] = {}
    /\ sendTo[c] = ProcOf[Server]
    /\ pc[Server] = "notify" /\ Attends(c) /\ Holds(buf[c].data)

Resumed(c) ==
    pc[c] = "receive" /\ state[c] = "READY" /\ Attends(c) /\ Holds(buf[c].data)

Awaiting(c) ==
    /\ pc[c] = "notify" /\ ipcState[c] = {"RECEIVING"} /\ recvFrom[c] = ProcOf[Server]
    /\ pc[Server] # "receive" /\ Attends(c) /\ Holds(buf[c].data)

Answered(c) ==
    /\ pc[c] = "notify" /\ state[c] = "READY" /\ ~ Attends(c)
    /\ src[c] = ProcOf[Server] /\ msg[c] = buf[c].data

ClientPhase(c) ==
    Idle(c) \/ Asking(c) \/ Heard(c) \/ Resumed(c) \/ Awaiting(c) \/ Answered(c)

\* Where the server is: it attends to a client whenever it is past its
\* receive, and never waits for a message with an answer to give.
ServerPhase ==
    \/ pc[Server] = "receive" /\ state[Server] = "READY"
    \/ /\ pc[Server] = "receive" /\ state[Server] = "BLOCKED"
       /\ ipcState[Server] \in {{}, {"SENDING"}}
       /\ \E c \in Client : sendTo[Server] = ProcOf[c]
    \/ pc[Server] = "notify" /\ ipcState[Server] = {"RECEIVING"} /\ recvFrom[Server] = None
    \/ /\ pc[Server] \in {"notify", "reply"} /\ state[Server] = "READY"
       /\ \E c \in Client : Attends(c)

ProgramsTyped ==
    /\ pc \in [Thread -> {"send", "receive", "notify", "reply"}]
    /\ buf \in [Thread -> Buffer]

SInv == ProgramsTyped /\ NeverRefused /\ ServerPhase /\ \A c \in Client : ClientPhase(c)

-----------------------------------------------------------------------------
(* Service: one thread in each process                                     *)

LEMMA OnlyThread ==
    ASSUME NEW t \in Thread
    PROVE  /\ ProcOf[t] \in Proc /\ ProcOf[t] # None
           /\ Range(ThreadList[ProcOf[t]]) = {t}
BY ThreadsAssumption, ListsAssumption, ServiceAssumption

LEMMA ProcOfInjective ==
    \A t, u \in Thread : t # u => ProcOf[t] # ProcOf[u]
BY ServiceAssumption

\* The server attends to one client at a time, and to none it has answered.
LEMMA OneClient ==
    ASSUME NEW c \in Client, NEW d \in Client, Attends(c) \/ Handed(c),
           Attends(d) \/ Handed(d), IInv
    PROVE  c = d /\ ~ (Attends(c) /\ Handed(c))
<1>1. {} # {"SENDING"}
  OBVIOUS
<1> QED  BY <1>1, ProcOfInjective DEF Attends, Handed, Client

-----------------------------------------------------------------------------
(* Service: what the calls do, thread by thread                            *)

\* A step leaves thread t alone.
Same(t) ==
    /\ state'[t] = state[t] /\ ipcState'[t] = ipcState[t]
    /\ sendTo'[t] = sendTo[t] /\ recvFrom'[t] = recvFrom[t]
    /\ src'[t] = src[t] /\ msg'[t] = msg[t]

LEMMA ReturnsSuccess == NeverRefused /\ IInv /\ Return("SUCCESS") => NeverRefused'
BY DEF NeverRefused, Return, IInv, TypeOK

\* A send to the only thread r of a process that waits for nobody.
LEMMA SendEffect ==
    ASSUME IInv, NEW c \in Thread, c = cur, NEW r \in Thread \ {c}, NEW m \in Msg,
           PassesDeadlock(ProcOf[r]), Send(ProcOf[r], m), NeverRefused
    PROVE  /\ NeverRefused'
           /\ state'[c] = "BLOCKED" /\ sendTo'[c] = ProcOf[r]
           /\ src'[c] = ProcOf[c] /\ msg'[c] = m
           /\ \A t \in Thread \ {c, r} : Same(t)
           /\ \/ /\ ipcState[r] = {"RECEIVING"} /\ recvFrom[r] \in {None, ProcOf[c]}
                 /\ ipcState'[c] = {} /\ ipcState'[r] = {} /\ state'[r] = "READY"
                 /\ src'[r] = ProcOf[c] /\ msg'[r] = m
              \/ /\ ~ (ipcState[r] = {"RECEIVING"} /\ recvFrom[r] \in {None, ProcOf[c]})
                 /\ ipcState'[c] = {"SENDING"} /\ Same(r)
<1> DEFINE p == ProcOf[r]
<1>1. /\ ProcOf[c] \in Proc /\ Range(ThreadList[p]) = {r} /\ p \in Proc
      /\ r # c /\ r \in Thread
  BY OnlyThread
<1>2. CASE SendDeliver(p, m)
  <2>0. Calling
    BY <1>2 DEF SendDeliver
  <2>1. ipcState[c] = {} /\ state[c] = "READY"
    BY <2>0, CallerFacts
  <2>2. PICK x \in Thread :
          /\ x \in Receivers(p, ProcOf[c])
          /\ src' = [src EXCEPT ![c] = ProcOf[c], ![x] = ProcOf[c]]
          /\ msg' = [msg EXCEPT ![c] = m, ![x] = m]
          /\ ipcState' = [ipcState EXCEPT ![x] = @ \ {"RECEIVING"},
                                          ![c] = @ \ {"SENDING"}]
          /\ sendTo' = [sendTo EXCEPT ![c] = p]
          /\ state' = [state EXCEPT ![x] = "READY", ![c] = "BLOCKED"]
          /\ recvFrom' = recvFrom
    BY <1>2 DEF SendDeliver, IsFirst
  <2>3. x = r /\ ipcState[r] = {"RECEIVING"} /\ recvFrom[r] \in {None, ProcOf[c]}
    BY <1>1, <2>2 DEF Receivers
  <2>4. NeverRefused'
    BY <1>2, ReturnsSuccess DEF SendDeliver
  <2>5. /\ ipcState'[c] = {} /\ ipcState'[r] = {} /\ state'[r] = "READY"
        /\ src'[r] = ProcOf[c] /\ msg'[r] = m
        /\ state'[c] = "BLOCKED" /\ sendTo'[c] = p /\ src'[c] = ProcOf[c] /\ msg'[c] = m
    BY <1>1, <2>1, <2>2, <2>3 DEF IInv, TypeOK, AnyThread
  <2>6. \A t \in Thread \ {c, r} : Same(t)
    BY <2>2, <2>3 DEF IInv, TypeOK, AnyThread, Same
  <2> QED  BY <2>3, <2>4, <2>5, <2>6
<1>3. CASE SendQueue(p, m)
  <2>0. Calling
    BY <1>3 DEF SendQueue
  <2>1. ipcState[c] = {} /\ state[c] = "READY"
    BY <2>0, CallerFacts
  <2>2. /\ src' = [src EXCEPT ![c] = ProcOf[c]]
        /\ msg' = [msg EXCEPT ![c] = m]
        /\ ipcState' = [ipcState EXCEPT ![c] = {"SENDING"}]
        /\ sendTo' = [sendTo EXCEPT ![c] = p]
        /\ state' = [state EXCEPT ![c] = "BLOCKED"]
        /\ recvFrom' = recvFrom
        /\ Receivers(p, ProcOf[c]) = {}
    BY <1>3, <2>1 DEF SendQueue, Enter
  <2>3. ~ (ipcState[r] = {"RECEIVING"} /\ recvFrom[r] \in {None, ProcOf[c]})
    BY <1>1, <2>2 DEF Receivers
  <2>4. NeverRefused'
    BY <1>3, ReturnsSuccess DEF SendQueue
  <2>5. /\ ipcState'[c] = {"SENDING"}
        /\ state'[c] = "BLOCKED" /\ sendTo'[c] = p /\ src'[c] = ProcOf[c] /\ msg'[c] = m
    BY <2>2 DEF IInv, TypeOK, AnyThread
  <2>6. \A t \in Thread \ {c} : Same(t)
    BY <2>2 DEF IInv, TypeOK, AnyThread, Same
  <2> QED  BY <1>1, <2>3, <2>4, <2>5, <2>6
<1> QED  BY <1>2, <1>3 DEF Send, SendOverflow, SendDeadlock, PassesDeadlock

\* A receive from p, which may be anyone.
LEMMA ReceiveEffect ==
    ASSUME IInv, NEW c \in Thread, c = cur, NEW p \in Proc \cup {None}, NEW m \in Msg,
           Receive(p, m), NeverRefused
    PROVE  /\ NeverRefused'
           /\ \/ \E s \in Thread \ {c} :
                    /\ ipcState[s] = {"SENDING"} /\ sendTo[s] = ProcOf[c]
                    /\ p \in {None, ProcOf[s]}
                    /\ state'[s] = "READY" /\ ipcState'[s] = {}
                    /\ src'[s] = src[s] /\ msg'[s] = msg[s]
                    /\ sendTo'[s] = sendTo[s] /\ recvFrom'[s] = recvFrom[s]
                    /\ state'[c] = "READY" /\ ipcState'[c] = {}
                    /\ src'[c] = src[s] /\ msg'[c] = msg[s]
                    /\ sendTo'[c] = sendTo[c]
                    /\ \A t \in Thread \ {c, s} : Same(t)
              \/ /\ \A s \in Thread : ipcState[s] = {"SENDING"} /\ sendTo[s] = ProcOf[c]
                                           => p \notin {None, ProcOf[s]}
                 /\ state'[c] = "BLOCKED" /\ ipcState'[c] = {"RECEIVING"}
                 /\ recvFrom'[c] = p /\ sendTo'[c] = sendTo[c]
                 /\ \A t \in Thread \ {c} : Same(t)
<1>1. CASE ReceiveTake(p)
  <2>1. Calling
    BY <1>1 DEF ReceiveTake
  <2>2. ipcState[c] = {} /\ state[c] = "READY" /\ ProcOf[c] \in Proc
    BY <2>1, CallerFacts
  <2>3. PICK s \in Thread :
          /\ s \in WaitingSenders(ProcOf[c], p)
          /\ src' = [src EXCEPT ![c] = src[s]]
          /\ msg' = [msg EXCEPT ![c] = msg[s]]
          /\ ipcState' = [ipcState EXCEPT ![s] = @ \ {"SENDING"},
                                          ![c] = @ \ {"RECEIVING"}]
          /\ recvFrom' = [recvFrom EXCEPT ![c] = p]
          /\ state' = [state EXCEPT ![s] = "READY"]
          /\ sendTo' = sendTo
    BY <1>1 DEF ReceiveTake, IsFirst
  <2>4. /\ ipcState[s] = {"SENDING"} /\ sendTo[s] = ProcOf[c]
        /\ p \in {None, ProcOf[s]} /\ s # c
    BY <2>2, <2>3 DEF WaitingSenders, IInv, QueuesMatchStates, SendersQueued
  <2>5. NeverRefused'
    BY <1>1, ReturnsSuccess DEF ReceiveTake
  <2>6. /\ state'[s] = "READY" /\ ipcState'[s] = {}
        /\ src'[s] = src[s] /\ msg'[s] = msg[s]
        /\ sendTo'[s] = sendTo[s] /\ recvFrom'[s] = recvFrom[s]
        /\ state'[c] = "READY" /\ ipcState'[c] = {}
        /\ src'[c] = src[s] /\ msg'[c] = msg[s]
        /\ sendTo'[c] = sendTo[c]
    BY <2>2, <2>3, <2>4 DEF IInv, TypeOK, AnyThread
  <2>7. \A t \in Thread \ {c, s} : Same(t)
    BY <2>3 DEF IInv, TypeOK, AnyThread, Same
  <2> QED  BY <2>4, <2>5, <2>6, <2>7
<1>2. CASE ReceiveBlock(p, m)
  <2>1. Calling
    BY <1>2 DEF ReceiveBlock
  <2>2. ipcState[c] = {} /\ state[c] = "READY" /\ ProcOf[c] \in Proc
    BY <2>1, CallerFacts
  <2>3. \A s \in Thread : ipcState[s] = {"SENDING"} /\ sendTo[s] = ProcOf[c]
                              => p \notin {None, ProcOf[s]}
    <3> SUFFICES ASSUME NEW s \in Thread, ipcState[s] = {"SENDING"},
                        sendTo[s] = ProcOf[c], p \in {None, ProcOf[s]}
                 PROVE  FALSE
      OBVIOUS
    <3>1. state[s] = "BLOCKED"
      BY DEF IInv, TypeOK, AnyThread, QueuesMatchStates, OneThingAtATime
    <3>2. s \in Range(waitList[ProcOf[c]])
      BY <2>2, <3>1 DEF IInv, QueuesMatchStates, SendersQueued
    <3> QED  BY <1>2, <3>2 DEF ReceiveBlock, WaitingSenders
  <2>4. NeverRefused'
    BY <1>2, ReturnsSuccess DEF ReceiveBlock
  <2>5. /\ state'[c] = "BLOCKED" /\ ipcState'[c] = {"RECEIVING"}
        /\ recvFrom'[c] = p /\ sendTo'[c] = sendTo[c]
        /\ \A t \in Thread \ {c} : Same(t)
    BY <1>2, <2>2 DEF ReceiveBlock, Enter, IInv, TypeOK, AnyThread, Same
  <2> QED  BY <2>3, <2>4, <2>5
<1> QED  BY <1>1, <1>2 DEF Receive

\* A notify of the only thread r of a process, which is not in a wait list
\* of the caller.
LEMMA NotifyEffect ==
    ASSUME IInv, NEW c \in Thread, c = cur, NEW r \in Thread \ {c}, NEW m \in Msg,
           ~ (ipcState[r] = {"SENDING"} /\ sendTo[r] = ProcOf[c]),
           Notify(ProcOf[r], m), NeverRefused
    PROVE  /\ NeverRefused'
           /\ sendTo'[c] = sendTo[c] /\ recvFrom'[c] = recvFrom[c]
           /\ state'[c] = state[c] /\ ipcState'[c] = ipcState[c]
           /\ \A t \in Thread \ {c, r} : Same(t)
           /\ sendTo'[r] = sendTo[r] /\ recvFrom'[r] = recvFrom[r]
           /\ src'[r] = src[r] /\ msg'[r] = msg[r] /\ ipcState'[r] = ipcState[r]
           /\ IF state[r] = "BLOCKED" /\ sendTo[r] = ProcOf[c] /\ ipcState[r] = {}
              THEN state'[r] = "READY"
              ELSE state'[r] = state[r]
<1> DEFINE p == ProcOf[r]
<1>1. /\ ProcOf[c] \in Proc /\ Range(ThreadList[p]) = {r} /\ p \in Proc
      /\ r # c /\ r \in Thread
  BY OnlyThread
<1>2. BlockedSenders(ProcOf[c], p) =
        IF state[r] = "BLOCKED" /\ sendTo[r] = ProcOf[c] /\ ipcState[r] = {}
        THEN {r} ELSE {}
  BY <1>1 DEF BlockedSenders, IInv, QueuesMatchStates, OneThingAtATime
<1>3. ~ NotifyQueued(p)
  <2> SUFFICES ASSUME NotifyQueued(p) PROVE FALSE
    OBVIOUS
  <2>1. PICK t \in Thread : /\ t \in BlockedSenders(ProcOf[c], p)
                            /\ t \in Range(waitList[ProcOf[c]])
    BY DEF NotifyQueued, IsFirst
  <2>2. t = r /\ ipcState[t] = {"SENDING"}
    BY <1>1, <1>2, <2>1 DEF IInv, QueuesMatchStates, SendersQueued
  <2> QED  BY <1>2, <2>1, <2>2
<1>4. CASE NotifyNobody(p, m)
  <2>1. NeverRefused'
    BY <1>4, ReturnsSuccess DEF NotifyNobody
  <2>2. /\ UNCHANGED <<state, ipcState, sendTo, recvFrom>>
        /\ \A t \in Thread \ {c} : src'[t] = src[t] /\ msg'[t] = msg[t]
    BY <1>4 DEF NotifyNobody, Enter, links, IInv, TypeOK
  <2>3. ~ (state[r] = "BLOCKED" /\ sendTo[r] = ProcOf[c] /\ ipcState[r] = {})
    BY <1>2, <1>4 DEF NotifyNobody
  <2> QED  BY <1>1, <2>1, <2>2, <2>3 DEF Same
<1>5. CASE NotifyWake(p, m)
  <2>1. PICK t \in Thread :
          /\ t \in BlockedSenders(ProcOf[c], p)
          /\ Enter(m)
          /\ ipcState' = [ipcState EXCEPT ![t] = @ \ {"SENDING"}]
          /\ state' = [state EXCEPT ![t] = "READY"]
          /\ UNCHANGED links
    BY <1>5 DEF NotifyWake, IsFirst
  <2>2. t = r /\ state[r] = "BLOCKED" /\ sendTo[r] = ProcOf[c] /\ ipcState[r] = {}
    BY <1>2, <2>1
  <2>3. NeverRefused'
    BY <1>5, ReturnsSuccess DEF NotifyWake
  <2>4. /\ state'[r] = "READY" /\ ipcState' = ipcState
        /\ \A u \in Thread \ {r} : state'[u] = state[u]
    BY <2>1, <2>2 DEF IInv, TypeOK, AnyThread
  <2>5. \A u \in Thread \ {c} : src'[u] = src[u] /\ msg'[u] = msg[u]
    BY <2>1 DEF Enter, IInv, TypeOK
  <2> QED  BY <1>1, <2>1, <2>2, <2>3, <2>4, <2>5 DEF Same, links
<1> QED  BY <1>3, <1>4, <1>5 DEF Notify

-----------------------------------------------------------------------------
(* Service: what the invariant says                                        *)

ServiceInv == IInv /\ CInv /\ SInv

\* The three sets that an IPC state can be are different.
LEMMA Bits == {"SENDING"} # {"RECEIVING"} /\ {"SENDING"} # {} /\ {"RECEIVING"} # {}
OBVIOUS

LEMMA StateFacts ==
    ASSUME IInv, NEW t \in Thread
    PROVE  /\ state[t] \in {"READY", "BLOCKED"}
           /\ ipcState[t] \in {{}, {"SENDING"}, {"RECEIVING"}}
           /\ state[t] = "READY" => ipcState[t] = {}
BY DEF IInv, TypeOK, QueuesMatchStates, OneThingAtATime, AnyThread

\* The thread that runs is ready.
LEMMA RunningFacts ==
    ASSUME IInv, NEW t \in Thread, cur = t
    PROVE  state[t] = "READY" /\ ipcState[t] = {}
BY DEF IInv, RunningIsReady, QueuesMatchStates, OneThingAtATime

LEMMA ServerIsThread == Server \in Thread /\ Client = Thread \ {Server}
BY ServiceAssumption DEF Client

\* A client with a message pending is asking the server.
LEMMA SendingClient ==
    ASSUME ServiceInv, NEW c \in Client, ipcState[c] = {"SENDING"}
    PROVE  Asking(c)
<1>1. ClientPhase(c) /\ c \in Thread
  BY ServerIsThread DEF ServiceInv, SInv
<1>2. state[c] # "READY"
  BY <1>1, StateFacts, Bits DEF ServiceInv
<1> QED  BY <1>1, <1>2, Bits
         DEF ClientPhase, Idle, Heard, Resumed, Awaiting, Answered

\* A server with a message pending is answering a client.
LEMMA SendingServer ==
    ASSUME ServiceInv, ipcState[Server] = {"SENDING"}
    PROVE  /\ pc[Server] = "receive" /\ state[Server] = "BLOCKED"
           /\ \A c \in Client : sendTo[Server] = ProcOf[c] => Attends(c)
           /\ sendTo[Server] # ProcOf[Server]
<1>1. state[Server] # "READY"
  BY ServerIsThread, StateFacts, Bits DEF ServiceInv
<1>2. /\ pc[Server] = "receive" /\ state[Server] = "BLOCKED"
      /\ \E c \in Client : sendTo[Server] = ProcOf[c]
  BY <1>1, Bits DEF ServiceInv, SInv, ServerPhase
<1>3. sendTo[Server] # ProcOf[Server]
  BY <1>2, ServerIsThread, ProcOfInjective
<1> QED  BY <1>2, <1>3 DEF Attends

\* The check at a send lets a request of an idle client pass: nobody is
\* sending to it.
LEMMA RequestPasses ==
    ASSUME ServiceInv, NEW c \in Client, cur = c, Idle(c)
    PROVE  PassesDeadlock(ProcOf[Server])
<1>1. c \in Thread /\ Server \in Thread /\ c # Server
  BY ServerIsThread
<1>2. ~ ChainClosed(ProcOf[c], ProcOf[Server])
  <2> SUFFICES ASSUME NEW p \in Proc, ProcOf[c] \in SendsTo(p) PROVE FALSE
    BY DEF ChainClosed
  <2>1. PICK t \in Thread : ipcState[t] = {"SENDING"} /\ sendTo[t] = ProcOf[c]
    BY ListsAssumption DEF SendsTo
  <2>2. CASE t = Server
    BY <2>1, <2>2, SendingServer DEF Idle
  <2>3. CASE t \in Client
    <3>1. sendTo[t] = ProcOf[Server]
      BY <2>1, <2>3, SendingClient DEF Asking
    <3> QED  BY <1>1, <2>1, <3>1, ProcOfInjective
  <2> QED  BY <2>2, <2>3, ServerIsThread
<1>3. ~ ChainLoops(ProcOf[c], ProcOf[Server])
  BY <1>1, OnlyThread, NoLoops DEF ServiceInv, CInv
<1> QED  BY <1>2, <1>3 DEF PassesDeadlock

\* ... and an answer to a client that has no message pending.
LEMMA AnswerPasses ==
    ASSUME ServiceInv, NEW c \in Client, cur = Server, ipcState[c] # {"SENDING"}
    PROVE  PassesDeadlock(ProcOf[c])
<1>1. /\ c \in Thread /\ Server \in Thread /\ ProcOf[c] \in Proc /\ ProcOf[Server] \in Proc
      /\ Range(ThreadList[ProcOf[c]]) = {c}
  BY ServerIsThread, OnlyThread
<1>2. SendsTo(ProcOf[c]) = {}
  BY <1>1 DEF SendsTo
<1>3. Visited(ProcOf[Server], ProcOf[c]) \subseteq {ProcOf[c]}
  <2>1. Closed({ProcOf[c]}, ProcOf[Server])
    BY <1>2 DEF Closed
  <2> QED  BY <1>1, <2>1, VisitedIsLeast
<1>4. ~ ChainClosed(ProcOf[Server], ProcOf[c])
  BY <1>2, <1>3 DEF ChainClosed
<1>5. ~ ChainLoops(ProcOf[Server], ProcOf[c])
  BY <1>1, NoLoops DEF ServiceInv, CInv
<1> QED  BY <1>4, <1>5 DEF PassesDeadlock

-----------------------------------------------------------------------------
(* Service: the threads that a step is not about                           *)

\* Thread t, its program and its buffer are left alone.
Kept(t) == Same(t) /\ pc'[t] = pc[t] /\ buf'[t] = buf[t]

\* A client that the server attends to neither before nor after a step.
LEMMA Bystander ==
    ASSUME NEW c \in Client, ClientPhase(c), Kept(c), ~ Attends(c), ~ Attends(c)',
           Handed(c)' => Handed(c)
    PROVE  ClientPhase(c)'
BY DEF ClientPhase, Kept, Same, Idle, Asking, Heard, Resumed, Awaiting, Answered

\* A step that leaves the server alone leaves alone what it does.
LEMMA ServerKept ==
    ASSUME Kept(Server)
    PROVE  /\ \A c \in Client : Attends(c)' = Attends(c) /\ Handed(c)' = Handed(c)
           /\ ServerPhase' = ServerPhase
<1>1. \A c \in Client : Attends(c)' = Attends(c) /\ Handed(c)' = Handed(c)
  BY DEF Kept, Same, Attends, Handed
<1>2. ServerPhase' = ServerPhase
  BY <1>1 DEF Kept, Same, ServerPhase
<1> QED  BY <1>1, <1>2

LEMMA ClientKept ==
    ASSUME NEW c \in Client, ClientPhase(c), Kept(c), Kept(Server)
    PROVE  ClientPhase(c)'
<1>1. Attends(c)' = Attends(c) /\ Handed(c)' = Handed(c)
  BY ServerKept
<1>2. Holds(buf[c].data)' = Holds(buf[c].data)
  BY DEF Kept, Same, Holds
<1> QED  BY <1>1, <1>2 DEF ClientPhase, Kept, Same, Idle, Asking, Heard, Resumed,
             Awaiting, Answered

-----------------------------------------------------------------------------
(* Service: the steps of the programs                                      *)

\* A step of program t to its call l moves no other program.
LEMMA Moved ==
    ASSUME ProgramsTyped, NEW t \in Thread, NEW l, Goto(t, l)
    PROVE  pc'[t] = l /\ \A u \in Thread \ {t} : pc'[u] = pc[u]
BY DEF ProgramsTyped, Goto

LEMMA ServerReceiveStep ==
    ASSUME ServiceInv, ServerReceive(Server)
    PROVE  SInv' /\ CourteousNext
<1> DEFINE S == Server
<1>1. /\ S \in Thread /\ Client = Thread \ {S} /\ S = cur
      /\ pc[S] = "receive" /\ state[S] = "READY" /\ ipcState[S] = {}
  BY ServerIsThread, RunningFacts DEF ServiceInv, ServerReceive, Runs
<1>2. PICK m \in Msg : Receive(None, m)
  BY DEF ServerReceive
<1>3. \A c \in Client : ~ Attends(c)
  BY <1>1, Bits DEF Attends
<1>4. /\ pc'[S] = "notify" /\ \A u \in Client : pc'[u] = pc[u]
      /\ buf' = buf /\ ProgramsTyped'
  BY <1>1, Moved DEF ServerReceive, ServiceInv, SInv, ProgramsTyped, Goto
<1>5. NeverRefused'
  BY <1>1, <1>2, ReceiveEffect DEF ServiceInv, SInv
<1>6. CASE \E s \in Client : /\ ipcState[s] = {"SENDING"} /\ state'[s] = "READY"
                             /\ src'[s] = src[s] /\ msg'[s] = msg[s]
                             /\ state'[S] = "READY" /\ ipcState'[S] = {}
                             /\ src'[S] = src[s] /\ msg'[S] = msg[s]
                             /\ \A t \in Thread \ {S, s} : Same(t)
  <2>1. PICK s \in Client : /\ ipcState[s] = {"SENDING"} /\ state'[s] = "READY"
                            /\ src'[s] = src[s] /\ msg'[s] = msg[s]
                            /\ state'[S] = "READY" /\ ipcState'[S] = {}
                            /\ src'[S] = src[s] /\ msg'[S] = msg[s]
                            /\ \A t \in Thread \ {S, s} : Same(t)
    BY <1>6
  <2>2. Asking(s)
    BY <2>1, SendingClient
  <2>3. Attends(s)' /\ Resumed(s)'
    BY <1>4, <2>1, <2>2 DEF Asking, Attends, Resumed, Holds
  <2>4. ServerPhase'
    BY <1>4, <2>1, <2>3 DEF ServerPhase
  <2>5. ASSUME NEW c \in Client, c # s PROVE ClientPhase(c)'
    <3>1. ClientPhase(c) /\ Kept(c)
      BY <1>1, <1>4, <2>1, <2>5 DEF ServiceInv, SInv, Kept
    <3>2. ~ Attends(c)' /\ ~ Handed(c)'
      BY <1>1, <1>4, <2>1, <2>2, <2>5, ProcOfInjective DEF Attends, Handed, Asking
    <3> QED  BY <1>3, <3>1, <3>2, Bystander
  <2> QED  BY <1>2, <1>4, <1>5, <2>3, <2>4, <2>5 DEF SInv, ClientPhase, CourteousNext
<1>7. CASE /\ state'[S] = "BLOCKED" /\ ipcState'[S] = {"RECEIVING"} /\ recvFrom'[S] = None
           /\ \A t \in Thread \ {S} : Same(t)
  <2>1. ServerPhase'
    BY <1>4, <1>7 DEF ServerPhase
  <2>2. ASSUME NEW c \in Client PROVE ClientPhase(c)'
    <3>1. ClientPhase(c) /\ Kept(c)
      BY <1>1, <1>4, <1>7 DEF ServiceInv, SInv, Kept
    <3>2. ~ Attends(c)' /\ ~ Handed(c)'
      BY <1>4, <1>7, Bits DEF Attends, Handed
    <3> QED  BY <1>3, <3>1, <3>2, Bystander
  <2> QED  BY <1>2, <1>4, <1>5, <2>1, <2>2 DEF SInv, CourteousNext
<1> QED  BY <1>1, <1>2, <1>6, <1>7, ReceiveEffect DEF ServiceInv, SInv

LEMMA ServerNotifyStep ==
    ASSUME ServiceInv, ServerNotify(Server)
    PROVE  SInv' /\ CourteousNext
<1> DEFINE S == Server
<1>1. /\ S \in Thread /\ Client = Thread \ {S} /\ S = cur
      /\ pc[S] = "notify" /\ state[S] = "READY" /\ ipcState[S] = {}
  BY ServerIsThread, RunningFacts DEF ServiceInv, ServerNotify, Runs
<1>2. PICK c \in Client : Attends(c)
  BY <1>1, Bits DEF ServiceInv, SInv, ServerPhase
<1>3. /\ c \in Thread \ {S} /\ src[S] = ProcOf[c] /\ ProcOf[c] \in Proc
      /\ ClientPhase(c)
  BY <1>1, <1>2, ThreadsAssumption DEF Attends, ServiceInv, SInv
<1>4. PICK m \in Msg : Notify(ProcOf[c], m)
  BY <1>3 DEF ServerNotify
<1>5. /\ Heard(c) \/ Resumed(c) \/ Awaiting(c)
      /\ ipcState[c] # {"SENDING"}
  BY <1>2, <1>3, StateFacts, Bits
     DEF ServiceInv, ClientPhase, Idle, Asking, Heard, Resumed, Awaiting, Answered
<1>6. /\ NeverRefused'
      /\ state'[S] = "READY" /\ ipcState'[S] = {}
      /\ \A t \in Thread \ {S, c} : Same(t)
      /\ recvFrom'[c] = recvFrom[c] /\ src'[c] = src[c] /\ msg'[c] = msg[c]
      /\ ipcState'[c] = ipcState[c]
      /\ IF state[c] = "BLOCKED" /\ sendTo[c] = ProcOf[S] /\ ipcState[c] = {}
         THEN state'[c] = "READY"
         ELSE state'[c] = state[c]
  BY <1>1, <1>3, <1>4, <1>5, NotifyEffect DEF ServiceInv, SInv
<1>7. /\ pc'[S] = "reply" /\ \A u \in Client : pc'[u] = pc[u] /\ buf'[u] = buf[u]
      /\ buf'[S] = [from |-> ProcOf[c], data |-> msg[S]]
      /\ ProgramsTyped'
  BY <1>1, <1>3 DEF ServerNotify, ServiceInv, SInv, ProgramsTyped, Goto, Stored, Buffer,
                    IInv, TypeOK
<1>8. Attends(c)' /\ Holds(buf[c].data)' /\ msg[S] = buf[c].data
  BY <1>1, <1>5, <1>7 DEF Heard, Resumed, Awaiting, Attends, Holds
<1>9. ClientPhase(c)'
  <2>1. CASE Heard(c)
    BY <1>6, <1>7, <1>8, <2>1 DEF Heard, ClientPhase, Resumed
  <2>2. CASE Resumed(c)
    BY <1>6, <1>7, <1>8, <2>2 DEF ClientPhase, Resumed
  <2>3. CASE Awaiting(c)
    BY <1>6, <1>7, <1>8, <2>3 DEF ClientPhase, Awaiting
  <2> QED  BY <1>5, <2>1, <2>2, <2>3
<1>10. ASSUME NEW d \in Client, d # c PROVE ClientPhase(d)'
  <2>1. ClientPhase(d) /\ Kept(d)
    BY <1>1, <1>6, <1>7, <1>10 DEF ServiceInv, SInv, Kept
  <2>2. ~ Attends(d) /\ ~ Attends(d)' /\ ~ Handed(d)'
    BY <1>1, <1>3, <1>7, <1>10, ProcOfInjective DEF Attends, Handed
  <2> QED  BY <2>1, <2>2, Bystander
<1>11. ServerPhase'
  BY <1>6, <1>7, <1>8 DEF ServerPhase
<1>12. MayNotify(ProcOf[c])
  <2>1. Calling
    BY <1>4 DEF Notify, NotifyQueued, NotifyWake, NotifyNobody
  <2>2. c \notin Range(waitList[ProcOf[cur]])
    BY <1>1, <1>5, ThreadsAssumption
       DEF ServiceInv, IInv, QueuesMatchStates, SendersQueued
  <2>3. \A t \in Range(waitList[ProcOf[cur]]) : t \in Thread
    BY <1>1, ThreadsAssumption DEF ServiceInv, IInv, QueuesMatchStates, SendersQueued
  <2> QED  BY <1>3, <2>1, <2>2, <2>3, ProcOfInjective DEF MayNotify
<1> QED  BY <1>3, <1>4, <1>6, <1>7, <1>9, <1>10, <1>11, <1>12 DEF SInv, CourteousNext

LEMMA ServerReplyStep ==
    ASSUME ServiceInv, ServerReply(Server)
    PROVE  SInv' /\ CourteousNext
<1> DEFINE S == Server
<1>1. /\ S \in Thread /\ Client = Thread \ {S} /\ S = cur
      /\ pc[S] = "reply" /\ state[S] = "READY" /\ ipcState[S] = {}
  BY ServerIsThread, RunningFacts DEF ServiceInv, ServerReply, Runs
<1>2. PICK c \in Client : Attends(c)
  BY <1>1 DEF ServiceInv, SInv, ServerPhase
<1>3. /\ c \in Thread \ {S} /\ buf[S].from = ProcOf[c] /\ ProcOf[c] \in Proc
      /\ ClientPhase(c) /\ buf[S].data \in Msg /\ S \in Thread \ {c}
  BY <1>1, <1>2, ThreadsAssumption DEF Attends, ServiceInv, SInv, ProgramsTyped, Buffer
<1>4. /\ Resumed(c) \/ Awaiting(c)
      /\ ipcState[c] # {"SENDING"} /\ buf[S].data = buf[c].data
  BY <1>1, <1>2, <1>3, StateFacts, Bits
     DEF ServiceInv, ClientPhase, Idle, Asking, Heard, Resumed, Awaiting, Answered, Holds
<1>5. Send(ProcOf[c], buf[S].data) /\ PassesDeadlock(ProcOf[c])
  BY <1>1, <1>3, <1>4, AnswerPasses DEF ServerReply
<1>6. /\ NeverRefused'
      /\ state'[S] = "BLOCKED" /\ sendTo'[S] = ProcOf[c]
      /\ src'[S] = ProcOf[S] /\ msg'[S] = buf[c].data
      /\ \A t \in Thread \ {S, c} : Same(t)
      /\ \/ /\ ipcState[c] = {"RECEIVING"} /\ recvFrom[c] \in {None, ProcOf[S]}
            /\ ipcState'[S] = {} /\ ipcState'[c] = {} /\ state'[c] = "READY"
            /\ src'[c] = ProcOf[S] /\ msg'[c] = buf[c].data
         \/ /\ ~ (ipcState[c] = {"RECEIVING"} /\ recvFrom[c] \in {None, ProcOf[S]})
            /\ ipcState'[S] = {"SENDING"} /\ Same(c)
  BY <1>1, <1>3, <1>4, <1>5, SendEffect DEF ServiceInv, SInv
<1>7. /\ pc'[S] = "receive" /\ \A u \in Client : pc'[u] = pc[u]
      /\ buf' = buf /\ ProgramsTyped'
  BY <1>1, Moved DEF ServerReply, ServiceInv, SInv, ProgramsTyped, Goto
<1>8. ServerPhase'
  BY <1>6, <1>7 DEF ServerPhase
<1>9. ClientPhase(c)'
  <2>1. CASE Resumed(c)
    <3>1. ipcState'[S] = {"SENDING"} /\ Same(c)
      BY <1>3, <1>6, <2>1, StateFacts, Bits DEF Resumed, ServiceInv
    <3>2. Attends(c)' /\ Holds(buf[c].data)'
      BY <1>6, <1>7, <3>1 DEF Attends, Holds
    <3> QED  BY <1>7, <2>1, <3>1, <3>2 DEF Resumed, ClientPhase, Same
  <2>2. CASE Awaiting(c)
    <3>1. /\ ipcState'[S] = {} /\ state'[c] = "READY"
          /\ src'[c] = ProcOf[S] /\ msg'[c] = buf[c].data
      BY <1>6, <2>2 DEF Awaiting
    <3>2. ~ Attends(c)'
      BY <1>7, <3>1, Bits DEF Attends
    <3> QED  BY <1>7, <2>2, <3>1, <3>2 DEF Awaiting, Answered, ClientPhase
  <2> QED  BY <1>4, <2>1, <2>2
<1>10. ASSUME NEW d \in Client, d # c PROVE ClientPhase(d)'
  <2>1. ClientPhase(d) /\ Kept(d)
    BY <1>1, <1>6, <1>7, <1>10 DEF ServiceInv, SInv, Kept
  <2>2. ~ Attends(d) /\ ~ Attends(d)' /\ ~ Handed(d)'
    BY <1>1, <1>3, <1>6, <1>7, <1>10, ProcOfInjective DEF Attends, Handed
  <2> QED  BY <2>1, <2>2, Bystander
<1>11. MaySend(ProcOf[c])
  <2>1. ProcOf[c] # ProcOf[cur]
    BY <1>1, <1>3, ProcOfInjective
  <2>2. Calling
    BY <1>5 DEF Send, SendOverflow, SendDeadlock, SendDeliver, SendQueue
  <2> QED  BY <2>1, <2>2 DEF MaySend
<1> QED  BY <1>3, <1>5, <1>6, <1>7, <1>8, <1>9, <1>10, <1>11 DEF SInv, CourteousNext

LEMMA ClientSendStep ==
    ASSUME ServiceInv, NEW c \in Client, ClientSend(c)
    PROVE  SInv' /\ CourteousNext
<1> DEFINE S == Server
<1>1. /\ S \in Thread \ {c} /\ c \in Thread \ {S} /\ c \in Thread
      /\ Client = Thread \ {S} /\ c = cur
      /\ pc[c] = "send" /\ state[c] = "READY" /\ ipcState[c] = {}
      /\ buf[c].data \in Msg /\ ProcOf[S] \in Proc
  BY ServerIsThread, RunningFacts, ThreadsAssumption
     DEF ServiceInv, ClientSend, Runs, SInv, ProgramsTyped, Buffer
<1>2. Idle(c)
  BY <1>1 DEF ServiceInv, SInv, ClientPhase, Asking, Heard, Resumed, Awaiting, Answered
<1>3. Send(ProcOf[S], buf[c].data) /\ PassesDeadlock(ProcOf[S])
  BY <1>1, <1>2, RequestPasses DEF ClientSend
<1>4. /\ NeverRefused'
      /\ state'[c] = "BLOCKED" /\ sendTo'[c] = ProcOf[S]
      /\ src'[c] = ProcOf[c] /\ msg'[c] = buf[c].data
      /\ \A t \in Thread \ {c, S} : Same(t)
      /\ \/ /\ ipcState[S] = {"RECEIVING"}
            /\ ipcState'[c] = {} /\ ipcState'[S] = {} /\ state'[S] = "READY"
            /\ src'[S] = ProcOf[c] /\ msg'[S] = buf[c].data
         \/ ipcState'[c] = {"SENDING"} /\ Same(S)
  BY <1>1, <1>3, SendEffect DEF ServiceInv, SInv
<1>5. /\ pc'[c] = "receive" /\ \A u \in Thread \ {c} : pc'[u] = pc[u]
      /\ buf' = buf /\ ProgramsTyped'
  BY <1>1, Moved DEF ClientSend, ServiceInv, SInv, ProgramsTyped, Goto
<1>6. ASSUME /\ ipcState[S] = {"RECEIVING"}
             /\ ipcState'[c] = {} /\ ipcState'[S] = {} /\ state'[S] = "READY"
             /\ src'[S] = ProcOf[c] /\ msg'[S] = buf[c].data
      PROVE  SInv'
  <2>1. state[S] # "READY"
    BY <1>1, <1>6, StateFacts, Bits DEF ServiceInv
  <2>2. pc[S] = "notify"
    BY <1>6, <2>1, Bits DEF ServiceInv, SInv, ServerPhase
  <2>3. Attends(c)' /\ Holds(buf[c].data)' /\ pc'[S] = "notify"
    BY <1>1, <1>5, <1>6, <2>2 DEF Attends, Holds
  <2>4. Heard(c)'
    BY <1>4, <1>5, <1>6, <2>3 DEF Heard
  <2>5. ServerPhase'
    BY <1>6, <2>3 DEF ServerPhase
  <2>6. ASSUME NEW d \in Client, d # c PROVE ClientPhase(d)'
    <3>1. ClientPhase(d) /\ Kept(d)
      BY <1>1, <1>4, <1>5, <2>6 DEF ServiceInv, SInv, Kept
    <3>2. ~ Attends(d) /\ ~ Attends(d)' /\ ~ Handed(d)'
      BY <1>1, <1>6, <2>1, <2>2, <2>3, <2>6, ProcOfInjective DEF Attends, Handed
    <3> QED  BY <3>1, <3>2, Bystander
  <2> QED  BY <1>4, <1>5, <2>4, <2>5, <2>6 DEF SInv, ClientPhase
<1>7. ASSUME ipcState'[c] = {"SENDING"} /\ Same(S)
      PROVE  SInv'
  <2>1. Kept(S)
    BY <1>1, <1>5, <1>7 DEF Kept
  <2>2. Attends(c)' = Attends(c) /\ Handed(c)' = Handed(c) /\ ServerPhase'
    BY <2>1, ServerKept DEF ServiceInv, SInv
  <2>3. Asking(c)'
    BY <1>2, <1>4, <1>5, <1>7, <2>2 DEF Asking, Idle
  <2>4. ASSUME NEW d \in Client, d # c PROVE ClientPhase(d)'
    <3>1. ClientPhase(d) /\ Kept(d)
      BY <1>1, <1>4, <1>5, <2>4 DEF ServiceInv, SInv, Kept
    <3> QED  BY <2>1, <3>1, ClientKept
  <2> QED  BY <1>4, <1>5, <2>2, <2>3, <2>4 DEF SInv, ClientPhase
<1>8. SInv'
  BY <1>4, <1>6, <1>7
<1>9. MaySend(ProcOf[S])
  <2>1. ProcOf[S] # ProcOf[cur]
    BY <1>1, ProcOfInjective
  <2>2. Calling
    BY <1>3 DEF Send, SendOverflow, SendDeadlock, SendDeliver, SendQueue
  <2> QED  BY <2>1, <2>2 DEF MaySend
<1> QED  BY <1>1, <1>3, <1>8, <1>9 DEF CourteousNext

LEMMA ClientReceiveStep ==
    ASSUME ServiceInv, NEW c \in Client, ClientReceive(c)
    PROVE  SInv' /\ CourteousNext
<1> DEFINE S == Server
<1>1. /\ S \in Thread \ {c} /\ c \in Thread \ {S} /\ c \in Thread
      /\ Client = Thread \ {S} /\ c = cur
      /\ pc[c] = "receive" /\ state[c] = "READY" /\ ipcState[c] = {}
      /\ ProcOf[S] \in Proc /\ ProcOf[S] \in Proc \cup {None} /\ ProcOf[S] # None
  BY ServerIsThread, RunningFacts, ThreadsAssumption DEF ServiceInv, ClientReceive, Runs
<1>2. Resumed(c)
  BY <1>1, Bits
     DEF ServiceInv, SInv, ClientPhase, Idle, Asking, Heard, Awaiting, Answered
<1>3. PICK m \in Msg : Receive(ProcOf[S], m)
  BY DEF ClientReceive
<1>4. NeverRefused'
  BY <1>1, <1>3, ReceiveEffect DEF ServiceInv, SInv
<1>5. /\ pc'[c] = "notify" /\ \A u \in Thread \ {c} : pc'[u] = pc[u]
      /\ buf' = buf /\ ProgramsTyped'
  BY <1>1, Moved DEF ClientReceive, ServiceInv, SInv, ProgramsTyped, Goto
<1>6. ASSUME \E s \in Thread \ {c} :
               /\ ipcState[s] = {"SENDING"} /\ ProcOf[S] \in {None, ProcOf[s]}
               /\ state'[s] = "READY" /\ ipcState'[s] = {}
               /\ state'[c] = "READY" /\ src'[c] = src[s] /\ msg'[c] = msg[s]
               /\ \A t \in Thread \ {c, s} : Same(t)
      PROVE  SInv'
  <2>1. PICK s \in Thread \ {c} :
             /\ ipcState[s] = {"SENDING"} /\ ProcOf[S] \in {None, ProcOf[s]}
             /\ state'[s] = "READY" /\ ipcState'[s] = {}
             /\ state'[c] = "READY" /\ src'[c] = src[s] /\ msg'[c] = msg[s]
             /\ \A t \in Thread \ {c, s} : Same(t)
    BY <1>6
  <2>2. s = S
    BY <1>1, <2>1, ProcOfInjective
  <2>3. pc[S] = "receive" /\ pc'[S] = "receive"
    BY <1>1, <1>5, <2>1, <2>2, SendingServer
  <2>4. src'[c] = ProcOf[S] /\ msg'[c] = buf[c].data
    BY <1>2, <2>1, <2>2, <2>3 DEF Resumed, Holds
  <2>5. \A d \in Client : ~ Attends(d)' /\ ~ Handed(d)'
    BY <2>1, <2>2, <2>3, Bits DEF Attends, Handed
  <2>6. Answered(c)'
    BY <1>5, <2>1, <2>4, <2>5 DEF Answered
  <2>7. ServerPhase'
    BY <2>1, <2>2, <2>3 DEF ServerPhase
  <2>8. ASSUME NEW d \in Client, d # c PROVE ClientPhase(d)'
    <3>1. ClientPhase(d) /\ Kept(d)
      BY <1>1, <1>5, <2>1, <2>2, <2>8 DEF ServiceInv, SInv, Kept
    <3>2. ~ Attends(d)
      BY <1>2, <2>8, OneClient DEF Resumed, ServiceInv
    <3> QED  BY <2>5, <3>1, <3>2, Bystander
  <2> QED  BY <1>4, <1>5, <2>6, <2>7, <2>8 DEF SInv, ClientPhase
<1>7. ASSUME /\ \A s \in Thread : ipcState[s] = {"SENDING"} /\ sendTo[s] = ProcOf[c]
                                     => ProcOf[S] \notin {None, ProcOf[s]}
             /\ ipcState'[c] = {"RECEIVING"} /\ recvFrom'[c] = ProcOf[S]
             /\ \A t \in Thread \ {c} : Same(t)
      PROVE  SInv'
  <2>1. Kept(S)
    BY <1>1, <1>5, <1>7 DEF Kept
  <2>2. /\ Attends(c)' = Attends(c) /\ ServerPhase'
        /\ Holds(buf[c].data)' = Holds(buf[c].data)
    BY <1>5, <2>1, ServerKept DEF ServiceInv, SInv, Holds, Kept, Same
  <2>3. pc[S] # "receive"
    BY <1>1, <1>2, <1>7 DEF Resumed, Attends
  <2>4. Awaiting(c)'
    BY <1>1, <1>2, <1>5, <1>7, <2>2, <2>3 DEF Awaiting, Resumed
  <2>5. ASSUME NEW d \in Client, d # c PROVE ClientPhase(d)'
    <3>1. ClientPhase(d) /\ Kept(d)
      BY <1>1, <1>5, <1>7, <2>5 DEF ServiceInv, SInv, Kept
    <3> QED  BY <2>1, <3>1, ClientKept
  <2> QED  BY <1>4, <1>5, <2>2, <2>4, <2>5 DEF SInv, ClientPhase
<1>8. SInv'
  BY <1>1, <1>3, <1>6, <1>7, ReceiveEffect DEF ServiceInv, SInv
<1> QED  BY <1>1, <1>3, <1>8 DEF CourteousNext

LEMMA ClientNotifyStep ==
    ASSUME ServiceInv, NEW c \in Client, ClientNotify(c)
    PROVE  SInv' /\ CourteousNext
<1> DEFINE S == Server
<1>1. /\ S \in Thread \ {c} /\ c \in Thread \ {S} /\ c \in Thread
      /\ Client = Thread \ {S} /\ c = cur
      /\ pc[c] = "notify" /\ state[c] = "READY" /\ ipcState[c] = {}
      /\ ProcOf[S] \in Proc
  BY ServerIsThread, RunningFacts, ThreadsAssumption DEF ServiceInv, ClientNotify, Runs
<1>2. Answered(c)
  BY <1>1, Bits
     DEF ServiceInv, SInv, ClientPhase, Idle, Asking, Heard, Awaiting, Resumed
<1>3. PICK m \in Msg : Notify(ProcOf[S], m)
  BY DEF ClientNotify
<1>4. ~ (ipcState[S] = {"SENDING"} /\ sendTo[S] = ProcOf[c])
  BY <1>2, SendingServer DEF Answered
<1>5. /\ NeverRefused' /\ state'[c] = "READY"
      /\ \A t \in Thread \ {c, S} : Same(t)
      /\ sendTo'[S] = sendTo[S] /\ recvFrom'[S] = recvFrom[S]
      /\ src'[S] = src[S] /\ msg'[S] = msg[S] /\ ipcState'[S] = ipcState[S]
      /\ IF state[S] = "BLOCKED" /\ sendTo[S] = ProcOf[c] /\ ipcState[S] = {}
         THEN state'[S] = "READY"
         ELSE state'[S] = state[S]
  BY <1>1, <1>3, <1>4, NotifyEffect DEF ServiceInv, SInv
<1>6. /\ pc'[c] = "send" /\ \A u \in Thread \ {c} : pc'[u] = pc[u] /\ buf'[u] = buf[u]
      /\ ProgramsTyped'
  BY <1>1 DEF ClientNotify, ServiceInv, SInv, ProgramsTyped, Goto, Stored, Buffer,
              IInv, TypeOK
<1>7. ASSUME state[S] = "BLOCKED" /\ sendTo[S] = ProcOf[c] /\ ipcState[S] = {}
      PROVE  SInv'
  <2>1. pc[S] = "receive" /\ pc'[S] = "receive" /\ state'[S] = "READY" /\ ipcState'[S] = {}
    BY <1>1, <1>5, <1>6, <1>7, Bits DEF ServiceInv, SInv, ServerPhase
  <2>2. \A d \in Client : ~ Attends(d) /\ ~ Attends(d)' /\ ~ Handed(d)'
    BY <1>7, <2>1, Bits DEF Attends, Handed
  <2>3. Idle(c)' /\ ServerPhase'
    BY <1>5, <1>6, <2>1, <2>2 DEF Idle, ServerPhase
  <2>4. ASSUME NEW d \in Client, d # c PROVE ClientPhase(d)'
    <3>1. ClientPhase(d) /\ Kept(d)
      BY <1>1, <1>5, <1>6, <2>4 DEF ServiceInv, SInv, Kept
    <3> QED  BY <2>2, <3>1, Bystander
  <2> QED  BY <1>5, <1>6, <2>3, <2>4 DEF SInv, ClientPhase
<1>8. ASSUME ~ (state[S] = "BLOCKED" /\ sendTo[S] = ProcOf[c] /\ ipcState[S] = {})
      PROVE  SInv'
  <2>1. Kept(S)
    BY <1>1, <1>5, <1>6, <1>8 DEF Kept, Same
  <2>2. Attends(c)' = Attends(c) /\ Handed(c)' = Handed(c) /\ ServerPhase'
    BY <2>1, ServerKept DEF ServiceInv, SInv
  <2>3. Idle(c)'
    BY <1>2, <1>5, <1>6, <1>8, <2>2 DEF Idle, Answered, Handed
  <2>4. ASSUME NEW d \in Client, d # c PROVE ClientPhase(d)'
    <3>1. ClientPhase(d) /\ Kept(d)
      BY <1>1, <1>5, <1>6, <2>4 DEF ServiceInv, SInv, Kept
    <3> QED  BY <2>1, <3>1, ClientKept
  <2> QED  BY <1>5, <1>6, <2>2, <2>3, <2>4 DEF SInv, ClientPhase
<1>9. MayNotify(ProcOf[S])
  <2>1. Calling
    BY <1>3 DEF Notify, NotifyQueued, NotifyWake, NotifyNobody
  <2>2. S \notin Range(waitList[ProcOf[cur]])
    BY <1>1, <1>4, ThreadsAssumption
       DEF ServiceInv, IInv, QueuesMatchStates, SendersQueued
  <2>3. \A t \in Range(waitList[ProcOf[cur]]) : t \in Thread
    BY <1>1, ThreadsAssumption DEF ServiceInv, IInv, QueuesMatchStates, SendersQueued
  <2> QED  BY <1>1, <2>1, <2>2, <2>3, ProcOfInjective DEF MayNotify
<1> QED  BY <1>1, <1>3, <1>7, <1>8, <1>9 DEF CourteousNext

-----------------------------------------------------------------------------
(* Service: the specification                                              *)

LEMMA InitServiceInv == ServiceInit => ServiceInv
<1> SUFFICES ASSUME ServiceInit PROVE ServiceInv
  OBVIOUS
<1>1. Init /\ IInv
  BY InitIInv DEF ServiceInit
<1>2. CInv
  <2>1. \A t \in Thread : ipcState[t] # {"SENDING"}
    BY <1>1 DEF Init
  <2>2. \A p \in Proc : SendsTo(p) = {}
    BY <2>1, ListsAssumption DEF SendsTo
  <2> QED  BY <1>1, <2>1, <2>2 DEF Init, CInv, SendersNamed, Acyclic, NoFault
<1>3. ProgramsTyped /\ NeverRefused
  BY <1>1 DEF ServiceInit, Init, ProgramsTyped, NeverRefused
<1>4. ServerPhase
  BY <1>1, ServerIsThread DEF ServiceInit, Init, ServerPhase, AnyThread
<1>5. ASSUME NEW c \in Client PROVE Idle(c)
  BY <1>1, ServerIsThread, Bits DEF ServiceInit, Init, Idle, Attends, Handed, AnyThread
<1> QED  BY <1>1, <1>2, <1>3, <1>4, <1>5 DEF ServiceInv, SInv, ClientPhase

\* Every step of the programs keeps the invariant and the rules.
LEMMA ServiceStep ==
    ServiceInv /\ [ServiceNext]_allVars => SInv' /\ [CourteousNext]_vars
<1> SUFFICES ASSUME ServiceInv, [ServiceNext]_allVars
             PROVE  SInv' /\ [CourteousNext]_vars
  OBVIOUS
<1>1. ASSUME \A t \in Thread : Kept(t), UNCHANGED <<ret, pc, buf>> PROVE SInv'
  <2>1. ServerPhase' /\ \A c \in Client : ClientPhase(c)'
    BY <1>1, ServerIsThread, ServerKept, ClientKept DEF ServiceInv, SInv
  <2>2. ProgramsTyped' /\ NeverRefused'
    BY <1>1 DEF ServiceInv, SInv, ProgramsTyped, NeverRefused
  <2> QED  BY <2>1, <2>2 DEF SInv
<1>2. CASE Clock /\ UNCHANGED <<pc, buf>>
  <2>1. \A t \in Thread : Kept(t)
    BY <1>2 DEF Clock, Kept, Same, links, regs
  <2>2. SInv'
    BY <1>1, <1>2, <2>1 DEF Clock
  <2> QED  BY <1>2, <2>2 DEF CourteousNext
<1>3. CASE ServerStep(Server)
  BY <1>3, ServerReceiveStep, ServerNotifyStep, ServerReplyStep DEF ServerStep
<1>4. ASSUME NEW c \in Client, ClientStep(c) PROVE SInv' /\ CourteousNext
  BY <1>4, ClientSendStep, ClientReceiveStep, ClientNotifyStep DEF ClientStep
<1>5. CASE UNCHANGED allVars
  <2>1. \A t \in Thread : Kept(t)
    BY <1>5 DEF allVars, vars, Kept, Same
  <2>2. UNCHANGED vars /\ SInv'
    BY <1>1, <1>5, <2>1 DEF allVars, vars
  <2> QED  BY <2>2
<1> QED  BY <1>2, <1>3, <1>4, <1>5 DEF ServiceNext

LEMMA ServiceInvariance == ServiceSpec => []ServiceInv
<1>1. ServiceInv /\ [ServiceNext]_allVars => ServiceInv'
  BY ServiceStep, CourteousIsNext, StepIInv, CInvStep DEF ServiceInv
<1> QED  BY <1>1, InitServiceInv, PTL DEF ServiceSpec

\* The server and the clients that main() starts keep the three rules that
\* the kernel does not enforce, however many the clients are: they send to
\* nobody but each other, and nobody is notified while it is in the wait list
\* of the one that notifies. What is proved of courteous programs holds here.
THEOREM ProgramsCourteous == ServiceSpec => Init /\ [][CourteousNext]_vars
<1>1. ServiceInit => Init
  BY DEF ServiceInit
<1> QED  BY <1>1, ServiceInvariance, ServiceStep, PTL DEF ServiceSpec

\* ... so that none of their calls takes the kernel down.
THEOREM ServiceFaultsNever == ServiceSpec => []NoFault
<1>1. ServiceInv => NoFault
  BY DEF ServiceInv, CInv
<1> QED  BY <1>1, ServiceInvariance, PTL

\* ... and the calls of these programs do what Rendezvous says.
THEOREM ServiceKeepsPromise == ServiceSpec => KeepsPromise
<1>1. ServiceInit => Promise!Init
  BY InitKeeps DEF ServiceInit
<1>2. ServiceInv /\ [ServiceNext]_allVars => [Promise!Next]_(Promise!vars)
  BY ServiceStep, StepKeeps DEF ServiceInv
<1> QED  BY <1>1, <1>2, ServiceInvariance, PTL DEF ServiceSpec, KeepsPromise, Promise!Spec

\* No call is refused: when a client asks, nobody is sending to it, and when
\* the server answers, its client sends to nobody.
THEOREM RefusedNever == ServiceSpec => []NeverRefused
<1>1. ServiceInv => NeverRefused
  BY DEF ServiceInv, SInv
<1> QED  BY <1>1, ServiceInvariance, PTL

\* A client that leaves ipc_receive has the answer of the server, and to its
\* own request, in however many orders the clock lets the clients ask.
THEOREM RepliesCorrect == ServiceSpec => []RepliesToItsOwn
<1>1. ServiceInv => RepliesToItsOwn
  <2> SUFFICES ASSUME ServiceInv, NEW c \in Client, pc[c] = "notify", state[c] = "READY"
               PROVE  src[c] = ProcOf[Server] /\ msg[c] = buf[c].data
    BY DEF RepliesToItsOwn
  <2>1. ClientPhase(c) /\ ipcState[c] = {}
    BY ServerIsThread, StateFacts DEF ServiceInv, SInv
  <2> QED  BY <2>1, Bits DEF ClientPhase, Idle, Asking, Heard, Resumed, Awaiting, Answered
<1> QED  BY <1>1, ServiceInvariance, PTL

\* The client that the server answers waits for that answer.
THEOREM ServesCorrect == ServiceSpec => []ServesOneAtATime
<1>1. ServiceInv => ServesOneAtATime
  <2> SUFFICES ASSUME ServiceInv, pc[Server] = "reply",
                      NEW c \in Client, ProcOf[c] = buf[Server].from
               PROVE  pc[c] \in {"receive", "notify"} /\ buf[c].data = buf[Server].data
    BY DEF ServesOneAtATime
  <2>1. ClientPhase(c) /\ Attends(c)
    BY DEF ServiceInv, SInv, Attends
  <2> QED  BY <2>1 DEF ClientPhase, Idle, Asking, Heard, Resumed, Awaiting, Answered, Holds
<1> QED  BY <1>1, ServiceInvariance, PTL
=============================================================================
