--------------------------- MODULE LocTimerProofs ---------------------------
(***************************************************************************)
(* Two safety properties of LocTimer for any number of timers, containers, *)
(* starts and timeouts: nothing that was deleted is used again, and a      *)
(* timerfd that nobody is about to touch is armed for the soonest timer.   *)
(***************************************************************************)
EXTENDS LocTimer, SequenceTheorems, TLAPS

-----------------------------------------------------------------------------
(* Types.                                                                  *)

DelegateRecords == [t : Timers, c : Containers, future : 1 .. MaxTime]
Messages == [op : {"push", "remove", "expire"}, c : Containers, d : Nat]

\* A message is about a delegate, which is of the message's container, or about
\* a container only.
MsgOK(m, all) ==
    IF m.op = "expire" THEN m.d = 0
    ELSE m.d \in DOMAIN all /\ all[m.d].c = m.c

Clients == mTimer \in [Timers -> Nat] /\ (\A t \in Timers :
              mTimer[t] # 0 => mTimer[t] \in Delegates /\ started[mTimer[t]].t = t)

Kernel == alarm \in [Containers -> 0 .. MaxTime] /\ polled \subseteq Containers

PollOK ==
    /\ poll \in [pc : {"wait", "disarm", "remove", "send"}, c : Containers \cup {0},
                 due : SUBSET Containers]
    /\ poll.pc # "wait" => poll.c \in Containers

TaskOK ==
    /\ task \in [pc : {"idle", "settime", "expire", "stop", "next"},
                 c : Containers \cup {0}, d : Nat, at : 0 .. MaxTime]
    /\ task.pc # "idle" => task.c \in Containers
    /\ task.pc \in {"expire", "stop"} => task.d \in Delegates

Types ==
    /\ now \in 1 .. MaxTime
    /\ started \in Seq(DelegateRecords)
    /\ Clients
    /\ deleted \subseteq Delegates /\ heap \subseteq Delegates /\ early \subseteq Delegates
    /\ msgs \in Seq(Messages) /\ (\A i \in 1 .. Len(msgs) : MsgOK(msgs[i], started))
    /\ Kernel /\ PollOK /\ TaskOK

\* The delegates are numbers from 1.
LEMMA DelegatesAre ==
    ASSUME Types
    PROVE  /\ Delegates = 1 .. Len(started) /\ Len(started) \in Nat
           /\ \A d \in Delegates : started[d] \in DelegateRecords
BY LenProperties, ElementOfSeq DEF Types, Delegates

\* A message that is sent is the only new one in the queue.
LEMMA Sent ==
    ASSUME msgs \in Seq(Messages), NEW m \in Messages, msgs' = Append(msgs, m)
    PROVE  /\ msgs' \in Seq(Messages)
           /\ Len(msgs) \in Nat /\ Len(msgs') = Len(msgs) + 1 /\ msgs'[Len(msgs) + 1] = m
           /\ \A i \in 1 .. Len(msgs) : msgs'[i] = msgs[i]
BY AppendProperties, LenProperties

\* The message that the task takes is the only one that goes.
LEMMA Taken ==
    ASSUME msgs \in Seq(Messages), NEW m, Handles(m)
    PROVE  /\ msgs' \in Seq(Messages) /\ m \in Messages /\ m = msgs[1]
           /\ Len(msgs) \in Nat \ {0} /\ Len(msgs') = Len(msgs) - 1
           /\ \A i \in 1 .. Len(msgs') : msgs'[i] = msgs[i + 1]
BY HeadTailProperties, EmptySeq, LenProperties, ElementOfSeq DEF Handles

\* A new delegate leaves the others as they are.
LEMMA Begun ==
    ASSUME Types, NEW r \in DelegateRecords, started' = Append(started, r)
    PROVE  /\ started' \in Seq(DelegateRecords)
           /\ Delegates' = Delegates \cup {Len(started) + 1} /\ Len(started) + 1 \notin Delegates
           /\ started'[Len(started) + 1] = r
           /\ \A d \in Delegates : started'[d] = started[d]
<1>1. /\ started' \in Seq(DelegateRecords) /\ Len(started') = Len(started) + 1
      /\ started'[Len(started) + 1] = r
      /\ \A d \in 1 .. Len(started) : started'[d] = started[d]
  BY AppendProperties DEF Types
<1>2. DOMAIN started' = 1 .. Len(started') /\ Len(started) \in Nat
  BY <1>1, LenProperties DEF Types
<1>3. Delegates = 1 .. Len(started) /\ Delegates' = 1 .. Len(started) + 1
  BY <1>1, <1>2, DelegatesAre DEF Delegates
<1> QED BY <1>1, <1>2, <1>3

\* What updateSoonestTime leaves well typed.
LEMMA UpdateTyped ==
    ASSUME Types, NEW c \in Containers, NEW p, NEW h \in SUBSET Delegates,
           updateSoonestTime(c, p, h)
    PROVE  Kernel' /\ task' \in [pc : {"idle", "settime"}, c : Containers \cup {0}, d : {0},
                                 at : 0 .. MaxTime]
           /\ (task'.pc # "idle" => task'.c \in Containers)
<1>1. CASE HeapOf(c, h) = {}
  <2>1. task' = Idle /\ Kernel'
    BY <1>1, TimerAssumption DEF updateSoonestTime, Types, Kernel, kernel
  <2> QED BY <2>1, TimerAssumption DEF Idle
<1>2. ASSUME NEW top \in TopsOf(c, h)
      PROVE started[top].future \in 0 .. MaxTime
  BY DelegatesAre DEF TopsOf, HeapOf, DelegateRecords
<1>3. CASE HeapOf(c, h) # {}
  <2>1. PICK top \in TopsOf(c, h) :
           \/ /\ polled' = polled \cup {c} /\ UNCHANGED alarm
              /\ task' = At("settime", c, 0, started[top].future)
           \/ task' = Idle /\ UNCHANGED kernel
    BY <1>3 DEF updateSoonestTime
  <2>2. Kernel'
    BY <2>1 DEF Types, Kernel, kernel
  <2>3. CASE task' = At("settime", c, 0, started[top].future)
    BY <1>2, <2>2, <2>3 DEF At
  <2>4. CASE task' = Idle
    BY <2>2, <2>4, TimerAssumption DEF Idle
  <2> QED BY <2>1, <2>3, <2>4
<1> QED BY <1>1, <1>3

\* A message that is sent keeps the queue well typed.
LEMMA SentTyped ==
    ASSUME Types, NEW m \in Messages, MsgOK(m, started'), msgs' = Append(msgs, m),
           \A i \in 1 .. Len(msgs) : MsgOK(msgs[i], started')
    PROVE  msgs' \in Seq(Messages) /\ \A i \in 1 .. Len(msgs') : MsgOK(msgs'[i], started')
<1>1. msgs \in Seq(Messages)
  BY DEF Types
<1>2. /\ msgs' \in Seq(Messages)
      /\ Len(msgs) \in Nat /\ Len(msgs') = Len(msgs) + 1 /\ msgs'[Len(msgs) + 1] = m
      /\ \A i \in 1 .. Len(msgs) : msgs'[i] = msgs[i]
  BY <1>1, Sent
<1>3. ASSUME NEW i \in 1 .. Len(msgs') PROVE MsgOK(msgs'[i], started')
  <2>1. CASE i = Len(msgs) + 1
    BY <1>2, <2>1
  <2>2. CASE i # Len(msgs) + 1
    BY <1>2, <2>2
  <2> QED BY <2>1, <2>2
<1> QED BY <1>2, <1>3

\* A client's timer, stopped by destroyLocked, is forgotten.
LEMMA DestroyedTyped ==
    ASSUME Types, NEW t \in Timers, mTimer[t] # 0, destroyLocked(t), UNCHANGED started
    PROVE  /\ Clients' /\ msgs' \in Seq(Messages)
           /\ \A i \in 1 .. Len(msgs') : MsgOK(msgs'[i], started')
<1>1. Clients'
  BY DEF Types, Clients, destroyLocked, Delegates
<1>2. mTimer[t] \in Delegates /\ mTimer[t] \in Nat \ {0} /\ started[mTimer[t]] \in DelegateRecords
  BY DelegatesAre DEF Types, Clients
<1> DEFINE m == Msg("remove", started[mTimer[t]].c, mTimer[t])
<1>3. m \in Messages /\ MsgOK(m, started') /\ msgs' = Append(msgs, m)
  BY <1>2 DEF DelegateRecords, Messages, Msg, MsgOK, Delegates, destroyLocked
<1>4. \A i \in 1 .. Len(msgs) : MsgOK(msgs[i], started')
  BY DEF Types, MsgOK, Delegates
<1> HIDE DEF m
<1> QED BY <1>1, <1>3, <1>4, SentTyped

\* The queue stays well typed when the task takes a message.
LEMMA TakenTyped ==
    ASSUME Types, NEW m, Handles(m), UNCHANGED started
    PROVE  /\ m \in Messages /\ MsgOK(m, started)
           /\ msgs' \in Seq(Messages) /\ \A i \in 1 .. Len(msgs') : MsgOK(msgs'[i], started')
<1>1. msgs \in Seq(Messages)
  BY DEF Types
<1>2. /\ msgs' \in Seq(Messages) /\ m \in Messages /\ m = msgs[1]
      /\ Len(msgs) \in Nat \ {0} /\ Len(msgs') = Len(msgs) - 1
      /\ \A i \in 1 .. Len(msgs') : msgs'[i] = msgs[i + 1]
  BY <1>1, Taken
<1>3. MsgOK(m, started)
  BY <1>2 DEF Types
<1>4. ASSUME NEW i \in 1 .. Len(msgs') PROVE MsgOK(msgs'[i], started')
  <2>1. msgs'[i] = msgs[i + 1] /\ i + 1 \in 1 .. Len(msgs)
    BY <1>2
  <2>2. MsgOK(msgs[i + 1], started)
    BY <2>1 DEF Types
  <2> QED BY <2>1, <2>2 DEF MsgOK, Delegates
<1> QED BY <1>2, <1>3, <1>4

\* One step keeps the types.
LEMMA TypesStep == Types /\ [Next]_vars => Types'
<1> SUFFICES ASSUME Types, [Next]_vars PROVE Types'
  OBVIOUS
<1>1. ASSUME NEW t \in Timers, NEW timeOut \in Timeouts, NEW c \in Containers,
             start(t, timeOut, c)
      PROVE  Types'
  <2> DEFINE d == Len(started) + 1
             r == [t |-> t, c |-> c, future |-> now + timeOut]
  <2>1. r \in DelegateRecords
    BY <1>1, TimerAssumption DEF start, Types, DelegateRecords
  <2>2. started' = Append(started, r)
    BY <1>1 DEF start
  <2>3. /\ started' \in Seq(DelegateRecords)
        /\ Delegates' = Delegates \cup {d} /\ d \notin Delegates
        /\ started'[d] = r /\ (\A e \in Delegates : started'[e] = started[e])
        /\ d \in Nat
    <3> HIDE DEF r
    <3> QED BY <2>1, <2>2, Begun, DelegatesAre
  <2>4. Clients'
    <3>1. mTimer' = [mTimer EXCEPT ![t] = d] /\ mTimer \in [Timers -> Nat]
      BY <1>1 DEF start, Types, Clients
    <3>2. ASSUME NEW u \in Timers, mTimer'[u] # 0
          PROVE  mTimer'[u] \in Delegates' /\ started'[mTimer'[u]].t = u
      <4>1. CASE u = t
        BY <2>3, <3>1, <4>1
      <4>2. CASE u # t
        <5>1. mTimer'[u] = mTimer[u] /\ mTimer[u] \in Delegates /\ started[mTimer[u]].t = u
          BY <3>1, <3>2, <4>2 DEF Types, Clients
        <5> QED BY <2>3, <5>1
      <4> QED BY <4>1, <4>2
    <3> QED BY <2>3, <3>1, <3>2 DEF Clients
  <2>5. msgs' \in Seq(Messages) /\ \A i \in 1 .. Len(msgs') : MsgOK(msgs'[i], started')
    <3> DEFINE m == Msg("push", c, d)
    <3>1. m \in Messages /\ MsgOK(m, started') /\ msgs' = Append(msgs, m)
      BY <1>1, <2>3 DEF start, Msg, Messages, MsgOK
    <3>2. \A i \in 1 .. Len(msgs) : MsgOK(msgs[i], started')
      BY <2>3 DEF Types, MsgOK, Delegates
    <3> HIDE DEF m
    <3> QED BY <3>1, <3>2, SentTyped
  <2>6. PollOK' /\ Kernel' /\ now' \in 1 .. MaxTime
    BY <1>1 DEF start, kernel, Types, PollOK, Kernel
  <2>7. TaskOK'
    BY <1>1, <2>3 DEF start, Types, TaskOK
  <2>8. deleted' \subseteq Delegates' /\ heap' \subseteq Delegates' /\ early' \subseteq Delegates'
    BY <1>1, <2>3 DEF start, Types
  <2> QED BY <2>3, <2>4, <2>5, <2>6, <2>7, <2>8 DEF Types
<1>2. ASSUME NEW t \in Timers, stop(t) PROVE Types'
  <2>1. /\ Clients' /\ msgs' \in Seq(Messages)
        /\ \A i \in 1 .. Len(msgs') : MsgOK(msgs'[i], started')
    BY <1>2, DestroyedTyped DEF stop
  <2> QED BY <1>2, <2>1 DEF stop, kernel, Types, PollOK, Kernel, TaskOK, Delegates
<1>3. CASE PollThread
  <2>1. UNCHANGED <<now, mTimer, started, deleted, heap, task, early>>
    BY <1>3 DEF PollThread
  <2>2. TaskOK' /\ Clients'
    BY <2>1 DEF Types, TaskOK, Clients, Delegates
  <2>3. \A i \in 1 .. Len(msgs) : MsgOK(msgs[i], started')
    BY <2>1 DEF Types, MsgOK, Delegates
  <2>4. CASE PollReturns \/ Disarm \/ RemovePoll
    <3>1. Kernel'
      BY <2>4, TimerAssumption DEF PollReturns, Disarm, RemovePoll, kernel, Types, Kernel
    <3>2. PollOK'
      BY <2>4 DEF PollReturns, Disarm, RemovePoll, Types, PollOK
    <3>3. UNCHANGED msgs
      BY <2>4 DEF PollReturns, Disarm, RemovePoll
    <3> QED BY <2>1, <2>2, <2>3, <3>1, <3>2, <3>3 DEF Types, Delegates
  <2>5. CASE SendExpire
    <3> DEFINE m == Msg("expire", poll.c, 0)
    <3>1. m \in Messages /\ MsgOK(m, started') /\ msgs' = Append(msgs, m)
      BY <2>5 DEF SendExpire, Msg, Messages, MsgOK, Types, PollOK
    <3>2. msgs' \in Seq(Messages) /\ \A i \in 1 .. Len(msgs') : MsgOK(msgs'[i], started')
      <4> HIDE DEF m
      <4> QED BY <2>3, <3>1, SentTyped
    <3>3. Kernel'
      BY <2>5 DEF SendExpire, kernel, Types, Kernel
    <3>4. PollOK'
      <4>1. CASE poll' = [poll EXCEPT !.pc = "wait"]
        BY <4>1 DEF Types, PollOK
      <4>2. ASSUME NEW c \in poll.due, poll' = [pc |-> "disarm", c |-> c, due |-> poll.due \ {c}]
            PROVE  PollOK'
        BY <4>2 DEF Types, PollOK
      <4> QED BY <2>5, <4>1, <4>2 DEF SendExpire
    <3> QED BY <2>1, <2>2, <3>2, <3>3, <3>4 DEF Types, Delegates
  <2> QED BY <1>3, <2>4, <2>5 DEF PollThread
<1>4. CASE MsgTask
  <2>1. UNCHANGED <<now, started, poll>> /\ Delegates' = Delegates /\ PollOK'
    BY <1>4 DEF MsgTask, Types, PollOK, Delegates
  <2>2. CASE SetTime
    <3>1. task' = Idle /\ Kernel' /\ UNCHANGED <<mTimer, deleted, heap, msgs, early>>
      BY <2>2 DEF SetTime, Types, Kernel, TaskOK
    <3>2. TaskOK'
      BY <3>1, TimerAssumption DEF TaskOK, Idle
    <3>3. \A i \in 1 .. Len(msgs') : MsgOK(msgs'[i], started')
      BY <2>1, <3>1 DEF Types, MsgOK
    <3> QED BY <2>1, <3>1, <3>2, <3>3 DEF Types, Clients
  <2>3. ASSUME NEW m, Handles(m), HandlePush(m) \/ HandleRemove(m) \/ HandleExpire(m)
        PROVE  Types'
    <3>1. /\ m \in Messages /\ MsgOK(m, started)
          /\ msgs' \in Seq(Messages) /\ \A i \in 1 .. Len(msgs') : MsgOK(msgs'[i], started')
      BY <2>1, <2>3, TakenTyped
    <3>2. UNCHANGED <<mTimer, early>> /\ m.c \in Containers
      BY <2>3, <3>1 DEF HandlePush, HandleRemove, HandleExpire, Messages
    <3>3. CASE HandlePush(m)
      <4>1. PICK prior : updateSoonestTime(m.c, prior, heap')
        BY <3>3 DEF HandlePush
      <4>2. heap' \subseteq Delegates /\ UNCHANGED deleted
        BY <2>3, <3>1, <3>3 DEF HandlePush, MsgOK, Types, Delegates
      <4>3. Kernel' /\ TaskOK'
        BY <3>2, <4>1, <4>2, UpdateTyped DEF TaskOK
      <4> QED BY <2>1, <3>1, <3>2, <4>2, <4>3 DEF Types, Clients
    <3>4. CASE HandleRemove(m)
      <4>1. heap' \subseteq Delegates /\ deleted' \subseteq Delegates
        BY <2>3, <3>1, <3>4 DEF HandleRemove, MsgOK, Types, Delegates
      <4>2. updateSoonestTime(m.c, 0, heap') \/ (task' = Idle /\ UNCHANGED kernel)
        BY <3>4 DEF HandleRemove
      <4>3. CASE updateSoonestTime(m.c, 0, heap')
        <5>1. Kernel' /\ TaskOK'
          BY <3>2, <4>1, <4>3, UpdateTyped DEF TaskOK
        <5> QED BY <2>1, <3>1, <3>2, <4>1, <5>1 DEF Types, Clients
      <4>4. CASE task' = Idle /\ UNCHANGED kernel
        <5>1. Kernel' /\ TaskOK'
          BY <4>4, TimerAssumption DEF kernel, Types, Kernel, Idle, TaskOK
        <5> QED BY <2>1, <3>1, <3>2, <4>1, <5>1 DEF Types, Clients
      <4> QED BY <4>2, <4>3, <4>4
    <3>5. CASE HandleExpire(m)
      <4>1. UNCHANGED deleted /\ Kernel'
        BY <3>5 DEF HandleExpire, kernel, Types, Kernel
      <4>2. CASE task' = Idle /\ UNCHANGED heap
        <5>1. TaskOK'
          BY <4>2, TimerAssumption DEF Idle, TaskOK
        <5> QED BY <2>1, <3>1, <3>2, <4>1, <4>2, <5>1 DEF Types, Clients
      <4>3. ASSUME NEW top \in TopsOf(m.c, heap), heap' = heap \ {top},
                   task' = At("expire", m.c, top, now)
            PROVE  Types'
        <5>1. top \in Delegates /\ top \in Nat /\ now \in 0 .. MaxTime
          BY DelegatesAre DEF TopsOf, HeapOf, Types
        <5>2. TaskOK'
          BY <2>1, <3>2, <4>3, <5>1 DEF At, TaskOK
        <5> QED BY <2>1, <3>1, <3>2, <4>1, <4>3, <5>2 DEF Types, Clients
      <4> QED BY <3>5, <4>2, <4>3 DEF HandleExpire
    <3> QED BY <2>3, <3>3, <3>4, <3>5
  <2>4. CASE ReadClient
    <3>1. TaskOK'
      BY <2>1, <2>4 DEF ReadClient, Types, TaskOK
    <3>2. UNCHANGED <<mTimer, deleted, heap, msgs, kernel, early>>
      BY <2>4 DEF ReadClient
    <3>3. \A i \in 1 .. Len(msgs') : MsgOK(msgs'[i], started')
      BY <2>1, <3>2 DEF Types, MsgOK
    <3> QED BY <2>1, <3>1, <3>2, <3>3 DEF Types, Clients, kernel, Kernel
  <2>5. CASE StopAndCallBack
    <3> DEFINE t == started[task.d].t
    <3>1. TaskOK' /\ UNCHANGED <<deleted, heap, kernel>>
      BY <2>1, <2>5 DEF StopAndCallBack, Types, TaskOK
    <3>2. t \in Timers
      BY <2>5, DelegatesAre DEF StopAndCallBack, Types, TaskOK, DelegateRecords
    <3>3. CASE mTimer[t] = 0
      <4>1. UNCHANGED <<mTimer, msgs, early>>
        BY <2>5, <3>3 DEF StopAndCallBack
      <4>2. \A i \in 1 .. Len(msgs') : MsgOK(msgs'[i], started')
        BY <2>1, <4>1 DEF Types, MsgOK
      <4> QED BY <2>1, <3>1, <4>1, <4>2 DEF Types, Clients, kernel, Kernel
    <3>4. CASE mTimer[t] # 0
      <4>1. destroyLocked(t)
        BY <2>5, <3>4 DEF StopAndCallBack
      <4>2. /\ Clients' /\ msgs' \in Seq(Messages)
            /\ \A i \in 1 .. Len(msgs') : MsgOK(msgs'[i], started')
        <5> HIDE DEF t
        <5> QED BY <2>1, <3>2, <3>4, <4>1, DestroyedTyped
      <4>3. mTimer[t] \in Delegates
        BY <3>2, <3>4 DEF Types, Clients
      <4>4. early' \subseteq Delegates
        BY <2>5, <3>4, <4>3 DEF StopAndCallBack, Types
      <4> QED BY <2>1, <3>1, <4>2, <4>4 DEF Types, kernel, Kernel
    <3> QED BY <3>3, <3>4
  <2>6. CASE PopNext
    <3>1. UNCHANGED <<mTimer, deleted, msgs, early>> /\ heap' \subseteq Delegates
      BY <2>6 DEF PopNext, Types
    <3>2. \A i \in 1 .. Len(msgs') : MsgOK(msgs'[i], started')
      BY <2>1, <3>1 DEF Types, MsgOK
    <3>3. CASE updateSoonestTime(task.c, 0, heap)
      <4>1. task.c \in Containers /\ heap \subseteq Delegates
        BY <2>6 DEF PopNext, Types, TaskOK
      <4>2. Kernel' /\ TaskOK'
        BY <3>3, <4>1, UpdateTyped DEF TaskOK
      <4> QED BY <2>1, <3>1, <3>2, <4>2 DEF Types, Clients
    <3>4. ASSUME NEW top \in TopsOf(task.c, heap), UNCHANGED kernel,
                 task' = [task EXCEPT !.pc = "expire", !.d = top]
          PROVE  Types'
      <4>1. top \in Delegates /\ top \in Nat
        BY DelegatesAre DEF TopsOf, HeapOf, Types
      <4>2. TaskOK'
        BY <2>1, <2>6, <3>4, <4>1 DEF PopNext, Types, TaskOK
      <4>3. Kernel'
        BY <3>4 DEF kernel, Types, Kernel
      <4> QED BY <2>1, <3>1, <3>2, <4>2, <4>3 DEF Types, Clients
    <3> QED BY <2>6, <3>3, <3>4 DEF PopNext
  <2> QED BY <1>4, <2>2, <2>3, <2>4, <2>5, <2>6
        DEF MsgTask, HandlePush, HandleRemove, HandleExpire
<1>5. CASE Tick
  <2>1. now' \in 1 .. MaxTime
    BY <1>5, TimerAssumption DEF Tick, Types
  <2>2. UNCHANGED <<mTimer, started, deleted, heap, msgs, kernel, poll, task, early>>
    BY <1>5 DEF Tick
  <2>3. PollOK' /\ TaskOK' /\ Kernel' /\ Clients'
    BY <2>2 DEF Types, PollOK, TaskOK, Kernel, Clients, kernel, Delegates
  <2> QED BY <2>1, <2>2, <2>3 DEF Types, MsgOK, Delegates
<1>6. CASE UNCHANGED vars
  BY <1>6 DEF vars, Types, Clients, Kernel, PollOK, TaskOK, MsgOK, Delegates, kernel
<1> QED BY <1>1, <1>2, <1>3, <1>4, <1>5, <1>6 DEF Next

LEMMA TypesInit == Init => Types
<1> SUFFICES ASSUME Init PROVE Types
  OBVIOUS
<1>1. now \in 1 .. MaxTime
  BY TimerAssumption DEF Init
<1>2. started \in Seq(DelegateRecords) /\ Delegates = {} /\ msgs \in Seq(Messages) /\ Len(msgs) = 0
  BY EmptySeq DEF Init, Delegates
<1>3. Clients /\ Kernel /\ PollOK /\ TaskOK
  BY TimerAssumption DEF Init, Clients, Kernel, PollOK, TaskOK, Idle
<1> QED BY <1>1, <1>2, <1>3 DEF Init, Types

\* The variables keep their types: every message, heap and timer names a
\* delegate that exists, of the right container.
THEOREM Typed == Spec => []TypeOK
<1>1. ASSUME Types PROVE TypeOK
  <2>1. mTimer \in [Timers -> 0 .. Len(started)]
    <3>1. ASSUME NEW t \in Timers PROVE mTimer[t] \in 0 .. Len(started)
      BY <1>1, DelegatesAre DEF Types, Clients
    <3> QED BY <1>1, <3>1 DEF Types, Clients
  <2>2. ASSUME NEW i \in DOMAIN msgs
        PROVE  \/ msgs[i] \in [op : {"push", "remove"}, c : Containers, d : Delegates]
               \/ msgs[i] \in [op : {"expire"}, c : Containers, d : {0}]
    <3>1. i \in 1 .. Len(msgs) /\ msgs[i] \in Messages /\ MsgOK(msgs[i], started)
      BY <1>1, LenProperties, ElementOfSeq DEF Types
    <3> QED BY <3>1 DEF Messages, MsgOK, Delegates
  <2> QED BY <1>1, <2>1, <2>2 DEF Types, TypeOK, Kernel, PollOK, TaskOK, DelegateRecords
<1> QED BY <1>1, TypesInit, TypesStep, PTL DEF Spec

-----------------------------------------------------------------------------
(* What was deleted is not used again.  A delegate's last message is the   *)
(* one that removes it, and there is none while its timer has it.          *)

About(d, q) == \E i \in 1 .. Len(q) : q[i].d = d
Removes(i, q) == q[i].op = "remove"
LastWord == \A i, j \in 1 .. Len(msgs) : Removes(i, msgs) /\ i < j => msgs[j].d # msgs[i].d
NotRemoved ==
    \A t \in Timers, i \in 1 .. Len(msgs) :
        mTimer[t] # 0 /\ Removes(i, msgs) => msgs[i].d # mTimer[t]
Forgotten ==
    \A d \in deleted :
        /\ d \notin heap /\ ~About(d, msgs)
        /\ \A t \in Timers : mTimer[t] # d
        /\ task.pc \in {"expire", "stop"} => task.d # d
Life == LastWord /\ NotRemoved /\ Forgotten

\* Stopping a timer sends the last message about its delegate.
LEMMA DestroyedLife ==
    ASSUME Types, Life, NEW t \in Timers, mTimer[t] # 0, destroyLocked(t),
           UNCHANGED <<started, deleted>>
    PROVE  LastWord' /\ NotRemoved' /\ \A d \in deleted :
               ~About(d, msgs') /\ \A u \in Timers : mTimer'[u] # d
<1> DEFINE k == mTimer[t]
           m == Msg("remove", started[k].c, k)
<1>1. /\ k \in Delegates /\ k \in Nat \ {0} /\ started[k] \in DelegateRecords
      /\ \A u \in Timers : mTimer[u] = k => u = t
  BY DelegatesAre DEF Types, Clients
<1>2. m \in Messages /\ m.d = k /\ m.op = "remove"
  BY <1>1 DEF DelegateRecords, Messages, Msg
<1>3. msgs' = Append(msgs, m) /\ mTimer' = [mTimer EXCEPT ![t] = 0]
  BY DEF destroyLocked
<1>4. /\ msgs' \in Seq(Messages)
      /\ Len(msgs) \in Nat /\ Len(msgs') = Len(msgs) + 1 /\ msgs'[Len(msgs) + 1] = m
      /\ \A i \in 1 .. Len(msgs) : msgs'[i] = msgs[i]
  <2> HIDE DEF m
  <2> QED BY <1>2, <1>3, Sent DEF Types
<1> HIDE DEF m
<1>5. LastWord'
  <2>1. ASSUME NEW i \in 1 .. Len(msgs'), NEW j \in 1 .. Len(msgs'), Removes(i, msgs'), i < j
        PROVE  msgs'[j].d # msgs'[i].d
    <3>1. i \in 1 .. Len(msgs) /\ msgs'[i] = msgs[i] /\ Removes(i, msgs)
      BY <1>4, <2>1 DEF Removes
    <3>2. CASE j = Len(msgs) + 1
      BY <1>2, <1>4, <3>1, <3>2 DEF Life, NotRemoved
    <3>3. CASE j # Len(msgs) + 1
      BY <1>4, <2>1, <3>1, <3>3 DEF Life, LastWord
    <3> QED BY <3>2, <3>3
  <2> QED BY <2>1 DEF LastWord
<1>6. NotRemoved'
  <2>1. ASSUME NEW u \in Timers, NEW i \in 1 .. Len(msgs'), mTimer'[u] # 0, Removes(i, msgs')
        PROVE  msgs'[i].d # mTimer'[u]
    <3>1. u # t /\ mTimer'[u] = mTimer[u] /\ mTimer[u] # k
      BY <1>1, <1>3, <2>1 DEF Types, Clients
    <3>2. CASE i = Len(msgs) + 1
      BY <1>2, <1>4, <3>1, <3>2
    <3>3. CASE i # Len(msgs) + 1
      BY <1>4, <2>1, <3>1, <3>3 DEF Life, NotRemoved, Removes
    <3> QED BY <3>2, <3>3
  <2> QED BY <2>1 DEF NotRemoved
<1>7. ASSUME NEW d \in deleted
      PROVE  ~About(d, msgs') /\ \A u \in Timers : mTimer'[u] # d
  <2>1. d # 0 /\ ~About(d, msgs) /\ d # k
    BY DelegatesAre DEF Types, Life, Forgotten
  <2>2. \A i \in 1 .. Len(msgs') : msgs'[i].d # d
    BY <1>2, <1>4, <2>1 DEF About
  <2> QED BY <1>3, <2>1, <2>2 DEF About, Types, Clients, Life, Forgotten
<1> QED BY <1>5, <1>6, <1>7

\* A message that is no removal, about no deleted delegate, and about none that
\* an earlier message removes, disturbs nothing.
LEMMA SentLife ==
    ASSUME Types, Life, NEW m \in Messages, m.op # "remove", msgs' = Append(msgs, m),
           m.d \notin deleted,
           \A i \in 1 .. Len(msgs) : Removes(i, msgs) => msgs[i].d # m.d
    PROVE  /\ LastWord' /\ \A d \in deleted : ~About(d, msgs')
           /\ \A i \in 1 .. Len(msgs') : Removes(i, msgs') =>
                  i \in 1 .. Len(msgs) /\ msgs'[i] = msgs[i] /\ Removes(i, msgs)
<1>1. /\ msgs' \in Seq(Messages)
      /\ Len(msgs) \in Nat /\ Len(msgs') = Len(msgs) + 1 /\ msgs'[Len(msgs) + 1] = m
      /\ \A i \in 1 .. Len(msgs) : msgs'[i] = msgs[i]
  BY Sent DEF Types
<1>2. \A i \in 1 .. Len(msgs') : Removes(i, msgs') =>
          i \in 1 .. Len(msgs) /\ msgs'[i] = msgs[i] /\ Removes(i, msgs)
  BY <1>1 DEF Removes
<1>3. LastWord'
  <2>1. ASSUME NEW i \in 1 .. Len(msgs'), NEW j \in 1 .. Len(msgs'), Removes(i, msgs'), i < j
        PROVE  msgs'[j].d # msgs'[i].d
    <3>1. CASE j = Len(msgs) + 1
      BY <1>1, <1>2, <2>1, <3>1
    <3>2. CASE j # Len(msgs) + 1
      BY <1>1, <1>2, <2>1, <3>2 DEF Life, LastWord
    <3> QED BY <3>1, <3>2
  <2> QED BY <2>1 DEF LastWord
<1>4. ASSUME NEW d \in deleted PROVE ~About(d, msgs')
  BY <1>1, <1>4 DEF Life, Forgotten, About
<1> QED BY <1>2, <1>3, <1>4

\* Nor does taking a message.
LEMMA TakenLife ==
    ASSUME Types, Life, NEW m, Handles(m), UNCHANGED mTimer
    PROVE  /\ LastWord' /\ NotRemoved' /\ (\A d \in deleted : ~About(d, msgs'))
           /\ m = msgs[1] /\ 1 \in 1 .. Len(msgs) /\ m.d \notin deleted
           /\ m.op = "remove" => ~About(m.d, msgs')
<1>1. /\ msgs' \in Seq(Messages) /\ m \in Messages /\ m = msgs[1]
      /\ Len(msgs) \in Nat \ {0} /\ Len(msgs') = Len(msgs) - 1
      /\ \A i \in 1 .. Len(msgs') : msgs'[i] = msgs[i + 1]
  BY Taken DEF Types
<1>2. \A i \in 1 .. Len(msgs') : i + 1 \in 1 .. Len(msgs) /\ msgs'[i] = msgs[i + 1] /\ 1 < i + 1
  BY <1>1
<1>3. 1 \in 1 .. Len(msgs)
  BY <1>1
<1>4. LastWord'
  <2>1. ASSUME NEW i \in 1 .. Len(msgs'), NEW j \in 1 .. Len(msgs'), Removes(i, msgs'), i < j
        PROVE  msgs'[j].d # msgs'[i].d
    <3>1. Removes(i + 1, msgs) /\ i + 1 < j + 1
      BY <1>2, <2>1 DEF Removes
    <3> QED BY <1>2, <3>1 DEF Life, LastWord
  <2> QED BY <2>1 DEF LastWord
<1>5. NotRemoved'
  BY <1>2 DEF Life, NotRemoved, Removes
<1>6. \A d \in deleted : ~About(d, msgs')
  BY <1>2 DEF Life, Forgotten, About
<1>7. m.d \notin deleted
  BY <1>1, <1>3 DEF Life, Forgotten, About
<1>8. m.op = "remove" => ~About(m.d, msgs')
  BY <1>1, <1>2, <1>3 DEF Life, LastWord, Removes, About
<1> QED BY <1>1, <1>3, <1>4, <1>5, <1>6, <1>7, <1>8

\* One step keeps the order of a delegate's life.
LEMMA LifeStep == Types /\ Life /\ [Next]_vars => Life'
<1> SUFFICES ASSUME Types, Life, [Next]_vars PROVE Life'
  OBVIOUS
<1>1. ASSUME NEW t \in Timers, NEW timeOut \in Timeouts, NEW c \in Containers,
             start(t, timeOut, c)
      PROVE  Life'
  <2> DEFINE d == Len(started) + 1
             m == Msg("push", c, d)
  <2>1. d \in Nat /\ d \notin Delegates
    BY DelegatesAre
  <2>2. /\ m \in Messages /\ m.op # "remove" /\ m.d = d /\ d \notin deleted
        /\ msgs' = Append(msgs, m)
    BY <1>1, <2>1 DEF start, Msg, Messages, Types
  <2>3. \A i \in 1 .. Len(msgs) : Removes(i, msgs) => msgs[i].d # d
    BY <2>1 DEF Types, MsgOK, Removes, Delegates
  <2>4. /\ LastWord' /\ (\A e \in deleted : ~About(e, msgs'))
        /\ \A i \in 1 .. Len(msgs') : Removes(i, msgs') =>
               i \in 1 .. Len(msgs) /\ msgs'[i] = msgs[i] /\ Removes(i, msgs)
    <3> HIDE DEF d, m
    <3> QED BY <2>2, <2>3, SentLife
  <2>5. mTimer' = [mTimer EXCEPT ![t] = d] /\ mTimer \in [Timers -> Nat]
    BY <1>1 DEF start, Types, Clients
  <2>6. NotRemoved'
    <3>1. ASSUME NEW u \in Timers, NEW i \in 1 .. Len(msgs'), mTimer'[u] # 0, Removes(i, msgs')
          PROVE  msgs'[i].d # mTimer'[u]
      <4> HIDE DEF d, m
      <4> QED BY <2>3, <2>4, <2>5, <3>1 DEF Life, NotRemoved
    <3> QED BY <3>1 DEF NotRemoved
  <2>7. UNCHANGED <<deleted, heap, task>>
    BY <1>1 DEF start
  <2>8. Forgotten'
    <3> HIDE DEF d, m
    <3> QED BY <2>2, <2>4, <2>5, <2>7 DEF Life, Forgotten
  <2> QED BY <2>4, <2>6, <2>8 DEF Life
<1>2. ASSUME NEW t \in Timers, stop(t) PROVE Life'
  <2>1. LastWord' /\ NotRemoved' /\ \A d \in deleted :
               ~About(d, msgs') /\ \A u \in Timers : mTimer'[u] # d
    BY <1>2, DestroyedLife DEF stop
  <2> QED BY <1>2, <2>1 DEF stop, Life, Forgotten
<1>3. CASE PollThread
  <2>1. UNCHANGED <<mTimer, deleted, heap, task>>
    BY <1>3 DEF PollThread
  <2>2. CASE PollReturns \/ Disarm \/ RemovePoll
    BY <2>1, <2>2 DEF PollReturns, Disarm, RemovePoll, Life, LastWord, NotRemoved, Forgotten
  <2>3. CASE SendExpire
    <3> DEFINE m == Msg("expire", poll.c, 0)
    <3>1. m \in Messages /\ m.op # "remove" /\ m.d = 0 /\ msgs' = Append(msgs, m)
      BY <2>3 DEF SendExpire, Msg, Messages, Types, PollOK
    <3>2. 0 \notin deleted
      BY DelegatesAre DEF Types
    <3>3. \A i \in 1 .. Len(msgs) : Removes(i, msgs) => msgs[i].d # 0
      BY DelegatesAre DEF Types, MsgOK, Removes, Delegates
    <3>4. /\ LastWord' /\ (\A e \in deleted : ~About(e, msgs'))
          /\ \A i \in 1 .. Len(msgs') : Removes(i, msgs') =>
                 i \in 1 .. Len(msgs) /\ msgs'[i] = msgs[i] /\ Removes(i, msgs)
      <4> HIDE DEF m
      <4> QED BY <3>1, <3>2, <3>3, SentLife
    <3> QED BY <2>1, <3>4 DEF Life, NotRemoved, Forgotten
  <2> QED BY <1>3, <2>2, <2>3 DEF PollThread
<1>4. CASE MsgTask
  <2>1. UNCHANGED started
    BY <1>4 DEF MsgTask
  <2>2. CASE SetTime
    BY <2>2 DEF SetTime, Idle, Life, LastWord, NotRemoved, Forgotten
  <2>3. ASSUME NEW m, HandlePush(m) \/ HandleExpire(m) PROVE Life'
    <3>1. Handles(m) /\ UNCHANGED <<mTimer, deleted>>
      BY <2>3 DEF HandlePush, HandleExpire
    <3>2. /\ LastWord' /\ NotRemoved' /\ (\A d \in deleted : ~About(d, msgs'))
          /\ m.d \notin deleted
      BY <3>1, TakenLife
    <3>3. CASE HandlePush(m)
      <4>1. heap' = heap \cup {m.d} /\ task'.pc \notin {"expire", "stop"}
        BY <3>3 DEF HandlePush, updateSoonestTime, Idle, At
      <4> QED BY <3>1, <3>2, <4>1 DEF Life, Forgotten
    <3>4. CASE HandleExpire(m)
      <4>1. heap' \subseteq heap /\ (task'.pc \in {"expire", "stop"} => task'.d \in heap)
        BY <3>4 DEF HandleExpire, Idle, At, TopsOf, HeapOf
      <4> QED BY <3>1, <3>2, <4>1 DEF Life, Forgotten
    <3> QED BY <2>3, <3>3, <3>4
  <2>4. ASSUME NEW m, HandleRemove(m) PROVE Life'
    <3>1. Handles(m) /\ UNCHANGED mTimer /\ m.op = "remove"
      BY <2>4 DEF HandleRemove
    <3>2. /\ LastWord' /\ NotRemoved' /\ (\A d \in deleted : ~About(d, msgs'))
          /\ m = msgs[1] /\ 1 \in 1 .. Len(msgs) /\ ~About(m.d, msgs')
      BY <3>1, TakenLife
    <3>7. \A t \in Timers : mTimer[t] # m.d
      <4>1. m.d # 0
        BY <3>1, <3>2, DelegatesAre DEF Types, MsgOK, Delegates
      <4> QED BY <3>1, <3>2, <4>1 DEF Life, NotRemoved, Removes
    <3>8. task'.pc \notin {"expire", "stop"}
      BY <2>4 DEF HandleRemove, updateSoonestTime, Idle, At
    <3>9. heap' = heap \ {m.d} /\ deleted' = deleted \cup {m.d}
      BY <2>4 DEF HandleRemove
    <3> QED BY <3>1, <3>2, <3>7, <3>8, <3>9 DEF Life, Forgotten
  <2>5. CASE ReadClient
    BY <2>5 DEF ReadClient, Types, TaskOK, Life, LastWord, NotRemoved, Forgotten
  <2>6. CASE StopAndCallBack
    <3> DEFINE t == started[task.d].t
    <3>1. UNCHANGED <<deleted, heap>> /\ task'.pc = "next"
      BY <2>6 DEF StopAndCallBack, Types, TaskOK
    <3>2. t \in Timers
      BY <2>6, DelegatesAre DEF StopAndCallBack, Types, TaskOK, DelegateRecords
    <3>3. CASE mTimer[t] = 0
      BY <2>6, <3>1, <3>3 DEF StopAndCallBack, Life, LastWord, NotRemoved, Forgotten
    <3>4. CASE mTimer[t] # 0
      <4>1. destroyLocked(t)
        BY <2>6, <3>4 DEF StopAndCallBack
      <4>2. LastWord' /\ NotRemoved' /\ \A d \in deleted :
                 ~About(d, msgs') /\ \A u \in Timers : mTimer'[u] # d
        <5> HIDE DEF t
        <5> QED BY <2>1, <3>1, <3>2, <3>4, <4>1, DestroyedLife
      <4> QED BY <3>1, <4>2 DEF Life, Forgotten
    <3> QED BY <3>3, <3>4
  <2>7. CASE PopNext
    <3>1. UNCHANGED <<mTimer, deleted, msgs>> /\ heap' \subseteq heap
      BY <2>7 DEF PopNext
    <3>2. task'.pc \in {"expire", "stop"} => task'.d \in heap
      <4>1. CASE updateSoonestTime(task.c, 0, heap)
        BY <4>1 DEF updateSoonestTime, Idle, At
      <4>2. ASSUME NEW top \in TopsOf(task.c, heap),
                   task' = [task EXCEPT !.pc = "expire", !.d = top]
            PROVE  task'.d \in heap
        BY <4>2 DEF TopsOf, HeapOf, Types, TaskOK
      <4> QED BY <2>7, <4>1, <4>2 DEF PopNext
    <3> QED BY <3>1, <3>2 DEF Life, LastWord, NotRemoved, Forgotten
  <2> QED BY <1>4, <2>2, <2>3, <2>4, <2>5, <2>6, <2>7 DEF MsgTask
<1>5. CASE Tick
  BY <1>5 DEF Tick, Life, LastWord, NotRemoved, Forgotten
<1>6. CASE UNCHANGED vars
  BY <1>6 DEF vars, Life, LastWord, NotRemoved, Forgotten
<1> QED BY <1>1, <1>2, <1>3, <1>4, <1>5, <1>6 DEF Next

\* LocTimer.cpp: the message that removes a delegate is the last that is sent
\* about it, so when it is deleted no queue, heap, timer or expiry has it.
THEOREM DeletedIsForgottenAlways == Spec => []DeletedIsForgotten
<1>1. Init => Life
  BY EmptySeq DEF Init, Life, LastWord, NotRemoved, Forgotten
<1>2. Types /\ Life => DeletedIsForgotten
  BY LenProperties DEF Types, Life, Forgotten, About, DeletedIsForgotten
<1> QED BY <1>1, <1>2, TypesInit, TypesStep, LifeStep, PTL DEF Spec

-----------------------------------------------------------------------------
(* The timerfds.  Whatever the polling thread undoes, the message it sends  *)
(* afterwards makes the message task arm anew.                             *)

Polling(c) == poll.pc # "wait" /\ c \in {poll.c} \cup poll.due
Expiring(c) == \E i \in 1 .. Len(msgs) : msgs[i].op = "expire" /\ msgs[i].c = c
Coming(c) == Polling(c) \/ Expiring(c)
TaskAt(c) == task.pc # "idle" /\ task.c = c
Soonest(c, time) == \A top \in TopsOf(c, heap) : time = started[top].future

Armed ==
    /\ \A c \in Containers : ~Coming(c) /\ ~TaskAt(c) => Soonest(c, alarm[c]) /\
           (HeapOf(c, heap) # {} => c \in polled)
    /\ task.pc = "settime" =>
           Soonest(task.c, task.at) /\ (Coming(task.c) \/ task.c \in polled)

\* All tops of a heap have the same time.
LEMMA TopsAgree ==
    ASSUME Types, NEW c, NEW h \in SUBSET Delegates, NEW d \in TopsOf(c, h), NEW e \in TopsOf(c, h)
    PROVE  started[d].future = started[e].future
BY DelegatesAre DEF TopsOf, HeapOf, DelegateRecords

\* What a message of c does to the heap leaves the other containers' alone.
LEMMA OtherHeaps ==
    ASSUME Types, UNCHANGED started, NEW c, NEW d \in Delegates, started[d].c = c,
           heap' \ {d} = heap \ {d}
    PROVE  \A e : e # c => HeapOf(e, heap') = HeapOf(e, heap) /\ TopsOf(e, heap') = TopsOf(e, heap)
BY DEF HeapOf, TopsOf

\* A message of the task's own that is taken is no expiry.
LEMMA StillExpiring ==
    ASSUME Types, NEW m, Handles(m), UNCHANGED poll, NEW c, m.op # "expire" \/ m.c # c
    PROVE  Coming(c)' <=> Coming(c)
<1>1. /\ m = msgs[1]
      /\ Len(msgs) \in Nat \ {0} /\ Len(msgs') = Len(msgs) - 1
      /\ \A i \in 1 .. Len(msgs') : msgs'[i] = msgs[i + 1]
  BY Taken DEF Types
<1>2. ASSUME NEW i \in 1 .. Len(msgs), msgs[i].op = "expire", msgs[i].c = c
      PROVE  Expiring(c)'
  <2>1. i - 1 \in 1 .. Len(msgs') /\ msgs'[i - 1] = msgs[i]
    BY <1>1, <1>2
  <2> QED BY <1>2, <2>1 DEF Expiring
<1>3. ASSUME NEW i \in 1 .. Len(msgs'), msgs'[i].op = "expire", msgs'[i].c = c
      PROVE  Expiring(c)
  <2>1. i + 1 \in 1 .. Len(msgs) /\ msgs'[i] = msgs[i + 1]
    BY <1>1
  <2> QED BY <1>3, <2>1 DEF Expiring
<1>4. Expiring(c)' <=> Expiring(c)
  BY <1>2, <1>3 DEF Expiring
<1> QED BY <1>4 DEF Coming, Polling

\* Sending adds an expiry or none.
LEMMA SentExpiring ==
    ASSUME Types, NEW m \in Messages, msgs' = Append(msgs, m)
    PROVE  \A c : Expiring(c)' <=> Expiring(c) \/ (m.op = "expire" /\ m.c = c)
<1>1. /\ Len(msgs) \in Nat /\ Len(msgs') = Len(msgs) + 1 /\ msgs'[Len(msgs) + 1] = m
      /\ \A i \in 1 .. Len(msgs) : msgs'[i] = msgs[i]
  BY Sent DEF Types
<1> QED BY <1>1 DEF Expiring

\* updateSoonestTime for container c, when the heap's other containers are left
\* alone: armed anew, or as it was for the same soonest time.
LEMMA UpdateArmed ==
    ASSUME Types, Armed, UNCHANGED <<started, poll>>, NEW c \in Containers, NEW p,
           \A e \in Containers : TaskAt(e) => e = c,
           task.pc # "settime", heap' \subseteq Delegates,
           \A e \in Containers : e # c => /\ Coming(e)' <=> Coming(e)
                                          /\ HeapOf(e, heap') = HeapOf(e, heap)
                                          /\ TopsOf(e, heap') = TopsOf(e, heap),
           updateSoonestTime(c, p, heap'),
           p # 0 => Coming(c)' \/ ( Soonest(c, alarm[c]) /\ c \in polled /\ p \in TopsOf(c, heap)
                                    /\ p \in HeapOf(c, heap'))
    PROVE  Armed'
<1> DEFINE Set(e) == Soonest(e, alarm[e]) /\ (HeapOf(e, heap) # {} => e \in polled)
<1>0. \A e : HeapOf(e, heap)' = HeapOf(e, heap') /\ TopsOf(e, heap)' = TopsOf(e, heap')
  BY DEF TopsOf, HeapOf
<1>1. /\ \A e \in Containers : e # c => alarm'[e] = alarm[e] /\ (e \in polled' <=> e \in polled)
      /\ alarm' = alarm \/ HeapOf(c, heap') = {}
  BY DEF updateSoonestTime, kernel, Types, Kernel
<1>2. ASSUME NEW e \in Containers, e # c, ~Coming(e)' PROVE Set(e)'
  <2>1. Set(e)
    BY <1>2 DEF Armed
  <2> QED BY <1>0, <1>1, <1>2, <2>1 DEF Soonest
<1>3. CASE HeapOf(c, heap') = {}
  <2>1. task' = Idle /\ TopsOf(c, heap') = {}
    BY <1>3 DEF updateSoonestTime, TopsOf
  <2>2. Set(c)'
    BY <1>0, <1>3, <2>1 DEF Soonest
  <2> QED BY <1>2, <2>1, <2>2 DEF Armed, Idle
<1>4. CASE HeapOf(c, heap') # {}
  <2>1. PICK top \in TopsOf(c, heap') :
           IF p = 0 \/ started[top].future < started[p].future
           THEN /\ polled' = polled \cup {c} /\ UNCHANGED alarm
                /\ task' = At("settime", c, 0, started[top].future)
           ELSE task' = Idle /\ UNCHANGED kernel
    BY <1>4 DEF updateSoonestTime
  <2>2. \A t \in TopsOf(c, heap') : started[t].future = started[top].future
    BY TopsAgree
  <2>3. CASE p = 0 \/ started[top].future < started[p].future
    <3>1. /\ task'.pc = "settime" /\ task'.c = c /\ task'.at = started[top].future
          /\ c \in polled'
      BY <2>1, <2>3 DEF At
    <3>2. Soonest(task.c, task.at)' /\ TaskAt(c)'
      BY <1>0, <2>2, <3>1 DEF Soonest, TaskAt
    <3> QED BY <1>2, <3>1, <3>2 DEF Armed
  <2>4. CASE ~(p = 0 \/ started[top].future < started[p].future)
    <3>1. task' = Idle /\ UNCHANGED <<alarm, polled>> /\ p # 0
      BY <2>1, <2>4 DEF kernel
    <3>2. ASSUME ~Coming(c)' PROVE Set(c)'
      <4>1. /\ alarm[c] = started[p].future /\ c \in polled /\ p \in HeapOf(c, heap')
        BY <3>1, <3>2 DEF Soonest
      <4>2. started[top].future = started[p].future
        BY <2>4, <4>1, DelegatesAre DEF TopsOf, HeapOf, DelegateRecords
      <4> QED BY <1>0, <2>2, <3>1, <4>1, <4>2 DEF Soonest
    <3> QED BY <1>2, <3>1, <3>2 DEF Armed, Idle
  <2> QED BY <2>3, <2>4
<1> QED BY <1>3, <1>4

\* A step that changes neither heap nor task nor what the kernel has, and lets
\* no expiry go, disturbs nothing.
LEMMA KernelKept ==
    ASSUME Types, Armed, UNCHANGED <<alarm, polled, task>>,
           \A c \in Containers : Coming(c) => Coming(c)',
           \A c \in Containers : HeapOf(c, heap)' = HeapOf(c, heap) /\ TopsOf(c, heap)' = TopsOf(c, heap),
           \A d \in heap : started'[d] = started[d]
    PROVE  Armed'
<1>1. \A c \in Containers : ~Coming(c)' /\ ~TaskAt(c)' => Soonest(c, alarm[c])' /\
           ((HeapOf(c, heap) # {})' => c \in polled')
  BY DEF Armed, Soonest, TaskAt, TopsOf, HeapOf
<1>2. task'.pc = "settime" =>
           Soonest(task.c, task.at)' /\ (Coming(task.c)' \/ task'.c \in polled')
  BY DEF Armed, Soonest, TopsOf, HeapOf, Types, TaskOK
<1> QED BY <1>1, <1>2 DEF Armed

\* One step keeps the timerfds armed.
LEMMA ArmedStep == Types /\ Armed /\ [Next]_vars => Armed'
<1> SUFFICES ASSUME Types, Armed, [Next]_vars PROVE Armed'
  OBVIOUS
<1>1. ASSUME NEW t \in Timers, NEW timeOut \in Timeouts, NEW c \in Containers,
             start(t, timeOut, c)
      PROVE  Armed'
  <2> DEFINE r == [t |-> t, c |-> c, future |-> now + timeOut]
             m == Msg("push", c, Len(started) + 1)
  <2>1. r \in DelegateRecords /\ started' = Append(started, r)
    BY <1>1, TimerAssumption DEF start, Types, DelegateRecords
  <2>2. \A d \in Delegates : started'[d] = started[d]
    <3> HIDE DEF r
    <3> QED BY <2>1, Begun
  <2>3. m \in Messages /\ m.op = "push" /\ msgs' = Append(msgs, m)
    BY <1>1, DelegatesAre DEF start, Messages, Msg
  <2>4. \A e : Expiring(e)' <=> Expiring(e)
    <3> HIDE DEF m
    <3> QED BY <2>3, SentExpiring
  <2>5. heap' = heap /\ heap \subseteq Delegates /\ UNCHANGED <<alarm, polled, task, poll>>
    BY <1>1 DEF start, kernel, Types
  <2>6. \A e \in Containers : Coming(e) => Coming(e)'
    BY <2>4, <2>5 DEF Coming, Polling
  <2>7. \A e \in Containers : HeapOf(e, heap)' = HeapOf(e, heap) /\ TopsOf(e, heap)' = TopsOf(e, heap)
    BY <2>2, <2>5 DEF HeapOf, TopsOf
  <2> QED BY <2>2, <2>5, <2>6, <2>7, KernelKept
<1>2. ASSUME NEW t \in Timers, mTimer[t] # 0, destroyLocked(t),
             UNCHANGED <<started, poll>>
      PROVE  \A c : Coming(c)' <=> Coming(c)
  <2> DEFINE m == Msg("remove", started[mTimer[t]].c, mTimer[t])
  <2>1. m \in Messages /\ m.op = "remove" /\ msgs' = Append(msgs, m)
    BY <1>2, DelegatesAre DEF destroyLocked, Types, Clients, DelegateRecords, Messages, Msg
  <2>2. \A e : Expiring(e)' <=> Expiring(e)
    <3> HIDE DEF m
    <3> QED BY <2>1, SentExpiring
  <2> QED BY <1>2, <2>2 DEF Coming, Polling
<1>3. ASSUME NEW t \in Timers, stop(t) PROVE Armed'
  <2>1. UNCHANGED <<started, heap, alarm, polled, task, poll>>
    BY <1>3 DEF stop, kernel
  <2>2. \A c : Coming(c)' <=> Coming(c)
    BY <1>2, <1>3, <2>1 DEF stop
  <2>3. \A e \in Containers : HeapOf(e, heap)' = HeapOf(e, heap) /\ TopsOf(e, heap)' = TopsOf(e, heap)
    BY <2>1 DEF HeapOf, TopsOf
  <2> QED BY <2>1, <2>2, <2>3, KernelKept
<1>4. CASE PollThread
  <2>1. UNCHANGED <<started, heap, task>>
    BY <1>4 DEF PollThread
  <2>2. /\ \A e \in Containers : HeapOf(e, heap)' = HeapOf(e, heap) /\ TopsOf(e, heap)' = TopsOf(e, heap)
        /\ \A e \in Containers : TaskAt(e)' <=> TaskAt(e)
    BY <2>1 DEF HeapOf, TopsOf, TaskAt
  <2>3. CASE PollReturns
    <3>1. UNCHANGED <<alarm, polled, msgs>> /\ poll.pc = "wait"
      BY <2>3 DEF PollReturns, kernel
    <3>2. \A e \in Containers : Coming(e) => Coming(e)'
      BY <3>1 DEF Coming, Polling, Expiring
    <3> QED BY <2>1, <2>2, <3>1, <3>2, KernelKept
  <2>4. CASE Disarm \/ RemovePoll
    <3>1. /\ UNCHANGED msgs /\ poll.c \in Containers
          /\ poll.pc # "wait" /\ poll'.pc # "wait" /\ poll'.c = poll.c /\ poll'.due = poll.due
          /\ \A e \in Containers : e # poll.c => alarm'[e] = alarm[e] /\ (e \in polled' <=> e \in polled)
      BY <2>4 DEF Disarm, RemovePoll, Types, PollOK, Kernel
    <3>2. /\ \A e \in Containers : Coming(e)' <=> Coming(e)
          /\ Coming(poll.c)
      BY <3>1 DEF Coming, Polling, Expiring
    <3>3. \A e \in Containers : ~Coming(e)' /\ ~TaskAt(e)' => Soonest(e, alarm[e])' /\
           ((HeapOf(e, heap) # {})' => e \in polled')
      BY <2>1, <2>2, <3>1, <3>2 DEF Armed, Soonest
    <3>4. task'.pc = "settime" => Soonest(task.c, task.at)' /\ (Coming(task.c)' \/ task'.c \in polled')
      <4>1. ASSUME task.pc = "settime"
            PROVE  task.c \in Containers /\ Soonest(task.c, task.at) /\ (Coming(task.c) \/ task.c \in polled)
        BY <4>1 DEF Types, TaskOK, Armed
      <4>2. ASSUME task.pc = "settime"
            PROVE  Soonest(task.c, task.at)' /\ (Coming(task.c)' \/ task'.c \in polled')
        <5>1. task.c = poll.c \/ (task.c \in polled' <=> task.c \in polled)
          BY <3>1, <4>1, <4>2
        <5>2. Coming(task.c)' <=> Coming(task.c)
          BY <2>1, <3>1 DEF Coming, Polling, Expiring
        <5> QED BY <2>1, <2>2, <3>2, <4>1, <4>2, <5>1, <5>2 DEF Soonest
      <4> QED BY <2>1, <4>2
    <3> QED BY <3>3, <3>4 DEF Armed
  <2>5. CASE SendExpire
    <3> DEFINE m == Msg("expire", poll.c, 0)
    <3>1. m \in Messages /\ m.op = "expire" /\ m.c = poll.c /\ msgs' = Append(msgs, m)
      BY <2>5 DEF SendExpire, Msg, Messages, Types, PollOK
    <3>2. \A e : Expiring(e)' <=> Expiring(e) \/ e = poll.c
      <4>1. \A e : Expiring(e)' <=> Expiring(e) \/ (m.op = "expire" /\ m.c = e)
        <5> HIDE DEF m
        <5> QED BY <3>1, SentExpiring
      <4> QED BY <3>1, <4>1
    <3>3. \A e \in poll.due : Polling(e)'
      <4>1. ASSUME NEW c \in poll.due, poll' = [pc |-> "disarm", c |-> c, due |-> poll.due \ {c}]
            PROVE  \A e \in poll.due : Polling(e)'
        BY <4>1 DEF Polling
      <4> QED BY <2>5, <4>1 DEF SendExpire
    <3>4. \A e \in Containers : Coming(e) => Coming(e)'
      BY <3>2, <3>3 DEF Coming, Polling
    <3> QED BY <2>1, <2>2, <2>5, <3>4, KernelKept DEF SendExpire, kernel
  <2> QED BY <1>4, <2>3, <2>4, <2>5 DEF PollThread
<1>5. CASE Tick \/ UNCHANGED vars
  <2>1. UNCHANGED <<started, heap, alarm, polled, task, poll, msgs>>
    BY <1>5 DEF Tick, vars, kernel
  <2>2. /\ \A e \in Containers : HeapOf(e, heap)' = HeapOf(e, heap) /\ TopsOf(e, heap)' = TopsOf(e, heap)
        /\ \A e \in Containers : Coming(e) => Coming(e)'
    BY <2>1 DEF HeapOf, TopsOf, Coming, Polling, Expiring
  <2> QED BY <2>1, <2>2, KernelKept
<1>6. CASE MsgTask
  <2>1. UNCHANGED <<started, poll>>
    BY <1>6 DEF MsgTask
  <2>2. \A h : \A e \in Containers :
            heap' = h => HeapOf(e, heap)' = HeapOf(e, h) /\ TopsOf(e, heap)' = TopsOf(e, h)
    BY <2>1 DEF HeapOf, TopsOf
  <2>3. CASE SetTime
    <3>1. /\ task.pc = "settime" /\ task.c \in Containers /\ task' = Idle
          /\ UNCHANGED <<heap, msgs, polled>>
          /\ alarm' = [alarm EXCEPT ![task.c] = task.at] /\ alarm \in [Containers -> 0 .. MaxTime]
      BY <2>3 DEF SetTime, Types, TaskOK, Kernel
    <3>2. \A e \in Containers : Coming(e)' <=> Coming(e)
      BY <2>1, <3>1 DEF Coming, Polling, Expiring
    <3>3. ASSUME NEW e \in Containers, ~Coming(e)'
          PROVE  Soonest(e, alarm[e])' /\ ((HeapOf(e, heap) # {})' => e \in polled')
      <4>1. CASE e = task.c
        <5>1. Soonest(e, task.at) /\ e \in polled /\ alarm'[e] = task.at
          BY <3>1, <3>2, <3>3, <4>1 DEF Armed
        <5> QED BY <2>1, <2>2, <3>1, <5>1 DEF Soonest
      <4>2. CASE e # task.c
        <5>1. ~TaskAt(e) /\ alarm'[e] = alarm[e]
          BY <3>1, <4>2 DEF TaskAt
        <5>2. Soonest(e, alarm[e]) /\ (HeapOf(e, heap) # {} => e \in polled)
          BY <3>2, <3>3, <5>1 DEF Armed
        <5> QED BY <2>1, <2>2, <3>1, <5>1, <5>2 DEF Soonest
      <4> QED BY <4>1, <4>2
    <3> QED BY <3>1, <3>3 DEF Armed, Idle
  <2>4. ASSUME NEW m, Handles(m), HandlePush(m) \/ HandleRemove(m) \/ HandleExpire(m)
        PROVE  Armed'
    <3> DEFINE c == m.c
    <3>1. /\ task.pc = "idle" /\ c \in Containers /\ MsgOK(m, started) /\ m \in Messages
          /\ \A e : ~TaskAt(e)
      <4>1. m \in Messages /\ MsgOK(m, started)
        BY <2>1, <2>4, TakenTyped
      <4> QED BY <2>4, <4>1 DEF Handles, Messages, TaskAt
    <3>2. \A e \in Containers : m.op # "expire" \/ e # c => (Coming(e)' <=> Coming(e))
      BY <2>1, <2>4, StillExpiring
    <3>3. CASE HandlePush(m) \/ HandleRemove(m)
      <4>1. /\ m.op # "expire" /\ m.d \in Delegates /\ started[m.d].c = c
            /\ heap' = heap \cup {m.d} \/ heap' = heap \ {m.d}
            /\ heap' \subseteq Delegates
        BY <3>1, <3>3 DEF HandlePush, HandleRemove, MsgOK, Delegates, Types
      <4>2. \A e : e # c => HeapOf(e, heap') = HeapOf(e, heap) /\ TopsOf(e, heap') = TopsOf(e, heap)
        BY <2>1, <4>1, OtherHeaps
      <4>3. ~Coming(c)' /\ HeapOf(c, heap) # {} => Soonest(c, alarm[c]) /\ c \in polled
        BY <3>1, <3>2, <4>1 DEF Armed
      <4>4. CASE HandlePush(m)
        <5>1. PICK prior \in IF HeapOf(c, heap) = {} THEN {0} ELSE TopsOf(c, heap) :
                 updateSoonestTime(c, prior, heap')
          BY <4>4 DEF HandlePush
        <5>2. heap' = heap \cup {m.d}
          BY <4>4 DEF HandlePush
        <5>3. prior # 0 => /\ HeapOf(c, heap) # {} /\ prior \in TopsOf(c, heap)
                           /\ prior \in HeapOf(c, heap')
          BY <5>1, <5>2 DEF TopsOf, HeapOf
        <5> HIDE DEF c
        <5> QED BY <2>1, <3>1, <3>2, <4>1, <4>2, <4>3, <5>1, <5>3, UpdateArmed
      <4>5. CASE HandleRemove(m)
        <5>1. CASE updateSoonestTime(c, 0, heap')
          <6> HIDE DEF c
          <6> QED BY <2>1, <3>1, <3>2, <4>1, <4>2, <5>1, UpdateArmed
        <5>2. CASE /\ TopsOf(c, heap) \notin {{}, {m.d}} /\ task' = Idle /\ UNCHANGED kernel
          <6>1. PICK top \in TopsOf(c, heap) : top # m.d
            BY <5>2
          <6>2. heap' = heap \ {m.d} /\ UNCHANGED <<alarm, polled>>
            BY <4>5, <5>2 DEF HandleRemove, kernel
          <6>3. top \in TopsOf(c, heap') /\ HeapOf(c, heap) # {}
            BY <6>1, <6>2 DEF TopsOf, HeapOf
          <6>4. \A d \in TopsOf(c, heap') : started[d].future = started[top].future
            BY <4>1, <6>3, TopsAgree
          <6>5. ASSUME NEW e \in Containers, ~Coming(e)'
                PROVE  Soonest(e, alarm[e])' /\ ((HeapOf(e, heap) # {})' => e \in polled')
            <7>1. CASE e = c
              BY <2>1, <2>2, <4>3, <6>1, <6>2, <6>3, <6>4, <6>5, <7>1 DEF Soonest
            <7>2. CASE e # c
              <8>1. Soonest(e, alarm[e]) /\ (HeapOf(e, heap) # {} => e \in polled)
                BY <3>1, <3>2, <6>5, <7>2 DEF Armed
              <8> QED BY <2>1, <2>2, <4>2, <6>2, <7>2, <8>1 DEF Soonest
            <7> QED BY <7>1, <7>2
          <6> QED BY <5>2, <6>5 DEF Armed, Idle
        <5> QED BY <4>5, <5>1, <5>2 DEF HandleRemove
      <4> QED BY <3>3, <4>4, <4>5
    <3>4. CASE HandleExpire(m)
      <4>1. UNCHANGED <<alarm, polled>> /\ m.op = "expire"
        BY <3>4 DEF HandleExpire, kernel
      <4>2. CASE HeapOf(c, heap) = {} /\ task' = Idle /\ UNCHANGED heap
        <5>1. ASSUME NEW e \in Containers, ~Coming(e)'
              PROVE  Soonest(e, alarm[e])' /\ ((HeapOf(e, heap) # {})' => e \in polled')
          <6>1. CASE e = c
            BY <2>1, <2>2, <4>2, <6>1 DEF Soonest, TopsOf
          <6>2. CASE e # c
            <7>1. Soonest(e, alarm[e]) /\ (HeapOf(e, heap) # {} => e \in polled)
              BY <3>1, <3>2, <5>1, <6>2 DEF Armed
            <7> QED BY <2>1, <2>2, <4>1, <4>2, <7>1 DEF Soonest
          <6> QED BY <6>1, <6>2
        <5> QED BY <4>2, <5>1 DEF Armed, Idle
      <4>3. ASSUME NEW top \in TopsOf(c, heap), heap' = heap \ {top},
                   task' = At("expire", m.c, top, now)
            PROVE  Armed'
        <5>1. top \in Delegates /\ started[top].c = c
          BY DEF TopsOf, HeapOf, Types
        <5>2. \A e : e # c => HeapOf(e, heap') = HeapOf(e, heap) /\ TopsOf(e, heap') = TopsOf(e, heap)
          BY <2>1, <4>3, <5>1, OtherHeaps
        <5>3. TaskAt(c)' /\ task'.pc # "settime"
          BY <4>3 DEF TaskAt, At
        <5>4. ASSUME NEW e \in Containers, ~Coming(e)', ~TaskAt(e)'
              PROVE  Soonest(e, alarm[e])' /\ ((HeapOf(e, heap) # {})' => e \in polled')
          <6>1. e # c
            BY <5>3, <5>4
          <6>2. Soonest(e, alarm[e]) /\ (HeapOf(e, heap) # {} => e \in polled)
            BY <3>1, <3>2, <5>4, <6>1 DEF Armed
          <6> QED BY <2>1, <2>2, <4>1, <5>2, <6>1, <6>2 DEF Soonest
        <5> QED BY <5>3, <5>4 DEF Armed
      <4> QED BY <3>4, <4>2, <4>3 DEF HandleExpire
    <3> QED BY <2>4, <3>3, <3>4
  <2>5. ASSUME UNCHANGED <<heap, alarm, polled>>, task.pc \in {"expire", "stop"},
               task'.pc \notin {"idle", "settime"}, task'.c = task.c,
               \A e \in Containers : Coming(e)' <=> Coming(e)
        PROVE  Armed'
    <3>1. \A e \in Containers : TaskAt(e)' <=> TaskAt(e)
      BY <2>5 DEF TaskAt
    <3> QED BY <2>1, <2>2, <2>5, <3>1 DEF Armed, Soonest
  <2>6. CASE ReadClient
    <3>1. \A e \in Containers : Coming(e)' <=> Coming(e)
      BY <2>1, <2>6 DEF ReadClient, Coming, Polling, Expiring
    <3> QED BY <2>5, <2>6, <3>1 DEF ReadClient, kernel, Types, TaskOK
  <2>7. CASE StopAndCallBack
    <3> DEFINE t == started[task.d].t
    <3>1. t \in Timers /\ task.pc = "stop"
      BY <2>7, DelegatesAre DEF StopAndCallBack, Types, TaskOK, DelegateRecords
    <3>2. \A e \in Containers : Coming(e)' <=> Coming(e)
      <4>1. CASE mTimer[t] = 0
        BY <2>1, <2>7, <4>1 DEF StopAndCallBack, Coming, Polling, Expiring
      <4>2. CASE mTimer[t] # 0
        <5>1. destroyLocked(t)
          BY <2>7, <4>2 DEF StopAndCallBack
        <5> HIDE DEF t
        <5> QED BY <1>2, <2>1, <3>1, <4>2, <5>1
      <4> QED BY <4>1, <4>2
    <3>3. UNCHANGED <<heap, alarm, polled>> /\ task' = [task EXCEPT !.pc = "next"]
      BY <2>7 DEF StopAndCallBack, kernel
    <3> QED BY <2>5, <3>1, <3>2, <3>3 DEF Types, TaskOK
  <2>8. CASE PopNext
    <3> DEFINE c == task.c
    <3>1. /\ task.pc = "next" /\ c \in Containers /\ (\A e : TaskAt(e) => e = c)
          /\ \A e \in Containers : Coming(e)' <=> Coming(e)
      BY <2>1, <2>8 DEF PopNext, Types, TaskOK, TaskAt, Coming, Polling, Expiring
    <3>2. CASE heap' = heap /\ updateSoonestTime(c, 0, heap)
      <4>1. heap' \subseteq Delegates /\ updateSoonestTime(c, 0, heap')
        BY <3>2 DEF Types
      <4> HIDE DEF c
      <4> QED BY <2>1, <3>1, <3>2, <4>1, UpdateArmed
    <3>3. ASSUME NEW top \in TopsOf(c, heap), heap' = heap \ {top}, UNCHANGED kernel,
                 task' = [task EXCEPT !.pc = "expire", !.d = top]
          PROVE  Armed'
      <4>1. top \in Delegates /\ started[top].c = c
        BY DEF TopsOf, HeapOf, Types
      <4>2. \A e : e # c => HeapOf(e, heap') = HeapOf(e, heap) /\ TopsOf(e, heap') = TopsOf(e, heap)
        BY <2>1, <3>3, <4>1, OtherHeaps
      <4>3. task'.pc = "expire" /\ task'.c = c /\ UNCHANGED <<alarm, polled>>
        BY <3>3 DEF Types, TaskOK, kernel
      <4>4. ASSUME NEW e \in Containers, ~Coming(e)', ~TaskAt(e)'
            PROVE  Soonest(e, alarm[e])' /\ ((HeapOf(e, heap) # {})' => e \in polled')
        <5>1. e # c /\ ~TaskAt(e)
          BY <3>1, <4>3, <4>4 DEF TaskAt
        <5>2. Soonest(e, alarm[e]) /\ (HeapOf(e, heap) # {} => e \in polled)
          BY <3>1, <4>4, <5>1 DEF Armed
        <5> QED BY <2>1, <2>2, <3>3, <4>2, <4>3, <5>1, <5>2 DEF Soonest
      <4> QED BY <4>3, <4>4 DEF Armed
    <3> QED BY <2>8, <3>2, <3>3 DEF PopNext
  <2> QED BY <1>6, <2>3, <2>4, <2>6, <2>7, <2>8
        DEF MsgTask, HandlePush, HandleRemove, HandleExpire
<1> QED BY <1>1, <1>3, <1>4, <1>5, <1>6 DEF Next

\* LocTimerContainer: when no message is on its way to a container and neither
\* thread is at it, its timerfd is polled and armed for the soonest of its
\* delegates: the disarming and the arming, which share no lock, never cross.
THEOREM ArmedForSoonestAlways == Spec => []ArmedForSoonest
<1>1. Init => Armed
  BY DEF Init, Armed, HeapOf, TopsOf, Soonest, Idle
<1>2. ASSUME Types, Armed PROVE ArmedForSoonest
  <2>1. DOMAIN msgs = 1 .. Len(msgs)
    BY LenProperties DEF Types
  <2>2. ASSUME NEW c \in Containers, ~UnderWay(c), NEW top \in TopsOf(c, heap)
        PROVE  c \in polled /\ alarm[c] = started[top].future
    <3>1. ~Coming(c) /\ ~TaskAt(c) /\ HeapOf(c, heap) # {}
      BY <2>1, <2>2 DEF UnderWay, Coming, Polling, Expiring, TaskAt, TopsOf
    <3> QED BY <1>2, <3>1 DEF Armed, Soonest
  <2> QED BY <2>2 DEF ArmedForSoonest
<1> QED BY <1>1, <1>2, TypesInit, TypesStep, ArmedStep, PTL DEF Spec
=============================================================================
