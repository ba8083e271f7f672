---------------------------- MODULE AgpsProofs ----------------------------
(***************************************************************************)
(* Proofs about the AGPS data-call manager, for any set of handles and any *)
(* bound on what is under way.                                             *)
(***************************************************************************)
EXTENDS Agps, SequenceTheorems, TLAPS

---------------------------------------------------------------------------
(* Queues.                                                                 *)

\* A message appended to a queue is the only new element of it.
LEMMA RangeAppend ==
  ASSUME NEW S, NEW s \in Seq(S), NEW x \in S
  PROVE  /\ Append(s, x) \in Seq(S)
         /\ Range(Append(s, x)) = Range(s) \cup {x}
<1>1. /\ Append(s, x) \in Seq(S)
      /\ Len(Append(s, x)) = Len(s) + 1
      /\ \A i \in 1 .. Len(s) : Append(s, x)[i] = s[i]
      /\ Append(s, x)[Len(s) + 1] = x
  BY AppendProperties
<1>2. Range(Append(s, x)) = {Append(s, x)[i] : i \in 1 .. Len(s) + 1}
  BY <1>1, RangeEquality
<1>3. Range(s) = {s[i] : i \in 1 .. Len(s)} /\ Len(s) \in Nat
  BY RangeEquality, LenProperties
<1> QED BY <1>1, <1>2, <1>3

\* Taking the head off a queue loses nothing but the head.
LEMMA RangeTail ==
  ASSUME NEW S, NEW s \in Seq(S), s # <<>>
  PROVE  /\ Tail(s) \in Seq(S)
         /\ Head(s) \in S
         /\ Range(s) = {Head(s)} \cup Range(Tail(s))
<1>1. /\ Tail(s) \in Seq(S) /\ Head(s) \in S
      /\ Len(Tail(s)) = Len(s) - 1
      /\ \A i \in 1 .. Len(Tail(s)) : Tail(s)[i] = s[i + 1]
  BY HeadTailProperties
<1>2. Range(s) = {s[i] : i \in 1 .. Len(s)} /\ Len(s) \in Nat \ {0}
  BY RangeEquality, EmptySeq
<1>3. Range(Tail(s)) = {Tail(s)[i] : i \in 1 .. Len(s) - 1}
  BY <1>1, RangeEquality
<1>4. Head(s) = s[1]
  OBVIOUS
<1>5. ASSUME NEW i \in 1 .. Len(s), i # 1
      PROVE  s[i] \in Range(Tail(s))
  <2>1. i - 1 \in 1 .. Len(s) - 1 /\ Tail(s)[i - 1] = s[i]
    BY <1>1, <1>2, <1>5
  <2> QED BY <2>1, <1>3
<1>6. \A y \in Range(Tail(s)) : y \in Range(s)
  BY <1>1, <1>2, <1>3
<1> QED BY <1>1, <1>2, <1>4, <1>5, <1>6

---------------------------------------------------------------------------
(* Types, and the invariant that ties a machine's state to its users.      *)

\* The part of TypeOK about what the events of a state machine change.
EventTypeOK ==
  /\ mState \in [Nif -> States]
  /\ mSubscriberList \in [Nif -> SUBSET Handles]
  /\ fwQ \in [Nif -> Seq(Commands)]
  /\ modem \in [Handles -> {"idle", "opening", "open", "closing"}]

\* A message has the fields its handler reads.
LEMMA MsgFields ==
  ASSUME NEW m \in Msgs
  PROVE  /\ m.kind \in {"request", "release", "opened", "failed", "closed"}
         /\ m.kind = "request" => m.h \in Handles /\ m.type \in AgpsTypes
         /\ m.kind = "release" => m.h \in Handles
         /\ m.kind \in {"opened", "failed", "closed"} => m.type \in AgpsTypes
BY DEF Msgs, RequestMsg, ReleaseMsg, FwMsg

\* What the modem is told keeps its view well typed.
LEMMA ModemTyped ==
  ASSUME EventTypeOK, NEW H
  PROVE  /\ OpenStatusOk(H) \in [Handles -> {"idle", "opening", "open", "closing"}]
         /\ SessionOver(H) \in [Handles -> {"idle", "opening", "open", "closing"}]
BY DEF EventTypeOK, OpenStatusOk, SessionOver

\* A command to the framework keeps the command queues well typed.
LEMMA CommandTyped ==
  ASSUME EventTypeOK, NEW n \in Nif, NEW c \in {"REQUEST", "RELEASE"},
         NEW t \in AgpsTypes, requestOrReleaseDataConn(n, c, t)
  PROVE  fwQ' \in [Nif -> Seq(Commands)]
<1>1. [cmd |-> c, type |-> t] \in Commands
  BY DEF Commands
<1>2. Append(fwQ[n], [cmd |-> c, type |-> t]) \in Seq(Commands)
  BY <1>1, AppendProperties DEF EventTypeOK
<1> QED BY <1>2 DEF EventTypeOK, requestOrReleaseDataConn

\* A new subscriber is in the list when the machine leaves RELEASED.
LEMMA SubscribeInv ==
  ASSUME EventTypeOK, ConnectionHasUser,
         NEW n \in Nif, NEW h \in Handles, NEW t \in AgpsTypes,
         processAgpsEventSubscribe(n, h, t)
  PROVE  EventTypeOK' /\ ConnectionHasUser'
<1> USE DEF processAgpsEventSubscribe, transitionState, EventTypeOK,
            ConnectionHasUser, States
<1>1. CASE mState[n] = "RELEASED"
  <2>1. fwQ' \in [Nif -> Seq(Commands)]
    BY <1>1, CommandTyped
  <2> QED BY <1>1, <2>1
<1>2. CASE mState[n] = "ACQUIRED"
  BY <1>2, ModemTyped
<1>3. CASE mState[n] = "PENDING"
  BY <1>3
<1> QED BY <1>1, <1>2, <1>3

\* A subscriber leaves: the machine stays only while another one is left.
LEMMA UnsubscribeInv ==
  ASSUME EventTypeOK, ConnectionHasUser, mAgpsType \in [Nif -> AgpsTypes],
         NEW n \in Nif, NEW h \in mSubscriberList[n],
         processAgpsEventUnsubscribe(n, h)
  PROVE  EventTypeOK' /\ ConnectionHasUser'
<1> DEFINE list == mSubscriberList[n] \ {h}
<1>1. mState[n] # "RELEASED"
  BY DEF ConnectionHasUser
<1>2. /\ mSubscriberList' = [mSubscriberList EXCEPT ![n] = list]
      /\ modem' = SessionOver({h})
      /\ mState' = [mState EXCEPT ![n] = IF list = {} THEN "RELEASED" ELSE mState[n]]
      /\ IF list = {} THEN requestOrReleaseDataConn(n, "RELEASE", mAgpsType[n])
                      ELSE fwQ' = fwQ
  BY <1>1 DEF processAgpsEventUnsubscribe, transitionState, EventTypeOK
<1>3. list \subseteq Handles
  BY DEF EventTypeOK
<1>4. fwQ' \in [Nif -> Seq(Commands)]
  BY <1>2, CommandTyped DEF EventTypeOK
<1>5. modem' \in [Handles -> {"idle", "opening", "open", "closing"}]
  BY <1>2, ModemTyped
<1> HIDE DEF list
<1>6. EventTypeOK'
  BY <1>2, <1>3, <1>4, <1>5 DEF EventTypeOK, States
<1>7. ConnectionHasUser'
  BY <1>1, <1>2, <1>3 DEF EventTypeOK, ConnectionHasUser
<1> QED BY <1>6, <1>7

\* An answer of the framework: granted, refused, closed or ignored.
LEMMA AnswerInv ==
  ASSUME EventTypeOK, ConnectionHasUser, mAgpsType \in [Nif -> AgpsTypes],
         NEW n \in Nif,
         \/ reportAtlOpenSuccess(n)
         \/ reportAtlOpenFailed(n)
         \/ reportAtlClosed(n)
  PROVE  EventTypeOK' /\ ConnectionHasUser'
<1>1. CASE processAgpsEventGranted(n)
  BY <1>1, ModemTyped
     DEF processAgpsEventGranted, transitionState, EventTypeOK, ConnectionHasUser, States
<1>2. CASE dropAllNotified(n)
  BY <1>2, ModemTyped
     DEF dropAllNotified, eraseAll, transitionState, EventTypeOK, ConnectionHasUser, States
<1>3. CASE UNCHANGED <<smVars, fwQ, modem>>
  BY <1>3 DEF smVars, EventTypeOK, ConnectionHasUser
<1> QED BY <1>1, <1>2, <1>3
     DEF reportAtlOpenSuccess, reportAtlOpenFailed, reportAtlClosed,
         processAgpsEventReleased, processAgpsEventDenied

\* Every type is served by one of the two machines.
LEMMA NifOfType ==
  \A t \in AgpsTypes : getAgpsStateMachine(t) \in Nif
BY DEF getAgpsStateMachine, Nif, AgpsTypes

\* The answers of the framework are messages the adapter can handle.
LEMMA AnswerTyped ==
  ASSUME TypeOK, NEW n \in Nif, NEW k \in {"opened", "failed", "closed"}, Answer(n, k)
  PROVE  /\ msgQ' \in Seq(Msgs)
         /\ FwMsg(k, FwType(n)) \in Msgs
         /\ Range(msgQ') = Range(msgQ) \cup {FwMsg(k, FwType(n))}
<1>1. FwMsg(k, FwType(n)) \in Msgs
  BY DEF Msgs, FwType, AgpsTypes
<1> QED BY <1>1, RangeAppend DEF TypeOK, Answer

\* Popping a command keeps the command queues well typed.
LEMMA PopTyped ==
  ASSUME TypeOK, NEW n \in Nif, NEW c, FwNext(n, c), FwPop(n)
  PROVE  /\ fwQ' \in [Nif -> Seq(Commands)]
         /\ Range(fwQ[n]) = {Head(fwQ[n])} \cup Range(fwQ'[n])
<1>1. fwQ[n] \in Seq(Commands) /\ fwQ[n] # <<>>
  BY DEF TypeOK, FwNext
<1>2. Tail(fwQ[n]) \in Seq(Commands) /\ Range(fwQ[n]) = {Head(fwQ[n])} \cup Range(Tail(fwQ[n]))
  BY <1>1, RangeTail
<1> QED BY <1>2 DEF TypeOK, FwPop

\* Handling one message keeps both invariants.
LEMMA ProcMsgInv ==
  ASSUME TypeOK, ConnectionHasUser, ProcMsg
  PROVE  TypeOK' /\ ConnectionHasUser'
<1> DEFINE m == Head(msgQ)
<1>1. m \in Msgs /\ msgQ' \in Seq(Msgs) /\ UNCHANGED <<created, fwConn, directClose>>
  BY RangeTail DEF ProcMsg, TypeOK
<1>2. EventTypeOK /\ mAgpsType \in [Nif -> AgpsTypes]
  BY DEF TypeOK, EventTypeOK
<1>3. ASSUME NEW h \in Handles, NEW type \in AgpsTypes, requestATL(h, type)
      PROVE  EventTypeOK' /\ ConnectionHasUser' /\ mAgpsType' \in [Nif -> AgpsTypes]
  <2> DEFINE t == IF ~UseEmergencyPdn /\ type = "SUPL_ES" THEN "SUPL" ELSE type
  <2>1. t \in AgpsTypes /\ getAgpsStateMachine(t) \in Nif
    BY NifOfType DEF AgpsTypes
  <2>2. CASE getAgpsStateMachine(t) \in created
    <3>1. /\ processAgpsEventSubscribe(getAgpsStateMachine(t), h, t)
          /\ mAgpsType' = [mAgpsType EXCEPT ![getAgpsStateMachine(t)] = t]
      BY <1>3, <2>2 DEF requestATL
    <3> QED BY <3>1, <2>1, <1>2, SubscribeInv
  <2>3. CASE getAgpsStateMachine(t) \notin created
    <3>1. modem' = SessionOver({h}) /\ UNCHANGED <<smVars, mAgpsType, fwQ>>
      BY <1>3, <2>3 DEF requestATL
    <3> QED BY <3>1, <1>2, ModemTyped
         DEF smVars, EventTypeOK, ConnectionHasUser
  <2> QED BY <2>2, <2>3
<1>4. ASSUME NEW h \in Handles, releaseATL(h)
      PROVE  EventTypeOK' /\ ConnectionHasUser' /\ mAgpsType' \in [Nif -> AgpsTypes]
  <2> DEFINE found == {n \in created : h \in mSubscriberList[n]}
             n == IF "agnss" \in found THEN "agnss" ELSE "internet"
  <2>1. CASE found # {}
    <3>1. n \in Nif /\ h \in mSubscriberList[n]
      BY <2>1 DEF TypeOK, Nif
    <3>2. processAgpsEventUnsubscribe(n, h) /\ UNCHANGED mAgpsType
      BY <1>4, <2>1 DEF releaseATL
    <3> QED BY <3>1, <3>2, <1>2, UnsubscribeInv
  <2>2. CASE found = {}
    BY <1>4, <2>2, <1>2 DEF releaseATL, smVars, EventTypeOK, ConnectionHasUser
  <2> QED BY <2>1, <2>2
<1>5. ASSUME NEW n \in Nif,
             reportAtlOpenSuccess(n) \/ reportAtlOpenFailed(n) \/ reportAtlClosed(n)
      PROVE  EventTypeOK' /\ ConnectionHasUser' /\ mAgpsType' \in [Nif -> AgpsTypes]
  <2>1. UNCHANGED mAgpsType
    BY <1>5 DEF reportAtlOpenSuccess, reportAtlOpenFailed, reportAtlClosed
  <2> QED BY <1>5, <2>1, <1>2, AnswerInv
<1>6. EventTypeOK' /\ ConnectionHasUser' /\ mAgpsType' \in [Nif -> AgpsTypes]
  BY <1>1, <1>3, <1>4, <1>5, MsgFields, NifOfType DEF ProcMsg
<1>7. stranded' \subseteq Nif
  BY DEF ProcMsg, TypeOK
<1> QED BY <1>1, <1>6, <1>7 DEF TypeOK, EventTypeOK

\* One step of the system keeps both invariants.
LEMMA StepInv ==
  ASSUME TypeOK, ConnectionHasUser, [Next]_vars
  PROVE  TypeOK' /\ ConnectionHasUser'
<1> USE DEF ConnectionHasUser, smVars
<1>1. ASSUME NEW atl \in AtlOffers, initAgps(atl)
      PROVE  TypeOK' /\ ConnectionHasUser'
  BY <1>1 DEF initAgps, TypeOK
<1>2. ASSUME NEW h \in Handles, NEW t \in AgpsTypes, ModemRequest(h, t)
      PROVE  TypeOK' /\ ConnectionHasUser'
  <2>1. RequestMsg(h, t) \in Msgs
    BY DEF Msgs
  <2>2. msgQ' \in Seq(Msgs)
    BY <1>2, <2>1, RangeAppend DEF ModemRequest, TypeOK
  <2> QED BY <1>2, <2>2 DEF ModemRequest, TypeOK
<1>3. ASSUME NEW h \in Handles, ModemRelease(h)
      PROVE  TypeOK' /\ ConnectionHasUser'
  <2>1. ReleaseMsg(h) \in Msgs
    BY DEF Msgs
  <2>2. msgQ' \in Seq(Msgs)
    BY <1>3, <2>1, RangeAppend DEF ModemRelease, TypeOK
  <2> QED BY <1>3, <2>2 DEF ModemRelease, TypeOK
<1>4. CASE ProcMsg
  BY <1>4, ProcMsgInv
<1>5. ASSUME NEW n \in Nif, FwAnswer(n)
      PROVE  TypeOK' /\ ConnectionHasUser'
  <2>1. fwQ' \in [Nif -> Seq(Commands)]
    BY <1>5, PopTyped
       DEF FwAnswer, FwOpened, FwOpenedBadApn, FwOpenFailed, FwClosed, FwCloseFailed
  <2>2. msgQ' \in Seq(Msgs)
    BY <1>5, AnswerTyped
       DEF FwAnswer, FwOpened, FwOpenedBadApn, FwOpenFailed, FwClosed, FwCloseFailed, TypeOK
  <2> QED BY <1>5, <2>1, <2>2
       DEF FwAnswer, FwOpened, FwOpenedBadApn, FwOpenFailed, FwClosed, FwCloseFailed, TypeOK
<1>6. ASSUME NEW n \in Nif, FwLost(n)
      PROVE  TypeOK' /\ ConnectionHasUser'
  <2>1. msgQ' \in Seq(Msgs)
    BY <1>6, AnswerTyped DEF FwLost
  <2> QED BY <1>6, <2>1 DEF FwLost, TypeOK
<1>7. ASSUME NEW n \in Nif, ReportClosedDirectly(n)
      PROVE  TypeOK' /\ ConnectionHasUser'
  <2>1. EventTypeOK /\ mAgpsType \in [Nif -> AgpsTypes] /\ reportAtlClosed(n)
    BY <1>7 DEF TypeOK, EventTypeOK, ReportClosedDirectly
  <2>2. EventTypeOK' /\ ConnectionHasUser'
    BY <2>1, AnswerInv
  <2> QED BY <1>7, <2>2 DEF ReportClosedDirectly, reportAtlClosed, TypeOK, EventTypeOK
<1>8. CASE UNCHANGED vars
  BY <1>8 DEF vars, TypeOK
<1> QED BY <1>1, <1>2, <1>3, <1>4, <1>5, <1>6, <1>7, <1>8 DEF Next

\* Every reachable state is well typed.
THEOREM Typed == Spec => []TypeOK
<1>1. Init => TypeOK /\ ConnectionHasUser
  BY DEF Init, TypeOK, ConnectionHasUser, States, AgpsTypes
<1> QED BY <1>1, StepInv, PTL DEF Spec

\* RELEASED exactly when nobody is subscribed: a connection is wanted or held
\* only for a subscriber (Agps.cpp, every processAgpsEvent...).
THEOREM ConnectionHasUserAlways == Spec => []ConnectionHasUser
<1>1. Init => TypeOK /\ ConnectionHasUser
  BY DEF Init, TypeOK, ConnectionHasUser, States, AgpsTypes
<1> QED BY <1>1, StepInv, PTL DEF Spec

---------------------------------------------------------------------------
(* No lost wakeup.                                                         *)

HasCommand(n, c) == \E x \in Range(fwQ[n]) : x.cmd = c

\* What any event may do to a machine k as far as waiting goes: leave its
\* state and its outstanding commands, stop waiting, or wait with a command
\* just sent.
Moves(k) ==
  \/ mState'[k] = mState[k] /\ Range(fwQ[k]) \subseteq Range(fwQ'[k])
  \/ mState'[k] \in {"RELEASED", "ACQUIRED"}
  \/ mState'[k] = "PENDING" /\ HasCommand(k, "REQUEST")'

\* A command sent is outstanding, and no other machine's commands change.
LEMMA CommandSent ==
  ASSUME EventTypeOK, NEW n \in Nif, NEW c \in {"REQUEST", "RELEASE"},
         NEW t \in AgpsTypes, requestOrReleaseDataConn(n, c, t)
  PROVE  /\ HasCommand(n, c)'
         /\ \A k \in Nif : Range(fwQ[k]) \subseteq Range(fwQ'[k])
<1>1. [cmd |-> c, type |-> t] \in Commands /\ fwQ[n] \in Seq(Commands)
  BY DEF Commands, EventTypeOK
<1>2. Range(Append(fwQ[n], [cmd |-> c, type |-> t]))
        = Range(fwQ[n]) \cup {[cmd |-> c, type |-> t]}
  BY <1>1, RangeAppend
<1>3. fwQ'[n] = Append(fwQ[n], [cmd |-> c, type |-> t])
  BY DEF requestOrReleaseDataConn, EventTypeOK
<1>4. \A k \in Nif : k # n => fwQ'[k] = fwQ[k]
  BY DEF requestOrReleaseDataConn, EventTypeOK
<1>5. Range(fwQ'[n]) = Range(fwQ[n]) \cup {[cmd |-> c, type |-> t]}
  BY <1>2, <1>3
<1>6. \E x \in Range(fwQ'[n]) : x.cmd = c
  <2>1. [cmd |-> c, type |-> t] \in Range(fwQ'[n])
    BY <1>5
  <2>2. [cmd |-> c, type |-> t].cmd = c
    OBVIOUS
  <2> QED BY <2>1, <2>2
<1>7. ASSUME NEW k \in Nif
      PROVE  Range(fwQ[k]) \subseteq Range(fwQ'[k])
  BY <1>4, <1>5
<1> QED BY <1>6, <1>7 DEF HasCommand

\* Requests and releases of the modem move machines as Moves says.
LEMMA SubscribeMoves ==
  ASSUME EventTypeOK, NEW n \in Nif, NEW h \in Handles, NEW t \in AgpsTypes,
         processAgpsEventSubscribe(n, h, t)
  PROVE  \A k \in Nif : Moves(k)
<1> USE DEF processAgpsEventSubscribe, transitionState, Moves
<1>1. CASE mState[n] = "RELEASED"
  BY <1>1, CommandSent DEF EventTypeOK
<1>2. CASE mState[n] # "RELEASED"
  BY <1>2 DEF EventTypeOK
<1> QED BY <1>1, <1>2

\* The same for a subscriber that leaves.
LEMMA UnsubscribeMoves ==
  ASSUME EventTypeOK, mAgpsType \in [Nif -> AgpsTypes],
         NEW n \in Nif, NEW h, processAgpsEventUnsubscribe(n, h)
  PROVE  \A k \in Nif : Moves(k)
<1>1. CASE UNCHANGED <<mState, fwQ>>
  BY <1>1 DEF Moves
<1>2. CASE /\ transitionState(n, "RELEASED")
           /\ requestOrReleaseDataConn(n, "RELEASE", mAgpsType[n])
  BY <1>2, CommandSent DEF transitionState, EventTypeOK, Moves
<1> QED BY <1>1, <1>2 DEF processAgpsEventUnsubscribe, smVars

\* An answer moves machines as Moves says, and an answer to an open ends the wait.
LEMMA AnswerMoves ==
  ASSUME EventTypeOK, NEW n \in Nif,
         \/ reportAtlOpenSuccess(n) \/ reportAtlOpenFailed(n) \/ reportAtlClosed(n)
  PROVE  /\ \A k \in Nif : Moves(k)
         /\ (reportAtlOpenSuccess(n) \/ reportAtlOpenFailed(n)) /\ mState[n] = "PENDING" =>
              mState'[n] \in {"RELEASED", "ACQUIRED"}
<1> USE DEF reportAtlOpenSuccess, reportAtlOpenFailed, reportAtlClosed,
            processAgpsEventReleased, processAgpsEventDenied
<1>1. CASE processAgpsEventGranted(n)
  BY <1>1 DEF processAgpsEventGranted, transitionState, EventTypeOK, Moves
<1>2. CASE dropAllNotified(n)
  BY <1>2 DEF dropAllNotified, transitionState, EventTypeOK, Moves
<1>3. CASE /\ UNCHANGED <<smVars, fwQ, modem>>
           /\ ~dropAllNotified(n) /\ ~processAgpsEventGranted(n)
  BY <1>3 DEF smVars, Moves
<1> QED BY <1>1, <1>2, <1>3

\* The wait of one machine, as WaitingIsOwed has it.
Owed(n) ==
  \/ n \in stranded
  \/ mState[n] = "PENDING" =>
       HasCommand(n, "REQUEST") \/ OnItsWay(n, {"opened", "failed"})

\* Handling one message leaves nobody waiting for nothing.
LEMMA ProcMsgOwed ==
  ASSUME TypeOK, \A n \in Nif : Owed(n), ProcMsg
  PROVE  \A n \in Nif : Owed(n)'
<1> DEFINE m == Head(msgQ)
<1>1. m \in Msgs /\ Range(msgQ) = {m} \cup Range(msgQ')
  BY RangeTail DEF ProcMsg, TypeOK
<1>2. EventTypeOK /\ mAgpsType \in [Nif -> AgpsTypes]
  BY DEF TypeOK, EventTypeOK
<1>0. stranded' = stranded
  BY DEF ProcMsg
<1>3. CASE m.kind = "request" /\ requestATL(m.h, m.type)
  <2> DEFINE t == IF ~UseEmergencyPdn /\ m.type = "SUPL_ES" THEN "SUPL" ELSE m.type
  <2>1. m.h \in Handles /\ t \in AgpsTypes /\ getAgpsStateMachine(t) \in Nif
    BY <1>1, <1>3, MsgFields, NifOfType DEF AgpsTypes
  <2>2. \/ processAgpsEventSubscribe(getAgpsStateMachine(t), m.h, t)
        \/ UNCHANGED <<smVars, fwQ>>
    BY <1>3 DEF requestATL
  <2>3. \A k \in Nif : Moves(k)
    BY <2>1, <2>2, <1>2, SubscribeMoves DEF smVars, Moves
  <2>4. \A k \in Nif, K \in {{"opened", "failed"}} : OnItsWay(k, K) => OnItsWay(k, K)'
    BY <1>1, <1>3 DEF OnItsWay
  <2> QED BY <1>0, <2>3, <2>4 DEF Owed, Moves, HasCommand
<1>4. CASE m.kind = "release" /\ releaseATL(m.h)
  <2> DEFINE n == IF "agnss" \in {k \in created : m.h \in mSubscriberList[k]}
                  THEN "agnss" ELSE "internet"
  <2>1. n \in Nif
    BY DEF Nif
  <2>2. processAgpsEventUnsubscribe(n, m.h) \/ UNCHANGED <<smVars, fwQ>>
    BY <1>4 DEF releaseATL
  <2>3. \A k \in Nif : Moves(k)
    BY <2>1, <2>2, <1>2, UnsubscribeMoves DEF smVars, Moves
  <2>4. \A k \in Nif, K \in {{"opened", "failed"}} : OnItsWay(k, K) => OnItsWay(k, K)'
    BY <1>1, <1>4 DEF OnItsWay
  <2> QED BY <1>0, <2>3, <2>4 DEF Owed, Moves, HasCommand
<1>5. ASSUME NEW n \in Nif, n = getAgpsStateMachine(m.type),
             \/ m.kind = "opened" /\ reportAtlOpenSuccess(n)
             \/ m.kind = "failed" /\ reportAtlOpenFailed(n)
             \/ m.kind = "closed" /\ reportAtlClosed(n)
      PROVE  \A k \in Nif : Owed(k)'
  <2>1. \A k \in Nif : Moves(k)
    BY <1>2, <1>5, AnswerMoves
  <2>2. m.kind \in {"opened", "failed"} /\ mState[n] = "PENDING" =>
             mState'[n] \in {"RELEASED", "ACQUIRED"}
    BY <1>2, <1>5, AnswerMoves
  <2>3. \A k \in Nif, K \in {{"opened", "failed"}} :
          OnItsWay(k, K) /\ ~(m.kind \in K /\ k = n) => OnItsWay(k, K)'
    BY <1>1, <1>5 DEF OnItsWay
  <2> QED BY <1>0, <2>1, <2>2, <2>3 DEF Owed, Moves, HasCommand
<1>6. m.kind \in {"opened", "failed", "closed"} => getAgpsStateMachine(m.type) \in Nif
  BY <1>1, MsgFields, NifOfType
<1> QED BY <1>3, <1>4, <1>5, <1>6 DEF ProcMsg

\* One step leaves nobody waiting for nothing, but for an unusable APN.
LEMMA StepOwed ==
  ASSUME TypeOK, \A n \in Nif : Owed(n), [Next]_vars
  PROVE  \A n \in Nif : Owed(n)'
<1>1. ASSUME UNCHANGED <<mState, fwQ, stranded>>, Range(msgQ) \subseteq Range(msgQ')
      PROVE  \A n \in Nif : Owed(n)'
  BY <1>1 DEF Owed, HasCommand, OnItsWay
<1>2. ASSUME NEW atl \in AtlOffers, initAgps(atl)
      PROVE  \A n \in Nif : Owed(n)'
  BY <1>1, <1>2 DEF initAgps, smVars
<1>3. ASSUME NEW h \in Handles, NEW t \in AgpsTypes, ModemRequest(h, t)
      PROVE  \A n \in Nif : Owed(n)'
  <2>1. RequestMsg(h, t) \in Msgs
    BY DEF Msgs
  <2> QED BY <1>1, <1>3, <2>1, RangeAppend DEF ModemRequest, smVars, TypeOK
<1>4. ASSUME NEW h \in Handles, ModemRelease(h)
      PROVE  \A n \in Nif : Owed(n)'
  <2>1. ReleaseMsg(h) \in Msgs
    BY DEF Msgs
  <2> QED BY <1>1, <1>4, <2>1, RangeAppend DEF ModemRelease, smVars, TypeOK
<1>5. CASE ProcMsg
  BY <1>5, ProcMsgOwed
<1>6. ASSUME NEW n \in Nif, NEW c \in {"REQUEST", "RELEASE"}, NEW a \in {"opened", "failed", "closed"},
             FwNext(n, c), FwPop(n), Answer(n, a), UNCHANGED <<mState, stranded>>,
             c = "REQUEST" => a \in {"opened", "failed"}
      PROVE  \A k \in Nif : Owed(k)'
  <2>1. Range(fwQ[n]) = {Head(fwQ[n])} \cup Range(fwQ'[n]) /\ Head(fwQ[n]).cmd = c
    BY <1>6, PopTyped DEF FwNext
  <2>2. \A k \in Nif : k # n => fwQ'[k] = fwQ[k]
    BY <1>6 DEF FwPop, TypeOK
  <2>3. Range(msgQ') = Range(msgQ) \cup {FwMsg(a, FwType(n))}
    BY <1>6, AnswerTyped
  <2>4. FwMsg(a, FwType(n)).kind = a /\ getAgpsStateMachine(FwMsg(a, FwType(n)).type) = n
    BY DEF FwMsg, FwType, getAgpsStateMachine, Nif
  <2>5. \A K : a \in K => OnItsWay(n, K)'
    BY <2>3, <2>4 DEF OnItsWay
  <2>6. \A k, K : OnItsWay(k, K) => OnItsWay(k, K)'
    BY <2>3 DEF OnItsWay
  <2>7. \A k \in Nif, d \in {"REQUEST", "RELEASE"} : HasCommand(k, d) => HasCommand(k, d)' \/ (k = n /\ d = c)
    BY <2>1, <2>2 DEF HasCommand
  <2> QED BY <1>6, <2>5, <2>6, <2>7 DEF Owed
<1>11. ASSUME NEW n \in Nif, FwOpenedBadApn(n)
      PROVE  \A k \in Nif : Owed(k)'
  <2>1. n \in stranded' /\ stranded \subseteq stranded' /\ mState' = mState /\ msgQ' = msgQ
    BY <1>11 DEF FwOpenedBadApn, smVars
  <2>2. \A k \in Nif : k # n => fwQ'[k] = fwQ[k]
    BY <1>11 DEF FwOpenedBadApn, FwPop, TypeOK
  <2>3. \A k \in Nif : k # n => Owed(k)'
    BY <2>1, <2>2 DEF Owed, HasCommand, OnItsWay
  <2> QED BY <2>1, <2>3 DEF Owed
<1>7. ASSUME NEW n \in Nif, FwAnswer(n)
      PROVE  \A k \in Nif : Owed(k)'
  BY <1>6, <1>7, <1>11 DEF FwAnswer, FwOpened, FwOpenFailed, FwClosed, FwCloseFailed, smVars
<1>8. ASSUME NEW n \in Nif, FwLost(n)
      PROVE  \A k \in Nif : Owed(k)'
  BY <1>1, <1>8, AnswerTyped DEF FwLost, smVars
<1>9. ASSUME NEW n \in Nif, ReportClosedDirectly(n)
      PROVE  \A k \in Nif : Owed(k)'
  <2>1. /\ EventTypeOK /\ mAgpsType \in [Nif -> AgpsTypes] /\ reportAtlClosed(n)
        /\ msgQ' = msgQ /\ stranded' = stranded
    BY <1>9 DEF TypeOK, EventTypeOK, ReportClosedDirectly
  <2>2. \A k \in Nif : Moves(k)
    BY <2>1, AnswerMoves
  <2> QED BY <2>1, <2>2 DEF Owed, Moves, HasCommand, OnItsWay
<1>10. CASE UNCHANGED vars
  BY <1>1, <1>10 DEF vars, smVars
<1> QED BY <1>2, <1>3, <1>4, <1>5, <1>7, <1>8, <1>9, <1>10 DEF Next

\* A machine that waits for the framework has its command or the answer to it
\* under way, so no stale answer it ignored was the one it waits for.
THEOREM WaitingIsOwedAlways == Spec => []WaitingIsOwed
<1> DEFINE Inv == \A n \in Nif : Owed(n)
<1>1. Init => Inv
  BY DEF Init, Owed
<1>2. TypeOK /\ Inv /\ [Next]_vars => Inv'
  BY StepOwed
<1>3. Inv => WaitingIsOwed
  BY DEF Owed, HasCommand, WaitingIsOwed
<1> QED BY <1>1, <1>2, <1>3, Typed, PTL DEF Spec

---------------------------------------------------------------------------
(* The manager and the framework agree.                                    *)

Alternates(q) == \A i \in 1 .. Len(q) - 1 : q[i].cmd = "RELEASE" => q[i + 1].cmd = "REQUEST"
RequestLast(q) == q # <<>> => q[Len(q)].cmd = "REQUEST"
WantsConn(n) == mState[n] \in {"PENDING", "ACQUIRED"}

\* After a request anything may be sent, a request at any time.
LEMMA AlternatesAppended ==
  ASSUME NEW q \in Seq(Commands), NEW x \in Commands, Alternates(q),
         x.cmd = "REQUEST" \/ RequestLast(q)
  PROVE  /\ Alternates(Append(q, x))
         /\ x.cmd = "REQUEST" => RequestLast(Append(q, x))
<1> DEFINE r == Append(q, x)
<1>1. /\ Len(r) = Len(q) + 1 /\ r[Len(q) + 1] = x /\ Len(q) \in Nat
      /\ \A i \in 1 .. Len(q) : r[i] = q[i]
  BY AppendProperties, LenProperties
<1> HIDE DEF r
<1>2. ASSUME NEW i \in 1 .. Len(r) - 1, r[i].cmd = "RELEASE"
      PROVE  r[i + 1].cmd = "REQUEST"
  <2>1. CASE i = Len(q)
    <3>1. q # <<>> /\ q[Len(q)].cmd = "RELEASE"
      BY <1>1, <1>2, <2>1, EmptySeq
    <3> QED BY <1>1, <2>1, <3>1 DEF RequestLast
  <2>2. CASE i # Len(q)
    BY <1>1, <1>2, <2>2 DEF Alternates
  <2> QED BY <2>1, <2>2
<1>3. Alternates(r)
  BY <1>2 DEF Alternates
<1>4. x.cmd = "REQUEST" => RequestLast(r)
  BY <1>1 DEF RequestLast
<1> QED BY <1>3, <1>4 DEF r

LEMMA AlternatesTaken ==
  ASSUME NEW q \in Seq(Commands), q # <<>>, Alternates(q)
  PROVE  /\ Alternates(Tail(q))
         /\ RequestLast(q) => RequestLast(Tail(q))
<1> DEFINE r == Tail(q)
<1>1. /\ r \in Seq(Commands) /\ Len(r) = Len(q) - 1 /\ Len(q) \in Nat \ {0}
      /\ \A i \in 1 .. Len(r) : r[i] = q[i + 1]
  BY HeadTailProperties, EmptySeq
<1>2. r # <<>> => Len(r) \in Nat \ {0}
  BY <1>1, EmptySeq
<1> HIDE DEF r
<1>3. Alternates(r)
  BY <1>1 DEF Alternates
<1>4. RequestLast(q) => RequestLast(r)
  BY <1>1, <1>2 DEF RequestLast
<1> QED BY <1>3, <1>4 DEF r

\* What an event may send: nothing, a request, or a release of what machine k
\* waited for or held, and no longer does.
Sends(k) ==
  \/ fwQ'[k] = fwQ[k] /\ (WantsConn(k)' => WantsConn(k))
  \/ \E x \in Commands :
       /\ fwQ'[k] = Append(fwQ[k], x)
       /\ x.cmd = "REQUEST" \/ (WantsConn(k) /\ ~WantsConn(k)')

\* Only an answer to an open makes a machine ACQUIRED.
Acquires(k) == mState'[k] = "ACQUIRED" /\ mState[k] # "ACQUIRED"

LEMMA SentIs ==
  ASSUME EventTypeOK, NEW n \in Nif, NEW c \in {"REQUEST", "RELEASE"},
         NEW t \in AgpsTypes, requestOrReleaseDataConn(n, c, t)
  PROVE  /\ \E x \in Commands : fwQ'[n] = Append(fwQ[n], x) /\ x.cmd = c
         /\ \A k \in Nif \ {n} : fwQ'[k] = fwQ[k]
<1>1. [cmd |-> c, type |-> t] \in Commands /\ [cmd |-> c, type |-> t].cmd = c
  BY DEF Commands
<1>2. /\ fwQ'[n] = Append(fwQ[n], [cmd |-> c, type |-> t])
      /\ \A k \in Nif \ {n} : fwQ'[k] = fwQ[k]
  BY DEF requestOrReleaseDataConn, EventTypeOK
<1> QED BY <1>1, <1>2

LEMMA SubscribeSends ==
  ASSUME EventTypeOK, NEW n \in Nif, NEW h \in Handles, NEW t \in AgpsTypes,
         processAgpsEventSubscribe(n, h, t)
  PROVE  \A k \in Nif : Sends(k) /\ ~Acquires(k)
<1> USE DEF processAgpsEventSubscribe, transitionState, Sends, Acquires, WantsConn
<1>1. CASE mState[n] = "RELEASED"
  BY <1>1, SentIs, SMTT(20) DEF EventTypeOK
<1>2. CASE mState[n] # "RELEASED"
  BY <1>2 DEF EventTypeOK
<1> QED BY <1>1, <1>2

LEMMA UnsubscribeSends ==
  ASSUME EventTypeOK, mAgpsType \in [Nif -> AgpsTypes],
         NEW n \in Nif, NEW h, processAgpsEventUnsubscribe(n, h)
  PROVE  \A k \in Nif : Sends(k) /\ ~Acquires(k)
<1>1. CASE UNCHANGED <<mState, fwQ>>
  BY <1>1 DEF Sends, Acquires, WantsConn
<1>2. CASE /\ mState[n] # "RELEASED"
           /\ transitionState(n, "RELEASED")
           /\ requestOrReleaseDataConn(n, "RELEASE", mAgpsType[n])
  <2>1. WantsConn(n) /\ ~WantsConn(n)'
    BY <1>2 DEF transitionState, EventTypeOK, States, WantsConn
  <2>2. Sends(n) /\ ~Acquires(n)
    BY <1>2, <2>1, SentIs DEF transitionState, EventTypeOK, Sends, Acquires
  <2>3. \A k \in Nif \ {n} : Sends(k) /\ ~Acquires(k)
    BY <1>2, SentIs DEF transitionState, EventTypeOK, Sends, Acquires, WantsConn
  <2> QED BY <2>2, <2>3
<1> QED BY <1>1, <1>2 DEF processAgpsEventUnsubscribe, smVars

LEMMA AnswerSends ==
  ASSUME EventTypeOK, NEW n \in Nif,
         \/ reportAtlOpenSuccess(n) \/ reportAtlOpenFailed(n) \/ reportAtlClosed(n)
  PROVE  /\ \A k \in Nif : Sends(k)
         /\ \A k \in Nif : Acquires(k) => k = n /\ processAgpsEventGranted(n)
         /\ reportAtlClosed(n) => mState'[n] # "ACQUIRED"
<1> USE DEF reportAtlOpenSuccess, reportAtlOpenFailed, reportAtlClosed,
            processAgpsEventReleased, processAgpsEventDenied, Acquires, WantsConn
<1>1. CASE processAgpsEventGranted(n)
  BY <1>1 DEF processAgpsEventGranted, dropAllNotified, transitionState, smVars, EventTypeOK, Sends
<1>2. CASE dropAllNotified(n)
  BY <1>2 DEF dropAllNotified, transitionState, EventTypeOK, Sends
<1>3. CASE /\ UNCHANGED <<smVars, fwQ, modem>>
           /\ ~dropAllNotified(n) /\ ~processAgpsEventGranted(n)
  BY <1>3 DEF smVars, Sends
<1> QED BY <1>1, <1>2, <1>3

\* The commands before the framework, and those it has handled: an open that
\* the adapter has yet to hear of is up, or its close comes after it.
Opens(m, n) == m.kind = "opened" /\ getAgpsStateMachine(m.type) = n
Closes(m, n) == m.kind = "closed" /\ getAgpsStateMachine(m.type) = n
CloseFrom(i, n) == \E j \in 1 .. Len(msgQ) : j >= i /\ Closes(msgQ[j], n)

Ordered(n) == Alternates(fwQ[n]) /\ (WantsConn(n) => RequestLast(fwQ[n]))
Covered(n) == \A i \in 1 .. Len(msgQ) : Opens(msgQ[i], n) => fwConn[n] \/ CloseFrom(i, n)
Backed(n) == mState[n] = "ACQUIRED" => fwConn[n] \/ CloseFrom(1, n)
Agreed(n) == Ordered(n) /\ Covered(n) /\ Backed(n)

LEMMA SendsOrdered ==
  ASSUME TypeOK, NEW n \in Nif, Ordered(n), Sends(n)
  PROVE  Ordered(n)'
<1>1. fwQ[n] \in Seq(Commands)
  BY DEF TypeOK
<1>2. CASE fwQ'[n] = fwQ[n] /\ (WantsConn(n)' => WantsConn(n))
  BY <1>2 DEF Ordered
<1>3. ASSUME NEW x \in Commands, fwQ'[n] = Append(fwQ[n], x),
             x.cmd = "REQUEST" \/ (WantsConn(n) /\ ~WantsConn(n)')
      PROVE  Ordered(n)'
  <2>1. x.cmd = "REQUEST" \/ RequestLast(fwQ[n])
    BY <1>3 DEF Ordered
  <2>2. /\ Alternates(fwQ'[n])
        /\ x.cmd = "REQUEST" => RequestLast(fwQ'[n])
    BY <1>1, <1>3, <2>1, AlternatesAppended DEF Ordered
  <2> QED BY <1>3, <2>2 DEF Ordered
<1> QED BY <1>2, <1>3 DEF Sends

\* A message sent: an open finds the connection up, a loss comes with a close.
LEMMA SentCovered ==
  ASSUME TypeOK, NEW n \in Nif, Covered(n), Backed(n), mState'[n] = mState[n],
         NEW m \in Msgs, msgQ' = Append(msgQ, m),
         Opens(m, n) => fwConn'[n],
         fwConn[n] => fwConn'[n] \/ Closes(m, n)
  PROVE  Covered(n)' /\ Backed(n)'
<1>1. /\ Len(msgQ') = Len(msgQ) + 1 /\ msgQ'[Len(msgQ) + 1] = m /\ Len(msgQ) \in Nat
      /\ \A i \in 1 .. Len(msgQ) : msgQ'[i] = msgQ[i]
  BY AppendProperties, LenProperties DEF TypeOK
<1>2. \A i \in 1 .. Len(msgQ) : CloseFrom(i, n) \/ Closes(m, n) => CloseFrom(i, n)'
  BY <1>1 DEF CloseFrom
<1>3. CloseFrom(1, n) \/ Closes(m, n) => CloseFrom(1, n)'
  BY <1>1 DEF CloseFrom
<1>4. Covered(n)'
  BY <1>1, <1>2 DEF Covered
<1>5. Backed(n)'
  BY <1>3 DEF Backed
<1> QED BY <1>4, <1>5

\* A message taken.
LEMMA TakenCovered ==
  ASSUME TypeOK, NEW n \in Nif, Covered(n), Backed(n), fwConn' = fwConn,
         msgQ # <<>>, msgQ' = Tail(msgQ),
         mState'[n] = "ACQUIRED" =>
            \/ mState[n] = "ACQUIRED" /\ ~Closes(Head(msgQ), n)
            \/ Opens(Head(msgQ), n)
  PROVE  Covered(n)' /\ Backed(n)'
<1>1. /\ Len(msgQ') = Len(msgQ) - 1 /\ Len(msgQ) \in Nat \ {0} /\ Head(msgQ) = msgQ[1]
      /\ \A i \in 1 .. Len(msgQ') : msgQ'[i] = msgQ[i + 1]
  BY HeadTailProperties, EmptySeq DEF TypeOK
<1>2. ASSUME NEW i \in 1 .. Len(msgQ), CloseFrom(i, n), i > 1 \/ ~Closes(msgQ[1], n)
      PROVE  \A k \in 1 .. Len(msgQ) : k + 1 <= i \/ k = 1 => CloseFrom(k, n)'
  <2>1. PICK j \in 1 .. Len(msgQ) : j >= i /\ Closes(msgQ[j], n)
    BY <1>2 DEF CloseFrom
  <2>2. j # 1
    BY <1>2, <2>1
  <2>3. j - 1 \in 1 .. Len(msgQ') /\ msgQ'[j - 1] = msgQ[j]
    BY <1>1, <2>1, <2>2
  <2>4. \A k \in 1 .. Len(msgQ) : k + 1 <= i \/ k = 1 => j - 1 >= k
    BY <1>1, <2>1, <2>2
  <2> QED BY <2>1, <2>3, <2>4 DEF CloseFrom
<1>3. ASSUME NEW i \in 1 .. Len(msgQ'), Opens(msgQ'[i], n), ~fwConn[n]
      PROVE  CloseFrom(i, n)'
  <2>1. i + 1 \in 1 .. Len(msgQ) /\ i \in 1 .. Len(msgQ) /\ i + 1 > 1 /\ i + 1 <= i + 1
    BY <1>1
  <2>2. CloseFrom(i + 1, n)
    BY <1>1, <1>3, <2>1 DEF Covered
  <2> QED BY <1>2, <2>1, <2>2
<1>4. Covered(n)'
  BY <1>3 DEF Covered
<1>5. ASSUME mState'[n] = "ACQUIRED", ~fwConn[n]
      PROVE  CloseFrom(1, n)'
  <2>1. 1 \in 1 .. Len(msgQ)
    BY <1>1
  <2>2. CloseFrom(1, n) /\ ~Closes(msgQ[1], n)
    <3>1. CASE mState[n] = "ACQUIRED" /\ ~Closes(Head(msgQ), n)
      BY <1>1, <1>5, <3>1 DEF Backed
    <3>2. CASE Opens(Head(msgQ), n)
      BY <1>1, <1>5, <2>1, <3>2 DEF Covered, Opens, Closes
    <3> QED BY <1>5, <3>1, <3>2
  <2> QED BY <1>2, <2>1, <2>2
<1>6. Backed(n)'
  BY <1>5 DEF Backed
<1> QED BY <1>4, <1>6

LEMMA ProcMsgAgreed ==
  ASSUME TypeOK, \A n \in Nif : Agreed(n), ProcMsg
  PROVE  \A n \in Nif : Agreed(n)'
<1> DEFINE m == Head(msgQ)
<1>1. m \in Msgs
  BY RangeTail DEF ProcMsg, TypeOK
<1>2. EventTypeOK /\ mAgpsType \in [Nif -> AgpsTypes]
  BY DEF TypeOK, EventTypeOK
<1>3. msgQ # <<>> /\ msgQ' = Tail(msgQ) /\ fwConn' = fwConn
  BY DEF ProcMsg
<1>4. ASSUME \A n \in Nif : Sends(n),
             \A n \in Nif : Acquires(n) => Opens(m, n),
             \A n \in Nif : Closes(m, n) => mState'[n] # "ACQUIRED"
      PROVE  \A n \in Nif : Agreed(n)'
  <2> TAKE n \in Nif
  <2>1. Ordered(n)'
    BY <1>4, SendsOrdered DEF Agreed
  <2>2. mState'[n] = "ACQUIRED" =>
           \/ mState[n] = "ACQUIRED" /\ ~Closes(m, n)
           \/ Opens(m, n)
    BY <1>4 DEF Acquires
  <2>3. Covered(n)' /\ Backed(n)'
    BY <1>3, <2>2, TakenCovered DEF Agreed
  <2> QED BY <2>1, <2>3 DEF Agreed
<1>5. CASE m.kind = "request" /\ requestATL(m.h, m.type)
  <2> DEFINE t == IF ~UseEmergencyPdn /\ m.type = "SUPL_ES" THEN "SUPL" ELSE m.type
  <2>1. m.h \in Handles /\ t \in AgpsTypes /\ getAgpsStateMachine(t) \in Nif
    BY <1>1, <1>5, MsgFields, NifOfType DEF AgpsTypes
  <2>2. \/ processAgpsEventSubscribe(getAgpsStateMachine(t), m.h, t)
        \/ UNCHANGED <<smVars, fwQ>>
    BY <1>5 DEF requestATL
  <2>3. \A k \in Nif : Sends(k) /\ ~Acquires(k)
    BY <2>1, <2>2, <1>2, SubscribeSends DEF smVars, Sends, Acquires, WantsConn
  <2>4. \A k \in Nif : ~Closes(m, k)
    BY <1>5 DEF Closes
  <2> QED BY <1>4, <2>3, <2>4
<1>6. CASE m.kind = "release" /\ releaseATL(m.h)
  <2> DEFINE n == IF "agnss" \in {k \in created : m.h \in mSubscriberList[k]}
                  THEN "agnss" ELSE "internet"
  <2>1. n \in Nif
    BY DEF Nif
  <2>2. processAgpsEventUnsubscribe(n, m.h) \/ UNCHANGED <<smVars, fwQ>>
    BY <1>6 DEF releaseATL
  <2>3. \A k \in Nif : Sends(k) /\ ~Acquires(k)
    BY <2>1, <2>2, <1>2, UnsubscribeSends DEF smVars, Sends, Acquires, WantsConn
  <2>4. \A k \in Nif : ~Closes(m, k)
    BY <1>6 DEF Closes
  <2> QED BY <1>4, <2>3, <2>4
<1>7. ASSUME NEW n \in Nif, n = getAgpsStateMachine(m.type),
             \/ m.kind = "opened" /\ reportAtlOpenSuccess(n)
             \/ m.kind = "failed" /\ reportAtlOpenFailed(n)
             \/ m.kind = "closed" /\ reportAtlClosed(n)
      PROVE  \A k \in Nif : Agreed(k)'
  <2>1. /\ \A k \in Nif : Sends(k)
        /\ \A k \in Nif : Acquires(k) => k = n /\ processAgpsEventGranted(n)
        /\ reportAtlClosed(n) => mState'[n] # "ACQUIRED"
    BY <1>2, <1>7, AnswerSends
  <2>2. \A k \in Nif : Closes(m, k) => mState'[k] # "ACQUIRED"
    BY <1>7, <2>1 DEF Closes
  <2>3. m.kind # "opened" => ~Acquires(n)
    BY <1>7 DEF reportAtlOpenFailed, reportAtlClosed, processAgpsEventDenied, processAgpsEventReleased,
                dropAllNotified, transitionState, smVars, Acquires, TypeOK
  <2>4. \A k \in Nif : Acquires(k) => Opens(m, k)
    BY <1>7, <2>1, <2>3 DEF Opens
  <2> QED BY <1>4, <2>1, <2>2, <2>4
<1>8. m.kind \in {"opened", "failed", "closed"} => getAgpsStateMachine(m.type) \in Nif
  BY <1>1, MsgFields, NifOfType
<1> QED BY <1>5, <1>6, <1>7, <1>8 DEF ProcMsg

\* A command handled by the framework, and perhaps answered.
LEMMA PoppedOrdered ==
  ASSUME TypeOK, \A k \in Nif : Ordered(k), NEW n \in Nif, NEW c, FwNext(n, c), FwPop(n), mState' = mState
  PROVE  \A k \in Nif : Ordered(k)'
<1>1. fwQ[n] \in Seq(Commands) /\ fwQ[n] # <<>>
  BY DEF TypeOK, FwNext
<1>2. fwQ'[n] = Tail(fwQ[n]) /\ \A k \in Nif \ {n} : fwQ'[k] = fwQ[k]
  BY DEF FwPop, TypeOK
<1>3. Ordered(n)'
  BY <1>1, <1>2, AlternatesTaken DEF Ordered, WantsConn
<1>4. \A k \in Nif \ {n} : Ordered(k)'
  BY <1>2 DEF Ordered, WantsConn
<1> QED BY <1>3, <1>4

\* An answer, or a loss that nobody asked for.
LEMMA AnsweredCovered ==
  ASSUME TypeOK, \A k \in Nif : Agreed(k), mState' = mState,
         NEW n \in Nif, NEW a \in {"opened", "failed", "closed"}, Answer(n, a),
         \A k \in Nif \ {n} : fwConn'[k] = fwConn[k],
         a = "opened" => fwConn'[n],
         fwConn[n] => fwConn'[n] \/ a = "closed"
  PROVE  \A k \in Nif : Covered(k)' /\ Backed(k)'
<1> DEFINE m == FwMsg(a, FwType(n))
<1>1. m \in Msgs /\ msgQ' = Append(msgQ, m)
  BY AnswerTyped DEF Answer
<1>2. m.kind = a /\ getAgpsStateMachine(m.type) = n
  BY DEF FwMsg, FwType, getAgpsStateMachine, Nif
<1> HIDE DEF m
<1> TAKE k \in Nif
<1>3. /\ Opens(m, k) => fwConn'[k]
      /\ fwConn[k] => fwConn'[k] \/ Closes(m, k)
  BY <1>2 DEF Opens, Closes
<1> QED BY <1>1, <1>3, SentCovered DEF Agreed

LEMMA StepAgreed ==
  ASSUME TypeOK, \A n \in Nif : Agreed(n), [Next]_vars
  PROVE  \A n \in Nif : Agreed(n)'
<1>1. ASSUME UNCHANGED <<mState, fwQ, fwConn, msgQ>>
      PROVE  \A n \in Nif : Agreed(n)'
  BY <1>1 DEF Agreed, Ordered, Covered, Backed, CloseFrom, WantsConn
<1>2. ASSUME NEW atl \in AtlOffers, initAgps(atl)
      PROVE  \A n \in Nif : Agreed(n)'
  BY <1>1, <1>2 DEF initAgps, smVars
<1>3. ASSUME NEW m \in Msgs, m.kind \in {"request", "release"}, msgQ' = Append(msgQ, m),
             UNCHANGED <<mState, fwQ, fwConn>>
      PROVE  \A n \in Nif : Agreed(n)'
  <2> TAKE n \in Nif
  <2>1. Ordered(n)'
    BY <1>3 DEF Agreed, Ordered, WantsConn
  <2>2. ~Opens(m, n)
    BY <1>3 DEF Opens
  <2>3. Covered(n)' /\ Backed(n)'
    BY <1>3, <2>2, SentCovered DEF Agreed
  <2> QED BY <2>1, <2>3 DEF Agreed
<1>4. ASSUME NEW h \in Handles, NEW t \in AgpsTypes, ModemRequest(h, t)
      PROVE  \A n \in Nif : Agreed(n)'
  <2>1. RequestMsg(h, t) \in Msgs /\ RequestMsg(h, t).kind = "request"
    BY DEF Msgs, RequestMsg
  <2> QED BY <1>3, <1>4, <2>1 DEF ModemRequest, smVars
<1>5. ASSUME NEW h \in Handles, ModemRelease(h)
      PROVE  \A n \in Nif : Agreed(n)'
  <2>1. ReleaseMsg(h) \in Msgs /\ ReleaseMsg(h).kind = "release"
    BY DEF Msgs, ReleaseMsg
  <2> QED BY <1>3, <1>5, <2>1 DEF ModemRelease, smVars
<1>6. CASE ProcMsg
  BY <1>6, ProcMsgAgreed
<1>7. ASSUME NEW n \in Nif, FwOpened(n) \/ FwOpenFailed(n) \/ FwClosed(n) \/ FwCloseFailed(n)
      PROVE  \A k \in Nif : Agreed(k)'
  <2>1. /\ mState' = mState /\ FwPop(n) /\ (FwNext(n, "REQUEST") \/ FwNext(n, "RELEASE"))
        /\ \A k \in Nif \ {n} : fwConn'[k] = fwConn[k]
    BY <1>7 DEF FwOpened, FwOpenFailed, FwClosed, FwCloseFailed, smVars, TypeOK
  <2>2. \E a \in {"opened", "failed", "closed"} :
          Answer(n, a) /\ (a = "opened" => fwConn'[n]) /\ (fwConn[n] => fwConn'[n] \/ a = "closed")
    BY <1>7 DEF FwOpened, FwOpenFailed, FwClosed, FwCloseFailed, TypeOK
  <2>3. \A k \in Nif : Covered(k)' /\ Backed(k)'
    BY <2>1, <2>2, AnsweredCovered
  <2>4. \A k \in Nif : Ordered(k)'
    BY <2>1, PoppedOrdered DEF Agreed
  <2> QED BY <2>3, <2>4 DEF Agreed
<1>8. ASSUME NEW n \in Nif, FwOpenedBadApn(n)
      PROVE  \A k \in Nif : Agreed(k)'
  <2>1. /\ mState' = mState /\ msgQ' = msgQ /\ FwPop(n) /\ FwNext(n, "REQUEST")
        /\ \A k \in Nif : fwConn[k] => fwConn'[k]
    BY <1>8 DEF FwOpenedBadApn, smVars, TypeOK
  <2>2. \A k \in Nif : Ordered(k)'
    BY <2>1, PoppedOrdered DEF Agreed
  <2> QED BY <2>1, <2>2 DEF Agreed, Covered, Backed, CloseFrom
<1>9. ASSUME NEW n \in Nif, FwLost(n)
      PROVE  \A k \in Nif : Agreed(k)'
  <2>1. /\ mState' = mState /\ fwQ' = fwQ /\ Answer(n, "closed")
        /\ \A k \in Nif \ {n} : fwConn'[k] = fwConn[k]
    BY <1>9 DEF FwLost, smVars, TypeOK
  <2>2. \A k \in Nif : Covered(k)' /\ Backed(k)'
    BY <2>1, AnsweredCovered
  <2> QED BY <2>1, <2>2 DEF Agreed, Ordered, WantsConn
<1>10. ASSUME NEW n \in Nif, ReportClosedDirectly(n)
       PROVE  \A k \in Nif : Agreed(k)'
  <2>1. /\ EventTypeOK /\ mAgpsType \in [Nif -> AgpsTypes] /\ reportAtlClosed(n)
        /\ msgQ' = msgQ /\ fwConn' = fwConn
    BY <1>10 DEF TypeOK, EventTypeOK, ReportClosedDirectly
  <2>2. /\ \A k \in Nif : Sends(k)
        /\ \A k \in Nif : Acquires(k) => k = n
        /\ mState'[n] # "ACQUIRED"
    BY <2>1, AnswerSends
  <2>3. \A k \in Nif : Ordered(k)'
    BY <2>2, SendsOrdered DEF Agreed
  <2>4. \A k \in Nif : Backed(k)'
    BY <2>1, <2>2 DEF Agreed, Backed, Acquires, CloseFrom
  <2>5. \A k \in Nif : Covered(k)'
    BY <2>1 DEF Agreed, Covered, CloseFrom
  <2> QED BY <2>3, <2>4, <2>5 DEF Agreed
<1>11. CASE UNCHANGED vars
  BY <1>1, <1>11 DEF vars, smVars
<1> QED BY <1>2, <1>4, <1>5, <1>6, <1>7, <1>8, <1>9, <1>10, <1>11 DEF Next, FwAnswer

LEMMA AgreedIsAgreed ==
  ASSUME TypeOK, \A n \in Nif : Agreed(n)
  PROVE  FrameworkAgrees
<1> SUFFICES ASSUME NEW n \in Nif
             PROVE  /\ \A i \in 1 .. Len(fwQ[n]) - 1 :
                         fwQ[n][i].cmd = "RELEASE" => fwQ[n][i + 1].cmd = "REQUEST"
                    /\ mState[n] \in {"PENDING", "ACQUIRED"} /\ fwQ[n] # <<>> =>
                         fwQ[n][Len(fwQ[n])].cmd = "REQUEST"
                    /\ mState[n] = "ACQUIRED" => fwConn[n] \/ OnItsWay(n, {"closed"})
  BY DEF FrameworkAgrees
<1>1. Range(msgQ) = {msgQ[i] : i \in 1 .. Len(msgQ)}
  BY RangeEquality DEF TypeOK
<1>2. CloseFrom(1, n) => OnItsWay(n, {"closed"})
  BY <1>1 DEF CloseFrom, Closes, OnItsWay
<1> QED BY <1>2 DEF Agreed, Ordered, Backed, Alternates, RequestLast, WantsConn

\* The manager and the framework agree on every connection: none is given up
\* twice, the latest command of a machine that waits for one or holds it is the
\* request, and an acquired one is up or its close is on its way (Agps.cpp,
\* requestOrReleaseDataConn and its callers).
THEOREM FrameworkAgreesAlways == Spec => []FrameworkAgrees
<1> DEFINE Inv == \A n \in Nif : Agreed(n)
<1>1. Init => Inv
  <2> SUFFICES ASSUME Init, NEW n \in Nif PROVE Agreed(n)
    OBVIOUS
  <2>1. fwQ[n] = <<>> /\ msgQ = <<>> /\ mState[n] = "RELEASED"
    BY DEF Init
  <2> QED BY <2>1 DEF Agreed, Ordered, Covered, Backed, Alternates, WantsConn
<1>2. TypeOK /\ Inv /\ [Next]_vars => Inv'
  BY StepAgreed
<1>3. TypeOK /\ Inv => FrameworkAgrees
  BY AgreedIsAgreed
<1> QED BY <1>1, <1>2, <1>3, Typed, PTL DEF Spec

---------------------------------------------------------------------------
(* What the modem thinks of a handle, against its messages and the lists.  *)

IsReq(m, h) == m.kind = "request" /\ m.h = h
IsRel(m, h) == m.kind = "release" /\ m.h = h

\* A request of the handle is queued; a release with no request after it is.
HasReq(q, h) == \E i \in 1 .. Len(q) : IsReq(q[i], h)
LateRel(q, h) ==
  \E i \in 1 .. Len(q) : IsRel(q[i], h) /\ \A k \in 1 .. Len(q) : IsReq(q[k], h) => k < i

\* At most one request is queued, and at most one release on each side of it.
Shape(q, h) ==
  /\ \A i, j \in 1 .. Len(q) : IsReq(q[i], h) /\ IsReq(q[j], h) => i = j
  /\ \A i, j \in 1 .. Len(q) : IsRel(q[i], h) /\ IsRel(q[j], h) /\ i < j =>
        \E k \in 1 .. Len(q) : i < k /\ k < j /\ IsReq(q[k], h)

On(h) == {n \in Nif : h \in mSubscriberList[n]}

\* A handle whose session was ended may have an old release before its next
\* request; a closing one is subscribed until its last release is handled.
Known(h) ==
  /\ On(h) \subseteq created /\ \A n, k \in On(h) : n = k
  /\ HasReq(msgQ, h) => On(h) = {} /\ modem[h] \in {"opening", "closing"}
  /\ LateRel(msgQ, h) => modem[h] \in {"idle", "closing"}
  /\ modem[h] = "idle" => On(h) = {}
  /\ modem[h] = "opening" => HasReq(msgQ, h) \/ \E n \in On(h) : mState[n] # "ACQUIRED"
  /\ modem[h] = "open" => \E n \in On(h) : mState[n] = "ACQUIRED"
  /\ modem[h] = "closing" => LateRel(msgQ, h) /\ (HasReq(msgQ, h) \/ On(h) # {})

\* A message at the end of the queue: one of somebody else changes nothing.
LEMMA ShapeAppended ==
  ASSUME NEW q \in Seq(Msgs), NEW m \in Msgs, NEW h, Shape(q, h)
  PROVE  /\ ~IsReq(m, h) /\ ~IsRel(m, h) =>
              /\ Shape(Append(q, m), h)
              /\ HasReq(Append(q, m), h) <=> HasReq(q, h)
              /\ LateRel(Append(q, m), h) <=> LateRel(q, h)
         /\ IsReq(m, h) /\ ~HasReq(q, h) =>
              Shape(Append(q, m), h) /\ HasReq(Append(q, m), h) /\ ~LateRel(Append(q, m), h)
         /\ IsRel(m, h) /\ ~LateRel(q, h) =>
              /\ Shape(Append(q, m), h) /\ LateRel(Append(q, m), h)
              /\ HasReq(Append(q, m), h) <=> HasReq(q, h)
<1> DEFINE r == Append(q, m)
           k == Len(q) + 1
<1>1. /\ Len(q) \in Nat /\ Len(r) = k /\ r[k] = m
      /\ \A i \in 1 .. Len(q) : r[i] = q[i]
  BY AppendProperties, LenProperties
<1>2. \A i : i \in 1 .. Len(r) <=> i \in 1 .. Len(q) \/ i = k
  BY <1>1
<1>3. k \notin 1 .. Len(q) /\ \A i \in 1 .. Len(q) : i < k /\ ~(k < i)
  BY <1>1
<1> HIDE DEF r, k
<1>4. IsReq(m, h) => ~IsRel(m, h)
  BY DEF IsReq, IsRel
<1>5. CASE ~IsReq(m, h) /\ ~IsRel(m, h)
  <2>1. \A i \in 1 .. Len(r) : IsReq(r[i], h) \/ IsRel(r[i], h) => i \in 1 .. Len(q) /\ r[i] = q[i]
    BY <1>1, <1>2, <1>5
  <2>2. Shape(r, h)
    BY <1>1, <1>2, <2>1 DEF Shape
  <2>3. HasReq(r, h) <=> HasReq(q, h)
    BY <1>1, <1>2, <2>1 DEF HasReq
  <2>4. LateRel(r, h) <=> LateRel(q, h)
    BY <1>1, <1>2, <2>1 DEF LateRel
  <2> QED BY <1>5, <2>2, <2>3, <2>4 DEF r
<1>6. CASE IsReq(m, h) /\ ~HasReq(q, h)
  <2>1. \A i \in 1 .. Len(r) : IsReq(r[i], h) <=> i = k
    BY <1>1, <1>2, <1>6 DEF HasReq
  <2>2. \A i \in 1 .. Len(r) : IsRel(r[i], h) => i \in 1 .. Len(q) /\ r[i] = q[i]
    BY <1>1, <1>2, <1>4, <1>6
  <2>3. Shape(r, h)
    BY <1>1, <1>2, <1>6, <2>1, <2>2 DEF Shape, HasReq
  <2>4. k \in 1 .. Len(r)
    BY <1>2
  <2>5. HasReq(r, h)
    BY <2>1, <2>4 DEF HasReq
  <2>6. ~LateRel(r, h)
    BY <1>3, <2>1, <2>2, <2>4 DEF LateRel
  <2> QED BY <1>4, <1>6, <2>3, <2>5, <2>6 DEF r
<1>7. CASE IsRel(m, h) /\ ~LateRel(q, h)
  <2>1. \A i \in 1 .. Len(r) : IsReq(r[i], h) => i \in 1 .. Len(q) /\ r[i] = q[i]
    BY <1>1, <1>2, <1>4, <1>7
  <2>2. HasReq(r, h) <=> HasReq(q, h)
    BY <1>1, <1>2, <2>1 DEF HasReq
  <2>3. LateRel(r, h)
    BY <1>1, <1>2, <1>3, <1>7, <2>1 DEF LateRel
  <2>4. \A i, j \in 1 .. Len(r) : IsReq(r[i], h) /\ IsReq(r[j], h) => i = j
    BY <2>1 DEF Shape
  <2>5. ASSUME NEW i \in 1 .. Len(r), NEW j \in 1 .. Len(r), IsRel(r[i], h), IsRel(r[j], h), i < j
        PROVE  \E l \in 1 .. Len(r) : i < l /\ l < j /\ IsReq(r[l], h)
    <3>1. i \in 1 .. Len(q) /\ IsRel(q[i], h)
      BY <1>1, <1>2, <1>3, <2>5
    <3>2. CASE j \in 1 .. Len(q)
      BY <1>1, <1>2, <2>5, <3>1, <3>2 DEF Shape
    <3>3. CASE j = k
      <4>1. PICK l \in 1 .. Len(q) : IsReq(q[l], h) /\ ~(l < i)
        BY <1>7, <3>1 DEF LateRel
      <4>2. l # i
        BY <3>1, <4>1 DEF IsReq, IsRel
      <4>3. i < l /\ l < j
        BY <1>3, <3>1, <3>3, <4>1, <4>2
      <4> QED BY <1>1, <1>2, <4>1, <4>3
    <3> QED BY <1>2, <3>2, <3>3
  <2>6. Shape(r, h)
    BY <2>4, <2>5 DEF Shape
  <2> QED BY <1>4, <1>7, <2>2, <2>3, <2>6 DEF r
<1> QED BY <1>4, <1>5, <1>6, <1>7 DEF r

\* The head taken off the queue.
LEMMA ShapeTaken ==
  ASSUME NEW q \in Seq(Msgs), q # <<>>, NEW h, Shape(q, h)
  PROVE  /\ Shape(Tail(q), h)
         /\ ~IsReq(Head(q), h) /\ ~IsRel(Head(q), h) =>
              /\ HasReq(Tail(q), h) <=> HasReq(q, h)
              /\ LateRel(Tail(q), h) <=> LateRel(q, h)
         /\ IsReq(Head(q), h) =>
              /\ HasReq(q, h) /\ ~HasReq(Tail(q), h)
              /\ LateRel(Tail(q), h) <=> LateRel(q, h)
         /\ IsRel(Head(q), h) =>
              /\ HasReq(Tail(q), h) <=> HasReq(q, h)
              /\ HasReq(q, h) => (LateRel(Tail(q), h) <=> LateRel(q, h))
              /\ ~HasReq(q, h) => LateRel(q, h) /\ ~LateRel(Tail(q), h)
<1> DEFINE r == Tail(q)
<1>1. /\ Len(q) \in Nat \ {0} /\ Len(r) = Len(q) - 1 /\ Head(q) = q[1]
      /\ \A i \in 1 .. Len(r) : r[i] = q[i + 1]
  BY HeadTailProperties, EmptySeq
<1>2. \A i \in 1 .. Len(r) : i \in Nat /\ i + 1 \in 1 .. Len(q) /\ 1 < i + 1
  BY <1>1
<1>3. \A i \in 1 .. Len(q) : i \in Nat /\ (i = 1 \/ (i - 1 \in 1 .. Len(r) /\ r[i - 1] = q[i] /\ 1 < i))
  BY <1>1
<1>4. 1 \in 1 .. Len(q)
  BY <1>1
<1> HIDE DEF r
<1>5. Shape(r, h)
  <2>1. \A i, j \in 1 .. Len(r) : IsReq(r[i], h) /\ IsReq(r[j], h) => i = j
    BY <1>1, <1>2 DEF Shape
  <2>2. ASSUME NEW i \in 1 .. Len(r), NEW j \in 1 .. Len(r), IsRel(r[i], h), IsRel(r[j], h), i < j
        PROVE  \E l \in 1 .. Len(r) : i < l /\ l < j /\ IsReq(r[l], h)
    <3>1. PICK l \in 1 .. Len(q) : i + 1 < l /\ l < j + 1 /\ IsReq(q[l], h)
      BY <1>1, <1>2, <2>2 DEF Shape
    <3>2. i < l - 1 /\ l - 1 < j /\ l # 1
      BY <1>2, <1>3, <3>1
    <3> QED BY <1>3, <3>1, <3>2
  <2> QED BY <2>1, <2>2 DEF Shape
<1>6. ~IsReq(Head(q), h) => (HasReq(r, h) <=> HasReq(q, h))
  BY <1>1, <1>2, <1>3 DEF HasReq
<1>7. ASSUME LateRel(r, h) PROVE LateRel(q, h)
  <2>1. PICK i \in 1 .. Len(r) : IsRel(r[i], h) /\ \A l \in 1 .. Len(r) : IsReq(r[l], h) => l < i
    BY <1>7 DEF LateRel
  <2>2. \A l \in 1 .. Len(q) : IsReq(q[l], h) => l < i + 1
    BY <1>2, <1>3, <2>1
  <2> QED BY <1>1, <1>2, <2>1, <2>2 DEF LateRel
<1>8. ASSUME LateRel(q, h), ~IsRel(Head(q), h) \/ HasReq(q, h)
      PROVE  LateRel(r, h)
  <2>1. PICK i \in 1 .. Len(q) : IsRel(q[i], h) /\ \A l \in 1 .. Len(q) : IsReq(q[l], h) => l < i
    BY <1>8 DEF LateRel
  <2>2. i # 1
    BY <1>1, <1>3, <1>8, <2>1 DEF HasReq
  <2>3. i - 1 \in 1 .. Len(r) /\ IsRel(r[i - 1], h)
    BY <1>3, <2>1, <2>2
  <2>4. \A l \in 1 .. Len(r) : IsReq(r[l], h) => l < i - 1
    BY <1>1, <1>2, <2>1, <2>3
  <2> QED BY <2>3, <2>4 DEF LateRel
<1>9. ASSUME IsReq(Head(q), h) PROVE HasReq(q, h) /\ ~HasReq(r, h) /\ ~IsRel(Head(q), h)
  <2>1. HasReq(q, h)
    BY <1>1, <1>4, <1>9 DEF HasReq
  <2>2. ~HasReq(r, h)
    BY <1>1, <1>2, <1>4, <1>9 DEF HasReq, Shape
  <2> QED BY <1>9, <2>1, <2>2 DEF IsReq, IsRel
<1>10. ASSUME IsRel(Head(q), h), ~HasReq(q, h) PROVE LateRel(q, h) /\ ~LateRel(r, h)
  <2>1. LateRel(q, h)
    BY <1>1, <1>4, <1>10 DEF LateRel, HasReq
  <2>2. \A i \in 1 .. Len(r) : ~IsRel(r[i], h)
    BY <1>1, <1>2, <1>4, <1>10 DEF Shape, HasReq
  <2> QED BY <2>1, <2>2 DEF LateRel
<1>11. IsRel(Head(q), h) => ~IsReq(Head(q), h)
  BY DEF IsReq, IsRel
<1> QED BY <1>5, <1>6, <1>7, <1>8, <1>9, <1>10, <1>11 DEF r

\* What a step of the manager may do to a handle that its message is not about:
\* nothing, the session is over, or it has become connected.
Unmoved(h) ==
  /\ modem'[h] = modem[h] /\ On(h)' = On(h)
  /\ \A n \in On(h) : mState'[n] = "ACQUIRED" <=> mState[n] = "ACQUIRED"
Over(h) == modem'[h] = "idle" /\ On(h) # {} /\ On(h)' = {}
Connected(h) ==
  /\ \E n \in On(h) : mState'[n] = "ACQUIRED"
  /\ On(h)' = On(h)
  /\ modem'[h] = IF modem[h] = "opening" THEN "open" ELSE modem[h]
Fate(h) == Unmoved(h) \/ Over(h) \/ Connected(h)

QueueSame(h) ==
  (HasReq(msgQ, h)' <=> HasReq(msgQ, h)) /\ (LateRel(msgQ, h)' <=> LateRel(msgQ, h))

LEMMA FateKnown ==
  ASSUME TypeOK, NEW h, Known(h), QueueSame(h), Fate(h), created \subseteq created'
  PROVE  Known(h)'
<1>1. CASE Unmoved(h)
  BY <1>1 DEF Known, QueueSame, Unmoved
<1>2. CASE Over(h)
  BY <1>2 DEF Known, QueueSame, Over
<1>3. CASE Connected(h)
  <2>1. PICK n \in On(h) : mState'[n] = "ACQUIRED"
    BY <1>3 DEF Connected
  <2>2. On(h) # {} /\ ~HasReq(msgQ, h) /\ modem[h] # "idle"
    BY <2>1 DEF Known
  <2> QED BY <1>3, <2>1, <2>2 DEF Known, QueueSame, Connected
<1> QED BY <1>1, <1>2, <1>3 DEF Fate

\* The events that answers of the framework cause, and those of other handles.
LEMMA EventFate ==
  ASSUME TypeOK, NEW h \in Handles, Known(h), NEW n \in Nif,
         \/ processAgpsEventGranted(n) \/ dropAllNotified(n)
         \/ UNCHANGED <<smVars, modem>>
  PROVE  Fate(h)
<1>1. CASE processAgpsEventGranted(n)
  <2>1. /\ mState' = [mState EXCEPT ![n] = "ACQUIRED"] /\ UNCHANGED mSubscriberList
        /\ modem'[h] = IF h \in mSubscriberList[n] /\ modem[h] = "opening"
                       THEN "open" ELSE modem[h]
    BY <1>1 DEF processAgpsEventGranted, transitionState, OpenStatusOk
  <2>2. On(h)' = On(h)
    BY <2>1 DEF On
  <2>3. CASE h \in mSubscriberList[n]
    BY <2>1, <2>2, <2>3 DEF Fate, Connected, On, TypeOK
  <2>4. CASE h \notin mSubscriberList[n]
    BY <2>1, <2>2, <2>4 DEF Fate, Unmoved, On, TypeOK
  <2> QED BY <2>3, <2>4
<1>2. CASE dropAllNotified(n)
  <2>1. /\ mState' = [mState EXCEPT ![n] = "RELEASED"]
        /\ mSubscriberList' = [mSubscriberList EXCEPT ![n] = {}]
        /\ modem'[h] = IF h \in mSubscriberList[n] THEN "idle" ELSE modem[h]
    BY <1>2 DEF dropAllNotified, transitionState, eraseAll, SessionOver
  <2>2. CASE h \in mSubscriberList[n]
    BY <2>1, <2>2 DEF Fate, Over, Known, On, TypeOK
  <2>3. CASE h \notin mSubscriberList[n]
    BY <2>1, <2>3 DEF Fate, Unmoved, On, TypeOK
  <2> QED BY <2>2, <2>3
<1>3. CASE UNCHANGED <<smVars, modem>>
  BY <1>3 DEF smVars, Fate, Unmoved, On
<1> QED BY <1>1, <1>2, <1>3

LEMMA SubscribeFate ==
  ASSUME TypeOK, NEW h \in Handles, NEW n \in Nif, NEW g \in Handles \ {h},
         NEW t, processAgpsEventSubscribe(n, g, t)
  PROVE  Fate(h)
<1>1. On(h)' = On(h)
  BY DEF processAgpsEventSubscribe, On, TypeOK
<1>2. modem'[h] = modem[h]
  BY DEF processAgpsEventSubscribe, OpenStatusOk
<1>3. \A k \in On(h) : mState'[k] = "ACQUIRED" <=> mState[k] = "ACQUIRED"
  BY DEF processAgpsEventSubscribe, transitionState, On, TypeOK
<1> QED BY <1>1, <1>2, <1>3 DEF Fate, Unmoved

LEMMA UnsubscribeFate ==
  ASSUME TypeOK, NEW h \in Handles, NEW n \in Nif, NEW g \in Handles \ {h},
         processAgpsEventUnsubscribe(n, g)
  PROVE  Fate(h)
<1>1. On(h)' = On(h)
  BY DEF processAgpsEventUnsubscribe, smVars, On, TypeOK
<1>2. modem'[h] = modem[h]
  BY DEF processAgpsEventUnsubscribe, SessionOver
<1>3. \A k \in On(h) : mState'[k] = "ACQUIRED" <=> mState[k] = "ACQUIRED"
  <2>1. CASE mSubscriberList[n] \ {g} = {}
    BY <2>1 DEF processAgpsEventUnsubscribe, transitionState, smVars, On, TypeOK
  <2>2. CASE mSubscriberList[n] \ {g} # {}
    BY <2>2 DEF processAgpsEventUnsubscribe, smVars
  <2> QED BY <2>1, <2>2
<1> QED BY <1>1, <1>2, <1>3 DEF Fate, Unmoved

\* The handle's own request: it is subscribed from now on, or refused at once.
LEMMA RequestKnown ==
  ASSUME TypeOK, ConnectionHasUser, NEW h \in Handles, Known(h), NEW type \in AgpsTypes,
         HasReq(msgQ, h), ~HasReq(msgQ, h)', LateRel(msgQ, h)' <=> LateRel(msgQ, h),
         requestATL(h, type), created' = created
  PROVE  Known(h)'
<1> DEFINE t == IF ~UseEmergencyPdn /\ type = "SUPL_ES" THEN "SUPL" ELSE type
           n == getAgpsStateMachine(t)
<1>1. n \in Nif
  BY NifOfType DEF AgpsTypes
<1>2. On(h) = {} /\ modem[h] \in {"opening", "closing"}
  BY DEF Known
<1>3. CASE n \notin created
  <2>1. modem'[h] = "idle" /\ UNCHANGED smVars
    BY <1>3 DEF requestATL, SessionOver
  <2>2. On(h)' = {}
    BY <1>2, <2>1 DEF On, smVars
  <2> QED BY <2>1, <2>2 DEF Known
<1>4. CASE n \in created
  <2>1. processAgpsEventSubscribe(n, h, t)
    BY <1>4 DEF requestATL
  <2>2. /\ mSubscriberList' = [mSubscriberList EXCEPT ![n] = @ \cup {h}]
        /\ \/ mState'[n] # "ACQUIRED" /\ modem' = modem
           \/ mState'[n] = "ACQUIRED" /\ modem' = OpenStatusOk({h})
    BY <1>1, <2>1 DEF processAgpsEventSubscribe, transitionState, TypeOK
  <2> HIDE DEF n
  <2>3. On(h)' = {n}
    BY <1>1, <1>2, <2>2 DEF On, TypeOK
  <2>4. modem'[h] = IF modem[h] = "opening" /\ mState'[n] = "ACQUIRED" THEN "open" ELSE modem[h]
    BY <2>2 DEF OpenStatusOk
  <2>5. modem[h] = "closing" <=> LateRel(msgQ, h)
    BY <1>2 DEF Known
  <2> QED BY <1>2, <1>4, <2>3, <2>4, <2>5 DEF Known
<1> QED BY <1>3, <1>4

\* The handle's own release: the last one finds it in its machine.
LEMMA ReleaseKnown ==
  ASSUME TypeOK, ConnectionHasUser, NEW h \in Handles, Known(h),
         HasReq(msgQ, h)' <=> HasReq(msgQ, h),
         HasReq(msgQ, h) => (LateRel(msgQ, h)' <=> LateRel(msgQ, h)),
         ~HasReq(msgQ, h) => LateRel(msgQ, h) /\ ~LateRel(msgQ, h)',
         releaseATL(h), created' = created
  PROVE  Known(h)'
<1> DEFINE found == {k \in created : h \in mSubscriberList[k]}
           n == IF "agnss" \in found THEN "agnss" ELSE "internet"
<1>1. found = On(h)
  BY DEF Known, On, TypeOK
<1>2. CASE On(h) = {}
  <2>1. UNCHANGED <<smVars, modem>>
    BY <1>1, <1>2 DEF releaseATL
  <2>2. On(h)' = On(h)
    BY <2>1 DEF On, smVars
  <2> QED BY <1>2, <2>1, <2>2 DEF Known
<1>3. CASE On(h) # {}
  <2>1. n \in On(h) /\ On(h) = {n} /\ n \in Nif
    BY <1>1, <1>3 DEF Known, On, Nif
  <2>2. processAgpsEventUnsubscribe(n, h)
    BY <1>1, <1>3 DEF releaseATL
  <2>3. ~HasReq(msgQ, h) /\ modem[h] = "closing"
    BY <1>3 DEF Known
  <2> HIDE DEF n
  <2>4. h \in mSubscriberList[n] /\ mState[n] # "RELEASED"
    BY <2>1 DEF On, ConnectionHasUser
  <2>5. /\ mSubscriberList' = [mSubscriberList EXCEPT ![n] = @ \ {h}]
        /\ modem'[h] = "idle"
    BY <2>2, <2>4 DEF processAgpsEventUnsubscribe, SessionOver
  <2>6. On(h)' = {}
    BY <2>1, <2>5 DEF On, TypeOK
  <2> QED BY <2>3, <2>5, <2>6 DEF Known
<1> QED BY <1>2, <1>3

Books == \A h \in Handles : Shape(msgQ, h) /\ Known(h)

LEMMA ProcMsgBooks ==
  ASSUME TypeOK, ConnectionHasUser, Books, ProcMsg
  PROVE  Books'
<1> DEFINE m == Head(msgQ)
<1>1. m \in Msgs /\ msgQ # <<>> /\ msgQ' = Tail(msgQ) /\ created' = created
  BY RangeTail DEF ProcMsg, TypeOK
<1>2. TypeOK'
  BY ProcMsgInv
<1> SUFFICES ASSUME NEW h \in Handles PROVE Shape(msgQ, h)' /\ Known(h)'
  BY DEF Books
<1>3. Shape(msgQ, h) /\ Known(h)
  BY DEF Books
<1>4. /\ Shape(msgQ, h)'
      /\ ~IsReq(m, h) /\ ~IsRel(m, h) => QueueSame(h)
      /\ IsReq(m, h) => /\ HasReq(msgQ, h) /\ ~HasReq(msgQ, h)'
                        /\ LateRel(msgQ, h)' <=> LateRel(msgQ, h)
      /\ IsRel(m, h) => /\ HasReq(msgQ, h)' <=> HasReq(msgQ, h)
                        /\ HasReq(msgQ, h) => (LateRel(msgQ, h)' <=> LateRel(msgQ, h))
                        /\ ~HasReq(msgQ, h) => LateRel(msgQ, h) /\ ~LateRel(msgQ, h)'
  <2>1. msgQ \in Seq(Msgs)
    BY DEF TypeOK
  <2>2. /\ Shape(msgQ, h)' <=> Shape(Tail(msgQ), h)
        /\ HasReq(msgQ, h)' <=> HasReq(Tail(msgQ), h)
        /\ LateRel(msgQ, h)' <=> LateRel(Tail(msgQ), h)
    BY <1>1 DEF Shape, HasReq, LateRel
  <2> QED BY <1>1, <1>3, <2>1, <2>2, ShapeTaken DEF QueueSame
<1>5. ASSUME Fate(h), ~IsReq(m, h), ~IsRel(m, h) PROVE Known(h)'
  BY <1>1, <1>3, <1>4, <1>5, FateKnown
<1>6. CASE m.kind = "request" /\ requestATL(m.h, m.type)
  <2>1. m.h \in Handles /\ m.type \in AgpsTypes
    BY <1>1, <1>6, MsgFields
  <2>2. CASE m.h = h
    BY <1>1, <1>3, <1>4, <1>6, <2>1, <2>2, RequestKnown DEF IsReq
  <2>4. m.h # h => ~IsReq(m, h) /\ ~IsRel(m, h)
    BY <1>6 DEF IsReq, IsRel
  <2>3. CASE m.h # h
    <3> DEFINE t == IF ~UseEmergencyPdn /\ m.type = "SUPL_ES" THEN "SUPL" ELSE m.type
               n == getAgpsStateMachine(t)
    <3>1. n \in Nif
      BY <2>1, NifOfType DEF AgpsTypes
    <3>2. CASE n \in created
      <4>1. processAgpsEventSubscribe(n, m.h, t)
        BY <1>6, <3>2 DEF requestATL
      <4>2. Fate(h)
        BY <2>1, <2>3, <3>1, <4>1, SubscribeFate
      <4> QED BY <1>4, <1>5, <2>3, <2>4, <4>2
    <3>3. CASE n \notin created
      <4>1. UNCHANGED smVars /\ modem'[h] = modem[h]
        BY <1>6, <2>3, <3>3 DEF requestATL, SessionOver
      <4>2. Fate(h)
        BY <4>1 DEF smVars, Fate, Unmoved, On
      <4> QED BY <1>4, <1>5, <2>3, <2>4, <4>2
    <3> QED BY <3>2, <3>3
  <2> QED BY <1>4, <2>2, <2>3
<1>7. CASE m.kind = "release" /\ releaseATL(m.h)
  <2>1. m.h \in Handles
    BY <1>1, <1>7, MsgFields
  <2>2. CASE m.h = h
    BY <1>1, <1>3, <1>4, <1>7, <2>1, <2>2, ReleaseKnown DEF IsRel
  <2>3. CASE m.h # h
    <3> DEFINE n == IF "agnss" \in {k \in created : m.h \in mSubscriberList[k]}
                    THEN "agnss" ELSE "internet"
    <3>1. n \in Nif
      BY DEF Nif
    <3>2. processAgpsEventUnsubscribe(n, m.h) \/ UNCHANGED <<smVars, modem>>
      BY <1>7 DEF releaseATL
    <3>3. Fate(h)
      BY <1>3, <2>1, <2>3, <3>1, <3>2, UnsubscribeFate, EventFate
    <3>4. ~IsReq(m, h) /\ ~IsRel(m, h)
      BY <1>7, <2>3 DEF IsReq, IsRel
    <3> QED BY <1>4, <1>5, <3>3, <3>4
  <2> QED BY <1>4, <2>2, <2>3
<1>8. ASSUME NEW n \in Nif, m.kind \in {"opened", "failed", "closed"},
             reportAtlOpenSuccess(n) \/ reportAtlOpenFailed(n) \/ reportAtlClosed(n)
      PROVE  Known(h)'
  <2>1. \/ processAgpsEventGranted(n) \/ dropAllNotified(n)
        \/ UNCHANGED <<smVars, modem>>
    BY <1>8 DEF reportAtlOpenSuccess, reportAtlOpenFailed, reportAtlClosed,
                processAgpsEventDenied, processAgpsEventReleased
  <2>2. Fate(h)
    BY <1>3, <2>1, EventFate
  <2> QED BY <1>5, <1>8, <2>2 DEF IsReq, IsRel
<1>9. m.kind \in {"opened", "failed", "closed"} => getAgpsStateMachine(m.type) \in Nif
  BY <1>1, MsgFields, NifOfType
<1>10. Known(h)'
  BY <1>6, <1>7, <1>8, <1>9 DEF ProcMsg
<1> QED BY <1>4, <1>10

LEMMA StepBooks ==
  ASSUME TypeOK, ConnectionHasUser, Books, [Next]_vars
  PROVE  Books'
<1>1. ASSUME NEW h \in Handles, msgQ' = msgQ
      PROVE  QueueSame(h) /\ (Shape(msgQ, h) => Shape(msgQ, h)')
  BY <1>1 DEF QueueSame, Shape, HasReq, LateRel
<1>2. ASSUME NEW h \in Handles, UNCHANGED <<smVars, modem>>
      PROVE  Fate(h)
  BY <1>2 DEF smVars, Fate, Unmoved, On
<1>3. ASSUME UNCHANGED <<msgQ, smVars, modem>>, created \subseteq created'
      PROVE  Books'
  BY <1>1, <1>2, <1>3, FateKnown DEF Books
<1>4. ASSUME NEW atl \in AtlOffers, initAgps(atl)
      PROVE  Books'
  BY <1>3, <1>4 DEF initAgps
<1>5. ASSUME NEW m \in Msgs, msgQ' = Append(msgQ, m), NEW h \in Handles, Books
      PROVE  /\ ~IsReq(m, h) /\ ~IsRel(m, h) => Shape(msgQ, h)' /\ QueueSame(h)
             /\ IsReq(m, h) /\ ~HasReq(msgQ, h) =>
                  Shape(msgQ, h)' /\ HasReq(msgQ, h)' /\ ~LateRel(msgQ, h)'
             /\ IsRel(m, h) /\ ~LateRel(msgQ, h) =>
                  /\ Shape(msgQ, h)' /\ LateRel(msgQ, h)'
                  /\ HasReq(msgQ, h)' <=> HasReq(msgQ, h)
  <2>1. msgQ \in Seq(Msgs) /\ Shape(msgQ, h)
    BY <1>5 DEF TypeOK, Books
  <2>2. /\ Shape(msgQ, h)' <=> Shape(Append(msgQ, m), h)
        /\ HasReq(msgQ, h)' <=> HasReq(Append(msgQ, m), h)
        /\ LateRel(msgQ, h)' <=> LateRel(Append(msgQ, m), h)
    BY <1>5 DEF Shape, HasReq, LateRel
  <2> QED BY <2>1, <2>2, ShapeAppended DEF QueueSame
<1>6. ASSUME NEW m \in Msgs, msgQ' = Append(msgQ, m), NEW h \in Handles,
             ~IsReq(m, h), ~IsRel(m, h), UNCHANGED <<created, smVars>>, modem'[h] = modem[h]
      PROVE  Shape(msgQ, h)' /\ Known(h)'
  <2>1. Fate(h)
    BY <1>6 DEF smVars, Fate, Unmoved, On
  <2>2. Shape(msgQ, h)' /\ QueueSame(h)
    BY <1>5, <1>6
  <2> QED BY <1>6, <2>1, <2>2, FateKnown DEF Books
<1>7. ASSUME NEW g \in Handles, NEW t \in AgpsTypes, ModemRequest(g, t)
      PROVE  Books'
  <2> DEFINE m == RequestMsg(g, t)
  <2>1. /\ m \in Msgs /\ msgQ' = Append(msgQ, m) /\ UNCHANGED <<created, smVars>>
        /\ modem[g] = "idle" /\ modem' = [modem EXCEPT ![g] = "opening"]
    BY <1>7 DEF ModemRequest, Msgs, smVars
  <2>2. \A h \in Handles : (IsReq(m, h) <=> h = g) /\ ~IsRel(m, h)
    BY DEF IsReq, IsRel, RequestMsg
  <2> HIDE DEF m
  <2>3. ASSUME NEW h \in Handles \ {g} PROVE Shape(msgQ, h)' /\ Known(h)'
    BY <1>6, <2>1, <2>2 DEF TypeOK
  <2>4. Shape(msgQ, g)' /\ Known(g)'
    <3>1. Known(g) /\ On(g) = {} /\ ~HasReq(msgQ, g)
      BY <2>1 DEF Books, Known
    <3>2. Shape(msgQ, g)' /\ HasReq(msgQ, g)' /\ ~LateRel(msgQ, g)'
      BY <1>5, <2>1, <2>2, <3>1
    <3>3. On(g)' = {} /\ modem'[g] = "opening"
      BY <2>1, <3>1 DEF On, smVars, TypeOK
    <3> QED BY <3>2, <3>3 DEF Known
  <2> QED BY <2>3, <2>4 DEF Books
<1>8. ASSUME NEW g \in Handles, ModemRelease(g)
      PROVE  Books'
  <2> DEFINE m == ReleaseMsg(g)
  <2>1. /\ m \in Msgs /\ msgQ' = Append(msgQ, m) /\ UNCHANGED <<created, smVars>>
        /\ modem[g] \in {"opening", "open"} /\ modem' = [modem EXCEPT ![g] = "closing"]
    BY <1>8 DEF ModemRelease, Msgs, smVars
  <2>2. \A h \in Handles : (IsRel(m, h) <=> h = g) /\ ~IsReq(m, h)
    BY DEF IsReq, IsRel, ReleaseMsg
  <2> HIDE DEF m
  <2>3. ASSUME NEW h \in Handles \ {g} PROVE Shape(msgQ, h)' /\ Known(h)'
    BY <1>6, <2>1, <2>2 DEF TypeOK
  <2>4. Shape(msgQ, g)' /\ Known(g)'
    <3>1. Known(g) /\ ~LateRel(msgQ, g) /\ (HasReq(msgQ, g) \/ On(g) # {})
      BY <2>1 DEF Books, Known
    <3>2. /\ Shape(msgQ, g)' /\ LateRel(msgQ, g)'
          /\ HasReq(msgQ, g)' <=> HasReq(msgQ, g)
      BY <1>5, <2>1, <2>2, <3>1
    <3>3. On(g)' = On(g) /\ created' = created /\ modem'[g] = "closing"
      BY <2>1 DEF On, smVars, TypeOK
    <3> QED BY <3>1, <3>2, <3>3 DEF Known
  <2> QED BY <2>3, <2>4 DEF Books
<1>9. CASE ProcMsg
  BY <1>9, ProcMsgBooks
<1>10. ASSUME NEW n \in Nif, NEW k \in {"opened", "failed", "closed"}, Answer(n, k),
              UNCHANGED <<created, smVars, modem>>
       PROVE  Books'
  <2>1. /\ FwMsg(k, FwType(n)) \in Msgs /\ msgQ' = Append(msgQ, FwMsg(k, FwType(n)))
    BY <1>10, AnswerTyped DEF Answer
  <2>2. \A h \in Handles : ~IsReq(FwMsg(k, FwType(n)), h) /\ ~IsRel(FwMsg(k, FwType(n)), h)
    BY DEF IsReq, IsRel, FwMsg
  <2> QED BY <1>6, <1>10, <2>1, <2>2 DEF Books
<1>11. ASSUME NEW n \in Nif, FwAnswer(n) \/ FwLost(n)
       PROVE  Books'
  <2>1. UNCHANGED <<created, smVars, modem>>
    BY <1>11 DEF FwAnswer, FwOpened, FwOpenedBadApn, FwOpenFailed, FwClosed, FwCloseFailed, FwLost, smVars
  <2>2. msgQ' = msgQ \/ \E k \in {"opened", "failed", "closed"} : Answer(n, k)
    BY <1>11 DEF FwAnswer, FwOpened, FwOpenedBadApn, FwOpenFailed, FwClosed, FwCloseFailed, FwLost
  <2> QED BY <1>3, <1>10, <2>1, <2>2
<1>12. ASSUME NEW n \in Nif, ReportClosedDirectly(n)
       PROVE  Books'
  <2>1. dropAllNotified(n) \/ UNCHANGED <<smVars, modem>>
    BY <1>12 DEF ReportClosedDirectly, reportAtlClosed, processAgpsEventReleased
  <2>2. msgQ' = msgQ /\ created' = created
    BY <1>12 DEF ReportClosedDirectly
  <2>3. ASSUME NEW h \in Handles PROVE Shape(msgQ, h)' /\ Known(h)'
    BY <1>1, <2>1, <2>2, EventFate, FateKnown DEF Books
  <2> QED BY <2>3 DEF Books
<1>13. CASE UNCHANGED vars
  BY <1>3, <1>13 DEF vars
<1> QED BY <1>4, <1>7, <1>8, <1>9, <1>11, <1>12, <1>13 DEF Next

LEMMA KnownIsAgreed ==
  ASSUME TypeOK, Books
  PROVE  ModemAgrees
<1>1. Range(msgQ) = {msgQ[i] : i \in 1 .. Len(msgQ)}
  BY RangeEquality DEF TypeOK
<1> SUFFICES ASSUME NEW h \in Handles
             PROVE  /\ \A n1, n2 \in On(h) : n1 = n2
                    /\ modem[h] = "open" => \E n \in On(h) : mState[n] = "ACQUIRED"
                    /\ modem[h] = "opening" => \/ Queued(h, "request")
                                               \/ \E n \in On(h) : mState[n] # "ACQUIRED"
                    /\ modem[h] = "closing" => Queued(h, "release")
                    /\ modem[h] = "idle" => On(h) = {} /\ ~Queued(h, "request")
  BY DEF ModemAgrees, On
<1>2. Queued(h, "request") <=> HasReq(msgQ, h)
  BY <1>1 DEF Queued, HasReq, IsReq
<1>3. LateRel(msgQ, h) => Queued(h, "release")
  BY <1>1 DEF Queued, LateRel, IsRel
<1> QED BY <1>2, <1>3 DEF Books, Known

\* The modem and the manager agree on every handle, whatever the framework
\* answers and however often the handle is opened and given up: no handle stays
\* subscribed behind the modem's back, on two machines, or connected on one that
\* is not (Agps.cpp, requestATL, releaseATL and what the callbacks report).
THEOREM ModemAgreesAlways == Spec => []ModemAgrees
<1>1. Init => Books
  <2> SUFFICES ASSUME Init, NEW h \in Handles PROVE Shape(msgQ, h) /\ Known(h)
    BY DEF Books
  <2>1. msgQ = <<>> /\ On(h) = {} /\ modem[h] = "idle"
    BY DEF Init, On
  <2>2. \A i \in 1 .. Len(msgQ) : FALSE
    BY <2>1
  <2> QED BY <2>1, <2>2 DEF Shape, Known, HasReq, LateRel
<1>2. TypeOK /\ ConnectionHasUser /\ Books /\ [Next]_vars => Books'
  BY StepBooks
<1>3. TypeOK /\ Books => ModemAgrees
  BY KnownIsAgreed
<1> QED BY <1>1, <1>2, <1>3, Typed, ConnectionHasUserAlways, PTL DEF Spec
===========================================================================
