------------------------------- MODULE Agps -------------------------------
(***************************************************************************)
(* The AGPS data-call manager of the GNSS HAL (gps/gnss/Agps.cpp, Agps.h)  *)
(* with the part of GnssAdapter that feeds it.  The modem asks for a data  *)
(* connection per handle (requestATL / releaseATL), the manager multiplexes*)
(* the handles of a type onto one AgpsStateMachine, and the state machine  *)
(* asks the Android framework for the connection.  Modem requests and      *)
(* framework answers are LocMsgs on the one adapter message queue, handled *)
(* in order by one thread; the modem and the framework are external.       *)
(*                                                                         *)
(* requestATL makes every subscriber with mWaitForCloseComplete false      *)
(* (Agps.cpp:593), so no subscriber becomes inactive and no machine enters *)
(* RELEASING: the branches for them are dead code and are left out.        *)
(***************************************************************************)
EXTENDS Naturals, Sequences, Functions

CONSTANTS
  Handles,          \* connection handles the modem uses
  AgpsCapable,      \* CAPABILITIES has MSA or MSB
  UseEmergencyPdn,  \* USE_EMERGENCY_PDN_FOR_EMERGENCY_SUPL # 0
  BadApn,           \* the framework may report an open with an unusable APN
  MaxInFlight       \* bound: messages and framework commands under way

ASSUME AgpsAssumption ==
  /\ AgpsCapable \in BOOLEAN
  /\ UseEmergencyPdn \in BOOLEAN
  /\ BadApn \in BOOLEAN
  /\ MaxInFlight \in Nat

VARIABLES
  created,          \* the state machines that exist (mAgnssNif, mInternetNif)
  mState,           \* AgpsStateMachine::mState of each
  mSubscriberList,  \* handles subscribed to each (the list, as a set)
  mAgpsType,        \* the type of the latest request of each
  msgQ,             \* the adapter's message queue
  fwQ,              \* data-connection commands the framework has not handled
  fwConn,           \* the framework has the connection up
  directClose,      \* a framework thread is about to call reportAtlClosed
  modem,            \* the modem's view of each handle
  stranded          \* history: the machines that got an unusable APN

smVars == <<mState, mSubscriberList>>
vars == <<created, smVars, mAgpsType, msgQ, fwQ, fwConn, directClose, modem,
          stranded>>

Nif == {"agnss", "internet"}
AgpsTypes == {"SUPL", "SUPL_ES", "WWAN_ANY"}
States == {"RELEASED", "PENDING", "ACQUIRED"}
Commands == [cmd : {"REQUEST", "RELEASE"}, type : AgpsTypes]
RequestMsg(h, t) == [kind |-> "request", h |-> h, type |-> t]
ReleaseMsg(h) == [kind |-> "release", h |-> h]
FwMsg(k, t) == [kind |-> k, type |-> t]
Msgs == {RequestMsg(h, t) : h \in Handles, t \in AgpsTypes}
          \cup {ReleaseMsg(h) : h \in Handles}
          \cup {FwMsg(k, t) : k \in {"opened", "failed", "closed"}, t \in AgpsTypes}

InFlight == Len(msgQ) + Len(fwQ["agnss"]) + Len(fwQ["internet"])

Init ==
  /\ created = {}
  /\ mState = [n \in Nif |-> "RELEASED"]
  /\ mSubscriberList = [n \in Nif |-> {}]
  /\ mAgpsType = [n \in Nif |-> IF n = "agnss" THEN "SUPL" ELSE "WWAN_ANY"]
  /\ msgQ = <<>>
  /\ fwQ = [n \in Nif |-> <<>>]
  /\ fwConn = [n \in Nif |-> FALSE]
  /\ directClose = [n \in Nif |-> FALSE]
  /\ modem = [h \in Handles |-> "idle"]
  /\ stranded = {}

---------------------------------------------------------------------------
(* What the callbacks do to the two external parties.                      *)

\* mAtlOpenStatusCb(handle, 1): a modem already closing keeps closing.
OpenStatusOk(H) ==
  [h \in Handles |-> IF h \in H /\ modem[h] = "opening" THEN "open" ELSE modem[h]]

\* mAtlOpenStatusCb(handle, 0) and mAtlCloseStatusCb(handle, 1).
SessionOver(H) == [h \in Handles |-> IF h \in H THEN "idle" ELSE modem[h]]

requestOrReleaseDataConn(n, c, t) ==
  fwQ' = [fwQ EXCEPT ![n] = Append(@, [cmd |-> c, type |-> t])]

transitionState(n, s) == mState' = [mState EXCEPT ![n] = s]

getAgpsStateMachine(t) == IF t = "WWAN_ANY" THEN "internet" ELSE "agnss"

---------------------------------------------------------------------------
(* AgpsStateMachine: one operator per event.                               *)

\* t is the type set by requestATL just before the event.  addSubscriber
\* leaves a handle that is already in the list as it is.
processAgpsEventSubscribe(n, h, t) ==
  /\ mSubscriberList' = [mSubscriberList EXCEPT ![n] = @ \cup {h}]
  /\ \/ /\ mState[n] = "RELEASED"
        /\ requestOrReleaseDataConn(n, "REQUEST", t)
        /\ transitionState(n, "PENDING")
        /\ UNCHANGED modem
     \/ /\ mState[n] = "ACQUIRED"
        /\ modem' = OpenStatusOk({h})
        /\ UNCHANGED <<mState, fwQ>>
     \/ /\ mState[n] = "PENDING"
        /\ UNCHANGED <<mState, fwQ, modem>>

\* The subscriber is told and deleted, and the connection given up with the
\* last one.
processAgpsEventUnsubscribe(n, h) ==
  LET list == mSubscriberList[n] \ {h}
  IN /\ modem' = SessionOver({h})
     /\ IF mState[n] = "RELEASED"
        THEN UNCHANGED <<smVars, fwQ>>
        ELSE /\ mSubscriberList' = [mSubscriberList EXCEPT ![n] = list]
             /\ IF list = {}
                THEN /\ transitionState(n, "RELEASED")
                     /\ requestOrReleaseDataConn(n, "RELEASE", mAgpsType[n])
                ELSE UNCHANGED <<mState, fwQ>>

\* Mutant: granted without telling anybody.
GrantedSilently(n) ==
  /\ mState[n] = "PENDING"
  /\ transitionState(n, "ACQUIRED")
  /\ UNCHANGED <<mSubscriberList, fwQ, modem>>

processAgpsEventGranted(n) ==
  /\ mState[n] = "PENDING"
  /\ transitionState(n, "ACQUIRED")
  /\ modem' = OpenStatusOk(mSubscriberList[n])
  /\ UNCHANGED <<mSubscriberList, fwQ>>

\* Mutant: notified subscribers are not erased.
keepAll(n) == UNCHANGED mSubscriberList

\* notifyAllSubscribers with deletion erases the subscribers it has told.
eraseAll(n) == mSubscriberList' = [mSubscriberList EXCEPT ![n] = {}]

\* Everyone is told and deleted: RELEASED in ACQUIRED, DENIED in PENDING.
dropAllNotified(n) ==
  /\ transitionState(n, "RELEASED")
  /\ modem' = SessionOver(mSubscriberList[n])
  /\ eraseAll(n)
  /\ UNCHANGED fwQ

\* Mutant: a close in ACQUIRED is taken for the answer to an older release.
ReleasedIgnored(n) == UNCHANGED <<smVars, fwQ, modem>>

processAgpsEventReleased(n) ==
  \/ mState[n] = "ACQUIRED" /\ dropAllNotified(n)
  \/ mState[n] # "ACQUIRED" /\ UNCHANGED <<smVars, fwQ, modem>>

\* Mutant: a refusal is ignored.
DeniedIgnored(n) == UNCHANGED <<smVars, fwQ, modem>>

processAgpsEventDenied(n) ==
  \/ mState[n] = "PENDING" /\ dropAllNotified(n)
  \/ mState[n] # "PENDING" /\ UNCHANGED <<smVars, fwQ, modem>>

---------------------------------------------------------------------------
(* AgpsManager: one operator per LocMsg.                                   *)

\* GnssAdapter::initAgps, from AGnss::setCallback (SUPL and SUPL_ES) or from
\* libloc_net_iface (whatever types it offers).
initAgps(atl) ==
  /\ AgpsCapable
  /\ created' = created \cup {n \in Nif : \/ n = "internet" /\ "WWAN" \in atl
                                          \/ n = "agnss" /\ {"SUPL", "SUPL_ES"} \subseteq atl}
  /\ created' # created
  /\ UNCHANGED <<smVars, mAgpsType, msgQ, fwQ, fwConn, directClose, modem, stranded>>

requestATL(h, type) ==
  LET t == IF ~UseEmergencyPdn /\ type = "SUPL_ES" THEN "SUPL" ELSE type
      n == getAgpsStateMachine(t)
  IN IF n \in created
     THEN /\ mAgpsType' = [mAgpsType EXCEPT ![n] = t]
          /\ processAgpsEventSubscribe(n, h, t)
     ELSE /\ modem' = SessionOver({h})
          /\ UNCHANGED <<smVars, mAgpsType, fwQ>>

\* Mutant: only the AGNSS machine is searched.
releaseATLAgnssOnly(h) ==
  /\ UNCHANGED mAgpsType
  /\ IF h \in mSubscriberList["agnss"] THEN processAgpsEventUnsubscribe("agnss", h)
                                       ELSE UNCHANGED <<smVars, fwQ, modem>>

\* The AGNSS machine is searched first; a handle that is in no list is only
\* logged.
releaseATL(h) ==
  LET found == {n \in created : h \in mSubscriberList[n]}
      n == IF "agnss" \in found THEN "agnss" ELSE "internet"
  IN /\ UNCHANGED mAgpsType
     /\ IF found # {} THEN processAgpsEventUnsubscribe(n, h)
                      ELSE UNCHANGED <<smVars, fwQ, modem>>

reportAtlOpenSuccess(n) ==
  /\ \/ processAgpsEventGranted(n)
     \/ mState[n] # "PENDING" /\ UNCHANGED <<smVars, fwQ, modem>>
  /\ UNCHANGED mAgpsType

reportAtlOpenFailed(n) == processAgpsEventDenied(n) /\ UNCHANGED mAgpsType

reportAtlClosed(n) == processAgpsEventReleased(n) /\ UNCHANGED mAgpsType

\* The adapter thread takes the next message and runs its proc().
ProcMsg ==
  /\ msgQ # <<>>
  /\ msgQ' = Tail(msgQ)
  /\ UNCHANGED <<created, fwConn, directClose, stranded>>
  /\ LET m == Head(msgQ)
     IN \/ m.kind = "request" /\ requestATL(m.h, m.type)
        \/ m.kind = "release" /\ releaseATL(m.h)
        \/ m.kind = "opened" /\ reportAtlOpenSuccess(getAgpsStateMachine(m.type))
        \/ m.kind = "failed" /\ reportAtlOpenFailed(getAgpsStateMachine(m.type))
        \/ m.kind = "closed" /\ reportAtlClosed(getAgpsStateMachine(m.type))

---------------------------------------------------------------------------
(* The modem (external): a handle is opened when idle and may be given up  *)
(* at any time after that.                                                 *)

ModemRequest(h, t) ==
  /\ modem[h] = "idle"
  /\ InFlight < MaxInFlight
  /\ modem' = [modem EXCEPT ![h] = "opening"]
  /\ msgQ' = Append(msgQ, RequestMsg(h, t))
  /\ UNCHANGED <<created, smVars, mAgpsType, fwQ, fwConn, directClose, stranded>>

ModemRelease(h) ==
  /\ modem[h] \in {"opening", "open"}
  /\ InFlight < MaxInFlight
  /\ modem' = [modem EXCEPT ![h] = "closing"]
  /\ msgQ' = Append(msgQ, ReleaseMsg(h))
  /\ UNCHANGED <<created, smVars, mAgpsType, fwQ, fwConn, directClose, stranded>>

---------------------------------------------------------------------------
(* The framework (external) handles the commands of a machine in order and *)
(* answers each; its answer names the type, not the command.               *)

FwType(n) == IF n = "internet" THEN "WWAN_ANY" ELSE "SUPL"
FwNext(n, c) == fwQ[n] # <<>> /\ Head(fwQ[n]).cmd = c
FwPop(n) == fwQ' = [fwQ EXCEPT ![n] = Tail(@)]
Answer(n, k) == msgQ' = Append(msgQ, FwMsg(k, FwType(n)))

\* dataConnOpenCommand with a usable APN.
FwOpened(n) ==
  /\ FwNext(n, "REQUEST") /\ FwPop(n)
  /\ Answer(n, "opened")
  /\ fwConn' = [fwConn EXCEPT ![n] = TRUE]
  /\ UNCHANGED <<created, smVars, mAgpsType, directClose, modem, stranded>>

\* An open with an unusable APN: nothing is posted.  If the APN is empty,
\* AGnss::dataConnOpen returns and nobody hears of it; otherwise the framework's
\* own thread goes on in dataConnOpenCommand to call reportAtlClosed
\* (ReportClosedDirectly).
FwOpenedBadApn(n) ==
  /\ BadApn
  /\ FwNext(n, "REQUEST") /\ FwPop(n)
  /\ fwConn' = [fwConn EXCEPT ![n] = TRUE]
  /\ \E close \in {directClose[n], TRUE} : directClose' = [directClose EXCEPT ![n] = close]
  /\ stranded' = stranded \cup {n}
  /\ UNCHANGED <<created, smVars, mAgpsType, msgQ, modem>>

\* dataConnFailedCommand.
FwOpenFailed(n) ==
  /\ FwNext(n, "REQUEST") /\ FwPop(n)
  /\ Answer(n, "failed")
  /\ UNCHANGED <<created, smVars, mAgpsType, directClose, fwConn, modem, stranded>>

\* dataConnClosedCommand in answer to a release.
FwClosed(n) ==
  /\ FwNext(n, "RELEASE") /\ FwPop(n)
  /\ Answer(n, "closed")
  /\ fwConn' = [fwConn EXCEPT ![n] = FALSE]
  /\ UNCHANGED <<created, smVars, mAgpsType, directClose, modem, stranded>>

\* agpsCloseResultCb(false): a failed close is reported as a failed open.
FwCloseFailed(n) ==
  /\ FwNext(n, "RELEASE") /\ FwPop(n)
  /\ Answer(n, "failed")
  /\ UNCHANGED <<created, smVars, mAgpsType, directClose, fwConn, modem, stranded>>

\* The network goes away on its own.
FwLost(n) ==
  /\ fwConn[n]
  /\ InFlight < MaxInFlight
  /\ fwConn' = [fwConn EXCEPT ![n] = FALSE]
  /\ Answer(n, "closed")
  /\ UNCHANGED <<created, smVars, mAgpsType, directClose, fwQ, modem, stranded>>

\* The call of reportAtlClosed at the end of dataConnOpenCommand, outside the
\* message thread and ahead of everything queued.
ReportClosedDirectly(n) ==
  /\ directClose[n]
  /\ directClose' = [directClose EXCEPT ![n] = FALSE]
  /\ reportAtlClosed(n)
  /\ UNCHANGED <<created, msgQ, fwConn, stranded>>

---------------------------------------------------------------------------
AtlOffers == {{"SUPL", "SUPL_ES"}, {"WWAN"}, {"WWAN", "SUPL", "SUPL_ES"}}

FwAnswer(n) ==
  \/ FwOpened(n) \/ FwOpenedBadApn(n) \/ FwOpenFailed(n)
  \/ FwClosed(n) \/ FwCloseFailed(n)

Next ==
  \/ \E atl \in AtlOffers : initAgps(atl)
  \/ \E h \in Handles, t \in AgpsTypes : ModemRequest(h, t)
  \/ \E h \in Handles : ModemRelease(h)
  \/ ProcMsg
  \/ \E n \in Nif : FwAnswer(n) \/ FwLost(n) \/ ReportClosedDirectly(n)

Spec == Init /\ [][Next]_vars

\* The adapter thread blocks only on its queue, the framework answers every
\* command it was given, and its thread finishes the call it is in.
Fairness ==
  /\ WF_vars(ProcMsg)
  /\ \A n \in Nif : WF_vars(FwAnswer(n)) /\ WF_vars(ReportClosedDirectly(n))

FairSpec == Spec /\ Fairness

---------------------------------------------------------------------------
(* Properties.                                                             *)

\* Every variable keeps its type.
TypeOK ==
  /\ created \subseteq Nif
  /\ mState \in [Nif -> States]
  /\ mSubscriberList \in [Nif -> SUBSET Handles]
  /\ mAgpsType \in [Nif -> AgpsTypes]
  /\ msgQ \in Seq(Msgs)
  /\ fwQ \in [Nif -> Seq(Commands)]
  /\ fwConn \in [Nif -> BOOLEAN]
  /\ directClose \in [Nif -> BOOLEAN]
  /\ modem \in [Handles -> {"idle", "opening", "open", "closing"}]
  /\ stranded \subseteq Nif

\* "Subscriber list should be empty if we are in released state"
\* (processAgpsEventReleased), and conversely a connection is wanted or held
\* only on behalf of somebody: no path forgets to give it up when its last
\* user goes.
ConnectionHasUser ==
  \A n \in Nif : mState[n] = "RELEASED" <=> mSubscriberList[n] = {}

\* A fw message of one of the kinds K is under way to machine n.
OnItsWay(n, K) ==
  \E m \in Range(msgQ) : m.kind \in K /\ getAgpsStateMachine(m.type) = n

\* No lost wakeup: a machine that is PENDING has its request still before the
\* framework or an answer to an open in the queue, whatever older answers were
\* ignored in between.  An unusable APN breaks it: the close that stands for the
\* refusal finds the machine PENDING and is ignored, or nothing comes at all.
WaitingIsOwed ==
  \A n \in Nif \ stranded :
    mState[n] = "PENDING" => \/ \E c \in Range(fwQ[n]) : c.cmd = "REQUEST"
                             \/ OnItsWay(n, {"opened", "failed"})

\* The manager and the framework agree on every connection.  A machine never
\* gives one up twice: between two releases it sends a request, and while it
\* waits for or holds a connection its latest command is the request.  In
\* ACQUIRED, where new subscribers are told at once that they are connected,
\* the connection is up or its close is on its way, even when the answer the
\* machine took for its own belonged to an earlier request.
FrameworkAgrees ==
  \A n \in Nif :
    /\ \A i \in 1 .. Len(fwQ[n]) - 1 :
         fwQ[n][i].cmd = "RELEASE" => fwQ[n][i + 1].cmd = "REQUEST"
    /\ mState[n] \in {"PENDING", "ACQUIRED"} /\ fwQ[n] # <<>> =>
         fwQ[n][Len(fwQ[n])].cmd = "REQUEST"
    /\ mState[n] = "ACQUIRED" => fwConn[n] \/ OnItsWay(n, {"closed"})

Queued(h, k) == \E m \in Range(msgQ) : m.kind = k /\ m.h = h

\* The modem and the manager agree on every handle: connected only on an
\* acquired machine, waiting only while subscribed or queued, and no handle
\* stays subscribed behind the modem's back or on two machines.
ModemAgrees ==
  \A h \in Handles :
    LET on == {n \in Nif : h \in mSubscriberList[n]}
    IN /\ \A n1, n2 \in on : n1 = n2
       /\ modem[h] = "open" => \E n \in on : mState[n] = "ACQUIRED"
       /\ modem[h] = "opening" => \/ Queued(h, "request")
                                  \/ \E n \in on : mState[n] # "ACQUIRED"
       /\ modem[h] = "closing" => Queued(h, "release")
       /\ modem[h] = "idle" => on = {} /\ ~Queued(h, "request")

\* Every call of the modem is answered: a request is opened, refused or given
\* up, and a release completed.  Only an unusable APN can leave the modem
\* without an answer.
CallsAnswered ==
  \A h \in Handles :
    /\ modem[h] = "opening" ~> modem[h] # "opening" \/ stranded # {}
    /\ modem[h] = "closing" ~> modem[h] # "closing"
===========================================================================
