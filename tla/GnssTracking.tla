---------------------------- MODULE GnssTracking ----------------------------
(***************************************************************************)
(* Tracking sessions of the GNSS adapter (gps/gnss/GnssAdapter.cpp): many  *)
(* time-based sessions multiplexed onto the one fix session of the engine, *)
(* distance-based sessions, which the engine tells apart, the commands     *)
(* that wait for the engine's capabilities, and its restart.               *)
(*                                                                         *)
(* One action is one message of the adapter's thread: a client's command,  *)
(* a command sent again, an answer of the engine.  The engine is external: *)
(* it takes the adapter's requests in order and answers each.              *)
(***************************************************************************)
EXTENDS Integers, FiniteSets, SequencesExt

CONSTANTS Clients, Sessions,
          ClientOf,      \* the client of each session
          Options,       \* what a session may ask: interval, power, distance
          MaxCommands,   \* bound: commands of the clients
          MaxFaults      \* bound: refusals and restarts of the engine

ASSUME GnssAssumption ==
    /\ IsFiniteSet(Sessions) /\ ClientOf \in [Sessions -> Clients]
    /\ Options \subseteq [ivl : Nat, pwr : Nat, dist : BOOLEAN]
    /\ MaxCommands \in Nat /\ MaxFaults \in Nat

VARIABLES
    clients,   \* mClientData
    time,      \* mTimeBasedTrackingSessions, with their options
    dist,      \* sessions in mDistanceBasedTrackingSessions
    known,     \* mIsEngineCapabilitiesKnown
    waiting,   \* mPendingMsgs
    resent,    \* messages of mPendingMsgs on their way back
    modem,     \* external: requests of the adapter the engine has not answered
    up,        \* external: the engine runs and answers
    engine,    \* external: its fix session
    engineDist,\* external: its distance sessions
    due,       \* answers each session still has to get
    begun,     \* sessions that were started
    commands, faults,
    spoilt     \* history: what the adapter is known not to repair

maps == <<time, dist>>
counters == <<commands, faults>>
vars == <<clients, maps, known, waiting, resent, modem, up, engine, engineDist, due,
          begun, counters, spoilt>>

\* No session: options that no client has.
NoOptions == [ivl |-> 0, pwr |-> -1, dist |-> FALSE]
Off == [on |-> FALSE, ivl |-> 0]
InTime == {s \in Sessions : time[s] # NoOptions}
Known(s) == s \in InTime \cup dist

\* A request for the engine; op names the handler of its answer, ivl is the
\* interval asked of the engine, o the options the handler keeps.
Request(op, s, ivl, o) == [op |-> op, s |-> s, ivl |-> ivl, o |-> o]
Command(cmd, s, o) == [cmd |-> cmd, s |-> s, o |-> o]

LeastOf(S) == CHOOSE x \in S : \A y \in S : x <= y
Lesser(a, b) == IF a < b THEN a ELSE b

Init ==
    /\ clients = Clients
    /\ time = [s \in Sessions |-> NoOptions] /\ dist = {}
    /\ known = FALSE /\ waiting = <<>> /\ resent = <<>>
    /\ modem = <<>> /\ up = FALSE /\ engine = Off /\ engineDist = {}
    /\ due = [s \in Sessions |-> 0]
    /\ begun = {} /\ commands = 0 /\ faults = 0 /\ spoilt = FALSE

-----------------------------------------------------------------------------
(* The multiplexing of time-based sessions.                                *)

SmallestIvl(S) == LeastOf({time[s].ivl : s \in S})

\* The smallest power mode the scan finds: zero, GNSS_POWER_MODE_INVALID, is
\* taken for "not set yet", so with one among them the order decides.
SmallestPowers(S) ==
    LET P == {time[s].pwr : s \in S} IN IF 0 \notin P THEN {LeastOf(P)} ELSE P

\* Whether options o ask more than the sessions S have, as the scan may say.
Stronger(o, S) == {o.ivl < SmallestIvl(S) \/ o.pwr < p : p \in SmallestPowers(S)}

\* Mutant: the engine is asked for the new session's own interval.
start_own(s, o) == {<<Request("start", s, o.ivl, o)>>}

\* What a command asks of the engine, in every way the scan may go; when it
\* asks nothing the client is answered at once.
startTimeBasedTrackingMultiplex(s, o) ==
    IF InTime = {} THEN {<<Request("start", s, o.ivl, o)>>}
    ELSE {IF more THEN <<Request("start", s, Lesser(o.ivl, SmallestIvl(InTime)), o)>> ELSE <<>> :
             more \in Stronger(o, InTime)}

updateTrackingMultiplex(s, o) ==
    IF o.ivl = time[s].ivl /\ o.pwr = time[s].pwr THEN {<<>>}
    ELSE IF InTime = {s} THEN {<<Request("update", s, o.ivl, time[s])>>}
    ELSE {IF more THEN <<Request("update", s, Lesser(o.ivl, SmallestIvl(InTime \ {s})), time[s])>>
          ELSE <<>> : more \in Stronger(o, InTime \ {s})}

stopTimeBasedTrackingMultiplex(s) ==
    IF InTime = {s} THEN {<<Request("stop", s, 0, NoOptions)>>}
    ELSE {IF more THEN <<Request("start", s, SmallestIvl(InTime \ {s}), NoOptions)>> ELSE <<>> :
             more \in Stronger(time[s], InTime \ {s})}

-----------------------------------------------------------------------------
(* The commands.  n is 1 for a new command, 0 for one sent again; each      *)
(* handler says how many answers the session is owed after it.             *)

\* n more commands and, if now, one answer of the adapter's own.
Owe(s, n, now) == due' = [due EXCEPT ![s] = @ + n - (IF now THEN 1 ELSE 0)]
Ask(requests) == modem' = modem \o requests

\* Mutant: every session is saved as time-based.
save_in_time(s, o) == time' = [time EXCEPT ![s] = o] /\ UNCHANGED dist

\* saveTrackingSession, eraseTrackingSession.
saveTrackingSession(s, o) ==
    IF o.dist THEN dist' = dist \cup {s} /\ UNCHANGED time
    ELSE time' = [time EXCEPT ![s] = o] /\ UNCHANGED dist
eraseTrackingSession(s) ==
    IF s \in InTime THEN time' = [time EXCEPT ![s] = NoOptions] /\ UNCHANGED dist
    ELSE dist' = dist \ {s} /\ UNCHANGED time

\* A distance-based command needs the engine's capabilities and waits for them.
Wait(cmd, s, o, n) ==
    /\ ~known /\ o.dist
    /\ waiting' = Append(waiting, Command(cmd, s, o))
    /\ Owe(s, n, FALSE)
    /\ UNCHANGED <<maps, modem>>

\* A start without a size, or of a client without the callbacks, as one that
\* has gone is: the error is set and reported to nobody: no answer is due.
IgnoreStart(s, o, n) ==
    /\ known \/ ~o.dist
    /\ Owe(s, n - 1, FALSE)
    /\ UNCHANGED <<maps, modem, waiting>>

\* MsgStartTracking::proc.
startTracking(s, o, n) ==
    \/ Wait("start", s, o, n)
    \/ IgnoreStart(s, o, n)
    \/ /\ ClientOf[s] \in clients
       /\ known /\ o.dist
       /\ saveTrackingSession(s, o)
       /\ Ask(<<Request("dstart", s, 0, o)>>)
       /\ Owe(s, n, FALSE)
       /\ UNCHANGED waiting
    \/ /\ ClientOf[s] \in clients
       /\ ~o.dist
       /\ \E asked \in startTimeBasedTrackingMultiplex(s, o) :
             Ask(asked) /\ Owe(s, n, asked = <<>>)
       /\ saveTrackingSession(s, o)
       /\ UNCHANGED waiting

\* MsgUpdateTracking::proc, for a session that is in neither map...
UpdateUnknown(s, n) ==
    /\ ~Known(s)
    /\ Owe(s, n, TRUE)
    /\ UNCHANGED <<maps, modem>>

\* Mutant: the client is told even when the engine's answer is to come.
tell_at_once(s, o, n) ==
    /\ s \in InTime /\ o.dist
    /\ \E asked \in stopTimeBasedTrackingMultiplex(s) :
          Ask(asked \o <<Request("dquiet", s, 0, o)>>)
    /\ Owe(s, n, TRUE)
    /\ time' = [time EXCEPT ![s] = NoOptions]
    /\ dist' = dist \cup {s}

\* Mutant: the time-based session is not erased.
keep_time_based(s, o, n) ==
    /\ s \in InTime /\ o.dist
    /\ \E asked \in stopTimeBasedTrackingMultiplex(s) :
          /\ Ask(asked \o <<Request("dquiet", s, 0, o)>>)
          /\ Owe(s, n, asked = <<>>)
    /\ dist' = dist \cup {s} /\ UNCHANGED time

\* ... from time to distance ...
UpdateToDistance(s, o, n) ==
    /\ s \in InTime /\ o.dist
    /\ \E asked \in stopTimeBasedTrackingMultiplex(s) :
          /\ Ask(asked \o <<Request("dquiet", s, 0, o)>>)
          /\ Owe(s, n, asked = <<>>)
    /\ time' = [time EXCEPT ![s] = NoOptions]
    /\ dist' = dist \cup {s}

\* ... from distance to time, which goes on when the engine has stopped ...
UpdateToTime(s, o, n) ==
    /\ s \in dist /\ s \notin InTime /\ ~o.dist
    /\ dist' = dist \ {s}
    /\ Ask(<<Request("dswitch", s, 0, o)>>)
    /\ Owe(s, n, FALSE)
    /\ UNCHANGED time

\* ... of a time-based session ...
UpdateTime(s, o, n) ==
    /\ s \in InTime /\ ~o.dist
    /\ \E asked \in updateTrackingMultiplex(s, o) : Ask(asked) /\ Owe(s, n, asked = <<>>)
    /\ saveTrackingSession(s, o)

\* ... and of a distance-based one.
UpdateDistance(s, o, n) ==
    /\ s \in dist /\ s \notin InTime /\ o.dist
    /\ Ask(<<Request("dupdate", s, 0, o)>>)
    /\ Owe(s, n, FALSE)
    /\ UNCHANGED maps

updateTracking(s, o, n) ==
    \/ Wait("update", s, o, n)
    \/ /\ known \/ ~o.dist
       /\ \/ UpdateUnknown(s, n) \/ UpdateToDistance(s, o, n) \/ UpdateToTime(s, o, n)
          \/ UpdateTime(s, o, n) \/ UpdateDistance(s, o, n)
       /\ UNCHANGED waiting

\* MsgStopTracking::proc: an unknown session, a time- or a distance-based one.
stopTracking(s) ==
    \/ /\ ~Known(s)
       /\ Owe(s, 1, TRUE)
       /\ UNCHANGED <<maps, modem>>
    \/ /\ s \in InTime
       /\ \E asked \in stopTimeBasedTrackingMultiplex(s) : Ask(asked) /\ Owe(s, 1, asked = <<>>)
       /\ eraseTrackingSession(s)
    \/ /\ s \in dist /\ s \notin InTime
       /\ Ask(<<Request("dstop", s, 0, NoOptions)>>)
       /\ Owe(s, 1, FALSE)
       /\ UNCHANGED maps

-----------------------------------------------------------------------------
(* The clients.  A session is started once; what the client says of it     *)
(* later goes to the same queue.                                           *)

\* What the adapter does not repair: a command about distances that overtakes
\* the answer to the one before it on the same session.
Pends(s) == \E i \in DOMAIN (waiting \o resent) : (waiting \o resent)[i].s = s
DistanceOps == {"dstart", "dquiet", "dstop", "dgone", "dswitch", "dupdate", "dagain"}
Overtakes(s, o) ==
    due[s] > 0 /\ (o.dist \/ Pends(s) \/ \E i \in DOMAIN modem :
                                             modem[i].s = s /\ modem[i].op \in DistanceOps)

NewCommand == commands < MaxCommands /\ commands' = commands + 1
Fault == faults < MaxFaults /\ faults' = faults + 1

StartCommand(s, o) ==
    /\ s \notin begun /\ ClientOf[s] \in clients
    /\ NewCommand
    /\ begun' = begun \cup {s}
    /\ startTracking(s, o, 1)
    /\ UNCHANGED <<clients, known, resent, up, engine, engineDist, faults, spoilt>>

UpdateCommand(s, o) ==
    /\ s \in begun /\ ClientOf[s] \in clients
    /\ NewCommand
    /\ updateTracking(s, o, 1)
    /\ spoilt' = (spoilt \/ Overtakes(s, o))
    /\ UNCHANGED <<begun, clients, known, resent, up, engine, engineDist, faults>>

StopCommand(s) ==
    /\ s \in begun /\ ClientOf[s] \in clients
    /\ NewCommand
    /\ stopTracking(s)
    /\ spoilt' = (spoilt \/ Overtakes(s, NoOptions))
    /\ UNCHANGED <<begun, clients, known, waiting, resent, up, engine, engineDist,
                   faults>>

\* A command that waited for the capabilities is processed after all.
ResentCommand ==
    /\ resent # <<>>
    /\ resent' = Tail(resent)
    /\ LET m == Head(resent) IN
         \/ m.cmd = "start" /\ startTracking(m.s, m.o, 0)
         \/ m.cmd = "update" /\ updateTracking(m.s, m.o, 0)
    /\ UNCHANGED <<begun, clients, known, up, engine, engineDist, counters, spoilt>>

\* stopClientSessions: each time-based session of the client is multiplexed
\* out against the same map, which keeps it; order is that of the scan.
stopClientSessions(c) ==
    LET mine == {s \in InTime : ClientOf[s] = c}
        gone == SetToSeq({s \in dist : ClientOf[s] = c})
    IN \E asked \in [mine -> UNION {stopTimeBasedTrackingMultiplex(s) : s \in mine}] :
          /\ \A s \in mine : asked[s] \in stopTimeBasedTrackingMultiplex(s)
          /\ \E order \in SetToSeqs({s \in mine : asked[s] # <<>>}) :
                Ask([i \in DOMAIN order |-> Head(asked[order[i]])]
                    \o [i \in DOMAIN gone |-> Request("dgone", gone[i], 0, NoOptions)])

\* removeClientCommand: the client's sessions are stopped, and it is forgotten.
RemoveClient(c) ==
    /\ c \in clients
    /\ NewCommand
    /\ stopClientSessions(c)
    /\ clients' = clients \ {c}
    /\ spoilt' = (spoilt \/ \E s \in begun : ClientOf[s] = c /\ (s \in InTime \/ due[s] > 0))
    /\ UNCHANGED <<begun, maps, known, waiting, resent, up, engine, engineDist,
                   due, faults>>

-----------------------------------------------------------------------------
(* The engine's answers, each with the handler its request brought along.  *)

Reported(s) == due' = [due EXCEPT ![s] = @ - 1]

\* startTimeBasedTracking: a session that could not be started is erased.
StartAnswered(r, ok) ==
    /\ r.op \in {"start", "dstart"}
    /\ IF ok THEN UNCHANGED maps ELSE eraseTrackingSession(r.s)
    /\ Reported(r.s)
    /\ modem' = Tail(modem)

\* updateTracking: the old options are restored.
UpdateAnswered(r, ok) ==
    /\ r.op = "update"
    /\ IF ok THEN UNCHANGED maps ELSE saveTrackingSession(r.s, r.o)
    /\ Reported(r.s)
    /\ modem' = Tail(modem)

\* stopTracking: the session is gone already.
StopAnswered(r) ==
    /\ r.op = "stop"
    /\ Reported(r.s)
    /\ modem' = Tail(modem)
    /\ UNCHANGED maps

\* The restart of sessions, and of a distance switched to, tells nobody.
QuietAnswered(r) ==
    /\ r.op \in {"restart", "dquiet"}
    /\ modem' = Tail(modem)
    /\ UNCHANGED <<maps, due>>

\* A distance-based session stopped by its client, or with its client.
DistanceStopAnswered(r, ok) ==
    /\ r.op \in {"dstop", "dgone"}
    /\ IF ok THEN eraseTrackingSession(r.s) ELSE UNCHANGED maps
    /\ IF r.op = "dstop" THEN Reported(r.s) ELSE UNCHANGED due
    /\ modem' = Tail(modem)

\* From distance to time: the session starts anew, whatever the answer.
SwitchAnswered(r) ==
    /\ r.op = "dswitch"
    /\ \E asked \in startTimeBasedTrackingMultiplex(r.s, r.o) :
          /\ modem' = Tail(modem) \o asked
          /\ Owe(r.s, 0, asked = <<>>)
    /\ saveTrackingSession(r.s, r.o)

\* New options for a distance-based session: stopped, then started anew; when
\* it cannot be stopped nobody is told.
DistanceUpdateAnswered(r, ok) ==
    \/ /\ r.op = "dupdate"
       /\ modem' = Tail(modem) \o (IF ok THEN <<Request("dagain", r.s, 0, r.o)>> ELSE <<>>)
       /\ UNCHANGED <<maps, due>>
    \/ /\ r.op = "dagain"
       /\ IF ok THEN saveTrackingSession(r.s, r.o) ELSE UNCHANGED maps
       /\ Reported(r.s)
       /\ modem' = Tail(modem)

Answered(r, ok) ==
    \/ StartAnswered(r, ok) \/ UpdateAnswered(r, ok) \/ StopAnswered(r) \/ QuietAnswered(r)
    \/ DistanceStopAnswered(r, ok) \/ SwitchAnswered(r) \/ DistanceUpdateAnswered(r, ok)

\* The engine takes a request and answers it.
EngineServes(r) ==
    /\ engine' = CASE r.op \in {"start", "update", "restart"} -> [on |-> TRUE, ivl |-> r.ivl]
                   [] r.op = "stop" -> Off
                   [] OTHER -> engine
    /\ engineDist' = CASE r.op \in {"dstart", "dquiet", "dagain"} -> engineDist \cup {r.s}
                       [] r.op \in {"dstop", "dgone", "dswitch", "dupdate"} -> engineDist \ {r.s}
                       [] OTHER -> engineDist

EngineAnswers ==
    /\ modem # <<>> /\ up
    /\ EngineServes(Head(modem))
    /\ Answered(Head(modem), TRUE)
    /\ UNCHANGED <<begun, clients, known, waiting, resent, up, counters, spoilt>>

\* A refusal that is made good, when it is the engine's last answer: of the
\* only session's start, or of a distance-based session's start or stop.
Repaired(r) ==
    /\ Tail(modem) = <<>>
    /\ \/ r.op = "start" /\ InTime \subseteq {r.s} /\ ~engine.on
       \/ r.op \in {"dstart", "dstop", "dgone"}

EngineRefuses ==
    /\ modem # <<>>
    /\ IF up THEN Fault ELSE UNCHANGED faults
    /\ Answered(Head(modem), FALSE)
    /\ spoilt' = (spoilt \/ ~Repaired(Head(modem)))
    /\ UNCHANGED <<begun, clients, known, waiting, resent, up, engine, engineDist,
                   commands>>

\* The engine goes down with its sessions.
EngineDies ==
    /\ up /\ Fault
    /\ up' = FALSE /\ engine' = Off /\ engineDist' = {}
    /\ UNCHANGED <<begun, clients, maps, known, waiting, resent, modem, due,
                   commands, spoilt>>

\* restartSessions: the smallest interval, and every distance-based session.
restartSessions ==
    LET again == SetToSeq(dist)
    IN Ask((IF InTime = {} THEN <<>>
            ELSE <<Request("restart", CHOOSE s \in InTime : TRUE, SmallestIvl(InTime), NoOptions)>>)
           \o [i \in DOMAIN again |-> Request("dquiet", again[i], 0, NoOptions)])

\* handleEngineUpEvent: capabilities are known, sessions are restarted, and
\* the commands that waited are sent again.  A distance-based session whose
\* stop is not answered yet is restarted too, and stays in the engine.
EngineUp ==
    /\ ~up /\ up' = TRUE
    /\ known' = TRUE
    /\ restartSessions
    /\ resent' = resent \o waiting /\ waiting' = <<>>
    /\ spoilt' = (spoilt \/ \E i \in DOMAIN modem : modem[i].op \in {"dstop", "dgone"})
    /\ UNCHANGED <<begun, clients, maps, engine, engineDist, due, counters>>

-----------------------------------------------------------------------------
Next ==
    \/ \E s \in Sessions, o \in Options : StartCommand(s, o) \/ UpdateCommand(s, o)
    \/ \E s \in Sessions : StopCommand(s)
    \/ \E c \in Clients : RemoveClient(c)
    \/ ResentCommand
    \/ EngineAnswers \/ EngineRefuses \/ EngineDies \/ EngineUp

Spec == Init /\ [][Next]_vars

-----------------------------------------------------------------------------
(* Properties.                                                             *)

Ops == {"start", "update", "stop", "restart"} \cup DistanceOps

\* The variables keep their types: above all a session of mTimeBasedTrackingSessions
\* is never one that the engine tracks by distance.
TypeOK ==
    /\ clients \subseteq Clients /\ begun \subseteq Sessions
    /\ time \in [Sessions -> {o \in Options : ~o.dist} \cup {NoOptions}] /\ dist \subseteq Sessions
    /\ {known, up, spoilt} \subseteq BOOLEAN
    /\ \A i \in DOMAIN (waiting \o resent) :
          (waiting \o resent)[i] \in [cmd : {"start", "update"}, s : Sessions, o : Options]
    /\ \A i \in DOMAIN modem :
          modem[i] \in [op : Ops, s : Sessions, ivl : Nat, o : Options \cup {NoOptions}]
    /\ engine \in [on : BOOLEAN, ivl : Nat] /\ engineDist \subseteq Sessions
    /\ due \in [Sessions -> Int]
    /\ commands \in 0 .. MaxCommands /\ faults \in 0 .. MaxFaults

Quiet == up /\ modem = <<>> /\ waiting = <<>> /\ resent = <<>>

\* Each command of a client that is still there is answered once, but for a
\* start that was ignored: never twice, and when nothing is on its way all are.
AnsweredOnce ==
    \A s \in Sessions : ClientOf[s] \in clients =>
        due[s] >= 0 /\ (Quiet /\ ~spoilt => due[s] = 0)

\* When nothing is on its way the engine runs iff a time-based session exists,
\* as often as the most demanding one asks, and tracks the distance-based ones.
EngineServesSessions ==
    Quiet /\ ~spoilt =>
        /\ engine.on <=> InTime # {}
        /\ \A s \in InTime : engine.ivl <= time[s].ivl
        /\ engineDist = dist

\* A session is tracked by time or by distance, not by both.
TrackedOneWay == ~spoilt => InTime \cap dist = {}

\* "get the LocationOptions that has the smallest interval, which should be
\* the active one": with time-based sessions the engine runs, as often as the
\* smallest interval says, unless it failed.
ActiveIsSmallest ==
    Quiet /\ faults = 0 /\ InTime # {} => engine = [on |-> TRUE, ivl |-> SmallestIvl(InTime)]
=============================================================================
