------------------------------ MODULE LocTimer ------------------------------
(***************************************************************************)
(* The timers of the GPS utilities (gps/utils/LocTimer.cpp).  A LocTimer   *)
(* that is started makes a delegate, which waits in the heap of one of two *)
(* containers; each container has one timerfd, armed for its soonest       *)
(* delegate.  Three parties run at once: the threads that start and stop   *)
(* timers, the thread that polls the timerfds, and the message task, the   *)
(* only one to touch the heaps, which also calls the clients back.         *)
(*                                                                         *)
(* A delegate is its place in the sequence of all that were ever started.  *)
(* start() and stop() hold the timer's lock throughout: one step each.     *)
(***************************************************************************)
EXTENDS Integers, SequencesExt

CONSTANTS Timers, Containers,
          Timeouts,     \* what start() may be asked for
          MaxStarts,    \* bound: delegates ever started
          MaxTime       \* bound: the clock

ASSUME TimerAssumption ==
    Timeouts \subseteq Nat /\ MaxStarts \in Nat /\ MaxTime \in Nat \ {0}

VARIABLES
    now,       \* CLOCK_BOOTTIME
    mTimer,    \* the delegate of each timer; 0: not started
    started,   \* the delegates: their timer, container and mFutureTime
    deleted,   \* delegates that were deleted
    heap,      \* delegates in the heap of their container
    msgs,      \* the queue of the message task
    alarm,     \* time each timerfd is armed for; 0: disarmed
    polled,    \* containers whose timerfd is in the epoll set
    poll,      \* the polling thread: where it is, and events it still has
    task,      \* the message task: where it is in the message it handles
    early      \* history: delegates that ended with a callback too soon

vars == <<now, mTimer, started, deleted, heap, msgs, alarm, polled, poll, task, early>>
kernel == <<alarm, polled>>

Delegates == DOMAIN started
HeapOf(c, h) == {d \in h : started[d].c = c}
TopsOf(c, h) ==
    {d \in HeapOf(c, h) : \A e \in HeapOf(c, h) : started[d].future <= started[e].future}

Idle == [pc |-> "idle", c |-> 0, d |-> 0, at |-> 0]
At(pc, c, d, at) == [pc |-> pc, c |-> c, d |-> d, at |-> at]
Msg(op, c, d) == [op |-> op, c |-> c, d |-> d]

Init ==
    /\ now = 1
    /\ mTimer = [t \in Timers |-> 0] /\ started = <<>> /\ deleted = {} /\ heap = {}
    /\ msgs = <<>>
    /\ alarm = [c \in Containers |-> 0] /\ polled = {}
    /\ poll = [pc |-> "wait", c |-> 0, due |-> {}] /\ task = Idle
    /\ early = {}

-----------------------------------------------------------------------------
(* The threads of the clients.                                             *)

\* LocTimer::start: nothing when the timer runs already.
start(t, timeOut, c) ==
    /\ mTimer[t] = 0
    /\ Len(started) < MaxStarts /\ now + timeOut <= MaxTime
    /\ started' = Append(started, [t |-> t, c |-> c, future |-> now + timeOut])
    /\ mTimer' = [mTimer EXCEPT ![t] = Len(started) + 1]
    /\ msgs' = Append(msgs, Msg("push", c, Len(started) + 1))
    /\ UNCHANGED <<now, deleted, heap, kernel, poll, task, early>>

\* destroyLocked: the delegate is sent away to be removed and deleted.
destroyLocked(t) ==
    /\ mTimer' = [mTimer EXCEPT ![t] = 0]
    /\ msgs' = Append(msgs, Msg("remove", started[mTimer[t]].c, mTimer[t]))

\* LocTimer::stop, by a client.
stop(t) ==
    /\ mTimer[t] # 0
    /\ destroyLocked(t)
    /\ UNCHANGED <<now, started, deleted, heap, kernel, poll, task, early>>

-----------------------------------------------------------------------------
(* The polling thread.                                                     *)

Expired(c) == c \in polled /\ alarm[c] # 0 /\ alarm[c] <= now

\* epoll_wait returns with every timerfd that expired.
PollReturns ==
    /\ poll.pc = "wait" /\ \E c \in Containers : Expired(c)
    /\ \E c \in Containers : Expired(c) /\
          poll' = [pc |-> "disarm", c |-> c, due |-> {e \in Containers : Expired(e)} \ {c}]
    /\ UNCHANGED <<kernel, msgs>>

\* LocTimerContainer::expire in three calls: the timerfd is disarmed, taken
\* out of the epoll set, and the rest is left to the message task.
Disarm ==
    /\ poll.pc = "disarm"
    /\ alarm' = [alarm EXCEPT ![poll.c] = 0]
    /\ poll' = [poll EXCEPT !.pc = "remove"]
    /\ UNCHANGED <<polled, msgs>>

RemovePoll ==
    /\ poll.pc = "remove"
    /\ polled' = polled \ {poll.c}
    /\ poll' = [poll EXCEPT !.pc = "send"]
    /\ UNCHANGED <<alarm, msgs>>

SendExpire ==
    /\ poll.pc = "send"
    /\ msgs' = Append(msgs, Msg("expire", poll.c, 0))
    /\ IF poll.due = {} THEN poll' = [poll EXCEPT !.pc = "wait"]
       ELSE \E c \in poll.due : poll' = [pc |-> "disarm", c |-> c, due |-> poll.due \ {c}]
    /\ UNCHANGED kernel

PollThread ==
    /\ PollReturns \/ Disarm \/ RemovePoll \/ SendExpire
    /\ UNCHANGED <<now, mTimer, started, deleted, heap, task, early>>

-----------------------------------------------------------------------------
(* The message task.                                                       *)

\* Mutant: the timerfd is armed but not polled anew.
arm_unpolled(c, priorTop, h) ==
    IF HeapOf(c, h) = {} THEN task' = Idle /\ UNCHANGED kernel
    ELSE \E top \in TopsOf(c, h) :
            /\ UNCHANGED alarm
            /\ polled' = IF priorTop = 0 /\ task.pc = "idle" THEN polled \cup {c} ELSE polled
            /\ task' = At("settime", c, 0, started[top].future)

\* updateSoonestTime(priorTop) for the heap that h leaves: when the top is
\* sooner than the prior one, or there was none, the timerfd is polled and,
\* in a step of its own, armed.
updateSoonestTime(c, priorTop, h) ==
    IF HeapOf(c, h) = {}
    THEN /\ task' = Idle
         /\ IF priorTop = 0 THEN UNCHANGED kernel
            ELSE polled' = polled \ {c} /\ alarm' = [alarm EXCEPT ![c] = 0]
    ELSE \E top \in TopsOf(c, h) :
            IF priorTop = 0 \/ started[top].future < started[priorTop].future
            THEN /\ polled' = polled \cup {c}
                 /\ task' = At("settime", c, 0, started[top].future) /\ UNCHANGED alarm
            ELSE task' = Idle /\ UNCHANGED kernel

SetTime ==
    /\ task.pc = "settime"
    /\ alarm' = [alarm EXCEPT ![task.c] = task.at]
    /\ task' = Idle
    /\ UNCHANGED <<mTimer, deleted, heap, msgs, polled, early>>

Handles(m) == task.pc = "idle" /\ msgs # <<>> /\ m = Head(msgs) /\ msgs' = Tail(msgs)

\* MsgTimerPush.
HandlePush(m) ==
    /\ Handles(m) /\ m.op = "push"
    /\ heap' = heap \cup {m.d}
    /\ \E prior \in IF HeapOf(m.c, heap) = {} THEN {0} ELSE TopsOf(m.c, heap) :
          updateSoonestTime(m.c, prior, heap')
    /\ UNCHANGED <<mTimer, deleted, early>>

\* Mutant: the next timer is not armed when the top was removed.
remove_unarmed(m) ==
    /\ Handles(m) /\ m.op = "remove"
    /\ heap' = heap \ {m.d}
    /\ deleted' = deleted \cup {m.d}
    /\ task' = Idle
    /\ UNCHANGED <<mTimer, kernel, early>>

\* Mutant: the delegate is deleted in the heap.
delete_only(m) ==
    /\ Handles(m) /\ m.op = "remove"
    /\ deleted' = deleted \cup {m.d}
    /\ task' = Idle
    /\ UNCHANGED <<mTimer, heap, kernel, early>>

\* MsgTimerRemove: armed anew only when the top itself was removed, and the
\* delegate is deleted.  A delegate that expired is in the heap no more.
HandleRemove(m) ==
    /\ Handles(m) /\ m.op = "remove"
    /\ heap' = heap \ {m.d}
    /\ \E wasTop \in {FALSE, TRUE} :
          /\ wasTop => HeapOf(m.c, heap) = {} \/ m.d \in TopsOf(m.c, heap)
          /\ ~wasTop => TopsOf(m.c, heap) \notin {{}, {m.d}}
          /\ IF wasTop THEN updateSoonestTime(m.c, 0, heap') ELSE task' = Idle /\ UNCHANGED kernel
    /\ deleted' = deleted \cup {m.d}
    /\ UNCHANGED <<mTimer, early>>

\* MsgTimerExpire reads the clock and pops the top, whatever its time ...
HandleExpire(m) ==
    /\ Handles(m) /\ m.op = "expire"
    /\ IF HeapOf(m.c, heap) = {} THEN task' = Idle /\ UNCHANGED heap
       ELSE \E top \in TopsOf(m.c, heap) :
               heap' = heap \ {top} /\ task' = At("expire", m.c, top, now)
    /\ UNCHANGED <<mTimer, deleted, kernel, early>>

\* ... reads the delegate's client without the lock ...
ReadClient ==
    /\ task.pc = "expire"
    /\ task' = [task EXCEPT !.pc = IF task.d = mTimer[started[task.d].t] THEN "stop" ELSE "next"]
    /\ UNCHANGED <<mTimer, deleted, heap, msgs, kernel, early>>

\* ... stops the client's timer, which may be another one by now, and calls
\* the client back if one was running ...
StopAndCallBack ==
    /\ task.pc = "stop"
    /\ LET t == started[task.d].t IN
         IF mTimer[t] = 0 THEN UNCHANGED <<mTimer, msgs, early>>
         ELSE /\ destroyLocked(t)
              /\ early' = IF started[mTimer[t]].future > now THEN early \cup {mTimer[t]} ELSE early
    /\ task' = [task EXCEPT !.pc = "next"]
    /\ UNCHANGED <<deleted, heap, kernel>>

\* ... and goes on while the top is not later than the clock was.
PopNext ==
    /\ task.pc = "next"
    /\ IF \E top \in TopsOf(task.c, heap) : started[top].future <= task.at
       THEN /\ \E top \in TopsOf(task.c, heap) :
                  heap' = heap \ {top} /\ task' = [task EXCEPT !.pc = "expire", !.d = top]
            /\ UNCHANGED kernel
       ELSE UNCHANGED heap /\ updateSoonestTime(task.c, 0, heap)
    /\ UNCHANGED <<mTimer, deleted, msgs, early>>

MsgTask ==
    /\ \/ SetTime
       \/ \E m \in ToSet(msgs) : HandlePush(m) \/ HandleRemove(m) \/ HandleExpire(m)
       \/ ReadClient \/ StopAndCallBack \/ PopNext
    /\ UNCHANGED <<now, started, poll>>

-----------------------------------------------------------------------------
Tick ==
    /\ now < MaxTime /\ now' = now + 1
    /\ UNCHANGED <<mTimer, started, deleted, heap, msgs, kernel, poll, task, early>>

Next ==
    \/ \E t \in Timers, timeOut \in Timeouts, c \in Containers : start(t, timeOut, c)
    \/ \E t \in Timers : stop(t)
    \/ PollThread \/ MsgTask \/ Tick

\* Both threads run whenever they can, and time goes on.
Spec == Init /\ [][Next]_vars /\ WF_vars(PollThread) /\ WF_vars(MsgTask) /\ WF_vars(Tick)

-----------------------------------------------------------------------------
(* Properties.                                                             *)

TypeOK ==
    /\ now \in 1 .. MaxTime
    /\ mTimer \in [Timers -> 0 .. Len(started)]
    /\ started \in Seq([t : Timers, c : Containers, future : 1 .. MaxTime])
    /\ deleted \subseteq Delegates /\ heap \subseteq Delegates /\ early \subseteq Delegates
    /\ \A i \in DOMAIN msgs :
          \/ msgs[i] \in [op : {"push", "remove"}, c : Containers, d : Delegates]
          \/ msgs[i] \in [op : {"expire"}, c : Containers, d : {0}]
    /\ alarm \in [Containers -> 0 .. MaxTime] /\ polled \subseteq Containers
    /\ poll.pc \in {"wait", "disarm", "remove", "send"} /\ poll.due \subseteq Containers
    /\ task.pc \in {"idle", "settime", "expire", "stop", "next"}

\* Whether anything is under way for container c.
UnderWay(c) ==
    \/ \E i \in DOMAIN msgs : msgs[i].c = c
    \/ task.pc # "idle" /\ task.c = c
    \/ poll.pc # "wait" /\ c \in {poll.c} \cup poll.due

\* When nothing is under way for a container its timerfd is polled and armed
\* for the soonest of its delegates, however the polling thread's disarming
\* and the message task's arming interleaved.
ArmedForSoonest ==
    \A c \in Containers : ~UnderWay(c) =>
        \A top \in TopsOf(c, heap) : c \in polled /\ alarm[c] = started[top].future

\* A delegate is deleted when no message, no heap and no timer holds it, and
\* the message task is not at it.
DeletedIsForgotten ==
    \A d \in deleted :
        /\ d \notin heap /\ \A t \in Timers : mTimer[t] # d
        /\ \A i \in DOMAIN msgs : msgs[i].d # d
        /\ task.pc \in {"expire", "stop"} => task.d # d

\* A timer that was started ends: by its callback, unless it was stopped.
EveryTimerEnds ==
    \A d \in 1 .. MaxStarts : (\E t \in Timers : mTimer[t] = d) ~> (d \in deleted)

\* "continuously pop the heap until the top node's timeout is in the future":
\* no timer calls back before its time.
NeverEarly == early = {}
=============================================================================
