---------------------------- MODULE PollThread ----------------------------
(***************************************************************************)
(* The data poll thread of a camera channel                                *)
(* (mm-camera-interface/src/mm_camera_thread.c) and the calls the streams  *)
(* make on it.  A client changes poll_entries without a lock, then sends a *)
(* command through a pipe; a synchronous call waits on cond_v until the    *)
(* poll thread signals.  The wait has no loop and the condition is shared, *)
(* so a signal may wake another waiter than the one it is for.             *)
(*                                                                         *)
(* The mutex is held only inside poll_sig and poll_sig_done, which are one *)
(* step each; status is always FALSE when it is tested, so it is left out. *)
(*                                                                         *)
(* No name is one of StreamBuf's: a module may extend both.                *)
(***************************************************************************)
EXTENDS Naturals, Sequences, FiniteSets

CONSTANTS
  Streams,   \* streams of the channel, one poll entry each
  Clients,   \* threads that queue buffers or stop streams
  MaxPipe    \* bound: a client writes while fewer commands are in the pipe

ASSUME PollThreadAssumption ==
  IsFiniteSet(Streams) /\ IsFiniteSet(Clients) /\ MaxPipe \in Nat

VARIABLES
  owner,     \* the channel: "none", "launching", "up", "releasing", "joining",
             \* "released"
  state,     \* MM_CAMERA_POLL_TASK_STATE_: "STOPPED" or "POLL"
  pc,        \* where the poll thread is
  entries,   \* streams whose poll_entries slot holds their fd and handler
  pollFds,   \* streams whose fd is in poll_fds
  revents,   \* streams found readable, still to be notified
  pipe,      \* commands in the pipe
  call,      \* what each client is doing
  off        \* how the last mm_stream_streamoff of each stream saw the entry go

pollVars == <<owner, state, pc, entries, pollFds, revents, pipe, call, off>>

NoCall == [op |-> "idle"]
Sig(s) == [op |-> "sig", s |-> s]              \* async command to be written
SyncSig(s) == [op |-> "syncsig", s |-> s]      \* sync command to be written
Waiting(s) == [op |-> "waiting", s |-> s]      \* in pthread_cond_wait
Calls == {NoCall} \cup [op : {"sig", "syncsig", "waiting"}, s : Streams]

ThreadAt(p) == pc = [at |-> p]
InCb(s) == pc \in [at : {"cb", "cbsig", "cbend"}, s : {s}]

PollInit ==
  /\ owner = "none"
  /\ state = "STOPPED"
  /\ pc = [at |-> "none"]
  /\ entries = {} /\ pollFds = {} /\ revents = {}
  /\ pipe = <<>>
  /\ call = [c \in Clients |-> NoCall]
  /\ off = [s \in Streams |-> "no"]

---------------------------------------------------------------------------
(* The channel (mm_channel_init, mm_channel_release).                      *)

Launch ==
  /\ owner \in {"none", "released"} /\ pc.at \in {"none", "exited"}
  /\ owner' = "launching"
  /\ pc' = [at |-> "start"]
  /\ UNCHANGED <<state, entries, pollFds, revents, pipe, call, off>>

\* The test of the state is not synchronised with the thread that sets it.
Release ==
  /\ owner = "up"
  /\ \A c \in Clients : call[c] = NoCall
  /\ IF state = "STOPPED"
     THEN owner' = "released" /\ UNCHANGED pipe
     ELSE owner' = "releasing" /\ pipe' = Append(pipe, "EXIT")
  /\ UNCHANGED <<state, pc, entries, pollFds, revents, call, off>>

\* pthread_join returns, the pipe is closed and the object cleared.
Join ==
  /\ owner = "joining"
  /\ ThreadAt("exited")
  /\ owner' = "released"
  /\ entries' = {} /\ pollFds' = {} /\ pipe' = <<>>
  /\ off' = [s \in Streams |-> "no"]
  /\ UNCHANGED <<state, pc, revents, call>>

---------------------------------------------------------------------------
(* The streams (mm_stream_qbuf, mm_stream_streamoff).                      *)

\* The first buffer of a stream is queued: its fd is added asynchronously.
add_poll_fd(c, s) ==
  /\ owner = "up" /\ call[c] = NoCall
  /\ entries' = entries \cup {s}
  /\ off' = [off EXCEPT ![s] = "no"]
  /\ call' = [call EXCEPT ![c] = Sig(s)]
  /\ UNCHANGED <<owner, state, pc, pollFds, revents, pipe>>

\* Queueing failed: the fd is deleted asynchronously.
del_poll_fd_async(c, s) ==
  /\ owner = "up" /\ call[c] = NoCall
  /\ s \in entries
  /\ entries' = entries \ {s}
  /\ call' = [call EXCEPT ![c] = Sig(s)]
  /\ UNCHANGED <<owner, state, pc, pollFds, revents, pipe, off>>

\* mm_stream_streamoff, step 1.  An entry that an asynchronous call has
\* already reset has handler 0: the call answers 0 and does not wait.
del_poll_fd(c, s) ==
  /\ owner = "up" /\ call[c] = NoCall
  /\ \/ /\ s \in entries
        /\ entries' = entries \ {s}
        /\ call' = [call EXCEPT ![c] = SyncSig(s)]
        /\ UNCHANGED off
     \/ /\ s \notin entries
        /\ off' = [off EXCEPT ![s] = "missed"]
        /\ UNCHANGED <<entries, call>>
  /\ UNCHANGED <<owner, state, pc, pollFds, revents, pipe>>

\* A synchronous delete returns: it has switched its stream off, unless the
\* stream was added again meanwhile.
del_returns(c) ==
  /\ call' = [call EXCEPT ![c] = NoCall]
  /\ off' = IF call[c].s \in entries THEN off ELSE [off EXCEPT ![call[c].s] = "waited"]

\* Mutant: the synchronous call does not wait.
poll_sig_nowait(c) ==
  /\ call[c].op \in {"sig", "syncsig"}
  /\ Len(pipe) < MaxPipe
  /\ \/ /\ call[c].op = "sig"
        /\ pipe' = Append(pipe, "ASYNC")
        /\ call' = [call EXCEPT ![c] = NoCall]
        /\ UNCHANGED off
     \/ /\ call[c].op = "syncsig"
        /\ pipe' = Append(pipe, "UPDATED")
        /\ del_returns(c)
  /\ UNCHANGED <<owner, state, pc, entries, pollFds, revents>>

\* mm_camera_poll_sig_async and mm_camera_poll_sig up to the wait.
poll_sig(c) ==
  /\ call[c].op \in {"sig", "syncsig"}
  /\ Len(pipe) < MaxPipe
  /\ \/ /\ call[c].op = "sig"
        /\ pipe' = Append(pipe, "ASYNC")
        /\ call' = [call EXCEPT ![c] = NoCall]
     \/ /\ call[c].op = "syncsig"
        /\ pipe' = Append(pipe, "UPDATED")
        /\ call' = [call EXCEPT ![c] = Waiting(call[c].s)]
  /\ UNCHANGED <<owner, state, pc, entries, pollFds, revents, off>>

waiters == {c \in Clients : call[c].op = "waiting"}

---------------------------------------------------------------------------
(* The poll thread.                                                        *)

\* The first half of mm_camera_poll_thread: the launcher is let go ...
poll_thread_start ==
  /\ ThreadAt("start")
  /\ owner' = "up"
  /\ pc' = [at |-> "started"]
  /\ UNCHANGED <<state, entries, pollFds, revents, pipe, call, off>>

\* ... before the state says that the thread runs.
poll_set_state ==
  /\ ThreadAt("started")
  /\ state' = "POLL"
  /\ pc' = [at |-> "loop"]
  /\ UNCHANGED <<owner, entries, pollFds, revents, pipe, call, off>>

\* Mutant: an asynchronous update does not rebuild poll_fds.
proc_pipe_async_ignored ==
  /\ ThreadAt("loop") /\ pipe # <<>>
  /\ pipe' = Tail(pipe)
  /\ pollFds' = IF Head(pipe) = "UPDATED" THEN entries ELSE pollFds
  /\ state' = IF Head(pipe) = "EXIT" THEN "STOPPED" ELSE state
  /\ pc' = [at |-> IF Head(pipe) = "ASYNC" THEN "loop" ELSE "sigdone"]
  /\ UNCHANGED <<owner, entries, revents, call, off>>

\* Mutant: a synchronous update is not signalled.
proc_pipe_nosignal ==
  /\ ThreadAt("loop") /\ pipe # <<>>
  /\ pipe' = Tail(pipe)
  /\ pollFds' = IF Head(pipe) = "EXIT" THEN pollFds ELSE entries
  /\ state' = IF Head(pipe) = "EXIT" THEN "STOPPED" ELSE state
  /\ pc' = [at |-> IF Head(pipe) = "EXIT" THEN "sigdone" ELSE "loop"]
  /\ UNCHANGED <<owner, entries, revents, call, off>>

\* Data on the pipe is looked at before any stream.
poll_proc_pipe ==
  /\ ThreadAt("loop") /\ pipe # <<>>
  /\ pipe' = Tail(pipe)
  /\ pollFds' = IF Head(pipe) = "EXIT" THEN pollFds ELSE entries
  /\ state' = IF Head(pipe) = "EXIT" THEN "STOPPED" ELSE state
  /\ pc' = [at |-> IF Head(pipe) = "ASYNC" THEN "loop" ELSE "sigdone"]
  /\ UNCHANGED <<owner, entries, revents, call, off>>

\* pthread_cond_signal wakes one of the waiters, whichever it is.
signal ==
  \/ /\ owner = "releasing"
     /\ owner' = "joining"
     /\ UNCHANGED <<call, off>>
  \/ /\ \E c \in waiters : del_returns(c)
     /\ UNCHANGED owner

poll_sig_done ==
  /\ ThreadAt("sigdone")
  /\ pc' = [at |-> IF state = "POLL" THEN "loop" ELSE "exited"]
  /\ signal
  /\ UNCHANGED <<state, entries, pollFds, revents, pipe>>

\* poll returns with some of the polled streams readable and nothing on the
\* pipe.
poll_returns(ready) ==
  /\ ThreadAt("loop") /\ pipe = <<>>
  /\ ready # {}
  /\ revents' = ready
  /\ pc' = [at |-> "scan"]
  /\ UNCHANGED <<owner, state, entries, pollFds, pipe, call, off>>

\* A readable stream is notified unless its entry is gone by now.
notify(s) ==
  /\ ThreadAt("scan") /\ s \in revents
  /\ revents' = revents \ {s}
  /\ pc' = IF s \in entries THEN [at |-> "cb", s |-> s] ELSE pc
  /\ UNCHANGED <<owner, state, entries, pollFds, pipe, call, off>>

scan_done ==
  /\ ThreadAt("scan") /\ revents = {}
  /\ pc' = [at |-> IF state = "POLL" THEN "loop" ELSE "exited"]
  /\ UNCHANGED <<owner, state, entries, pollFds, revents, pipe, call, off>>

\* In mm_stream_data_notify the last queued buffer was taken: the stream
\* deletes its own entry, from the poll thread, and goes on.
cb_del_poll_fd(s) ==
  /\ pc = [at |-> "cb", s |-> s]
  /\ s \in entries
  /\ entries' = entries \ {s}
  /\ pc' = [at |-> "cbsig", s |-> s]
  /\ UNCHANGED <<owner, state, pollFds, revents, pipe, call, off>>

\* Mutant: the callback goes on to the next frame after the last one.
cb_poll_sig_again(s) ==
  /\ pc = [at |-> "cbsig", s |-> s]
  /\ pipe' = Append(pipe, "ASYNC")
  /\ pc' = [at |-> "cb", s |-> s]
  /\ UNCHANGED <<owner, state, entries, pollFds, revents, call, off>>

cb_poll_sig(s) ==
  /\ pc = [at |-> "cbsig", s |-> s]
  /\ pipe' = Append(pipe, "ASYNC")
  /\ pc' = [at |-> "cbend", s |-> s]
  /\ UNCHANGED <<owner, state, entries, pollFds, revents, call, off>>

\* The callback returns, whether it took the last buffer or not.
cb_return(s) ==
  /\ pc \in [at : {"cb", "cbend"}, s : {s}]
  /\ pc' = [at |-> "scan"]
  /\ UNCHANGED <<owner, state, entries, pollFds, revents, pipe, call, off>>

---------------------------------------------------------------------------
Thread ==
  \/ poll_thread_start \/ poll_set_state \/ poll_proc_pipe \/ poll_sig_done \/ scan_done
  \/ \E s \in Streams : notify(s) \/ cb_del_poll_fd(s) \/ cb_poll_sig(s) \/ cb_return(s)

Client(c) ==
  \/ \E s \in Streams : add_poll_fd(c, s) \/ del_poll_fd_async(c, s) \/ del_poll_fd(c, s)
  \/ poll_sig(c)

PollNext ==
  \/ Launch \/ Release \/ Join
  \/ \E c \in Clients : Client(c)
  \/ Thread
  \/ \E ready \in SUBSET pollFds : poll_returns(ready)

PollSpec == PollInit /\ [][PollNext]_pollVars

\* The poll thread is scheduled and callbacks return; a client that has
\* changed an entry goes on to write its command.  A waiter is not passed
\* over for ever by pthread_cond_signal: the futex wakes in order of arrival.
Fairness ==
  /\ WF_pollVars(Thread)
  /\ WF_pollVars(Join)
  /\ \A c \in Clients : SF_pollVars(poll_sig_done /\ c \in waiters /\ del_returns(c))
  /\ \A c \in Clients : WF_pollVars(poll_sig(c))

PollFairSpec == PollSpec /\ Fairness

---------------------------------------------------------------------------
(* Properties.                                                             *)

\* Every variable has its type, and the pipe holds at most what the clients,
\* one callback per stream and the release may write before it is read.
PollTypeOK ==
  /\ owner \in {"none", "launching", "up", "releasing", "joining", "released"}
  /\ state \in {"STOPPED", "POLL"}
  /\ pc \in [at : {"none", "start", "started", "loop", "sigdone", "scan", "exited"}]
             \cup [at : {"cb", "cbsig", "cbend"}, s : Streams]
  /\ entries \subseteq Streams /\ pollFds \subseteq Streams /\ revents \subseteq Streams
  /\ pipe \in Seq({"UPDATED", "ASYNC", "EXIT"})
  /\ Len(pipe) <= MaxPipe + Cardinality(Streams) + 1
  /\ call \in [Clients -> Calls]
  /\ off \in [Streams -> {"no", "waited", "missed"}]

\* When a synchronous delete has returned, the stream's callback is not
\* running, although the signal that ended the wait may have been another's.
SyncDelIsQuiet == \A s \in Streams : off[s] = "waited" => ~InCb(s)

\* As many sync commands are pending as there are threads waiting: no wakeup
\* is lost and none is left over for a later call.
SyncPending == {i \in 1 .. Len(pipe) : pipe[i] # "ASYNC"}
EveryWaiterHasASignal ==
  Cardinality(waiters) + (IF owner = "releasing" THEN 1 ELSE 0)
    = Cardinality(SyncPending) + (IF ThreadAt("sigdone") THEN 1 ELSE 0)

\* The poll set is never left stale: when the poll thread goes to sleep in
\* poll and no client is half-way through an update, it polls exactly the
\* streams that are registered.
PollSetIsCurrent ==
  ThreadAt("loop") /\ pipe = <<>> /\ (\A c \in Clients : call[c].op \notin {"sig", "syncsig"}) =>
    pollFds = entries

\* Every synchronous call returns, and so does the release of the poll thread.
CallsReturn ==
  /\ \A c \in Clients : call[c].op = "waiting" ~> call[c].op # "waiting"
  /\ owner = "releasing" ~> owner = "released"
===========================================================================
