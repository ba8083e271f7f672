---------------------------- MODULE StreamBuf ----------------------------
(***************************************************************************)
(* The buffers of one camera stream (mm_camera_stream.c, outside batch     *)
(* mode): who holds a reference to a buffer, which buffers the kernel has, *)
(* and when the stream's fd is polled.  Four kinds of threads work on it:  *)
(* the poll thread (mm_stream_data_notify), the stream's cmd thread, the   *)
(* holders of the references that it gives away, and the thread that       *)
(* starts and stops the stream.  Each step is what one critical section of *)
(* buf_lock, or one ioctl, does.                                           *)
(*                                                                         *)
(* The owners of buffers outside the stream are its environment: "chan"    *)
(* (the bundling channel and its client), "link" (a channel the stream is  *)
(* linked into) and "app" (the client called from the cmd thread).         *)
(***************************************************************************)
EXTENDS Naturals, FiniteSets

CONSTANTS
  Bufs,        \* the stream's buffers
  InitialRegs, \* those whose initial_reg_flag is set
  HasCb,       \* an asynchronous callback is registered
  Bundled,     \* is_bundled
  MayLink,     \* whether another channel links the stream
  QbufFails,   \* whether VIDIOC_QBUF may fail
  CacheFails,  \* whether the cache operations of mem_vtbl may fail
  Quiet        \* whether owners finish before a stop begins and the last
               \* callback before the buffers are unregistered

\* A buffer goes to somebody, and the streams that are linked while bundled
\* (metadata and preview) have an asynchronous callback.
ASSUME StreamBufAssumption ==
  /\ IsFiniteSet(Bufs) /\ InitialRegs \subseteq Bufs
  /\ {HasCb, Bundled, MayLink, QbufFails, CacheFails, Quiet} \subseteq BOOLEAN
  /\ HasCb \/ Bundled
  /\ MayLink => HasCb

VARIABLES
  st,          \* MM_STREAM_STATE_; "OFF" is REG after a stop
  ctl,         \* where MM_STREAM_EVT_STOP is: "idle", "del", "off", "join"
  refcnt,      \* buf_status[].buf_refcnt, 8 bits wide
  inKernel,    \* the buffers whose in_kernel is 1
  count,       \* queued_buffer_count
  kernel,      \* the buffers that the driver's queue holds
  polled,      \* the stream has its entry in the poll thread
  linked,      \* is_linked
  cmdActive,   \* cmd_thread.is_active
  poll,        \* where mm_stream_data_notify is, and its buffer
  held,        \* the buffers each owner has a reference to and will give back
  done         \* where each owner is in mm_stream_buf_done

vars == <<st, ctl, refcnt, inKernel, count, kernel, polled, linked, cmdActive,
          poll, held, done>>

Owners == {"cmd", "chan", "link", "app"}
Idle == [at |-> "idle"]
At(p, b) == [at |-> p, b |-> b]
Bit(x) == IF x THEN 1 ELSE 0
Byte(n) == n % 256
give(h, b) == held' = [held EXCEPT ![h] = @ \cup {b}]

Init ==
  /\ st = "BUFFED" /\ ctl = "idle"
  /\ refcnt = [b \in Bufs |-> 0]
  /\ inKernel = {} /\ count = 0 /\ kernel = {}
  /\ polled = FALSE /\ linked = FALSE /\ cmdActive = FALSE
  /\ poll = Idle
  /\ held = [h \in Owners |-> {}]
  /\ done = [h \in Owners |-> Idle]

---------------------------------------------------------------------------
(* mm_stream_data_notify, on the poll thread.                              *)

\* VIDIOC_DQBUF.  The entry is there, so the callback is called; the driver
\* fills buffers until VIDIOC_STREAMOFF.
read_msm_frame(b) ==
  /\ poll = Idle
  /\ polled /\ st = "ACTIVE" /\ ctl # "join"
  /\ b \in kernel
  /\ kernel' = kernel \ {b}
  /\ poll' = At("read", b)
  /\ UNCHANGED <<st, ctl, refcnt, inKernel, count, polled, linked, cmdActive, held, done>>

\* The last queued buffer is gone: the stream is no longer polled.
read_counts(b) ==
  /\ poll = At("read", b)
  /\ count' = count - 1
  /\ polled' = (polled /\ count' # 0)
  /\ poll' = At("counted", b)
  /\ UNCHANGED <<st, ctl, refcnt, inKernel, kernel, linked, cmdActive, held, done>>

\* clean_invalidate_buf fails: mm_stream_data_notify returns, and the buffer is
\* with nobody until the buffers are registered again.
read_fails(b) ==
  /\ CacheFails
  /\ poll = At("counted", b)
  /\ poll' = Idle
  /\ UNCHANGED <<st, ctl, refcnt, inKernel, count, kernel, polled, linked, cmdActive, held, done>>

\* Mutant: a reference is counted for a linked channel that may not be there.
data_notify_always(b) ==
  /\ poll = At("counted", b)
  /\ inKernel' = inKernel \ {b}
  /\ refcnt' = [refcnt EXCEPT ![b] = Byte(@ + Bit(Bundled) + Bit(HasCb) + 1)]
  /\ poll' = At("ref", b)
  /\ UNCHANGED <<st, ctl, count, kernel, polled, linked, cmdActive, held, done>>

\* One reference for the bundle and one for the callback.
data_notify(b) ==
  /\ poll = At("counted", b)
  /\ inKernel' = inKernel \ {b}
  /\ refcnt' = [refcnt EXCEPT ![b] = Byte(@ + Bit(Bundled) + Bit(HasCb))]
  /\ poll' = At("ref", b)
  /\ UNCHANGED <<st, ctl, count, kernel, polled, linked, cmdActive, held, done>>

\* mm_stream_handle_rcvd_buf: the bundling channel, the linked channel and
\* the cmd thread are handed the buffer one after the other.
notify_channel(b) ==
  /\ poll = At("ref", b)
  /\ IF Bundled THEN give("chan", b) ELSE UNCHANGED held
  /\ poll' = At("link", b)
  /\ UNCHANGED <<st, ctl, refcnt, inKernel, count, kernel, polled, linked, cmdActive, done>>

\* Mutant: the linked channel is handed the buffer without a reference.
notify_linked_noref(b) ==
  /\ poll = At("link", b)
  /\ IF linked THEN give("link", b) ELSE UNCHANGED held
  /\ poll' = At("cb", b)
  /\ UNCHANGED <<st, ctl, refcnt, inKernel, count, kernel, polled, linked, cmdActive, done>>

notify_linked(b) ==
  /\ poll = At("link", b)
  /\ IF linked
     THEN /\ refcnt' = [refcnt EXCEPT ![b] = Byte(@ + 1)]
          /\ give("link", b)
     ELSE UNCHANGED <<refcnt, held>>
  /\ poll' = At("cb", b)
  /\ UNCHANGED <<st, ctl, inKernel, count, kernel, polled, linked, cmdActive, done>>

\* cmd_lock is with the stop while it releases the cmd thread.
notify_cmd_thread(b) ==
  /\ poll = At("cb", b)
  /\ ctl # "join"
  /\ IF HasCb /\ cmdActive THEN give("cmd", b) ELSE UNCHANGED held
  /\ poll' = Idle
  /\ UNCHANGED <<st, ctl, refcnt, inKernel, count, kernel, polled, linked, cmdActive, done>>

---------------------------------------------------------------------------
(* mm_stream_buf_done.                                                     *)

\* A reference that was already returned is an error; otherwise go on.  The
\* cmd thread gets here from dispatch_app_data, the others by an
\* MM_STREAM_EVT_QBUF, which only an active stream takes.
buf_done(h, b) ==
  /\ h # "cmd" /\ st = "ACTIVE"
  /\ Quiet => ctl = "idle"
  /\ done[h] = Idle /\ b \in held[h]
  /\ done' = [done EXCEPT ![h] = IF refcnt[b] = 0 THEN Idle ELSE At("checked", b)]
  /\ held' = [held EXCEPT ![h] = @ \ {b}]
  /\ UNCHANGED <<st, ctl, refcnt, inKernel, count, kernel, polled, linked, cmdActive, poll>>

\* The cmd thread gives the client a reference of its own, then returns the
\* one it was handed.
dispatch_app_data(b) ==
  /\ done["cmd"] = Idle /\ b \in held["cmd"]
  /\ refcnt' = [refcnt EXCEPT ![b] = Byte(@ + 1)]
  /\ held' = [held EXCEPT !["cmd"] = @ \ {b}, !["app"] = @ \cup {b}]
  /\ done' = [done EXCEPT !["cmd"] = At("checked", b)]
  /\ UNCHANGED <<st, ctl, inKernel, count, kernel, polled, linked, cmdActive, poll>>

\* The last reference queues the buffer again.
buf_done_decrement(h, b) ==
  /\ done[h] = At("checked", b)
  /\ refcnt' = [refcnt EXCEPT ![b] = Byte(@ + 255)]
  /\ done' = [done EXCEPT ![h] = IF refcnt'[b] = 0 THEN At("qbuf", b) ELSE Idle]
  /\ UNCHANGED <<st, ctl, inKernel, count, kernel, polled, linked, cmdActive, poll, held>>

\* mm_stream_qbuf counts the buffer before the driver has it, and polls from
\* the first one on.  If invalidate_buf fails it returns before that, and the
\* buffer, to which nobody has a reference any more, is with nobody.
qbuf(h, b) ==
  /\ done[h] = At("qbuf", b)
  /\ \/ /\ count' = count + 1
        /\ polled' = (polled \/ count' = 1)
        /\ done' = [done EXCEPT ![h] = At("ioctl", b)]
     \/ /\ CacheFails
        /\ done' = [done EXCEPT ![h] = Idle]
        /\ UNCHANGED <<count, polled>>
  /\ UNCHANGED <<st, ctl, refcnt, inKernel, kernel, linked, cmdActive, poll, held>>

\* VIDIOC_QBUF.
qbuf_ioctl(h, b) ==
  /\ done[h] = At("ioctl", b)
  /\ \/ /\ kernel' = kernel \cup {b}
        /\ done' = [done EXCEPT ![h] = At("queued", b)]
     \/ /\ QbufFails
        /\ done' = [done EXCEPT ![h] = At("failed", b)]
        /\ UNCHANGED kernel
  /\ UNCHANGED <<st, ctl, refcnt, inKernel, count, polled, linked, cmdActive, poll, held>>

\* Mutant: the count is not taken back.
qbuf_failed_counted(h, b) ==
  /\ done[h] = At("failed", b)
  /\ done' = [done EXCEPT ![h] = Idle]
  /\ UNCHANGED <<st, ctl, refcnt, inKernel, count, kernel, polled, linked, cmdActive, poll, held>>

qbuf_failed(h, b) ==
  /\ done[h] = At("failed", b)
  /\ count' = count - 1
  /\ polled' = (polled /\ count' # 0)
  /\ done' = [done EXCEPT ![h] = Idle]
  /\ UNCHANGED <<st, ctl, refcnt, inKernel, kernel, linked, cmdActive, poll, held>>

\* in_kernel is set after the fact and without the lock.
mark_in_kernel(h, b) ==
  /\ done[h] = At("queued", b)
  /\ inKernel' = inKernel \cup {b}
  /\ done' = [done EXCEPT ![h] = Idle]
  /\ UNCHANGED <<st, ctl, refcnt, count, kernel, polled, linked, cmdActive, poll, held>>

---------------------------------------------------------------------------
(* The life of the stream, as mm_channel_start and mm_channel_stop lead it. *)

\* Mutant: the count of the last session is kept.
reg_buf_noreset ==
  /\ st = "BUFFED"
  /\ st' = "REG"
  /\ count' = count + Cardinality(InitialRegs)
  /\ kernel' = InitialRegs /\ inKernel' = InitialRegs
  /\ polled' = (polled \/ InitialRegs # {})
  /\ refcnt' = [b \in Bufs |-> Bit(b \notin InitialRegs)]
  /\ held' = [held EXCEPT !["app"] = Bufs \ InitialRegs]
  /\ UNCHANGED <<ctl, linked, cmdActive, poll, done>>

\* The client holds the buffers that are not queued at first.
reg_buf ==
  /\ st = "BUFFED"
  /\ st' = "REG"
  /\ count' = Cardinality(InitialRegs)
  /\ kernel' = InitialRegs /\ inKernel' = InitialRegs
  /\ polled' = (polled \/ InitialRegs # {})
  /\ refcnt' = [b \in Bufs |-> Bit(b \notin InitialRegs)]
  /\ held' = [held EXCEPT !["app"] = Bufs \ InitialRegs]
  /\ UNCHANGED <<ctl, linked, cmdActive, poll, done>>

start ==
  /\ st = "REG"
  /\ st' = "ACTIVE"
  /\ cmdActive' = HasCb
  /\ UNCHANGED <<ctl, refcnt, inKernel, count, kernel, polled, linked, poll, held, done>>

\* VIDIOC_STREAMON fails: the fd is no longer polled, the cmd thread gone.
start_fails ==
  /\ st = "REG"
  /\ st' = "OFF"
  /\ polled' = FALSE
  /\ UNCHANGED <<ctl, refcnt, inKernel, count, kernel, linked, cmdActive, poll, held, done>>

Others == Owners \ {"cmd"}
OthersIdle == \A h \in Others : done[h] = Idle

\* mm_stream_streamoff: the entry is deleted, and the call waits for the
\* poll thread if there was one.
stop_del ==
  /\ st = "ACTIVE" /\ ctl = "idle"
  /\ Quiet => OthersIdle
  /\ ctl' = IF polled THEN "del" ELSE "off"
  /\ polled' = FALSE
  /\ UNCHANGED <<st, refcnt, inKernel, count, kernel, linked, cmdActive, poll, held, done>>

stop_waited ==
  /\ ctl = "del" /\ poll = Idle
  /\ ctl' = "off"
  /\ UNCHANGED <<st, refcnt, inKernel, count, kernel, polled, linked, cmdActive, poll, held, done>>

\* VIDIOC_STREAMOFF empties the driver's queue.
streamoff ==
  /\ ctl = "off"
  /\ kernel' = {}
  /\ ctl' = "join"
  /\ UNCHANGED <<st, refcnt, inKernel, count, polled, linked, cmdActive, poll, held, done>>

\* The cmd thread works off its queue and is joined, under cmd_lock.
cmd_thread_release ==
  /\ ctl = "join"
  /\ held["cmd"] = {} /\ done["cmd"] = Idle
  /\ cmdActive' = FALSE
  /\ st' = "OFF" /\ ctl' = "idle"
  /\ UNCHANGED <<refcnt, inKernel, count, kernel, polled, linked, poll, held, done>>

\* The owners forget what they hold of a stream that was stopped.
unreg_buf ==
  /\ st = "OFF"
  /\ Quiet => poll = Idle
  /\ st' = "BUFFED"
  /\ kernel' = {} /\ inKernel' = {}
  /\ refcnt' = [b \in Bufs |-> 0]
  /\ held' = [h \in Owners |-> {}]
  /\ UNCHANGED <<ctl, count, polled, linked, cmdActive, poll, done>>

\* The other channel is started or stopped.
link ==
  /\ MayLink
  /\ linked' = ~linked
  /\ UNCHANGED <<st, ctl, refcnt, inKernel, count, kernel, polled, cmdActive, poll, held, done>>

---------------------------------------------------------------------------
Notify ==
  \E b \in Bufs :
    \/ read_msm_frame(b) \/ read_counts(b) \/ read_fails(b) \/ data_notify(b)
    \/ notify_channel(b) \/ notify_linked(b) \/ notify_cmd_thread(b)

Done(h, b) ==
  \/ buf_done(h, b) \/ buf_done_decrement(h, b) \/ qbuf(h, b) \/ qbuf_ioctl(h, b)
  \/ qbuf_failed(h, b) \/ mark_in_kernel(h, b)

Stop == stop_waited \/ streamoff \/ cmd_thread_release

Next ==
  \/ Notify
  \/ \E b \in Bufs : dispatch_app_data(b) \/ \E h \in Owners : Done(h, b)
  \/ reg_buf \/ start \/ start_fails \/ stop_del \/ Stop \/ unreg_buf \/ link

Spec == Init /\ [][Next]_vars

\* The threads run, an owner returns what it was handed, and a stop that has
\* begun goes on.
FairSpec ==
  /\ Spec
  /\ WF_vars(Notify) /\ WF_vars(Stop)
  /\ WF_vars(\E b \in Bufs : dispatch_app_data(b))
  /\ \A h \in Owners : WF_vars(\E b \in Bufs : Done(h, b))

---------------------------------------------------------------------------
(* Properties.                                                             *)

Places == {"read", "counted", "ref", "link", "cb"}
Steps == {"checked", "qbuf", "ioctl", "queued", "failed"}

\* Every variable has its type, and the count is within the buffers.
TypeOK ==
  /\ st \in {"BUFFED", "REG", "ACTIVE", "OFF"}
  /\ ctl \in {"idle", "del", "off", "join"}
  /\ refcnt \in [Bufs -> 0 .. 255]
  /\ inKernel \subseteq Bufs /\ kernel \subseteq Bufs
  /\ count \in 0 .. Cardinality(Bufs)
  /\ {polled, linked, cmdActive} \subseteq BOOLEAN
  /\ poll \in {Idle} \cup [at : Places, b : Bufs]
  /\ held \in [Owners -> SUBSET Bufs]
  /\ done \in [Owners -> {Idle} \cup [at : Steps, b : Bufs]]

\* The references the poll thread has counted and not yet handed on.
pending(b) ==
  CASE poll = At("ref", b) -> Bit(Bundled) + Bit(HasCb)
    [] poll \in {At("link", b), At("cb", b)} -> Bit(HasCb)
    [] OTHER -> 0

\* Every reference that buf_refcnt counts is held by somebody who will return
\* it, and everybody who may return one is counted: none leaks and none is
\* returned twice while the stream runs.  The driver never writes to a buffer
\* that somebody still reads.
RefcntIsOwed ==
  /\ st = "ACTIVE" =>
       \A b \in Bufs :
         refcnt[b] = pending(b)
                     + Cardinality({h \in Owners : b \in held[h]})
                     + Cardinality({h \in Owners : done[h] = At("checked", b)})
  /\ \A b \in kernel : refcnt[b] = 0 /\ \A h \in Owners : b \notin held[h]

\* queued_buffer_count, by which the threads decide who starts and who ends the
\* polling, is the number of buffers with the driver, give or take those on
\* their way in or out; and while the stream runs its fd is polled when there
\* are any, so that a filled buffer is noticed.  Nor is it polled when there are
\* none, except on a stream that gets no buffer when it is registered (HAL3's
\* gralloc memory): that one may have the entry of an earlier session until its
\* first buffer.
PolledWhileQueued ==
  st = "ACTIVE" =>
    /\ ctl \in {"idle", "del", "off"} =>
         count = Cardinality(kernel) + Bit(poll.at = "read")
                 + Cardinality({h \in Owners : done[h].at \in {"ioctl", "failed"}})
    /\ ctl = "idle" => /\ count > 0 => polled
                       /\ polled => count > 0 \/ InitialRegs = {}

\* While the stream runs the driver does not stay without buffers: if it has
\* none and somebody has one, one is offered to it (mm_stream_qbuf), whoever else
\* it was handed to.  Whether the driver takes it is another matter: a buffer
\* whose cache operation or VIDIOC_QBUF fails is lost for the session.
DriverIsFed ==
  st = "ACTIVE" /\ count = 0 /\ (\E b \in Bufs : refcnt[b] > 0)
    ~> ctl # "idle" \/ \E h \in Owners : done[h].at = "qbuf"
===========================================================================
