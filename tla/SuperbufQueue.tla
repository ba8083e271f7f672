-------------------------- MODULE SuperbufQueue --------------------------
(***************************************************************************)
(* The superbuf queue of a channel (mm_camera_channel.c): the buffers of   *)
(* the bundled streams are matched by frame number into superbufs, and the *)
(* matched superbufs are kept for a later request (BURST) or sent at once  *)
(* (CONTINUOUS).  Everything runs on the channel's cmd thread, one command *)
(* of its queue at a time (mm_channel_process_stream_buf): a command is an *)
(* action, and its handler is a function of the channel's state.           *)
(*                                                                         *)
(* Not modelled: the capture settings of MM_CAMERA_GENERIC_CMD_TYPE_       *)
(* CAPTURE_SETTING (isConfigCapture is FALSE), frame sync between two      *)
(* channels, failing allocations.                                          *)
(***************************************************************************)
EXTENDS Naturals, FiniteSets, SequencesExt

CONSTANTS
  Streams,     \* the bundled streams
  Meta,        \* the one of them that carries metadata
  Attrs,       \* the attributes that clients give to channels
  Metadata,    \* what a metadata buffer may say, besides NoNews
  Requests,    \* <<num_buf_requested, num_retro_buf_requested>>
  Own,         \* the streams that are not linked from another channel
  FutureWait,  \* MM_CAMERA_MAX_FUTURE_FRAME_WAIT
  MaxFrame,    \* bound: the last frame number
  MaxEvents    \* bound: commands and metadata with news

ASSUME SuperbufQueueAssumption ==
  /\ Meta \in Streams
  /\ Own \subseteq Streams
  /\ MaxFrame \in Nat /\ MaxEvents \in Nat /\ FutureWait \in Nat
  /\ Requests \subseteq Nat \X Nat
  /\ Attrs \subseteq [notify_mode : {"BURST", "CONTINUOUS"}, look_back : Nat, water_mark : Nat,
                      skip : Nat, max_unmatched : Nat, low : BOOLEAN,
                      user_expected : 0 .. MaxFrame + 1]
  /\ Metadata \subseteq [prep : {"none", "future", "done"}, crop1x : BOOLEAN, settled : BOOLEAN,
                         good : SUBSET [min : 0 .. MaxFrame + 1, max : 0 .. MaxFrame + 1,
                                        skip : 0 .. MaxFrame + 1],
                         divert : SUBSET (0 .. MaxFrame + 1)]

VARIABLES
  ch,          \* mm_channel_t with its mm_channel_queue_t
  last,        \* the last frame that each stream delivered
  state,       \* "starting" in mm_channel_start, "active", "stopped", "failed"
  events       \* the commands and news so far

vars == <<ch, last, state, events>>

Frames == 1 .. MaxFrame
Bit(x) == IF x THEN 1 ELSE 0
Least(S) == CHOOSE i \in S : \A j \in S : i <= j
The(S) == CHOOSE x \in S : TRUE

\* Frame numbers beyond the bound are all alike: no frame has them.
Frame(n) == IF n > MaxFrame THEN MaxFrame + 1 ELSE n

\* A metadata buffer that says nothing about the snapshot.
NoNews == [prep |-> "none", good |-> {}, divert |-> {}, crop1x |-> FALSE, settled |-> FALSE]

\* The attributes of a queue that mm_channel_start has cleared.
Zero == [notify_mode |-> "BURST", look_back |-> 0, water_mark |-> 0, skip |-> 0,
         max_unmatched |-> 0, low |-> FALSE, user_expected |-> 0]

Init ==
  /\ \E a \in Attrs :
       ch = [attr |-> a, que |-> <<>>, match_cnt |-> 0,
             expected |-> a.user_expected, good |-> 0, without_led |-> 0,
             led_off |-> 0, led_skip |-> 0, once |-> FALSE,
             diverted |-> 0, pending |-> 0, retro |-> 0, wait_prep |-> FALSE,
             need_led |-> FALSE, bracketing |-> "OFF", flash_br |-> FALSE,
             zoom1x |-> FALSE, start_zsl |-> FALSE, stop_zsl |-> FALSE,
             manual_zsl |-> FALSE, burst_num |-> 0, unlock_aec |-> FALSE,
             zsl |-> FALSE,                       \* the camera takes a ZSL snapshot
             owed |-> [x \in Streams |-> 0],      \* buffers not given back yet
             lost |-> [x \in Streams |-> 0],      \* those that never will be
             sent |-> 0]                          \* the last superbuf sent
  /\ last = [x \in Streams |-> 0]
  /\ state = "starting"
  /\ events = 0

---------------------------------------------------------------------------
(* Superbufs and the queue.                                                *)

filled(n) == {x \in Streams : n.buf[x] # 0}
burst(c) == c.attr.notify_mode = "BURST"

\* The buffers of a set of streams leave the queue: mm_channel_qbuf returns
\* each, or the client is handed them.
leave(c, S) == [c EXCEPT !.owed = [x \in Streams |-> @[x] - Bit(x \in S)]]
qbuf(c, x) == leave(c, {x})

\* The removal of a node whose buffers are returned; match_cnt is not touched.
remove(c, i) == [leave(c, filled(c.que[i])) EXCEPT !.que = RemoveAt(c.que, i)]

\* Mutant: the count is not taken down.
dequeue_uncounted(c) == [c EXCEPT !.que = Tail(@)]

\* mm_channel_superbuf_dequeue_internal, when it returns a node.
dequeue(c) ==
  [c EXCEPT !.que = Tail(@), !.match_cnt = @ - Bit(Head(c.que).matched)]

matchedHead(c) == c.que # <<>> /\ Head(c.que).matched

\* step is taken n times.
repeat(n, step(_), c) ==
  LET pass[k \in Nat] == IF k = 0 THEN c ELSE step(pass[k - 1]) IN pass[n]

\* step is taken as long as more holds; no loop of this code passes more
\* nodes than there are.
while(more(_), step(_), c) ==
  repeat(Len(c.que), LAMBDA d : IF more(d) THEN step(d) ELSE d, c)

dropHead(c) == dequeue(leave(c, filled(Head(c.que))))

\* A loop that waits for match_cnt to fall to n and meets an unmatched head
\* does not end; here it leaves match_cnt above n.
dropDownTo(c, n) ==
  while(LAMBDA d : d.match_cnt > n /\ matchedHead(d), dropHead, c)

superbuf_bufdone_overflow(c) ==
  IF burst(c) THEN dropDownTo(c, c.attr.water_mark) ELSE c

superbuf_skip(c) ==
  IF burst(c) THEN dropDownTo(c, c.attr.look_back) ELSE c

superbuf_flush_matched(c) == while(matchedHead, dropHead, c)

\* Flushes every node, and returns the buffers of the streams in S.
superbuf_flush(c, S) ==
  while(LAMBDA d : d.que # <<>>,
        LAMBDA d : dequeue(leave(d, filled(Head(d.que)) \cap S)), c)

---------------------------------------------------------------------------
(* mm_channel_handle_metadata: what the metadata of frame f changes.       *)

\* The news are applied in the order of the code; "goto end" is the case of
\* a requested 1x frame.
divert(c, f, md) ==
  IF md.divert = {} THEN c
  ELSE [c EXCEPT !.diverted = IF The(md.divert) >= f THEN The(md.divert) ELSE 0]

zoom1x(c, f, md) ==
  IF md.crop1x
  THEN [c EXCEPT !.zoom1x = FALSE, !.expected = f + 1]
  ELSE superbuf_flush_matched([c EXCEPT !.expected = Frame(@ + FutureWait)])

prepSnapshotDone(c, md) ==
  CASE md.prep = "none" -> c
    [] md.prep = "future" ->
         superbuf_flush([c EXCEPT !.wait_prep = FALSE, !.need_led = TRUE,
                                  !.expected = Frame(@ + FutureWait)], Streams)
    [] OTHER -> [c EXCEPT !.wait_prep = FALSE, !.need_led = FALSE]

goodFrame(c, md) ==
  IF md.good # {}
  THEN LET g == The(md.good)
           r == [c EXCEPT !.expected = g.min, !.good = g.min]
           d == IF c.need_led /\ c.burst_num > 1
                THEN [r EXCEPT !.led_off = g.max, !.led_skip = g.skip, !.once = FALSE]
                ELSE r
       IN  IF d.flash_br
           THEN [d EXCEPT !.without_led = g.max]
           ELSE [d EXCEPT !.bracketing = "ACTIVE"]
  ELSE IF c.bracketing = "WAIT_GOOD_FRAME_IDX" /\ md.prep = "none"
       THEN LET d == superbuf_flush_matched(c)
            IN  [d EXCEPT !.expected = Frame(@ + FutureWait)]
       ELSE c

\* The led burst is over: its last frames are those without the led.
ledBurst(c, f) ==
  IF /\ c.burst_num > 1 /\ c.need_led
     /\ ~c.flash_br /\ c.bracketing = "OFF"
     /\ f >= c.led_off /\ ~c.once
  THEN [c EXCEPT !.expected = Frame(c.led_off + c.led_skip), !.once = TRUE,
                 !.stop_zsl = TRUE, !.need_led = FALSE]
  ELSE c

\* Instant capture: the exposure settles before the frame the user expects.
instantCapture(c, f, md) ==
  IF c.attr.user_expected > f
  THEN IF md.settled THEN [c EXCEPT !.expected = f, !.attr.user_expected = 0] ELSE c
  ELSE [c EXCEPT !.attr.user_expected = 0]

handle_metadata(c, x, f, md) ==
  LET d == divert(c, f, md)
  IN  IF x # Meta THEN c
      ELSE IF d.zoom1x THEN zoom1x(d, f, md)
      ELSE instantCapture(ledBurst(goodFrame(prepSnapshotDone(d, md), md), f), f, md)

---------------------------------------------------------------------------
(* mm_channel_superbuf_comp_and_enqueue: frame f of stream x is matched.   *)

\* The first unmatched superbuf with this frame number; with low priority
\* also one that any later metadata completes, or a metadata that is later
\* than this frame.
takes(c, n, x, f) ==
  /\ ~n.matched
  /\ \/ n.frame = f
     \/ /\ c.attr.low /\ n.buf[x] = 0
        /\ IF x = Meta THEN n.frame < f ELSE n.umi > f

unmatched(c) == {i \in DOMAIN c.que : ~c.que[i].matched}

\* The unmatched nodes that the search passes, and the older of them.
passed(c, x, f) ==
  {i \in unmatched(c) : \A j \in 1 .. i : ~takes(c, c.que[j], x, f)}
older(c, x, f) == {i \in passed(c, x, f) : c.que[i].frame < f}
newer(c, x, f) == {i \in passed(c, x, f) : c.que[i].frame > f}

\* A superbuf has become complete with frame f.
matchedNow(c, f) ==
  IF c.flash_br
  THEN [c EXCEPT !.match_cnt = @ + 1, !.expected = c.without_led,
                 !.flash_br = f < c.without_led]
  ELSE [c EXCEPT !.match_cnt = @ + 1, !.expected = Frame(f + c.attr.skip)]

\* Mutant: the older superbufs stay.
release_none(c, i, j) == c

\* The nodes from i up to the one before j are released.
release(c, i, j) == repeat(j - i, LAMBDA d : remove(d, i), c)

fill(c, p, x, f) ==
  LET n == c.que[p]
      m == [n EXCEPT !.umi = 0, !.frame = IF n.umi > 0 THEN f ELSE @]
      k == [m EXCEPT !.buf[x] = f]
      old == older(c, x, f)
  IN  IF n.buf[x] # 0
      THEN qbuf([c EXCEPT !.que[p] = m], x)
      ELSE IF filled(k) = Streams
      THEN LET d == [c EXCEPT !.que[p] = [k EXCEPT !.matched = TRUE, !.exp = FALSE]]
               r == matchedNow(d, f)
           IN  IF old = {} THEN r ELSE release(r, Least(old), p)
      ELSE IF c.diverted = f
      THEN [c EXCEPT !.que[p] = [k EXCEPT !.exp = TRUE], !.diverted = 0]
      ELSE [c EXCEPT !.que[p] = k]

\* One unmatched superbuf too many: the node that makes room.  The code
\* goes on through a node that it has freed if there are more than one too
\* many, see RoomIsMade.
room(c, x, f) ==
  LET first == Least(older(c, x, f))
      free == {i \in first .. Len(c.que) :
                 ~c.que[i].exp /\ (newer(c, x, f) = {} \/ i # Least(newer(c, x, f)))}
  IN  IF free = {} THEN first ELSE Least(free)

insert(c, x, f) ==
  LET special == f \in {c.diverted, c.good}
      single == Streams = {x}
      node == [buf |-> [y \in Streams |-> IF y = x THEN f ELSE 0],
               frame |-> f, matched |-> single, exp |-> special /\ ~single,
               umi |-> IF c.attr.low /\ x = Meta THEN f ELSE 0]
      at == IF newer(c, x, f) = {} THEN Len(c.que) + 1 ELSE Least(newer(c, x, f))
      d == [c EXCEPT !.que = InsertAt(@, at, node),
                     !.diverted = IF special THEN 0 ELSE @]
  IN  IF single
      THEN [d EXCEPT !.match_cnt = @ + 1, !.expected = Frame(f + c.attr.skip)]
      ELSE d

add(c, x, f) ==
  LET full == Cardinality(passed(c, x, f)) > c.attr.max_unmatched
  IN  IF full /\ older(c, x, f) = {} THEN qbuf(c, x)
      ELSE insert(IF full THEN remove(c, room(c, x, f)) ELSE c, x, f)

\* mm_channel_validate_super_buf
validate_super_buf(c, f) ==
  \E i \in DOMAIN c.que : c.que[i].exp /\ c.que[i].frame = f

comp_and_enqueue(c, x, f, md) ==
  LET d == handle_metadata([c EXCEPT !.owed[x] = @ + 1], x, f, md)
      hits == {i \in DOMAIN d.que : takes(d, d.que[i], x, f)}
  IN  IF f < d.expected /\ ~validate_super_buf(d, f) THEN qbuf(d, x)
      ELSE IF hits # {} THEN fill(d, Least(hits), x, f)
      ELSE add(d, x, f)

---------------------------------------------------------------------------
(* mm_channel_process_stream_buf: what follows every command but a flush.  *)

startZsl(c) ==
  [c EXCEPT !.zsl = TRUE, !.start_zsl = TRUE, !.burst_num = c.pending, !.wait_prep = FALSE]

\* The end of a ZSL snapshot that the channel has started itself.
stopZsl(c) ==
  [c EXCEPT !.zsl = FALSE, !.start_zsl = FALSE, !.need_led = FALSE, !.burst_num = 0,
            !.stop_zsl = FALSE, !.unlock_aec = TRUE, !.bracketing = "OFF"]

zslIsOver(c) ==
  (c.pending = 0 \/ c.stop_zsl) /\ ~c.manual_zsl /\ c.start_zsl

triggerZsl(c) ==
  IF /\ c.pending > 0 /\ (c.need_led \/ c.bracketing # "OFF")
     /\ ~c.manual_zsl /\ ~c.start_zsl
  THEN startZsl(c)
  ELSE IF zslIsOver(c) THEN [stopZsl(c) EXCEPT !.wait_prep = FALSE]
  ELSE c

\* Mutant: the count goes below zero.
countSent_unguarded(c) ==
  [c EXCEPT !.pending = @ - 1, !.wait_prep = @ \/ c.retro = 1, !.retro = @ - 1]

\* The last of the retro frames asks for the preparation of the snapshot.
countSent(c) ==
  [c EXCEPT !.pending = @ - 1,
            !.wait_prep = @ \/ c.retro = 1,
            !.retro = IF @ > 0 THEN @ - 1 ELSE 0]

\* Mutant: the superbuf is sent and its buffers are also returned.
send_super_buf_twice(c, n) ==
  [leave(leave(c, filled(n)), filled(n)) EXCEPT !.sent = n.frame, !.unlock_aec = FALSE]

send_super_buf(c, n) ==
  [leave(c, filled(n)) EXCEPT !.sent = n.frame, !.unlock_aec = FALSE]

\* Mutant: the superbuf at the tail is sent.
dispatchOne_newest(c) ==
  LET n == c.que[Len(c.que)]
  IN  send_super_buf(countSent([c EXCEPT !.que = Front(@), !.match_cnt = @ - Bit(n.matched)]), n)

dispatchOne(c) ==
  LET d == dequeue(c)
      e == IF ~burst(c) THEN d
           ELSE IF zslIsOver(countSent(d)) THEN stopZsl(countSent(d))
           ELSE countSent(d)
  IN  send_super_buf(e, Head(c.que))

dispatch(c) ==
  while(LAMBDA d : (d.pending > 0 \/ ~burst(d)) /\ ~d.wait_prep /\ matchedHead(d),
        dispatchOne, c)

process(c) == ch' = dispatch(superbuf_bufdone_overflow(triggerZsl(c)))

---------------------------------------------------------------------------
(* The commands.                                                           *)

event == events < MaxEvents /\ events' = events + 1

\* MM_CAMERA_CMD_TYPE_DATA_CB: a stream delivers its next frame; some are
\* lost before.
DataCb(x, f) ==
  /\ state \in {"starting", "active"}
  /\ f > last[x]
  /\ last' = [last EXCEPT ![x] = f]
  /\ \/ process(comp_and_enqueue(ch, x, f, NoNews)) /\ UNCHANGED events
     \/ x = Meta /\ event /\ \E md \in Metadata : process(comp_and_enqueue(ch, x, f, md))
  /\ UNCHANGED state

\* MM_CAMERA_CMD_TYPE_REQ_DATA_CB; a cancel requests no buffer.
RequestSuperBuf(n, r) ==
  /\ state = "active" /\ event
  /\ LET retro == IF r > n THEN n ELSE r
     IN  process(superbuf_skip([ch EXCEPT !.pending = n, !.retro = retro,
                                          !.wait_prep = FALSE,
                                          !.need_led = @ /\ retro = 0,
                                          !.stop_zsl = FALSE, !.unlock_aec = FALSE]))
  /\ UNCHANGED <<last, state>>

\* MM_CAMERA_CMD_TYPE_FLUSH_QUEUE, which a client waits for: it returns
\* without the rest.
FlushQueue(f) ==
  /\ state = "active" /\ event
  /\ ch' = superbuf_flush([ch EXCEPT !.expected = f], Streams)
  /\ UNCHANGED <<last, state>>

\* mm_channel_start fails because stream x of its own does not start: the
\* queue is flushed for the type of x, while the streams of other channels
\* that are linked here go on.  The client deletes the channel.
StartFails(x) ==
  /\ state = "starting" /\ last[x] = 0
  /\ LET c == superbuf_flush([ch EXCEPT !.expected = 0], {x})
     IN  ch' = [c EXCEPT !.lost = c.owed, !.attr = Zero,
                         !.good = 0, !.without_led = 0, !.led_off = 0, !.led_skip = 0,
                         !.once = FALSE, !.wait_prep = FALSE]
  /\ state' = "failed"
  /\ UNCHANGED <<last, events>>

\* MM_CAMERA_CMD_TYPE_START_ZSL and MM_CAMERA_CMD_TYPE_STOP_ZSL
StartZsl ==
  /\ state = "active" /\ event
  /\ process([ch EXCEPT !.manual_zsl = TRUE, !.zsl = TRUE])
  /\ UNCHANGED <<last, state>>

StopZsl ==
  /\ state = "active" /\ event
  /\ process([ch EXCEPT !.manual_zsl = FALSE, !.zsl = FALSE])
  /\ UNCHANGED <<last, state>>

\* MM_CAMERA_CMD_TYPE_CONFIG_NOTIFY
ConfigNotify(mode) ==
  /\ state = "active" /\ event
  /\ process([ch EXCEPT !.attr.notify_mode = mode])
  /\ UNCHANGED <<last, state>>

\* MM_CAMERA_CMD_TYPE_GENERAL
General(type, start) ==
  /\ state = "active" /\ event
  /\ LET c == superbuf_flush(ch, Streams)
     IN  process(CASE type = "AE" ->
                        [c EXCEPT !.bracketing = IF start THEN "WAIT_GOOD_FRAME_IDX" ELSE "OFF"]
                   [] type = "FLASH" -> [c EXCEPT !.flash_br = start]
                   [] type = "ZOOM_1X" -> [c EXCEPT !.zoom1x = start])
  /\ UNCHANGED <<last, state>>

\* mm_channel_stop: the streams are off, the queue is flushed and its thread
\* ends.  mm_channel_start: the frame numbers begin again.
Stop ==
  /\ state = "active" /\ event
  /\ ch' = [superbuf_flush([ch EXCEPT !.expected = 0], Streams)
            EXCEPT !.good = 0, !.match_cnt = 0]
  /\ state' = "stopped"
  /\ UNCHANGED last

Start ==
  /\ state = "stopped"
  /\ ch' = [ch EXCEPT !.expected = ch.attr.user_expected, !.without_led = 0,
                      !.led_off = 0, !.good = 0, !.sent = 0]
  /\ last' = [x \in Streams |-> 0]
  /\ state' = "starting"
  /\ UNCHANGED events

Started ==
  /\ state = "starting"
  /\ ch' = [ch EXCEPT !.wait_prep = FALSE]
  /\ state' = "active"
  /\ UNCHANGED <<last, events>>

Next ==
  \/ \E x \in Streams, f \in Frames : DataCb(x, f)
  \/ \E r \in Requests : RequestSuperBuf(r[1], r[2])
  \/ \E f \in 0 .. MaxFrame : FlushQueue(f)
  \/ \E x \in Own : StartFails(x)
  \/ StartZsl \/ StopZsl
  \/ \E mode \in {"BURST", "CONTINUOUS"} : ConfigNotify(mode)
  \/ \E type \in {"AE", "FLASH", "ZOOM_1X"}, start \in BOOLEAN : General(type, start)
  \/ Stop \/ Start \/ Started

Spec == Init /\ [][Next]_vars

---------------------------------------------------------------------------
(* Properties.                                                             *)

Node == [buf : [Streams -> 0 .. MaxFrame], frame : Frames, umi : 0 .. MaxFrame,
         matched : BOOLEAN, exp : BOOLEAN]

\* The type invariant: the counts of requests and of matches do not wrap, and
\* at most one node per frame that can be unmatched is queued.
TypeOK ==
  /\ ch.que \in Seq(Node)
  /\ {ch.match_cnt, ch.pending, ch.retro, ch.burst_num} \subseteq Nat
  /\ {ch.expected, ch.good, ch.without_led, ch.led_off, ch.diverted, ch.sent}
       \subseteq 0 .. MaxFrame + 1
  /\ {ch.wait_prep, ch.need_led, ch.flash_br, ch.zoom1x, ch.start_zsl, ch.stop_zsl,
      ch.manual_zsl, ch.once, ch.unlock_aec, ch.zsl} \subseteq BOOLEAN
  /\ ch.bracketing \in {"OFF", "WAIT_GOOD_FRAME_IDX", "ACTIVE"}
  /\ {ch.owed, ch.lost} \subseteq [Streams -> Nat]
  /\ last \in [Streams -> 0 .. MaxFrame]
  /\ state \in {"starting", "active", "stopped", "failed"} /\ events \in 0 .. MaxEvents

\* The matched superbufs are at the head: those who take from the head only
\* what is matched (dispatch, overflow, skip) never wait behind a frame that
\* will not be completed.  match_cnt, which their loops trust, is their number,
\* although nodes are also removed without touching it.
MatchedFirst ==
  /\ \A i, j \in DOMAIN ch.que : i < j /\ ch.que[j].matched => ch.que[i].matched
  /\ ch.match_cnt = Cardinality({i \in DOMAIN ch.que : ch.que[i].matched})

\* The loops that make room end: that of mm_channel_superbuf_bufdone_overflow
\* brings match_cnt down to the water mark after every command; and the one
\* over the unmatched superbufs, which steps on through the node it has just
\* freed, is over after its first removal, since there is never more than one
\* too many.
RoomIsMade ==
  /\ burst(ch) => ch.match_cnt <= ch.attr.water_mark
  /\ Cardinality(unmatched(ch)) <= ch.attr.max_unmatched + 1

\* A buffer that came in is in exactly one superbuf of the queue, until it
\* is returned or sent once, or lost by a failed start.
BuffersAccounted ==
  \A x \in Streams :
    ch.owed[x] = ch.lost[x] + Cardinality({i \in DOMAIN ch.que : ch.que[i].buf[x] # 0})

\* Superbufs are sent in the order of their frames until the channel is
\* started again, however the expected frame is moved.
SentInOrder == [][ch'.sent # ch.sent => ch'.sent = 0 \/ ch'.sent > ch.sent]_vars
===========================================================================
