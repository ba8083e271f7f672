---------------------------- MODULE Hal3Requests ----------------------------
(***************************************************************************)
(* The request life cycle of the HAL3 hardware interface,                  *)
(* QCamera3HardwareInterface in QCamera3HWI.cpp: the requests the camera   *)
(* framework submits, the pending request list and the pending buffers     *)
(* map, the callbacks of the metadata, picture and reprocess channels, the *)
(* wait that limits the requests in flight, flush, and device errors.      *)
(*                                                                         *)
(* One action is one stretch of code under mMutex.  Frame numbers grow, so *)
(* the order of the lists is the order of the numbers, and lists of frames *)
(* are sets here.  The channels and the daemon (due, hw) are external.     *)
(***************************************************************************)
EXTENDS Integers, FiniteSets

CONSTANTS MaxFrame,        \* bound: requests submitted
          MaxUpsets,       \* bound: flush calls, daemon events, refusals, timeouts, failures
          Streams, Blob,   \* output streams; the one that carries JPEG
          Requests,        \* the requests the framework may make
          MinInFlight,     \* MIN_INFLIGHT_REQUESTS
          MaxInFlight      \* MAX_INFLIGHT_REQUESTS

ASSUME HalAssumption ==
    /\ MaxFrame \in Nat \ {0}
    /\ MaxUpsets \in Nat
    /\ Blob \in Streams /\ IsFiniteSet(Streams) /\ "input" \notin Streams
    /\ MinInFlight \in Nat \ {0} /\ MaxInFlight \in Nat
    \* A sensor image on some streams, or one buffer made from an input buffer:
    \* pproc goes through the reprocess channel, direct is only encoded.
    /\ Requests \subseteq [kind : {"live"}, out : (SUBSET Streams) \ {{}}]
                         \cup [kind : {"pproc"}, out : {{s} : s \in Streams}]
                         \cup [kind : {"direct"}, out : {{Blob}}]

VARIABLES
    state,        \* mState
    ask,          \* the requests as they were submitted
    pending,      \* frames of mPendingRequestsList
    outstanding,  \* mPendingBuffersMap: the buffers of each frame in it
    cached,       \* buffers kept in a pending request for its metadata
    reproc,       \* frames of mPendingReprocessResultList
    dropped,      \* mPendingFrameDropList
    live,         \* mPendingLiveRequest
    mFlush,
    woken,        \* mWokenUpByDaemon
    sig,          \* mRequestCond was signalled since the caller waits on it
    pc,           \* where the request thread and the flush thread are
    device,       \* the threads whose flush is for a device error
    due, hw,      \* external: metadata and stream buffers the channels owe
    died,         \* history: the daemon died
    spoilt,       \* history: a flush met reprocess requests, or broke off
    upsets,       \* bound: how many of them came so far
    crashed,      \* flush dereferenced the end of mPendingRequestsList
    fw            \* what the framework has heard (CaptureContract)

lists == <<pending, outstanding, cached, reproc, dropped>>
backend == <<due, hw>>
history == <<died, spoilt, upsets, crashed>>
vars == <<state, ask, lists, live, mFlush, woken, sig, pc, device, backend, history, fw>>

Frames == 1 .. MaxFrame
Threads == {"req", "flush"}
Dead == {"ERROR", "DEINIT"}
None == [kind |-> "none", out |-> {}]
Input == {"pproc", "direct"}

\* A flush that does not pair its lists right voids the contract.
Contract == INSTANCE CaptureContract WITH void <- spoilt

IsLive(f) == ask[f].kind = "live"
IsInput(f) == ask[f].kind \in Input

Init ==
    /\ state = "CONFIGURED"
    /\ ask = [f \in Frames |-> None]
    /\ pending = {} /\ reproc = {} /\ dropped = {}
    /\ outstanding = [f \in Frames |-> {}]
    /\ cached = [f \in Frames |-> {}]
    /\ live = 0
    /\ mFlush = FALSE /\ woken = FALSE /\ sig = FALSE
    /\ pc = [t \in Threads |-> "idle"]
    /\ device = {}
    /\ due = {} /\ hw = {}
    /\ died = FALSE /\ spoilt = FALSE /\ upsets = 0 /\ crashed = FALSE
    /\ Contract!Init

\* One more of the events that MaxUpsets bounds.
Upset == upsets < MaxUpsets /\ upsets' = upsets + 1

\* Mutant: the waiting caller is not signalled.
unblock_nobody == UNCHANGED sig

\* unblockRequestIfNecessary: a signal is lost when nobody waits.
unblockRequestIfNecessary == sig' = (sig \/ pc["req"] = "wait")

-----------------------------------------------------------------------------
(* What the framework hears, as changes of its view w.                     *)

Notified(w, f) == [w EXCEPT ![f].shutter = TRUE]
Resulted(w, f) == [w EXCEPT ![f].result = TRUE]
Lost(w, lost) == [f \in Frames |-> [w[f] EXCEPT !.told = @ \cup {s \in Streams : <<f, s>> \in lost}]]
Returned(w, f, S, bad) ==
    [w EXCEPT ![f].buffers = [s \in Streams |->
        IF s \notin S THEN @[s] ELSE IF <<f, s>> \in bad THEN "error" ELSE "ok"]]

-----------------------------------------------------------------------------
(* The request thread: processCaptureRequest.                              *)

\* The request enters the list and the map.
Insert(f, r) ==
    /\ ask' = [ask EXCEPT ![f] = r]
    /\ pending' = pending \cup {f}
    /\ outstanding' = [outstanding EXCEPT ![f] = r.out]
    /\ fw' = [fw EXCEPT ![f] = Contract!Asked(r.kind = "live", r.out)]
    /\ UNCHANGED <<cached, reproc, dropped>>

\* The work the channels now owe for the request.
Owed(f, r) == {<<f, s>> : s \in r.out} \cup (IF r.kind = "pproc" THEN {<<f, "input">>} ELSE {})

NextFrame(f) == ask[f] = None /\ \A g \in Frames : g < f => ask[g] # None

\* Mutant: a request with a JPEG buffer is not counted.
count_preview(r, n) == IF r.kind = "live" /\ Blob \notin r.out THEN n + 1 ELSE n

\* mPendingLiveRequest++ for a request that the sensor serves.
count_live(r, n) == IF r.kind = "live" THEN n + 1 ELSE n

\* A request is taken; the caller waits while too many are in flight.
processCaptureRequest(f, r) ==
    LET first == state = "CONFIGURED"
        base == IF first THEN 0 ELSE live
        now == count_live(r, base)
    IN /\ pc["req"] = "idle" /\ state \in {"CONFIGURED", "STARTED"}
       /\ NextFrame(f) /\ ~mFlush
       /\ Insert(f, r)
       /\ live' = now
       /\ woken' = (woken /\ ~first)
       /\ state' = "STARTED"
       /\ due' = IF r.kind = "live" THEN due \cup {f} ELSE due
       /\ hw' = hw \cup Owed(f, r)
       /\ pc' = [pc EXCEPT !["req"] =
                    IF r.kind = "live" /\ now >= MinInFlight THEN "wait" ELSE "idle"]
       /\ sig' = FALSE
       /\ UNCHANGED <<mFlush, device, history>>

\* During a flush the request is only recorded.
RequestInFlush(f, r) ==
    /\ pc["req"] = "idle" /\ state \in {"CONFIGURED", "STARTED"}
    /\ NextFrame(f) /\ mFlush
    /\ Insert(f, r)
    /\ live' = IF state = "CONFIGURED" THEN 0 ELSE live
    /\ woken' = (woken /\ state # "CONFIGURED")
    /\ UNCHANGED <<state, mFlush, sig, pc, device, backend, history>>

\* A channel refuses: those before it keep what they accepted, the request stays
\* in the lists, the call fails, and the framework submits nothing more.
RequestRefused(f, r) ==
    /\ pc["req"] = "idle" /\ state \in {"CONFIGURED", "STARTED"}
    /\ NextFrame(f) /\ ~mFlush
    /\ Insert(f, r)
    /\ live' = IF state = "CONFIGURED" THEN 0 ELSE live
    /\ woken' = (woken /\ state # "CONFIGURED")
    /\ \E S \in SUBSET (IF r.kind = "live" THEN r.out ELSE {}) : hw' = hw \cup {<<f, s>> : s \in S}
    /\ pc' = [pc EXCEPT !["req"] = "gone"]
    /\ Upset
    /\ UNCHANGED <<state, mFlush, sig, device, due, died, spoilt, crashed>>

\* A request in the error state: handleCameraDeviceError, then -ENODEV.
RequestInError ==
    /\ pc["req"] = "idle"
    /\ pc' = [pc EXCEPT !["req"] = IF state = "ERROR" THEN "error" ELSE "gone"]
    /\ state \in Dead
    /\ UNCHANGED <<state, ask, lists, live, mFlush, woken, sig, device, backend, history, fw>>

\* The wait of processCaptureRequest, at a signal.
WaitWakes ==
    /\ pc["req"] = "wait" /\ sig
    /\ sig' = FALSE /\ woken' = FALSE
    /\ pc' = [pc EXCEPT !["req"] =
                 IF \/ woken /\ live < MaxInFlight
                    \/ live < MinInFlight
                    \/ state \in Dead
                 THEN "idle" ELSE "wait"]
    /\ UNCHANGED <<state, ask, lists, live, mFlush, device, backend, history, fw>>

\* Five seconds without a signal: -ENODEV, the request stays in progress.
WaitTimesOut ==
    /\ pc["req"] = "wait"
    /\ pc' = [pc EXCEPT !["req"] = "gone"]
    /\ Upset
    /\ UNCHANGED <<state, ask, lists, live, mFlush, woken, sig, device, backend,
                   died, spoilt, crashed, fw>>

-----------------------------------------------------------------------------
(* The callbacks of the channels and of the daemon.                        *)

\* The loop of handleMetadataWithLock up to the metadata of frame f: a live
\* request before f has lost its metadata and stops the loop; a reprocess
\* request is skipped.
Missing(f) == {g \in pending : g < f /\ IsLive(g)}
Reached(f) == {g \in pending : g <= f /\ \A h \in Missing(f) : g <= h}

\* The entries the loop reaches have their buffers of the streams in D dropped.
DropNoted(f, D) == {b \in Reached(f) \X D : b[2] \in ask[b[1]].out}

\* handlePendingReprocResults: only one frame number is looked for.
\* What the framework hears when the cached result of frame g is sent.
SentResult(w, g) ==
    IF g \notin reproc THEN w
    ELSE IF g \notin pending THEN Notified(w, g)
    ELSE Returned(Resulted(Notified(w, g), g), g, ask[g].out, {})

\* The metadata of f answers the pending request f, with its cached buffers.
Answer(f, noted) ==
    LET bad == dropped \cup noted
        told == Lost(fw, noted)
        done == Returned(Resulted(Notified(told, f), f), f, cached[f], bad)
    IN /\ live' = live - 1
       /\ fw' = SentResult(done, f + 1)
       /\ pending' = pending \ ({f} \cup ({f + 1} \cap reproc))
       /\ reproc' = reproc \ {f + 1}
       /\ outstanding' = [outstanding EXCEPT ![f] = @ \ cached[f]]
       /\ cached' = [cached EXCEPT ![f] = {}]
       /\ dropped' = bad \ ({f} \X cached[f])
       /\ UNCHANGED state

\* Metadata of frame f, earlier metadata that did not come being lost; D are
\* the streams whose buffers it reports dropped, never the JPEG stream.
handleMetadata(f, D) ==
    /\ f \in due
    /\ due' = {g \in due : g > f}
    /\ UNCHANGED <<ask, mFlush, woken, pc, device, hw, history>>
    /\ \/ /\ state \in Dead /\ D = {}
          /\ UNCHANGED <<state, lists, live, sig, fw>>
       \/ /\ state \notin Dead /\ Missing(f) # {}
          /\ state' = "ERROR"
          /\ dropped' = dropped \cup DropNoted(f, D)
          /\ fw' = Lost(fw, DropNoted(f, D))
          /\ unblockRequestIfNecessary
          /\ UNCHANGED <<pending, outstanding, cached, reproc, live>>
       \/ /\ state \notin Dead /\ Missing(f) = {} /\ f \in pending
          /\ Answer(f, DropNoted(f, D))
          /\ unblockRequestIfNecessary
       \/ /\ state \notin Dead /\ Missing(f) = {} /\ f \notin pending
          /\ dropped' = dropped \cup DropNoted(f, D)
          /\ fw' = Lost(fw, DropNoted(f, D))
          /\ unblockRequestIfNecessary
          /\ UNCHANGED <<state, pending, outstanding, cached, reproc, live>>

\* The reprocess channel has read the input buffer: shutter and final result,
\* whatever the state.
handleInputBuffer(f) ==
    /\ <<f, "input">> \in hw
    /\ hw' = hw \ {<<f, "input">>}
    /\ IF f \in pending /\ IsInput(f)
       THEN fw' = Resulted(Notified(fw, f), f) /\ pending' = pending \ {f}
       ELSE UNCHANGED <<fw, pending>>
    /\ UNCHANGED <<state, ask, outstanding, cached, reproc, dropped, live, mFlush,
                   woken, sig, pc, device, due, history>>

\* Mutant: the buffer stays in the map.
return_unmapped(f, s) ==
    /\ f \notin pending
    /\ fw' = Returned(fw, f, {s}, dropped)
    /\ dropped' = dropped \ {<<f, s>>}
    /\ UNCHANGED <<outstanding, pending, cached, reproc>>

\* A buffer whose request has had its result goes straight to the framework.
ReturnBuffer(f, s) ==
    /\ f \notin pending
    /\ fw' = Returned(fw, f, {s}, dropped)
    /\ dropped' = dropped \ {<<f, s>>}
    /\ outstanding' = [outstanding EXCEPT ![f] = @ \ {s}]
    /\ UNCHANGED <<pending, cached, reproc>>

\* A reprocessed buffer carries the shutter and the result of its request,
\* now if no earlier request is pending, else when a later call looks for it.
ReturnReprocessed(f, s) ==
    /\ f \in pending /\ IsInput(f)
    /\ outstanding' = [outstanding EXCEPT ![f] = @ \ {s}]
    /\ IF \A g \in pending : g >= f
       THEN /\ fw' = Returned(Resulted(Notified(fw, f), f), f, {s}, {})
            /\ pending' = pending \ {f}
            /\ UNCHANGED reproc
       ELSE /\ reproc' = reproc \cup {f}
            /\ UNCHANGED <<fw, pending>>
    /\ UNCHANGED <<cached, dropped>>

\* The buffer of a live request waits for the metadata.
KeepBuffer(f, s) ==
    /\ f \in pending /\ ~IsInput(f)
    /\ cached' = [cached EXCEPT ![f] = @ \cup {s}]
    /\ UNCHANGED <<fw, pending, outstanding, reproc, dropped>>

\* A stream buffer, filled; a reprocessed one comes after its input is read.
handleBuffer(f, s) ==
    /\ <<f, s>> \in hw /\ s \in Streams /\ <<f, "input">> \notin hw
    /\ hw' = hw \ {<<f, s>>}
    /\ IF state \in Dead THEN UNCHANGED <<lists, fw>>
       ELSE ReturnBuffer(f, s) \/ ReturnReprocessed(f, s) \/ KeepBuffer(f, s)
    /\ UNCHANGED <<state, ask, live, mFlush, woken, sig, pc, device, due, history>>

\* camEvtHandle: the daemon died; nobody is woken.
DaemonDied ==
    /\ ~died
    /\ died' = TRUE /\ state' = "ERROR"
    /\ Upset
    /\ UNCHANGED <<ask, lists, live, mFlush, woken, sig, pc, device, backend, spoilt, crashed, fw>>

\* camEvtHandle: the daemon asks for requests.
DaemonPullsRequest ==
    /\ ~died
    /\ woken' = TRUE
    /\ Upset
    /\ unblockRequestIfNecessary
    /\ UNCHANGED <<state, ask, lists, live, mFlush, pc, device, backend, died, spoilt, crashed, fw>>

-----------------------------------------------------------------------------
(* Flush, called by the framework or by handleCameraDeviceError, by either *)
(* thread.  The stops run without mMutex, the rest is one stretch under it.*)

\* The static flush: only a started device upsets; an ERROR is cleaned up.
FlushCalled ==
    /\ pc["flush"] = "idle" /\ state \in {"STARTED", "ERROR"}
    /\ Upset
    /\ pc' = [pc EXCEPT !["flush"] = IF state = "STARTED" THEN "flag" ELSE "error"]
    /\ UNCHANGED <<state, ask, lists, live, mFlush, woken, sig, device, backend, died, spoilt,
                   crashed, fw>>

\* Where a thread goes when its flush, or its device error, is over.
Over(t) == IF t = "req" THEN "gone" ELSE "idle"

\* handleCameraDeviceError looks at the state again.
DeviceErrorFound(t) ==
    /\ pc[t] = "error"
    /\ IF state = "ERROR"
       THEN pc' = [pc EXCEPT ![t] = "flag"] /\ device' = device \cup {t}
       ELSE pc' = [pc EXCEPT ![t] = Over(t)] /\ UNCHANGED device
    /\ UNCHANGED <<state, ask, lists, live, mFlush, woken, sig, backend, history, fw>>

FlushFlagged(t) ==
    /\ pc[t] = "flag"
    /\ mFlush' = TRUE
    /\ pc' = [pc EXCEPT ![t] = "streams"]
    /\ UNCHANGED <<state, ask, lists, live, woken, sig, device, backend, history, fw>>

\* stopAllChannels: the stream channels, whose threads end their callback...
StreamsStopped(t) ==
    /\ pc[t] = "streams"
    /\ \A f \in Frames : ask[f].kind = "pproc" /\ Blob \notin ask[f].out =>
           \A s \in ask[f].out : <<f, s>> \in hw => <<f, "input">> \in hw
    /\ hw' = {}
    /\ pc' = [pc EXCEPT ![t] = "meta"]
    /\ UNCHANGED <<state, ask, lists, live, mFlush, woken, sig, device, due, history, fw>>

\* ... then the metadata channel; setBundleInfo may fail and end the flush.
MetadataStopped(t) ==
    /\ pc[t] = "meta"
    /\ due' = {}
    /\ \/ pc' = [pc EXCEPT ![t] = "notify"] /\ UNCHANGED <<spoilt, upsets>>
       \/ /\ pc' = [pc EXCEPT ![t] = IF t \in device THEN "deinit" ELSE "idle"]
          /\ spoilt' = TRUE /\ Upset
    /\ UNCHANGED <<state, ask, lists, live, mFlush, woken, sig, device, hw, died, crashed, fw>>

(* notifyErrorForPendingRequests pairs the map with the list from its head:*)
(* buffers of frames before the head return in error; every later frame of *)
(* the map is reported failed, and the head of the list is erased for it.  *)
\* Mutant: frames whose result was sent count as failed, too.
failed_all == {f \in Frames : outstanding[f] # {}}

Failed == {f \in Frames : outstanding[f] # {} /\ \E h \in pending : h <= f}
Paired ==
    {f \in pending : Cardinality({g \in pending : g < f}) < Cardinality(Failed)}
PastTheEnd == Cardinality(Failed) > Cardinality(pending)

Discarded(f) ==
    [fw[f] EXCEPT
        !.failed = @ \/ f \in Failed,
        !.told = IF f \in Failed THEN @ ELSE @ \cup outstanding[f],
        !.buffers = [s \in Streams |-> IF s \in outstanding[f] THEN "error" ELSE @[s]]]

\* Mutant: the counter is left as it is.
keep_live == UNCHANGED live
reset_live == live' = 0

PendingNotified(t) ==
    /\ pc[t] = "notify" /\ ~PastTheEnd
    /\ reset_live
    /\ unblockRequestIfNecessary
    /\ fw' = [f \in Frames |-> Discarded(f)]
    /\ pending' = pending \ Paired
    /\ cached' = [f \in Frames |-> IF f \in Paired THEN {} ELSE cached[f]]
    /\ outstanding' = [f \in Frames |-> {}]
    /\ dropped' = {} /\ reproc' = {}
    /\ mFlush' = FALSE
    /\ spoilt' = (spoilt \/ \E f \in Frames : IsInput(f) /\ (f \in pending \/ outstanding[f] # {}))
    /\ pc' = [pc EXCEPT ![t] = IF t \in device THEN "deinit" ELSE "idle"]
    /\ UNCHANGED <<state, ask, woken, device, backend, died, upsets, crashed>>

\* More frames in the map than in the list: undefined behaviour, the end.
FlushPastTheEnd(t) ==
    /\ pc[t] = "notify" /\ PastTheEnd
    /\ crashed' = TRUE
    /\ spoilt' = (spoilt \/ \E f \in Frames : IsInput(f) /\ (f \in pending \/ outstanding[f] # {}))
    /\ UNCHANGED <<state, ask, lists, live, mFlush, woken, sig, pc, device, backend, died, upsets, fw>>

\* handleCameraDeviceError ends: DEINIT, and CAMERA3_MSG_ERROR_DEVICE.
DeviceErrorEnds(t) ==
    /\ pc[t] = "deinit"
    /\ state' = "DEINIT"
    /\ pc' = [pc EXCEPT ![t] = Over(t)]
    /\ device' = device \ {t}
    /\ UNCHANGED <<ask, lists, live, mFlush, woken, sig, backend, history, fw>>

\* The framework configures anew once everything it asked for has come back.
configureStreams ==
    /\ pc = [t \in Threads |-> "idle"] /\ state = "STARTED"
    /\ \A f \in Frames : fw[f].asked =>
           /\ fw[f].result \/ fw[f].failed
           /\ \A s \in Streams : fw[f].buffers[s] # "out"
    /\ state' = "CONFIGURED"
    /\ pending' = {} /\ reproc' = {} /\ dropped' = {}
    /\ outstanding' = [f \in Frames |-> {}]
    /\ due' = {} /\ hw' = {}
    /\ UNCHANGED <<ask, cached, live, mFlush, woken, sig, pc, device, history, fw>>

-----------------------------------------------------------------------------
RequestStep ==
    \/ \E f \in Frames, r \in Requests :
          processCaptureRequest(f, r) \/ RequestInFlush(f, r) \/ RequestRefused(f, r)
    \/ RequestInError \/ WaitWakes \/ WaitTimesOut

CallbackStep ==
    \/ \E f \in Frames, D \in SUBSET (Streams \ {Blob}) : handleMetadata(f, D)
    \/ \E f \in Frames : handleInputBuffer(f)
    \/ \E f \in Frames, s \in Streams : handleBuffer(f, s)
    \/ DaemonDied \/ DaemonPullsRequest

FlushStep(t) ==
    \/ DeviceErrorFound(t) \/ FlushFlagged(t) \/ StreamsStopped(t) \/ MetadataStopped(t)
    \/ PendingNotified(t) \/ FlushPastTheEnd(t) \/ DeviceErrorEnds(t)

Next ==
    /\ ~crashed
    /\ \/ RequestStep
       \/ CallbackStep
       \/ FlushCalled
       \/ \E t \in Threads : FlushStep(t)
       \/ configureStreams

Spec == Init /\ [][Next]_vars

-----------------------------------------------------------------------------
(* Properties.                                                             *)

\* The variables keep their types; the unsigned counter does not go below zero.
TypeOK ==
    /\ state \in {"CONFIGURED", "STARTED", "ERROR", "DEINIT"}
    /\ ask \in [Frames -> Requests \cup {None}]
    /\ pending \in SUBSET Frames /\ reproc \in SUBSET Frames
    /\ outstanding \in [Frames -> SUBSET Streams] /\ cached \in [Frames -> SUBSET Streams]
    /\ dropped \in SUBSET (Frames \X Streams)
    /\ live \in Nat
    /\ {mFlush, woken, sig, died, spoilt, crashed} \subseteq BOOLEAN
    /\ pc \in [Threads -> {"idle", "wait", "gone", "error", "flag", "streams", "meta",
                           "notify", "deinit"}]
    /\ device \in SUBSET Threads /\ upsets \in 0 .. MaxUpsets
    /\ due \in SUBSET Frames /\ hw \in SUBSET (Frames \X (Streams \cup {"input"}))

\* mPendingLiveRequest, the unsigned counter that blocks the framework, never
\* exceeds the live requests in the list, so it never wraps below zero, and is
\* their number unless a flush or a refusal left requests that nobody serves.
LiveAgrees ==
    LET alive == Cardinality({f \in pending : IsLive(f)})
    IN state = "STARTED" =>
        /\ live <= alive
        /\ (~mFlush /\ ~spoilt /\ pc["req"] # "gone") => live = alive

\* The request thread never sleeps unsignalled with room for a request, except
\* after the daemon's death, which wakes nobody.
NoIdleWait ==
    (pc["req"] = "wait" /\ ~sig) => (state = "STARTED" /\ live >= MinInFlight) \/ died

\* No thread, channel or flush is at work.
Quiet ==
    /\ state = "STARTED" /\ pc = [t \in Threads |-> "idle"]
    /\ due = {} /\ hw = {} /\ ~crashed /\ ~spoilt

\* When the channels owe nothing and no flush runs, every request has been
\* answered once, all its buffers are back and the lists are empty, but for
\* the reprocess results that were put aside.
NothingIsLost ==
    Quiet =>
        /\ pending = reproc
        /\ \A f \in Frames :
              /\ outstanding[f] = {} /\ cached[f] = {}
              /\ (fw[f].asked /\ f \notin reproc) =>
                    /\ fw[f].result # fw[f].failed
                    /\ \A s \in Streams : fw[f].buffers[s] # "out"

\* The three books of the requests in flight, the counter, the list and the map,
\* agree while callbacks, flushes and lost metadata change them one at a time.
BooksAgree == LiveAgrees /\ NothingIsLost

\* A flush that met no reprocess request pairs the map and the list right: it
\* fails no request that was answered and does not run past the list.
FlushAnswersPending ==
    ~spoilt => ~crashed /\ \A f \in Frames : ~(fw[f].result /\ fw[f].failed)

\* CaptureContract holds of what the framework hears, upsets, lost metadata and
\* device errors included, until a flush meets reprocess requests: it may leave
\* a request it failed in the list, to be heard of again.
KeepsContract == Contract!Spec

\* "Cache reprocess result for later": a result put aside is sent in the end.
CachedResultIsSent == Quiet => reproc = {}
=============================================================================
