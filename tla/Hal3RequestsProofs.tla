------------------------- MODULE Hal3RequestsProofs -------------------------
(***************************************************************************)
(* Proofs about the requests of the HAL3 hardware interface, for any set   *)
(* of streams and kinds of requests, any limits of the requests in flight  *)
(* and any number of upsets: the counter never wraps, the request thread   *)
(* never sleeps without reason, a flush answers what is pending, and what  *)
(* the framework hears keeps CaptureContract.  Last, its books agree:      *)
(* while no flush runs the counter is the number of live requests, and     *)
(* whatever is pending or out has a channel that still owes it, until a    *)
(* flush has met reprocess requests.                                       *)
(***************************************************************************)
EXTENDS Hal3Requests, FiniteSetTheorems, TLAPS

-----------------------------------------------------------------------------
(* The framework's view, and what the callbacks make of it.                *)

View == [asked : BOOLEAN, live : BOOLEAN, shutter : BOOLEAN, result : BOOLEAN, failed : BOOLEAN,
         told : SUBSET Streams, buffers : [Streams -> {"none", "out", "ok", "error"}]]

\* The shutter of frame f, alone, is new.
LEMMA OnNotified ==
  ASSUME NEW w \in [Frames -> View], NEW f \in Frames
  PROVE  /\ Notified(w, f) \in [Frames -> View]
         /\ \A g \in Frames : g # f => Notified(w, f)[g] = w[g]
         /\ Notified(w, f)[f] = [w[f] EXCEPT !.shutter = TRUE]
BY DEF Notified, View

\* The result of frame f, alone, is new.
LEMMA OnResulted ==
  ASSUME NEW w \in [Frames -> View], NEW f \in Frames
  PROVE  /\ Resulted(w, f) \in [Frames -> View]
         /\ \A g \in Frames : g # f => Resulted(w, f)[g] = w[g]
         /\ Resulted(w, f)[f] = [w[f] EXCEPT !.result = TRUE]
BY DEF Resulted, View

\* Buffers of frame f, and no others, have come back.
LEMMA OnReturned ==
  ASSUME NEW w \in [Frames -> View], NEW f \in Frames, NEW S, NEW bad
  PROVE  LET back == [s \in Streams |->
                        IF s \notin S THEN w[f].buffers[s]
                        ELSE IF <<f, s>> \in bad THEN "error" ELSE "ok"]
         IN  /\ Returned(w, f, S, bad) \in [Frames -> View]
             /\ \A g \in Frames : g # f => Returned(w, f, S, bad)[g] = w[g]
             /\ Returned(w, f, S, bad)[f] = [w[f] EXCEPT !.buffers = back]
BY DEF Returned, View

\* Buffers are announced lost, and a frame without any is left alone.
LEMMA OnLost ==
  ASSUME NEW w \in [Frames -> View], NEW lost
  PROVE  /\ Lost(w, lost) \in [Frames -> View]
         /\ \A g \in Frames :
              /\ Lost(w, lost)[g] = [w[g] EXCEPT !.told = @ \cup {s \in Streams : <<g, s>> \in lost}]
              /\ (\A s \in Streams : <<g, s>> \notin lost) => Lost(w, lost)[g] = w[g]
<1>1. ASSUME NEW g \in Frames
      PROVE  [w[g] EXCEPT !.told = @ \cup {s \in Streams : <<g, s>> \in lost}] \in View
  BY DEF View
<1>2. ASSUME NEW g \in Frames, \A s \in Streams : <<g, s>> \notin lost
      PROVE  [w[g] EXCEPT !.told = @ \cup {s \in Streams : <<g, s>> \in lost}] = w[g]
  <2>1. {s \in Streams : <<g, s>> \in lost} = {}
    BY <1>2
  <2>2. w[g].told \cup {s \in Streams : <<g, s>> \in lost} = w[g].told
    BY <2>1
  <2> QED BY <2>2 DEF View
<1> QED BY <1>1, <1>2 DEF Lost

-----------------------------------------------------------------------------
(* Types.  That the counter stays a natural number comes later.            *)

Types ==
    /\ state \in {"CONFIGURED", "STARTED", "ERROR", "DEINIT"}
    /\ ask \in [Frames -> Requests \cup {None}]
    /\ pending \in SUBSET Frames /\ reproc \in SUBSET Frames
    /\ outstanding \in [Frames -> SUBSET Streams] /\ cached \in [Frames -> SUBSET Streams]
    /\ dropped \in SUBSET (Frames \X Streams)
    /\ live \in Int
    /\ mFlush \in BOOLEAN /\ woken \in BOOLEAN /\ sig \in BOOLEAN
    /\ died \in BOOLEAN /\ spoilt \in BOOLEAN /\ crashed \in BOOLEAN
    /\ pc \in [Threads -> {"idle", "wait", "gone", "error", "flag", "streams", "meta",
                           "notify", "deinit"}]
    /\ device \in SUBSET Threads /\ upsets \in 0 .. MaxUpsets
    /\ due \in SUBSET Frames /\ hw \in SUBSET (Frames \X (Streams \cup {"input"}))
    /\ fw \in [Frames -> View]

\* What a request looks like.
LEMMA RequestShape ==
  ASSUME NEW r \in Requests
  PROVE  /\ r.kind \in {"live", "pproc", "direct"} /\ r.out \in SUBSET Streams /\ r.out # {}
         /\ r # None
         /\ r.kind = "direct" => r.out = {Blob}
         /\ r.kind = "pproc" => \E s \in Streams : r.out = {s}
BY HalAssumption DEF None

\* A new request of the framework in the view.
LEMMA OnAsked ==
  ASSUME NEW b \in BOOLEAN, NEW out \in SUBSET Streams
  PROVE  LET v == Contract!Asked(b, out)
         IN  /\ v \in View
             /\ v.asked /\ v.live = b /\ ~v.shutter /\ ~v.result /\ ~v.failed /\ v.told = {}
             /\ v.buffers = [s \in Streams |-> IF s \in out THEN "out" ELSE "none"]
<1> DEFINE none == [asked |-> FALSE, live |-> FALSE, shutter |-> FALSE, result |-> FALSE,
                    failed |-> FALSE, told |-> {}, buffers |-> [s \in Streams |-> "none"]]
           bufs == [s \in Streams |-> IF s \in out THEN "out" ELSE "none"]
<1>1. none \in View
  BY DEF View
<1>2. bufs \in [Streams -> {"none", "out", "ok", "error"}]
  OBVIOUS
<1>3. Contract!Asked(b, out) = [none EXCEPT !.asked = TRUE, !.live = b, !.buffers = bufs]
  BY DEF Contract!Asked, Contract!NotAsked
<1>4. /\ ~none.shutter /\ ~none.result /\ ~none.failed /\ none.told = {}
  OBVIOUS
<1> HIDE DEF none, bufs
<1>5. LET v == [none EXCEPT !.asked = TRUE, !.live = b, !.buffers = bufs]
      IN  /\ v \in View
          /\ v.asked /\ v.live = b /\ v.shutter = none.shutter /\ v.result = none.result
          /\ v.failed = none.failed /\ v.told = none.told /\ v.buffers = bufs
  BY <1>1, <1>2 DEF View
<1> QED BY <1>3, <1>4, <1>5 DEF bufs

\* The request enters the list and the map with its types.
LEMMA InsertTyped ==
  ASSUME Types, NEW f \in Frames, NEW r \in Requests, Insert(f, r)
  PROVE  /\ ask' \in [Frames -> Requests \cup {None}]
         /\ pending' \in SUBSET Frames /\ reproc' \in SUBSET Frames
         /\ outstanding' \in [Frames -> SUBSET Streams] /\ cached' \in [Frames -> SUBSET Streams]
         /\ dropped' \in SUBSET (Frames \X Streams)
         /\ fw' \in [Frames -> View]
<1>1. Contract!Asked(r.kind = "live", r.out) \in View
  BY OnAsked, RequestShape
<1> QED BY <1>1, RequestShape DEF Insert, Types

\* The cached result of a frame changes the view within its type.
LEMMA SentTyped ==
  ASSUME NEW w \in [Frames -> View], NEW g \in Int, reproc \subseteq Frames
  PROVE  SentResult(w, g) \in [Frames -> View]
<1>1. CASE g \in reproc
  BY <1>1, OnNotified, OnResulted, OnReturned DEF SentResult
<1> QED BY <1>1 DEF SentResult

\* Metadata moves the books and the view within their types.
LEMMA AnswerTyped ==
  ASSUME Types, NEW f \in Frames, NEW D \in SUBSET Streams, Answer(f, DropNoted(f, D))
  PROVE  /\ pending' \in SUBSET Frames /\ reproc' \in SUBSET Frames
         /\ outstanding' \in [Frames -> SUBSET Streams] /\ cached' \in [Frames -> SUBSET Streams]
         /\ dropped' \in SUBSET (Frames \X Streams)
         /\ live' \in Int /\ state' = state
         /\ fw' \in [Frames -> View]
<1>1. DropNoted(f, D) \in SUBSET (Frames \X Streams)
  BY DEF DropNoted, Reached, Types
<1>2. /\ pending \subseteq Frames /\ reproc \subseteq Frames /\ fw \in [Frames -> View]
      /\ f \in Int /\ f + 1 \in Int
  BY HalAssumption DEF Types, Frames
<1>3. fw' \in [Frames -> View]
  <2> DEFINE noted == DropNoted(f, D)
             done == Returned(Resulted(Notified(Lost(fw, noted), f), f), f, cached[f], dropped \cup noted)
  <2>1. done \in [Frames -> View]
    BY <1>2, OnLost, OnNotified, OnResulted, OnReturned
  <2>2. fw' = SentResult(done, f + 1)
    BY DEF Answer
  <2> QED BY <1>2, <2>1, <2>2, SentTyped
<1>4. pending' \in SUBSET Frames /\ reproc' \in SUBSET Frames /\ live' \in Int /\ state' = state
  BY DEF Answer, Types
<1>5. dropped' \in SUBSET (Frames \X Streams)
  BY <1>1 DEF Answer, Types
<1>6. outstanding' \in [Frames -> SUBSET Streams] /\ cached' \in [Frames -> SUBSET Streams]
  BY DEF Answer, Types
<1> QED BY <1>3, <1>4, <1>5, <1>6

\* Every step keeps the types.
LEMMA TypesStep == Types /\ [Next]_vars => Types'
<1> SUFFICES ASSUME Types, [Next]_vars PROVE Types'
  OBVIOUS
<1> USE DEF history, backend, lists, Threads
<1>1. CASE RequestStep
  <2>1. ASSUME NEW f \in Frames, NEW r \in Requests, processCaptureRequest(f, r)
        PROVE  Types'
    <3>1. Owed(f, r) \in SUBSET (Frames \X (Streams \cup {"input"}))
      BY RequestShape DEF Owed
    <3>2. live' \in Int
      BY <2>1 DEF processCaptureRequest, count_live, Types
    <3> QED BY <2>1, <3>1, <3>2, InsertTyped DEF processCaptureRequest, Types
  <2>2. ASSUME NEW f \in Frames, NEW r \in Requests, RequestInFlush(f, r)
        PROVE  Types'
    BY <2>2, InsertTyped DEF RequestInFlush, Types
  <2>3. ASSUME NEW f \in Frames, NEW r \in Requests, RequestRefused(f, r)
        PROVE  Types'
    BY <2>3, InsertTyped, HalAssumption DEF RequestRefused, Upset, Types
  <2>4. CASE RequestInError
    BY <2>4 DEF RequestInError, Types
  <2>5. CASE WaitWakes
    BY <2>5 DEF WaitWakes, Types
  <2>6. CASE WaitTimesOut
    BY <2>6, HalAssumption DEF WaitTimesOut, Upset, Types
  <2> QED BY <1>1, <2>1, <2>2, <2>3, <2>4, <2>5, <2>6 DEF RequestStep
<1>2. CASE CallbackStep
  <2>1. ASSUME NEW f \in Frames, NEW D \in SUBSET (Streams \ {Blob}), handleMetadata(f, D)
        PROVE  Types'
    <3>1. DropNoted(f, D) \in SUBSET (Frames \X Streams)
      BY DEF DropNoted, Reached, Types
    <3>2. Lost(fw, DropNoted(f, D)) \in [Frames -> View]
      BY OnLost DEF Types
    <3> QED BY <2>1, <3>1, <3>2, AnswerTyped DEF handleMetadata, unblockRequestIfNecessary, Types
  <2>2. ASSUME NEW f \in Frames, handleInputBuffer(f)
        PROVE  Types'
    <3>1. Resulted(Notified(fw, f), f) \in [Frames -> View]
      BY OnNotified, OnResulted DEF Types
    <3> QED BY <2>2, <3>1 DEF handleInputBuffer, Types
  <2>3. ASSUME NEW f \in Frames, NEW s \in Streams, handleBuffer(f, s)
        PROVE  Types'
    <3>1. /\ Returned(fw, f, {s}, dropped) \in [Frames -> View]
          /\ Returned(Resulted(Notified(fw, f), f), f, {s}, {}) \in [Frames -> View]
      BY OnNotified, OnResulted, OnReturned DEF Types
    <3>2. CASE UNCHANGED <<lists, fw>>
      BY <2>3, <3>2 DEF handleBuffer, Types
    <3>3. CASE ReturnBuffer(f, s)
      BY <2>3, <3>1, <3>3 DEF handleBuffer, ReturnBuffer, Types
    <3>4. CASE ReturnReprocessed(f, s)
      BY <2>3, <3>1, <3>4 DEF handleBuffer, ReturnReprocessed, Types
    <3>5. CASE KeepBuffer(f, s)
      BY <2>3, <3>5 DEF handleBuffer, KeepBuffer, Types
    <3> QED BY <2>3, <3>2, <3>3, <3>4, <3>5 DEF handleBuffer
  <2>4. CASE DaemonDied
    BY <2>4, HalAssumption DEF DaemonDied, Upset, Types
  <2>5. CASE DaemonPullsRequest
    BY <2>5, HalAssumption DEF DaemonPullsRequest, Upset, unblockRequestIfNecessary, Types
  <2> QED BY <1>2, <2>1, <2>2, <2>3, <2>4, <2>5 DEF CallbackStep
<1>3. CASE FlushCalled
  BY <1>3, HalAssumption DEF FlushCalled, Upset, Types
<1>4. ASSUME NEW t \in Threads, FlushStep(t)
      PROVE  Types'
  <2>1. ASSUME NEW f \in Frames PROVE Discarded(f) \in View
    <3>1. fw[f] \in View /\ outstanding[f] \in SUBSET Streams
      BY DEF Types
    <3> QED BY <3>1 DEF Discarded, View
  <2>2. CASE PendingNotified(t)
    <3>1. /\ fw' \in [Frames -> View] /\ cached' \in [Frames -> SUBSET Streams]
          /\ outstanding' \in [Frames -> SUBSET Streams] /\ pending' \in SUBSET Frames
      BY <2>1, <2>2 DEF PendingNotified, Types
    <3>2. /\ sig' \in BOOLEAN /\ spoilt' \in BOOLEAN
          /\ pc' \in [Threads -> {"idle", "wait", "gone", "error", "flag", "streams", "meta",
                                  "notify", "deinit"}]
      BY <2>2 DEF PendingNotified, unblockRequestIfNecessary, Types
    <3>3. dropped' = {} /\ reproc' = {} /\ live' = 0 /\ mFlush' = FALSE
      BY <2>2 DEF PendingNotified, reset_live
    <3>4. UNCHANGED <<state, ask, woken, device, due, hw, died, upsets, crashed>>
      BY <2>2 DEF PendingNotified
    <3>5. live' \in Int
      BY <3>3
    <3>6. dropped' \in SUBSET (Frames \X Streams) /\ reproc' \in SUBSET Frames
      BY <3>3
    <3>7. mFlush' \in BOOLEAN
      BY <3>3
    <3> QED BY <3>1, <3>2, <3>4, <3>5, <3>6, <3>7 DEF Types
  <2>3. CASE FlushPastTheEnd(t)
    BY <2>3 DEF FlushPastTheEnd, Types
  <2>4. CASE DeviceErrorFound(t)
    BY <2>4 DEF DeviceErrorFound, Over, Types
  <2>5. CASE FlushFlagged(t)
    BY <2>5 DEF FlushFlagged, Types
  <2>6. CASE StreamsStopped(t)
    BY <2>6 DEF StreamsStopped, Types
  <2>7. CASE DeviceErrorEnds(t)
    BY <2>7 DEF DeviceErrorEnds, Over, Types
  <2>8. CASE MetadataStopped(t)
    <3>1. pc' \in [Threads -> {"idle", "wait", "gone", "error", "flag", "streams", "meta",
                                "notify", "deinit"}]
      BY <2>8 DEF MetadataStopped, Types
    <3>2. spoilt' \in BOOLEAN
      BY <2>8 DEF MetadataStopped, Types
    <3>3. upsets' = upsets \/ (upsets < MaxUpsets /\ upsets' = upsets + 1)
      BY <2>8 DEF MetadataStopped, Upset
    <3>4. upsets' \in 0 .. MaxUpsets
      BY <3>3, HalAssumption DEF Types
    <3> QED BY <2>8, <3>1, <3>2, <3>4 DEF MetadataStopped, Types
  <2> QED BY <1>4, <2>2, <2>3, <2>4, <2>5, <2>6, <2>7, <2>8 DEF FlushStep
<1>5. CASE configureStreams
  BY <1>5 DEF configureStreams, Types
<1>6. CASE UNCHANGED vars
  BY <1>6 DEF vars, Types
<1> QED BY <1>1, <1>2, <1>3, <1>4, <1>5, <1>6 DEF Next

-----------------------------------------------------------------------------
(* The waiting request thread.                                             *)

\* Where the two threads are: an error that is being handled stays one, and
\* the request thread waits only once the device was started.
Places ==
    /\ pc["flush"] \notin {"wait", "gone"}
    /\ \A t \in Threads : pc[t] = "deinit" => t \in device
    /\ device # {} => state \in Dead
    /\ pc["req"] = "wait" => state # "CONFIGURED"

Awake == Places /\ NoIdleWait

\* No step leaves the request thread asleep without reason.
LEMMA AwakeStep == Types /\ Awake /\ [Next]_vars => Awake'
<1> SUFFICES ASSUME Types, Awake, [Next]_vars PROVE Awake'
  OBVIOUS
<1> USE DEF history, backend, lists, Threads, Dead, Awake, Places, NoIdleWait, Types
<1>1. ASSUME NEW f \in Frames, NEW r \in Requests, processCaptureRequest(f, r)
      PROVE  Awake'
  BY <1>1, RequestShape, HalAssumption DEF processCaptureRequest, count_live
<1>2. ASSUME NEW f \in Frames, NEW r \in Requests, RequestInFlush(f, r)
      PROVE  Awake'
  BY <1>2 DEF RequestInFlush
<1>3. ASSUME NEW f \in Frames, NEW r \in Requests, RequestRefused(f, r)
      PROVE  Awake'
  BY <1>3 DEF RequestRefused
<1>4. CASE RequestInError
  BY <1>4 DEF RequestInError
<1>5. CASE WaitWakes
  BY <1>5, HalAssumption DEF WaitWakes
<1>6. CASE WaitTimesOut
  BY <1>6 DEF WaitTimesOut
<1>7. ASSUME NEW f \in Frames, NEW D \in SUBSET (Streams \ {Blob}), handleMetadata(f, D)
      PROVE  Awake'
  <2>1. UNCHANGED <<pc, device, died>>
    BY <1>7 DEF handleMetadata
  <2>2. CASE state \in Dead
    BY <1>7, <2>1, <2>2 DEF handleMetadata
  <2>3. CASE state \notin Dead
    <3>1. sig' = (sig \/ pc["req"] = "wait") /\ (state' = state \/ state' = "ERROR")
      BY <1>7, <2>3 DEF handleMetadata, unblockRequestIfNecessary, Answer
    <3> QED BY <2>1, <3>1
  <2> QED BY <2>2, <2>3
<1>8. ASSUME NEW f \in Frames, handleInputBuffer(f)
      PROVE  Awake'
  BY <1>8 DEF handleInputBuffer
<1>9. ASSUME NEW f \in Frames, NEW s \in Streams, handleBuffer(f, s)
      PROVE  Awake'
  BY <1>9 DEF handleBuffer
<1>10. CASE DaemonDied
  BY <1>10 DEF DaemonDied
<1>11. CASE DaemonPullsRequest
  BY <1>11 DEF DaemonPullsRequest, unblockRequestIfNecessary
<1>12. CASE FlushCalled
  BY <1>12 DEF FlushCalled
<1>13. ASSUME NEW t \in Threads, DeviceErrorFound(t)
       PROVE  Awake'
  BY <1>13 DEF DeviceErrorFound, Over
<1>14. ASSUME NEW t \in Threads, FlushFlagged(t)
       PROVE  Awake'
  BY <1>14 DEF FlushFlagged
<1>15. ASSUME NEW t \in Threads, StreamsStopped(t)
       PROVE  Awake'
  BY <1>15 DEF StreamsStopped
<1>16. ASSUME NEW t \in Threads, MetadataStopped(t)
       PROVE  Awake'
  BY <1>16 DEF MetadataStopped
<1>17. ASSUME NEW t \in Threads, PendingNotified(t)
       PROVE  Awake'
  <2>1. /\ pc' = [pc EXCEPT ![t] = IF t \in device THEN "deinit" ELSE "idle"]
        /\ sig' = (sig \/ pc["req"] = "wait") /\ UNCHANGED <<state, device, died>>
        /\ pc[t] = "notify"
    BY <1>17 DEF PendingNotified, unblockRequestIfNecessary
  <2> QED BY <2>1
<1>18. ASSUME NEW t \in Threads, FlushPastTheEnd(t)
       PROVE  Awake'
  BY <1>18 DEF FlushPastTheEnd
<1>19. ASSUME NEW t \in Threads, DeviceErrorEnds(t)
       PROVE  Awake'
  BY <1>19 DEF DeviceErrorEnds, Over
<1>20. CASE configureStreams
  BY <1>20 DEF configureStreams
<1>21. CASE UNCHANGED vars
  BY <1>21 DEF vars
<1> QED
  BY <1>1, <1>2, <1>3, <1>4, <1>5, <1>6, <1>7, <1>8, <1>9, <1>10, <1>11, <1>12, <1>13, <1>14,
     <1>15, <1>16, <1>17, <1>18, <1>19, <1>20, <1>21
     DEF Next, RequestStep, CallbackStep, FlushStep

-----------------------------------------------------------------------------
(* What a flush has stopped.                                               *)

\* A flush has set mFlush, so that no request starts the channels again, until
\* it has stopped them and dealt with what they owed.
Stops ==
    /\ pc["req"] \in {"flag", "streams", "meta", "notify", "deinit"} => "req" \in device
    /\ pc["flush"] \in {"streams", "meta", "notify"} /\ pc["req"] \in {"idle", "wait"} => mFlush
    /\ \A t \in Threads : pc[t] \in {"meta", "notify"} => hw = {}
    /\ \A t \in Threads : pc[t] = "notify" => due = {}
    /\ state = "CONFIGURED" => due = {} /\ (hw = {} \/ pc["req"] = "gone")

\* No step lets the channels owe anything that the flush has dealt with.
LEMMA StopsStep == Types /\ Stops /\ [Next]_vars => Stops'
<1> SUFFICES ASSUME Types, Stops, [Next]_vars PROVE Stops'
  OBVIOUS
<1> USE DEF history, backend, lists, Threads, Dead, Stops, Types
<1>1. ASSUME NEW f \in Frames, NEW r \in Requests, processCaptureRequest(f, r)
      PROVE  Stops'
  BY <1>1 DEF processCaptureRequest
<1>2. ASSUME NEW f \in Frames, NEW r \in Requests, RequestInFlush(f, r)
      PROVE  Stops'
  BY <1>2 DEF RequestInFlush
<1>3. ASSUME NEW f \in Frames, NEW r \in Requests, RequestRefused(f, r)
      PROVE  Stops'
  BY <1>3 DEF RequestRefused
<1>4. CASE RequestInError
  BY <1>4 DEF RequestInError
<1>5. CASE WaitWakes
  BY <1>5, HalAssumption DEF WaitWakes
<1>6. CASE WaitTimesOut
  BY <1>6 DEF WaitTimesOut
<1>7. ASSUME NEW f \in Frames, NEW D \in SUBSET (Streams \ {Blob}), handleMetadata(f, D)
      PROVE  Stops'
  <2>1. UNCHANGED <<pc, device, mFlush, hw>> /\ due' \subseteq due
    BY <1>7 DEF handleMetadata
  <2>2. state' = state \/ state' = "ERROR"
    BY <1>7 DEF handleMetadata, Answer
  <2> QED BY <2>1, <2>2
<1>8. ASSUME NEW f \in Frames, handleInputBuffer(f)
      PROVE  Stops'
  <2>1. UNCHANGED <<pc, device, mFlush, due, state>> /\ hw' \subseteq hw
    BY <1>8 DEF handleInputBuffer
  <2> QED BY <2>1
<1>9. ASSUME NEW f \in Frames, NEW s \in Streams, handleBuffer(f, s)
      PROVE  Stops'
  <2>1. UNCHANGED <<pc, device, mFlush, due, state>> /\ hw' \subseteq hw
    BY <1>9 DEF handleBuffer
  <2> QED BY <2>1
<1>10. CASE DaemonDied
  BY <1>10 DEF DaemonDied
<1>11. CASE DaemonPullsRequest
  BY <1>11 DEF DaemonPullsRequest, unblockRequestIfNecessary
<1>12. CASE FlushCalled
  BY <1>12 DEF FlushCalled
<1>13. ASSUME NEW t \in Threads, DeviceErrorFound(t)
       PROVE  Stops'
  BY <1>13 DEF DeviceErrorFound, Over
<1>14. ASSUME NEW t \in Threads, FlushFlagged(t)
       PROVE  Stops'
  BY <1>14 DEF FlushFlagged
<1>15. ASSUME NEW t \in Threads, StreamsStopped(t)
       PROVE  Stops'
  BY <1>15 DEF StreamsStopped
<1>16. ASSUME NEW t \in Threads, MetadataStopped(t)
       PROVE  Stops'
  BY <1>16 DEF MetadataStopped
<1>17. ASSUME NEW t \in Threads, PendingNotified(t)
       PROVE  Stops'
  <2>1. /\ pc' = [pc EXCEPT ![t] = IF t \in device THEN "deinit" ELSE "idle"]
        /\ mFlush' = FALSE /\ UNCHANGED <<state, device, due, hw>>
        /\ pc[t] = "notify"
    BY <1>17 DEF PendingNotified
  <2> QED BY <2>1
<1>18. ASSUME NEW t \in Threads, FlushPastTheEnd(t)
       PROVE  Stops'
  BY <1>18 DEF FlushPastTheEnd
<1>19. ASSUME NEW t \in Threads, DeviceErrorEnds(t)
       PROVE  Stops'
  BY <1>19 DEF DeviceErrorEnds, Over
<1>20. CASE configureStreams
  BY <1>20 DEF configureStreams
<1>21. CASE UNCHANGED vars
  BY <1>21 DEF vars
<1> QED
  BY <1>1, <1>2, <1>3, <1>4, <1>5, <1>6, <1>7, <1>8, <1>9, <1>10, <1>11, <1>12, <1>13, <1>14,
     <1>15, <1>16, <1>17, <1>18, <1>19, <1>20, <1>21
     DEF Next, RequestStep, CallbackStep, FlushStep

-----------------------------------------------------------------------------
(* The counter of the live requests.                                       *)

\* Requests come in the order of their numbers, and each keeps its kind.
Kinds ==
    /\ \A f, g \in Frames : ask[f] # None /\ g < f => ask[g] # None
    /\ \A f \in pending : ask[f] # None
    /\ \A f \in due : IsLive(f)
    /\ \A f \in reproc : IsInput(f)

\* A new request changes the kind of no other one.
LEMMA InsertKinds ==
  ASSUME Types, Kinds, NEW f \in Frames, NEW r \in Requests, NextFrame(f), Insert(f, r)
  PROVE  /\ (\A g \in due' : IsLive(g)') => Kinds'
         /\ f \notin pending /\ f \notin due /\ f \notin reproc
         /\ pending' = pending \cup {f} /\ ask'[f] = r
         /\ \A g \in Frames : g # f => ask'[g] = ask[g]
         /\ \A g \in due : IsLive(g)'
<1>1. ask[f] = None /\ ask' = [ask EXCEPT ![f] = r] /\ r # None
  BY RequestShape DEF NextFrame, Insert
<1>2. f \notin pending /\ f \notin due /\ f \notin reproc
  BY <1>1 DEF Kinds, IsLive, IsInput, Input, None
<1>3. pending' = pending \cup {f} /\ reproc' = reproc
  BY DEF Insert
<1>4. ask'[f] = r /\ \A g \in Frames : g # f => ask'[g] = ask[g]
  BY <1>1 DEF Types
<1>5. \A g \in due : IsLive(g)'
  BY <1>2, <1>4 DEF Kinds, IsLive, Types
<1>6. \A g, h \in Frames : ask'[g] # None /\ h < g => ask'[h] # None
  BY <1>1, <1>4 DEF Kinds, NextFrame
<1>7. (\A g \in pending' : ask'[g] # None) /\ (\A g \in reproc' : IsInput(g)')
  BY <1>1, <1>2, <1>3, <1>4 DEF Kinds, IsInput, Types
<1> QED BY <1>2, <1>3, <1>4, <1>5, <1>6, <1>7 DEF Kinds

\* No step changes the kind of a request.
LEMMA KindsStep == Types /\ Kinds /\ [Next]_vars => Kinds'
<1> SUFFICES ASSUME Types, Kinds, [Next]_vars PROVE Kinds'
  OBVIOUS
<1> USE DEF history, backend, lists, Kinds, IsLive, IsInput
<1>1. ASSUME NEW f \in Frames, NEW r \in Requests, processCaptureRequest(f, r)
      PROVE  Kinds'
  <2>1. NextFrame(f) /\ Insert(f, r) /\ due' = IF r.kind = "live" THEN due \cup {f} ELSE due
    BY <1>1 DEF processCaptureRequest
  <2>2. \A g \in due' : IsLive(g)'
    BY <2>1, InsertKinds
  <2> QED BY <2>1, <2>2, InsertKinds
<1>2. ASSUME NEW f \in Frames, NEW r \in Requests, RequestInFlush(f, r)
      PROVE  Kinds'
  <2>1. NextFrame(f) /\ Insert(f, r) /\ due' = due
    BY <1>2 DEF RequestInFlush
  <2> QED BY <2>1, InsertKinds
<1>3. ASSUME NEW f \in Frames, NEW r \in Requests, RequestRefused(f, r)
      PROVE  Kinds'
  <2>1. NextFrame(f) /\ Insert(f, r) /\ due' = due
    BY <1>3 DEF RequestRefused
  <2> QED BY <2>1, InsertKinds
<1>4. CASE RequestInError
  BY <1>4 DEF RequestInError
<1>5. CASE WaitWakes
  BY <1>5, HalAssumption DEF WaitWakes
<1>6. CASE WaitTimesOut
  BY <1>6 DEF WaitTimesOut
<1>7. ASSUME NEW f \in Frames, NEW D \in SUBSET (Streams \ {Blob}), handleMetadata(f, D)
      PROVE  Kinds'
  <2>1. ask' = ask /\ due' \subseteq due /\ pending' \subseteq pending /\ reproc' \subseteq reproc
    BY <1>7 DEF handleMetadata, Answer
  <2> QED BY <2>1
<1>8. ASSUME NEW f \in Frames, handleInputBuffer(f)
      PROVE  Kinds'
  <2>1. UNCHANGED <<ask, due, reproc>> /\ pending' \subseteq pending
    BY <1>8 DEF handleInputBuffer
  <2> QED BY <2>1
<1>9. ASSUME NEW f \in Frames, NEW s \in Streams, handleBuffer(f, s)
      PROVE  Kinds'
  <2>1. UNCHANGED <<ask, due>> /\ pending' \subseteq pending
    BY <1>9 DEF handleBuffer, ReturnBuffer, ReturnReprocessed, KeepBuffer
  <2>2. reproc' \subseteq reproc \cup {g \in {f} : IsInput(g)}
    BY <1>9 DEF handleBuffer, ReturnBuffer, ReturnReprocessed, KeepBuffer
  <2> QED BY <2>1, <2>2
<1>10. CASE DaemonDied
  BY <1>10 DEF DaemonDied
<1>11. CASE DaemonPullsRequest
  BY <1>11 DEF DaemonPullsRequest, unblockRequestIfNecessary
<1>12. CASE FlushCalled
  BY <1>12 DEF FlushCalled
<1>13. ASSUME NEW t \in Threads, DeviceErrorFound(t)
       PROVE  Kinds'
  BY <1>13 DEF DeviceErrorFound, Over
<1>14. ASSUME NEW t \in Threads, FlushFlagged(t)
       PROVE  Kinds'
  BY <1>14 DEF FlushFlagged
<1>15. ASSUME NEW t \in Threads, StreamsStopped(t)
       PROVE  Kinds'
  BY <1>15 DEF StreamsStopped
<1>16. ASSUME NEW t \in Threads, MetadataStopped(t)
       PROVE  Kinds'
  BY <1>16 DEF MetadataStopped
<1>17. ASSUME NEW t \in Threads, PendingNotified(t)
       PROVE  Kinds'
  <2>1. UNCHANGED <<ask, due>> /\ pending' \subseteq pending /\ reproc' = {}
    BY <1>17 DEF PendingNotified
  <2> QED BY <2>1
<1>18. ASSUME NEW t \in Threads, FlushPastTheEnd(t)
       PROVE  Kinds'
  BY <1>18 DEF FlushPastTheEnd
<1>19. ASSUME NEW t \in Threads, DeviceErrorEnds(t)
       PROVE  Kinds'
  BY <1>19 DEF DeviceErrorEnds, Over
<1>20. CASE configureStreams
  BY <1>20 DEF configureStreams
<1>21. CASE UNCHANGED vars
  BY <1>21 DEF vars
<1> QED
  BY <1>1, <1>2, <1>3, <1>4, <1>5, <1>6, <1>7, <1>8, <1>9, <1>10, <1>11, <1>12, <1>13, <1>14,
     <1>15, <1>16, <1>17, <1>18, <1>19, <1>20, <1>21
     DEF Next, RequestStep, CallbackStep, FlushStep

\* The live requests that are pending, and those whose metadata is still due.
Alive == {f \in pending : IsLive(f)}
Served == {f \in pending : f \in due}

\* While the device is started the counter lies between the two numbers, so that
\* it is not zero when metadata comes for a pending request.
Counted ==
    /\ live \in Nat
    /\ state = "STARTED" => Cardinality(Served) <= live /\ live <= Cardinality(Alive)

\* Sets of frames are finite.
LEMMA FramesFinite ==
  ASSUME NEW S \in SUBSET Frames
  PROVE  IsFiniteSet(S) /\ Cardinality(S) \in Nat
<1>1. IsFiniteSet(Frames)
  BY FS_Interval, HalAssumption DEF Frames
<1>2. IsFiniteSet(S)
  BY <1>1, FS_Subset
<1> QED BY <1>2, FS_CardinalityType

\* A set of frames within another has no more elements.
LEMMA FramesWithin ==
  ASSUME NEW S \in SUBSET Frames, NEW T \in SUBSET Frames, S \subseteq T
  PROVE  Cardinality(S) <= Cardinality(T)
BY FramesFinite, FS_Subset

\* A frame more is one more.
LEMMA FramesPlus ==
  ASSUME NEW S \in SUBSET Frames, NEW f \in Frames, f \notin S
  PROVE  Cardinality(S \cup {f}) = Cardinality(S) + 1
BY FramesFinite, FS_AddElement

\* When neither the counter nor who is live and pending changes, and less is
\* due, the counter is right.
LEMMA SameCount ==
  ASSUME Types, Types', Counted, live' = live, state' = "STARTED" => state = "STARTED",
         Served' \subseteq Served, Alive \subseteq Alive'
  PROVE  Counted'
<1>1. /\ Served \in SUBSET Frames /\ Alive \in SUBSET Frames
      /\ Served' \in SUBSET Frames /\ Alive' \in SUBSET Frames
  BY DEF Types, Served, Alive
<1>2. Cardinality(Served') <= Cardinality(Served) /\ Cardinality(Alive) <= Cardinality(Alive')
  BY <1>1, FramesWithin
<1>3. /\ Cardinality(Served) \in Nat /\ Cardinality(Alive) \in Nat
      /\ Cardinality(Served') \in Nat /\ Cardinality(Alive') \in Nat
  BY <1>1, FramesFinite
<1> QED BY <1>2, <1>3 DEF Counted

\* A flush, which leaves nothing due, resets the counter.
LEMMA NothingDue ==
  ASSUME Types', live' = 0, due' = {}
  PROVE  Counted'
<1>1. Served' = {} /\ Alive' \in SUBSET Frames
  BY DEF Types, Served, Alive
<1>2. Cardinality(Served') = 0 /\ Cardinality(Alive') \in Nat
  BY <1>1, FramesFinite, FS_EmptySet
<1> QED BY <1>2 DEF Counted

\* Every step counts right.
LEMMA CountedStep == Types /\ Types' /\ Stops /\ Kinds /\ Counted /\ [Next]_vars => Counted'
<1> SUFFICES ASSUME Types, Types', Stops, Kinds, Counted, [Next]_vars PROVE Counted'
  OBVIOUS
<1> USE DEF history, backend, lists, Served, Alive, IsLive
<1>1. ASSUME NEW f \in Frames, NEW r \in Requests, processCaptureRequest(f, r)
      PROVE  Counted'
  <2>1. /\ NextFrame(f) /\ Insert(f, r) /\ state \in {"CONFIGURED", "STARTED"}
        /\ due' = IF r.kind = "live" THEN due \cup {f} ELSE due
        /\ live' = count_live(r, IF state = "CONFIGURED" THEN 0 ELSE live)
    BY <1>1 DEF processCaptureRequest
  <2>2. /\ f \notin pending /\ f \notin due /\ pending' = pending \cup {f} /\ ask'[f] = r
        /\ \A g \in Frames : g # f => ask'[g] = ask[g]
    BY <2>1, InsertKinds
  <2>3. /\ Served \in SUBSET Frames /\ Alive \in SUBSET Frames
        /\ Cardinality(Served) \in Nat /\ Cardinality(Alive) \in Nat
    BY FramesFinite DEF Types
  <2>4. state = "CONFIGURED" => Cardinality(Served) = 0
    BY FS_EmptySet DEF Stops
  <2>5. live \in Nat
    BY DEF Counted
  <2>6. CASE r.kind = "live"
    <3>1. Served' = Served \cup {f} /\ Alive' = Alive \cup {f} /\ f \notin Served /\ f \notin Alive
      BY <2>1, <2>2, <2>6 DEF Types
    <3>2. /\ Cardinality(Served') = Cardinality(Served) + 1
          /\ Cardinality(Alive') = Cardinality(Alive) + 1
      BY <2>3, <3>1, FramesPlus
    <3>3. live' = (IF state = "CONFIGURED" THEN 0 ELSE live) + 1
      BY <2>1, <2>6 DEF count_live
    <3> HIDE DEF Served, Alive
    <3> QED BY <2>1, <2>3, <2>4, <2>5, <3>2, <3>3 DEF Counted
  <2>7. CASE r.kind # "live"
    <3>1. Served' = Served /\ Alive' = Alive
      BY <2>1, <2>2, <2>7 DEF Types
    <3>2. live' = IF state = "CONFIGURED" THEN 0 ELSE live
      BY <2>1, <2>7 DEF count_live
    <3> HIDE DEF Served, Alive
    <3> QED BY <2>1, <2>3, <2>4, <2>5, <3>1, <3>2 DEF Counted
  <2> QED BY <2>6, <2>7
<1>2. ASSUME NEW f \in Frames, NEW r \in Requests, RequestInFlush(f, r)
      PROVE  Counted'
  <2>1. NextFrame(f) /\ Insert(f, r) /\ UNCHANGED <<due, state>>
    BY <1>2 DEF RequestInFlush
  <2>2. live' = live \/ (live' = 0 /\ state = "CONFIGURED")
    BY <1>2 DEF RequestInFlush
  <2>3. Served' \subseteq Served /\ Alive \subseteq Alive'
    BY <2>1, InsertKinds DEF Types
  <2>4. CASE live' = live
    BY <2>1, <2>3, <2>4, SameCount
  <2>5. CASE live' = 0 /\ state = "CONFIGURED"
    BY <2>1, <2>5 DEF Counted
  <2> QED BY <2>2, <2>4, <2>5
<1>3. ASSUME NEW f \in Frames, NEW r \in Requests, RequestRefused(f, r)
      PROVE  Counted'
  <2>1. NextFrame(f) /\ Insert(f, r) /\ UNCHANGED <<due, state>>
    BY <1>3 DEF RequestRefused
  <2>2. live' = live \/ (live' = 0 /\ state = "CONFIGURED")
    BY <1>3 DEF RequestRefused
  <2>3. Served' \subseteq Served /\ Alive \subseteq Alive'
    BY <2>1, InsertKinds DEF Types
  <2>4. CASE live' = live
    BY <2>1, <2>3, <2>4, SameCount
  <2>5. CASE live' = 0 /\ state = "CONFIGURED"
    BY <2>1, <2>5 DEF Counted
  <2> QED BY <2>2, <2>4, <2>5
<1>4. CASE RequestInError
  <2>1. UNCHANGED <<ask, pending, due, live, state>>
    BY <1>4 DEF RequestInError
  <2> QED BY <2>1, SameCount
<1>5. CASE WaitWakes
  <2>1. UNCHANGED <<ask, pending, due, live, state>>
    BY <1>5 DEF WaitWakes
  <2> QED BY <2>1, SameCount
<1>6. CASE WaitTimesOut
  <2>1. UNCHANGED <<ask, pending, due, live, state>>
    BY <1>6 DEF WaitTimesOut
  <2> QED BY <2>1, SameCount
<1>7. ASSUME NEW f \in Frames, NEW D \in SUBSET (Streams \ {Blob}), handleMetadata(f, D)
      PROVE  Counted'
  <2>1. /\ f \in due /\ due' = {g \in due : g > f} /\ ask' = ask
        /\ state' = state \/ state' = "ERROR"
    BY <1>7 DEF handleMetadata, Answer
  <2>2. CASE pending' = pending /\ live' = live
    BY <2>1, <2>2, SameCount
  <2>3. CASE state \notin Dead /\ f \in pending /\ Answer(f, DropNoted(f, D))
    <3>1. /\ live' = live - 1 /\ UNCHANGED <<ask, state>>
          /\ pending' = pending \ ({f} \cup ({f + 1} \cap reproc))
      BY <1>7, <2>3 DEF handleMetadata, Answer
    <3>2. state = "STARTED"
      BY <2>1, <2>3 DEF Types, Stops, Dead
    <3>3. /\ f \in Frames /\ f \in Served /\ f \in Alive
          /\ Served' \subseteq Served \ {f} /\ Alive' = Alive \ {f}
      BY <2>1, <2>3, <3>1 DEF Kinds, IsInput, Input, Types, Frames
    <3>4. /\ Served \in SUBSET Frames /\ Alive \in SUBSET Frames
          /\ Served \ {f} \in SUBSET Frames /\ Alive \ {f} \in SUBSET Frames
          /\ Served' \in SUBSET Frames
      BY <3>3 DEF Types
    <3> HIDE DEF Served, Alive
    <3>5. /\ Served = (Served \ {f}) \cup {f} /\ Alive = (Alive \ {f}) \cup {f}
      BY <3>3
    <3>6. /\ Cardinality(Served) = Cardinality(Served \ {f}) + 1
          /\ Cardinality(Alive) = Cardinality(Alive \ {f}) + 1
      BY <3>3, <3>4, <3>5, FramesPlus
    <3>7. Cardinality(Served') <= Cardinality(Served \ {f})
      BY <3>3, <3>4, FramesWithin
    <3>8. /\ Cardinality(Served') \in Nat /\ Cardinality(Served \ {f}) \in Nat
          /\ Cardinality(Alive \ {f}) \in Nat
      BY <3>4, FramesFinite
    <3> QED BY <3>1, <3>2, <3>3, <3>6, <3>7, <3>8 DEF Counted
  <2> QED BY <1>7, <2>2, <2>3 DEF handleMetadata
<1>8. ASSUME NEW f \in Frames, handleInputBuffer(f)
      PROVE  Counted'
  <2>1. UNCHANGED <<ask, due, live, state>> /\ pending' \subseteq pending
    BY <1>8 DEF handleInputBuffer
  <2>2. \A g \in pending : g \notin pending' => IsInput(g)
    BY <1>8 DEF handleInputBuffer
  <2>3. Alive \subseteq Alive'
    BY <2>1, <2>2 DEF IsInput, Input
  <2> QED BY <2>1, <2>3, SameCount
<1>9. ASSUME NEW f \in Frames, NEW s \in Streams, handleBuffer(f, s)
      PROVE  Counted'
  <2>1. UNCHANGED <<ask, due, live, state>> /\ pending' \subseteq pending
    BY <1>9 DEF handleBuffer, ReturnBuffer, ReturnReprocessed, KeepBuffer
  <2>2. \A g \in pending : g \notin pending' => IsInput(g)
    BY <1>9 DEF handleBuffer, ReturnBuffer, ReturnReprocessed, KeepBuffer
  <2>3. Alive \subseteq Alive'
    BY <2>1, <2>2 DEF IsInput, Input
  <2> QED BY <2>1, <2>3, SameCount
<1>10. CASE DaemonDied
  <2>1. UNCHANGED <<ask, pending, due, live>> /\ (state' = "STARTED" => state = "STARTED")
    BY <1>10 DEF DaemonDied
  <2> QED BY <2>1, SameCount
<1>11. CASE DaemonPullsRequest
  <2>1. UNCHANGED <<ask, pending, due, live, state>>
    BY <1>11 DEF DaemonPullsRequest
  <2> QED BY <2>1, SameCount
<1>12. CASE FlushCalled
  <2>1. UNCHANGED <<ask, pending, due, live, state>>
    BY <1>12 DEF FlushCalled
  <2> QED BY <2>1, SameCount
<1>13. ASSUME NEW t \in Threads, DeviceErrorFound(t)
       PROVE  Counted'
  <2>1. UNCHANGED <<ask, pending, due, live, state>>
    BY <1>13 DEF DeviceErrorFound
  <2> QED BY <2>1, SameCount
<1>14. ASSUME NEW t \in Threads, FlushFlagged(t)
       PROVE  Counted'
  <2>1. UNCHANGED <<ask, pending, due, live, state>>
    BY <1>14 DEF FlushFlagged
  <2> QED BY <2>1, SameCount
<1>15. ASSUME NEW t \in Threads, StreamsStopped(t)
       PROVE  Counted'
  <2>1. UNCHANGED <<ask, pending, due, live, state>>
    BY <1>15 DEF StreamsStopped
  <2> QED BY <2>1, SameCount
<1>16. ASSUME NEW t \in Threads, MetadataStopped(t)
       PROVE  Counted'
  <2>1. UNCHANGED <<ask, pending, live, state>> /\ due' = {}
    BY <1>16 DEF MetadataStopped
  <2> QED BY <2>1, SameCount
<1>17. ASSUME NEW t \in Threads, PendingNotified(t)
       PROVE  Counted'
  <2>1. live' = 0 /\ due' = {}
    BY <1>17 DEF PendingNotified, reset_live, Stops
  <2> QED BY <2>1, NothingDue
<1>18. ASSUME NEW t \in Threads, FlushPastTheEnd(t)
       PROVE  Counted'
  <2>1. UNCHANGED <<ask, pending, due, live, state>>
    BY <1>18 DEF FlushPastTheEnd
  <2> QED BY <2>1, SameCount
<1>19. ASSUME NEW t \in Threads, DeviceErrorEnds(t)
       PROVE  Counted'
  <2>1. UNCHANGED <<ask, pending, due, live>> /\ (state' = "STARTED" => state = "STARTED")
    BY <1>19 DEF DeviceErrorEnds
  <2> QED BY <2>1, SameCount
<1>20. CASE configureStreams
  <2>1. live' = live /\ state' = "CONFIGURED"
    BY <1>20 DEF configureStreams
  <2> QED BY <2>1 DEF Counted
<1>21. CASE UNCHANGED vars
  <2>1. UNCHANGED <<ask, pending, due, live, state>>
    BY <1>21 DEF vars
  <2> QED BY <2>1, SameCount
<1> QED
  BY <1>1, <1>2, <1>3, <1>4, <1>5, <1>6, <1>7, <1>8, <1>9, <1>10, <1>11, <1>12, <1>13, <1>14,
     <1>15, <1>16, <1>17, <1>18, <1>19, <1>20, <1>21
     DEF Next, RequestStep, CallbackStep, FlushStep

\* Together the invariants hold from the start.
Sound == Types /\ Awake /\ Stops /\ Kinds /\ Counted

LEMMA SoundInit == Init => Sound
<1> SUFFICES ASSUME Init PROVE Sound
  OBVIOUS
<1>1. Types
  <2>1. fw \in [Frames -> View]
    BY DEF Init, Contract!Init, Contract!NotAsked, View
  <2>2. upsets \in 0 .. MaxUpsets
    BY HalAssumption DEF Init
  <2>3. /\ ask \in [Frames -> Requests \cup {None}]
        /\ outstanding \in [Frames -> SUBSET Streams] /\ cached \in [Frames -> SUBSET Streams]
        /\ pc \in [Threads -> {"idle", "wait", "gone", "error", "flag", "streams", "meta",
                               "notify", "deinit"}]
    BY DEF Init
  <2>4. /\ mFlush \in BOOLEAN /\ woken \in BOOLEAN /\ sig \in BOOLEAN
        /\ died \in BOOLEAN /\ spoilt \in BOOLEAN /\ crashed \in BOOLEAN
    BY DEF Init
  <2>5. /\ state = "CONFIGURED" /\ live \in Int
        /\ pending = {} /\ reproc = {} /\ dropped = {} /\ device = {} /\ due = {} /\ hw = {}
    BY DEF Init
  <2> QED BY <2>1, <2>2, <2>3, <2>4, <2>5 DEF Types
<1>2. Awake /\ Stops /\ Kinds
  BY DEF Init, Awake, Places, NoIdleWait, Stops, Kinds, Threads, None
<1>3. Served = {} /\ Alive = {} /\ live = 0
  BY DEF Init, Served, Alive
<1>4. Counted
  BY <1>3, FS_EmptySet DEF Counted
<1> QED BY <1>1, <1>2, <1>4 DEF Sound

LEMMA SoundStep == Sound /\ [Next]_vars => Sound'
BY TypesStep, AwakeStep, StopsStep, KindsStep, CountedStep DEF Sound

LEMMA SoundAlways == Spec => []Sound
BY SoundInit, SoundStep, PTL DEF Spec

\* The variables keep their types: above all the unsigned counter, which each
\* callback of metadata takes down by one, does not go below zero.
THEOREM Typed == Spec => []TypeOK
<1>1. Sound => TypeOK
  BY DEF Sound, Types, Counted, TypeOK
<1> QED BY <1>1, SoundAlways, PTL

\* The request thread never sleeps unsignalled with room for a request.
THEOREM NoIdleWaitAlways == Spec => []NoIdleWait
<1>1. Sound => NoIdleWait
  BY DEF Sound, Awake
<1> QED BY <1>1, SoundAlways, PTL

-----------------------------------------------------------------------------
(* What the framework has heard, against the lists and the map.            *)

Out(f) == {s \in Streams : fw[f].buffers[s] = "out"}

\* What holds of each frame.  A request in the list is unanswered; the map holds
\* buffers that the framework waits for, all of them while a live request is
\* pending; what the channels still owe is in the map; and a buffer in the map is
\* in the drop list exactly when the framework was told that it is lost.
Heard(f) ==
    /\ fw[f].asked <=> ask[f] # None
    /\ fw[f].live <=> IsLive(f)
    /\ fw[f].result => fw[f].shutter /\ ~fw[f].failed
    /\ f \in pending => ~fw[f].result /\ ~fw[f].failed
    /\ fw[f].asked /\ f \notin pending => fw[f].shutter \/ fw[f].failed
Mapped(f) ==
    /\ fw[f].failed \/ ~fw[f].asked => outstanding[f] = {}
    /\ outstanding[f] \subseteq Out(f) /\ outstanding[f] \subseteq ask[f].out
    /\ f \in pending /\ IsLive(f) => outstanding[f] = ask[f].out
    /\ cached[f] \subseteq outstanding[f]
    /\ cached[f] # {} => f \in pending /\ IsLive(f)
OwedBuffers(f) ==
    /\ \A s \in Streams : <<f, s>> \in hw => s \in outstanding[f] /\ s \notin cached[f]
    /\ f \in pending /\ ask[f].kind = "pproc" =>
         \A s \in Streams : <<f, s>> \in hw => <<f, "input">> \in hw
    /\ <<f, "input">> \in hw => ask[f].kind = "pproc"
Told(f) ==
    /\ \A s \in outstanding[f] : <<f, s>> \in dropped <=> s \in fw[f].told
    /\ ~fw[f].asked => fw[f].told = {} /\ \A s \in Streams : <<f, s>> \notin dropped
    /\ ~fw[f].failed /\ Blob \in Out(f) => Blob \notin fw[f].told
    /\ f \in reproc => /\ f \in pending /\ ask[f].kind = "direct"
                      /\ Blob \in Out(f) /\ outstanding[f] = {}
Entry(f) == Heard(f) /\ Mapped(f) /\ OwedBuffers(f) /\ Told(f)

\* Metadata comes in order, so that what is pending is the later part.
InOrder ==
    \A f, g \in Frames : g \in pending /\ IsLive(g) /\ g < f /\ IsLive(f) => f \in pending

Booked == ~crashed /\ InOrder /\ \A f \in Frames : Entry(f)

\* All that until a flush has met reprocess requests, or broken off.
Ledger == ~spoilt => Booked

\* A frame keeps its entry when nothing about it changes.
LEMMA EntryKept ==
  ASSUME NEW g \in Frames, Entry(g),
         fw'[g] = fw[g], ask'[g] = ask[g], g \in pending' <=> g \in pending,
         outstanding'[g] = outstanding[g], cached'[g] = cached[g],
         \A s \in Streams : <<g, s>> \in hw' =>
             <<g, s>> \in hw /\ (<<g, "input">> \in hw => <<g, "input">> \in hw'),
         <<g, "input">> \in hw' => <<g, "input">> \in hw,
         \A s \in Streams : <<g, s>> \in dropped' <=> <<g, s>> \in dropped,
         g \in reproc' => g \in reproc,
         outstanding[g] \in SUBSET Streams
  PROVE  Entry(g)'
<1>1. Out(g)' = Out(g) /\ (IsLive(g)' <=> IsLive(g))
  BY DEF Out, IsLive
<1>2. Heard(g)' /\ Mapped(g)'
  BY <1>1 DEF Entry, Heard, Mapped, IsLive
<1>3. OwedBuffers(g)'
  BY DEF Entry, OwedBuffers
<1>4. Told(g)'
  BY <1>1 DEF Entry, Told
<1> QED BY <1>2, <1>3, <1>4 DEF Entry

\* A new request is booked right, whatever part of it the channels have accepted:
\* all or nothing of one to reprocess, which goes to one channel.
LEMMA InsertBooked ==
  ASSUME Types, Kinds, Booked, crashed' = crashed,
         NEW f \in Frames, NEW r \in Requests, NextFrame(f), Insert(f, r),
         NEW O \in SUBSET Owed(f, r), hw' = hw \cup O,
         r.kind = "pproc" => O = {} \/ O = Owed(f, r)
  PROVE  Booked'
<1>1. /\ ask[f] = None /\ ask'[f] = r /\ r # None
      /\ \A g \in Frames : g # f => ask'[g] = ask[g]
      /\ f \notin pending /\ f \notin reproc /\ pending' = pending \cup {f}
  BY InsertKinds, RequestShape DEF NextFrame
<1>2. /\ ~fw[f].asked /\ outstanding[f] = {} /\ cached[f] = {}
      /\ \A s \in Streams : <<f, s>> \notin hw /\ <<f, s>> \notin dropped
  BY <1>1 DEF Booked, Entry, Heard, Mapped, OwedBuffers, Told
<1>3. ASSUME NEW g \in Frames, g # f
      PROVE  Entry(g)'
  <2>1. /\ fw'[g] = fw[g] /\ outstanding'[g] = outstanding[g] /\ (g \in pending' <=> g \in pending)
        /\ UNCHANGED <<cached, reproc, dropped>>
    BY <1>1, <1>3 DEF Insert, Types
  <2>2. \A s : (<<g, s>> \in hw') <=> (<<g, s>> \in hw)
    BY <1>3 DEF Owed
  <2> QED BY <1>1, <1>3, <2>1, <2>2, EntryKept DEF Booked, Types
<1>4. Entry(f)'
  <2> DEFINE v == Contract!Asked(r.kind = "live", r.out)
  <2>1. fw'[f] = v /\ outstanding'[f] = r.out /\ UNCHANGED <<cached, reproc, dropped>>
    BY DEF Insert, Types
  <2>2. /\ v.asked /\ v.live = (r.kind = "live") /\ ~v.shutter /\ ~v.result /\ ~v.failed /\ v.told = {}
        /\ v.buffers = [s \in Streams |-> IF s \in r.out THEN "out" ELSE "none"]
    BY OnAsked, RequestShape
  <2> HIDE DEF v
  <2>3. Out(f)' = r.out
    BY <2>1, <2>2, RequestShape DEF Out
  <2>4. Heard(f)'
    BY <1>1, <2>1, <2>2 DEF Heard, IsLive
  <2>5. Mapped(f)'
    BY <1>1, <1>2, <2>1, <2>2, <2>3 DEF Mapped
  <2>6. OwedBuffers(f)'
    <3>1. ASSUME NEW s \in Streams, <<f, s>> \in hw'
          PROVE  s \in r.out /\ (r.kind = "pproc" => <<f, "input">> \in hw')
      <4>1. <<f, s>> \in O /\ <<f, s>> \in Owed(f, r)
        BY <1>2, <3>1
      <4>2. s # "input"
        BY HalAssumption
      <4> QED BY <4>1, <4>2 DEF Owed
    <3>2. <<f, "input">> \in hw' => r.kind = "pproc"
      <4>1. <<f, "input">> \notin hw
        BY <1>1 DEF Booked, Entry, OwedBuffers, None
      <4>2. ASSUME <<f, "input">> \in Owed(f, r)
            PROVE  r.kind = "pproc"
        BY <4>2, RequestShape, HalAssumption DEF Owed
      <4> QED BY <4>1, <4>2
    <3> QED BY <1>1, <1>2, <2>1, <3>1, <3>2 DEF OwedBuffers
  <2>7. Told(f)'
    BY <1>1, <1>2, <2>1, <2>2, RequestShape DEF Told
  <2> QED BY <2>4, <2>5, <2>6, <2>7 DEF Entry
<1>5. InOrder'
  BY <1>1 DEF Kinds, Booked, InOrder, IsLive, Frames, None
<1> QED BY <1>3, <1>4, <1>5 DEF Booked

\* Callbacks that MayHear and the order of the shutters allow are a step of the
\* contract.
LEMMA ContractHears ==
  ASSUME fw' \in [Frames -> View], Contract!InOrder(fw, fw'),
         \A g \in Frames : fw'[g] = fw[g] \/ (fw[g].asked /\ Contract!MayHear(fw[g], fw'[g]))
  PROVE  Contract!Next
<1>1. fw' = [g \in Frames |-> fw'[g]]
  OBVIOUS
<1>2. Contract!Hear
  BY <1>1 DEF Contract!Hear
<1> QED BY <1>2 DEF Contract!Next

\* A submitted request is one, too.
LEMMA ContractSubmit ==
  ASSUME Types, Booked, NEW f \in Frames, NEW r \in Requests, NextFrame(f), Insert(f, r)
  PROVE  Contract!Next
<1>1. ~fw[f].asked /\ \A g \in Frames : g < f => fw[g].asked
  BY DEF NextFrame, Booked, Entry, Heard
<1>2. (r.kind = "live") \in BOOLEAN /\ r.out \in SUBSET Streams
  BY RequestShape
<1>3. fw' = [fw EXCEPT ![f] = Contract!Asked(r.kind = "live", r.out)]
  BY DEF Insert
<1>4. Contract!Submit(f)
  BY <1>1, <1>2, <1>3 DEF Contract!Submit
<1> QED BY <1>4 DEF Contract!Next

\* Buffers that metadata reports lost belong to pending requests, and are not
\* JPEG pictures.
LEMMA NotedArePending ==
  ASSUME Types, Kinds, NEW f \in Frames, NEW D \in SUBSET (Streams \ {Blob}),
         NEW g \in Frames, NEW s, <<g, s>> \in DropNoted(f, D)
  PROVE  g \in pending /\ ask[g] # None /\ s \in Streams /\ s # Blob
BY DEF DropNoted, Reached, Kinds, Types

\* The entry of a frame of which the buffers in T are reported lost.
LEMMA ToldEntry ==
  ASSUME Types, NEW g \in Frames, Entry(g), NEW T \in SUBSET (Streams \ {Blob}),
         T # {} => g \in pending /\ ask[g] # None,
         fw' \in [Frames -> View],
         fw'[g] = [fw[g] EXCEPT !.told = @ \cup T], T = {} => fw'[g] = fw[g],
         \A s \in Streams : <<g, s>> \in dropped' <=> <<g, s>> \in dropped \/ s \in T,
         ask'[g] = ask[g], g \in pending' <=> g \in pending,
         outstanding'[g] = outstanding[g], cached'[g] = cached[g],
         g \in reproc' => g \in reproc, hw' = hw
  PROVE  /\ Entry(g)'
         /\ fw'[g] = fw[g] \/ (fw[g].asked /\ Contract!MayHear(fw[g], fw'[g]))
         /\ fw'[g].shutter = fw[g].shutter /\ fw'[g].failed = fw[g].failed
<1>1. /\ fw'[g].asked = fw[g].asked /\ fw'[g].live = fw[g].live
      /\ fw'[g].shutter = fw[g].shutter /\ fw'[g].result = fw[g].result
      /\ fw'[g].failed = fw[g].failed /\ fw'[g].buffers = fw[g].buffers
      /\ fw'[g].told = fw[g].told \cup T
  BY DEF View, Types
<1>2. Out(g)' = Out(g) /\ outstanding[g] \in SUBSET Streams
  BY <1>1 DEF Out, Types
<1>3. Heard(g)' /\ Mapped(g)' /\ OwedBuffers(g)'
  BY <1>1, <1>2 DEF Entry, Heard, Mapped, OwedBuffers, IsLive
<1>4. Told(g)'
  <2>1. \A s \in outstanding[g] : <<g, s>> \in dropped' <=> s \in fw'[g].told
    BY <1>1, <1>2 DEF Entry, Told
  <2>2. ~fw'[g].asked => fw'[g].told = {} /\ \A s \in Streams : <<g, s>> \notin dropped'
    BY <1>1 DEF Entry, Told, Heard
  <2>3. ~fw'[g].failed /\ Blob \in Out(g)' => Blob \notin fw'[g].told
    BY <1>1, <1>2 DEF Entry, Told
  <2>4. g \in reproc' => /\ g \in pending' /\ ask'[g].kind = "direct"
                        /\ Blob \in Out(g)' /\ outstanding'[g] = {}
    BY <1>2 DEF Entry, Told
  <2> QED BY <2>1, <2>2, <2>3, <2>4 DEF Told
<1>5. CASE T = {}
  BY <1>1, <1>3, <1>4, <1>5 DEF Entry
<1>6. CASE T # {}
  <2>1. fw[g].asked /\ ~fw[g].failed
    BY <1>6 DEF Entry, Heard
  <2>2. Contract!MayHear(fw[g], fw'[g])
    BY <1>1, <2>1 DEF Contract!MayHear
  <2> QED BY <1>1, <1>3, <1>4, <2>1, <2>2 DEF Entry
<1> QED BY <1>5, <1>6

\* Telling the framework of lost buffers, with the drop list that goes with it.
LEMMA LostBooked ==
  ASSUME Types, Kinds, Booked, crashed' = crashed,
         NEW f \in Frames, NEW D \in SUBSET (Streams \ {Blob}),
         fw' = Lost(fw, DropNoted(f, D)), dropped' = dropped \cup DropNoted(f, D),
         UNCHANGED <<ask, pending, outstanding, cached, reproc, hw>>
  PROVE  Booked' /\ Contract!Next
<1> DEFINE N == DropNoted(f, D)
<1>1. fw \in [Frames -> View] /\ fw' \in [Frames -> View]
  BY OnLost DEF Types
<1>2. ASSUME NEW g \in Frames
      PROVE  /\ Entry(g)'
             /\ fw'[g] = fw[g] \/ (fw[g].asked /\ Contract!MayHear(fw[g], fw'[g]))
             /\ fw'[g].shutter = fw[g].shutter /\ fw'[g].failed = fw[g].failed
  <2> DEFINE T == {s \in Streams : <<g, s>> \in N}
  <2>1. T \in SUBSET (Streams \ {Blob}) /\ (T # {} => g \in pending /\ ask[g] # None)
    BY NotedArePending
  <2> HIDE DEF N
  <2>2. /\ Lost(fw, N)[g] = [fw[g] EXCEPT !.told = @ \cup T]
        /\ (\A s \in Streams : <<g, s>> \notin N) => Lost(fw, N)[g] = fw[g]
    BY <1>1, OnLost
  <2>3. fw' = Lost(fw, N) /\ dropped' = dropped \cup N
    BY DEF N
  <2>4. Entry(g)
    BY DEF Booked
  <2>5. \A s \in Streams : <<g, s>> \in dropped' <=> <<g, s>> \in dropped \/ s \in T
    BY <2>3
  <2>6. /\ fw'[g] = [fw[g] EXCEPT !.told = @ \cup T] /\ (T = {} => fw'[g] = fw[g])
    BY <2>2, <2>3
  <2> HIDE DEF T
  <2> QED BY <1>1, <2>1, <2>4, <2>5, <2>6, ToldEntry
<1>3. Contract!InOrder(fw, fw')
  BY <1>2 DEF Contract!InOrder
<1>4. InOrder'
  BY DEF Booked, InOrder, IsLive
<1> QED BY <1>1, <1>2, <1>3, <1>4, ContractHears DEF Booked

\* Shutter, result and buffers of one frame.
LEMMA OnAnswered ==
  ASSUME NEW w \in [Frames -> View], NEW f \in Frames, NEW S, NEW bad
  PROVE  LET v == Returned(Resulted(Notified(w, f), f), f, S, bad)
         IN  /\ v \in [Frames -> View]
             /\ \A g \in Frames : g # f => v[g] = w[g]
             /\ v[f].asked = w[f].asked /\ v[f].live = w[f].live /\ v[f].failed = w[f].failed
             /\ v[f].shutter /\ v[f].result /\ v[f].told = w[f].told
             /\ v[f].buffers = [s \in Streams |->
                                  IF s \notin S THEN w[f].buffers[s]
                                  ELSE IF <<f, s>> \in bad THEN "error" ELSE "ok"]
<1> DEFINE n == Notified(w, f)
           r == Resulted(n, f)
           v == Returned(r, f, S, bad)
<1>1. n \in [Frames -> View] /\ r \in [Frames -> View] /\ v \in [Frames -> View]
  BY OnNotified, OnResulted, OnReturned
<1>2. /\ \A g \in Frames : g # f => n[g] = w[g]
      /\ n[f] = [w[f] EXCEPT !.shutter = TRUE]
  BY OnNotified
<1> HIDE DEF n
<1>3. /\ \A g \in Frames : g # f => r[g] = n[g]
      /\ r[f] = [n[f] EXCEPT !.result = TRUE]
  BY <1>1, OnResulted
<1> HIDE DEF r
<1> DEFINE back == [s \in Streams |-> IF s \notin S THEN r[f].buffers[s]
                                      ELSE IF <<f, s>> \in bad THEN "error" ELSE "ok"]
<1>4. /\ \A g \in Frames : g # f => v[g] = r[g]
      /\ v[f] = [r[f] EXCEPT !.buffers = back]
  <2>1. v = [r EXCEPT ![f] = [r[f] EXCEPT !.buffers = back]]
    BY <1>1 DEF Returned
  <2> HIDE DEF v, back
  <2> QED BY <1>1, <2>1
<1> HIDE DEF v, back
<1>5. /\ v[f].asked = w[f].asked /\ v[f].live = w[f].live /\ v[f].failed = w[f].failed
      /\ v[f].shutter /\ v[f].result /\ v[f].told = w[f].told /\ v[f].buffers = back
      /\ r[f].buffers = w[f].buffers
  BY <1>1, <1>2, <1>3, <1>4 DEF View
<1>6. \A g \in Frames : g # f => v[g] = w[g]
  BY <1>2, <1>3, <1>4
<1> QED BY <1>1, <1>5, <1>6 DEF n, r, v, back

\* The entry of a request that a callback answers, with the buffers in S.
LEMMA AnsweredEntry ==
  ASSUME Types, NEW f \in Frames, Entry(f), f \in pending, ask[f] # None, fw' \in [Frames -> View],
         NEW S \in SUBSET Streams, S \subseteq Out(f),
         NEW T \in SUBSET (Streams \ {Blob}),
         fw'[f].asked = fw[f].asked, fw'[f].live = fw[f].live, fw'[f].failed = fw[f].failed,
         fw'[f].shutter, fw'[f].result, fw'[f].told = fw[f].told \cup T,
         \A s \in Streams \ S : fw'[f].buffers[s] = fw[f].buffers[s],
         \A s \in S : fw'[f].buffers[s] = IF s \in fw[f].told \cup T THEN "error" ELSE "ok",
         ask' = ask, f \notin pending', f \notin reproc', hw' \subseteq hw,
         outstanding'[f] = outstanding[f] \ S, cached'[f] = {},
         \A s \in Streams : <<f, s>> \in hw' => s \notin S,
         \A s \in Streams \ S : <<f, s>> \in dropped' <=> <<f, s>> \in dropped \/ s \in T
  PROVE  Entry(f)' /\ fw[f].asked /\ Contract!MayHear(fw[f], fw'[f])
<1>1. fw[f].asked /\ ~fw[f].failed
  BY DEF Entry, Heard
<1>2. Out(f)' = Out(f) \ S
  BY DEF Out
<1>3. Heard(f)'
  BY <1>1 DEF Entry, Heard, IsLive
<1>4. Mapped(f)'
  BY <1>1, <1>2 DEF Entry, Mapped, Types
<1>5. OwedBuffers(f)'
  BY DEF Entry, OwedBuffers
<1>6. Told(f)'
  <2>1. \A s \in outstanding'[f] : <<f, s>> \in dropped' <=> s \in fw'[f].told
    BY DEF Entry, Told, Types
  <2>2. ~fw'[f].failed /\ Blob \in Out(f)' => Blob \notin fw'[f].told
    BY <1>2 DEF Entry, Told
  <2> QED BY <1>1, <2>1, <2>2 DEF Told
<1>7. Contract!MayHear(fw[f], fw'[f])
  <2>1. ASSUME NEW s \in Streams
        PROVE  \/ fw'[f].buffers[s] = fw[f].buffers[s]
               \/ /\ fw[f].buffers[s] = "out"
                  /\ fw'[f].buffers[s] = (IF s \in fw'[f].told \/ fw'[f].failed THEN "error" ELSE "ok")
    BY <1>1 DEF Out
  <2> QED BY <1>1, <2>1 DEF Contract!MayHear
<1> QED BY <1>1, <1>3, <1>4, <1>5, <1>6, <1>7 DEF Entry

\* Metadata answers its request, and the reprocess request after it whose result
\* was put aside.
LEMMA AnswerBooked ==
  ASSUME Types, Types', Kinds, Booked, crashed' = crashed,
         NEW f \in Frames, NEW D \in SUBSET (Streams \ {Blob}),
         f \in due, f \in pending, Missing(f) = {}, Answer(f, DropNoted(f, D)),
         ask' = ask, hw' = hw
  PROVE  Booked' /\ Contract!Next
<1> DEFINE N == DropNoted(f, D)
           T(g) == {s \in Streams : <<g, s>> \in N}
           w == Lost(fw, N)
           v == Returned(Resulted(Notified(w, f), f), f, cached[f], dropped \cup N)
           k == f + 1
           u == Returned(Resulted(Notified(v, k), k), k, ask[k].out, {})
<1>1. /\ fw' = IF k \notin reproc THEN v ELSE IF k \notin pending THEN Notified(v, k) ELSE u
      /\ pending' = pending \ ({f} \cup ({k} \cap reproc)) /\ reproc' = reproc \ {k}
      /\ outstanding' = [outstanding EXCEPT ![f] = @ \ cached[f]]
      /\ cached' = [cached EXCEPT ![f] = {}]
      /\ dropped' = (dropped \cup N) \ ({f} \X cached[f])
  BY DEF Answer, SentResult
<1>2. \A g \in Frames : /\ T(g) \in SUBSET (Streams \ {Blob})
                        /\ T(g) # {} => g \in pending /\ ask[g] # None
                        /\ T(g) # {} => g <= f
  <2>1. ASSUME NEW g \in Frames, NEW s \in T(g)
        PROVE  g \in pending /\ ask[g] # None /\ s # Blob /\ g <= f
    <3>1. g \in pending /\ ask[g] # None /\ s # Blob
      BY <2>1, NotedArePending
    <3>2. g <= f
      BY <2>1 DEF DropNoted, Reached
    <3> QED BY <3>1, <3>2
  <2> QED BY <2>1
<1>3. /\ IsLive(f) /\ f \notin reproc /\ ask[f] # None /\ k # f /\ f < k /\ f \in Int
      /\ reproc \subseteq pending /\ \A g \in reproc : ask[g].kind = "direct" /\ ask[g].out = {Blob}
  <2>1. IsLive(f) /\ f \notin reproc /\ ask[f] # None
    BY DEF Kinds, IsLive, IsInput, Input
  <2>2. ASSUME NEW g \in reproc PROVE g \in pending /\ ask[g].kind = "direct" /\ ask[g].out = {Blob}
    <3>1. g \in Frames /\ g \in pending /\ ask[g].kind = "direct"
      BY DEF Types, Booked, Entry, Told
    <3>2. ask[g] \in Requests
      BY <3>1 DEF Types, Kinds
    <3> QED BY <3>1, <3>2, RequestShape
  <2> QED BY <2>1, <2>2, HalAssumption DEF Frames
<1> HIDE DEF N
<1>4. /\ w \in [Frames -> View]
      /\ \A g \in Frames : /\ w[g] = [fw[g] EXCEPT !.told = @ \cup T(g)]
                           /\ T(g) = {} => w[g] = fw[g]
  <2>1. \A g \in Frames : (T(g) = {}) <=> \A s \in Streams : <<g, s>> \notin N
    OBVIOUS
  <2>2. fw \in [Frames -> View]
    BY DEF Types
  <2> QED BY <2>1, <2>2, OnLost
<1>5. \A g \in Frames :
        /\ w[g].asked = fw[g].asked /\ w[g].live = fw[g].live /\ w[g].shutter = fw[g].shutter
        /\ w[g].failed = fw[g].failed /\ w[g].told = fw[g].told \cup T(g)
        /\ w[g].buffers = fw[g].buffers
  BY <1>4 DEF Types, View
<1> HIDE DEF w
<1>6. /\ v \in [Frames -> View] /\ \A g \in Frames : g # f => v[g] = w[g]
      /\ v[f].asked = w[f].asked /\ v[f].live = w[f].live /\ v[f].failed = w[f].failed
      /\ v[f].shutter /\ v[f].result /\ v[f].told = w[f].told
      /\ v[f].buffers = [s \in Streams |->
                           IF s \notin cached[f] THEN w[f].buffers[s]
                           ELSE IF <<f, s>> \in dropped \cup N THEN "error" ELSE "ok"]
  BY <1>4, OnAnswered
<1> HIDE DEF v
<1>7. k \in reproc =>
        /\ u \in [Frames -> View] /\ \A g \in Frames : g # k => u[g] = v[g]
        /\ u[k].asked = v[k].asked /\ u[k].live = v[k].live /\ u[k].failed = v[k].failed
        /\ u[k].shutter /\ u[k].result /\ u[k].told = v[k].told
        /\ u[k].buffers = [s \in Streams |->
                             IF s \notin ask[k].out THEN v[k].buffers[s]
                             ELSE IF <<k, s>> \in {} THEN "error" ELSE "ok"]
  <2>1. k \in reproc => k \in Frames
    BY DEF Types
  <2> QED BY <1>6, <2>1, OnAnswered
<1> HIDE DEF u
<1>8. /\ fw' = IF k \notin reproc THEN v ELSE u
      /\ fw' \in [Frames -> View]
  BY <1>1, <1>3 DEF Types
<1>9. \A g \in Frames : Entry(g) /\ outstanding[g] \in SUBSET Streams /\ cached[g] \in SUBSET Streams
  BY DEF Booked, Types
<1>10. Entry(f)' /\ fw[f].asked /\ Contract!MayHear(fw[f], fw'[f]) /\ fw'[f].failed = fw[f].failed
  <2>1. fw'[f] = v[f]
    BY <1>3, <1>7, <1>8
  <2>2. /\ cached[f] \subseteq Out(f) /\ \A s \in Streams : <<f, s>> \in hw => s \notin cached[f]
        /\ \A s \in cached[f] : <<f, s>> \in dropped <=> s \in fw[f].told
    BY <1>9 DEF Entry, Mapped, OwedBuffers, Told
  <2>3. \A s \in cached[f] : <<f, s>> \in dropped \cup N <=> s \in fw[f].told \cup T(f)
    BY <1>9, <2>2
  <2>4. \A s \in Streams \ cached[f] : <<f, s>> \in dropped' <=> <<f, s>> \in dropped \/ s \in T(f)
    BY <1>1
  <2>5. /\ f \notin pending' /\ f \notin reproc' /\ outstanding'[f] = outstanding[f] \ cached[f]
        /\ cached'[f] = {}
    BY <1>1, <1>3 DEF Types
  <2>6. /\ fw'[f].asked = fw[f].asked /\ fw'[f].live = fw[f].live /\ fw'[f].failed = fw[f].failed
        /\ fw'[f].shutter /\ fw'[f].result /\ fw'[f].told = fw[f].told \cup T(f)
        /\ \A s \in Streams \ cached[f] : fw'[f].buffers[s] = fw[f].buffers[s]
        /\ \A s \in cached[f] :
             fw'[f].buffers[s] = IF <<f, s>> \in dropped \cup N THEN "error" ELSE "ok"
    <3>1. /\ fw'[f].asked = fw[f].asked /\ fw'[f].live = fw[f].live
          /\ fw'[f].failed = fw[f].failed /\ fw'[f].shutter /\ fw'[f].result
      BY <1>5, <1>6, <2>1
    <3>2. fw'[f].told = fw[f].told \cup T(f) /\ w[f].buffers = fw[f].buffers
      BY <1>5, <1>6, <2>1
    <3>3. ASSUME NEW s \in Streams
          PROVE  fw'[f].buffers[s] = IF s \notin cached[f] THEN fw[f].buffers[s]
                                     ELSE IF <<f, s>> \in dropped \cup N THEN "error" ELSE "ok"
      BY <1>6, <2>1, <3>2, <3>3
    <3>4. cached[f] \subseteq Streams
      BY <1>9
    <3> QED BY <3>1, <3>2, <3>3, <3>4
  <2>7. T(f) \in SUBSET (Streams \ {Blob}) /\ \A s \in Streams : <<f, s>> \in hw' => s \notin cached[f]
    BY <1>2, <2>2
  <2>8. \A s \in cached[f] :
          fw'[f].buffers[s] = IF s \in fw[f].told \cup T(f) THEN "error" ELSE "ok"
    BY <2>3, <2>6
  <2> DEFINE Tf == T(f)
             S == cached[f]
  <2> HIDE DEF T, Tf, S
  <2>9. Entry(f)' /\ fw[f].asked /\ Contract!MayHear(fw[f], fw'[f])
    <3>1. /\ S \in SUBSET Streams /\ S \subseteq Out(f) /\ Tf \in SUBSET (Streams \ {Blob})
          /\ fw'[f].told = fw[f].told \cup Tf
          /\ \A s \in Streams \ S : fw'[f].buffers[s] = fw[f].buffers[s]
          /\ \A s \in S : fw'[f].buffers[s] = IF s \in fw[f].told \cup Tf THEN "error" ELSE "ok"
          /\ outstanding'[f] = outstanding[f] \ S
          /\ \A s \in Streams : <<f, s>> \in hw' => s \notin S
          /\ \A s \in Streams \ S : <<f, s>> \in dropped' <=> <<f, s>> \in dropped \/ s \in Tf
      BY <1>9, <2>2, <2>4, <2>5, <2>6, <2>7, <2>8 DEF S, Tf
    <3> QED BY <1>3, <1>8, <1>9, <2>5, <2>6, <3>1, AnsweredEntry
  <2> QED BY <2>6, <2>9
<1>11. ASSUME k \in reproc
       PROVE  Entry(k)' /\ fw[k].asked /\ Contract!MayHear(fw[k], fw'[k]) /\ fw'[k].failed = fw[k].failed
  <2>1. k \in Frames /\ k \in pending /\ ask[k] # None /\ ask[k].out = {Blob} /\ T(k) = {}
    BY <1>2, <1>3, <1>11 DEF Types, Kinds
  <2>2. /\ Blob \in Out(k) /\ outstanding[k] = {} /\ cached[k] = {} /\ Blob \notin fw[k].told
        /\ \A s \in Streams : <<k, s>> \notin hw
    BY <1>9, <1>11, <2>1 DEF Entry, Heard, Mapped, OwedBuffers, Told
  <2>3. /\ k \notin pending' /\ k \notin reproc' /\ outstanding'[k] = outstanding[k] \ {Blob}
        /\ cached'[k] = {} /\ \A s \in Streams : <<k, s>> \in dropped' <=> <<k, s>> \in dropped
    BY <1>1, <1>3, <1>11, <2>1, <2>2 DEF Types
  <2>4. /\ fw'[k].asked = fw[k].asked /\ fw'[k].live = fw[k].live /\ fw'[k].failed = fw[k].failed
        /\ fw'[k].shutter /\ fw'[k].result /\ fw'[k].told = fw[k].told \cup {}
        /\ \A s \in Streams \ {Blob} : fw'[k].buffers[s] = fw[k].buffers[s]
        /\ fw'[k].buffers[Blob] = "ok"
    <3>1. v[k] = w[k] /\ fw'[k] = u[k] /\ Blob \in Streams
      BY <1>3, <1>6, <1>8, <1>11, <2>1, HalAssumption
    <3>2. /\ fw'[k].asked = fw[k].asked /\ fw'[k].live = fw[k].live
          /\ fw'[k].failed = fw[k].failed /\ fw'[k].shutter /\ fw'[k].result
      BY <1>5, <1>7, <1>11, <2>1, <3>1
    <3>3. fw'[k].told = fw[k].told \cup {} /\ w[k].buffers = fw[k].buffers
      <4>1. w[k].told = fw[k].told \cup T(k) /\ w[k].buffers = fw[k].buffers
        BY <1>5, <2>1
      <4>2. fw'[k].told = w[k].told
        BY <1>7, <1>11, <3>1
      <4> HIDE DEF T
      <4> QED BY <2>1, <4>1, <4>2
    <3>4. ASSUME NEW s \in Streams
          PROVE  fw'[k].buffers[s] = IF s \notin {Blob} THEN fw[k].buffers[s] ELSE "ok"
      BY <1>7, <1>11, <2>1, <3>1, <3>3, <3>4
    <3> QED BY <3>1, <3>2, <3>3, <3>4
  <2>5. /\ {Blob} \subseteq Out(k) /\ {Blob} \in SUBSET Streams
        /\ \A s \in {Blob} : fw'[k].buffers[s] = IF s \in fw[k].told \cup {} THEN "error" ELSE "ok"
        /\ \A s \in Streams \ {Blob} : <<k, s>> \in dropped' <=> <<k, s>> \in dropped \/ s \in {}
        /\ \A s \in Streams : <<k, s>> \in hw' => s \notin {Blob}
    BY <2>2, <2>3, <2>4, HalAssumption
  <2>6. {} \in SUBSET (Streams \ {Blob}) /\ hw' \subseteq hw
    OBVIOUS
  <2> DEFINE S == {Blob}
             none == {}
  <2> HIDE DEF S, none
  <2>7. /\ S \in SUBSET Streams /\ S \subseteq Out(k) /\ none \in SUBSET (Streams \ {Blob})
        /\ fw'[k].told = fw[k].told \cup none
        /\ \A s \in Streams \ S : fw'[k].buffers[s] = fw[k].buffers[s]
        /\ \A s \in S : fw'[k].buffers[s] = IF s \in fw[k].told \cup none THEN "error" ELSE "ok"
        /\ outstanding'[k] = outstanding[k] \ S
        /\ \A s \in Streams : <<k, s>> \in hw' => s \notin S
        /\ \A s \in Streams \ S : <<k, s>> \in dropped' <=> <<k, s>> \in dropped \/ s \in none
    BY <2>3, <2>4, <2>5 DEF S, none
  <2>8. Entry(k)' /\ fw[k].asked /\ Contract!MayHear(fw[k], fw'[k])
    BY <1>8, <1>9, <2>1, <2>3, <2>4, <2>6, <2>7, AnsweredEntry
  <2> QED BY <2>4, <2>8
<1>12. ASSUME NEW g \in Frames, g # f, ~(g = k /\ k \in reproc)
       PROVE  /\ Entry(g)'
              /\ fw'[g] = fw[g] \/ (fw[g].asked /\ Contract!MayHear(fw[g], fw'[g]))
              /\ fw'[g].shutter = fw[g].shutter /\ fw'[g].failed = fw[g].failed
  <2>1. fw'[g] = w[g]
    BY <1>6, <1>7, <1>8, <1>12
  <2>2. /\ (g \in pending' <=> g \in pending) /\ (g \in reproc' => g \in reproc)
        /\ outstanding'[g] = outstanding[g] /\ cached'[g] = cached[g]
        /\ \A s \in Streams : <<g, s>> \in dropped' <=> <<g, s>> \in dropped \/ s \in T(g)
    BY <1>1, <1>12 DEF Types
  <2>3. fw'[g] = [fw[g] EXCEPT !.told = @ \cup T(g)] /\ (T(g) = {} => fw'[g] = fw[g])
    BY <1>4, <2>1
  <2>4. T(g) \in SUBSET (Streams \ {Blob}) /\ (T(g) # {} => g \in pending /\ ask[g] # None)
    BY <1>2
  <2> HIDE DEF T
  <2> QED BY <1>8, <1>9, <2>2, <2>3, <2>4, ToldEntry
<1>13. Contract!InOrder(fw, fw')
  <2>1. ASSUME NEW a \in Frames, NEW b \in Frames, b < a, fw[b].live, fw[a].live,
               fw'[a].shutter, ~fw[a].shutter
        PROVE  fw'[b].shutter \/ fw'[b].failed
    <3>1. IsLive(a) /\ IsLive(b) /\ (fw[b].asked <=> ask[b] # None)
      BY <1>9, <2>1 DEF Entry, Heard
    <3>2. a = f
      BY <1>3, <1>12, <2>1, <3>1 DEF IsLive
    <3>3. b \notin pending /\ b # f /\ b # k
      BY <1>3, <2>1, <3>1, <3>2 DEF Missing, Frames
    <3>4. fw[b].shutter \/ fw[b].failed
      BY <1>9, <3>1, <3>3 DEF Entry, Heard, IsLive, None
    <3> QED BY <1>12, <3>3, <3>4
  <2> QED BY <2>1 DEF Contract!InOrder
<1>14. InOrder'
  <2>1. ASSUME NEW a \in Frames, NEW b \in Frames, b \in pending', IsLive(b), b < a, IsLive(a)
        PROVE  a \in pending'
    <3>1. b \in pending /\ a \in pending
      BY <1>1, <2>1 DEF Booked, InOrder
    <3>2. a # f
      BY <2>1, <3>1 DEF Missing
    <3>3. a \notin reproc
      BY <1>3, <2>1 DEF IsLive
    <3> QED BY <1>1, <3>1, <3>2, <3>3
  <2> QED BY <2>1 DEF InOrder, IsLive
<1> QED BY <1>8, <1>10, <1>11, <1>12, <1>13, <1>14, ContractHears DEF Booked

\* A callback about one frame, when the rest is left alone.
LEMMA OneFrameBooked ==
  ASSUME Types, Types', Booked, crashed' = crashed, ask' = ask,
         NEW f \in Frames, Entry(f)',
         fw'[f] = fw[f] \/ (fw[f].asked /\ Contract!MayHear(fw[f], fw'[f])),
         \/ ~IsLive(f)
         \/ fw'[f].shutter = fw[f].shutter /\ (f \in pending' <=> f \in pending),
         \A g \in Frames \ {f} :
             /\ fw'[g] = fw[g] /\ (g \in pending' <=> g \in pending)
             /\ outstanding'[g] = outstanding[g] /\ cached'[g] = cached[g]
             /\ (g \in reproc' => g \in reproc)
             /\ \A s : (<<g, s>> \in hw') <=> (<<g, s>> \in hw)
             /\ \A s : (<<g, s>> \in dropped') <=> (<<g, s>> \in dropped)
  PROVE  Booked' /\ Contract!Next
<1>1. ASSUME NEW g \in Frames
      PROVE  Entry(g)'
  <2>1. CASE g = f
    BY <2>1
  <2>2. CASE g # f
    <3>1. Entry(g) /\ outstanding[g] \in SUBSET Streams
      BY DEF Booked, Types
    <3> QED BY <2>2, <3>1, EntryKept
  <2> QED BY <2>1, <2>2
<1>2. InOrder'
  <2>1. ASSUME NEW a \in Frames, NEW b \in Frames, b \in pending', IsLive(b), b < a, IsLive(a)
        PROVE  a \in pending'
    BY <2>1 DEF Booked, InOrder
  <2> QED BY <2>1 DEF InOrder, IsLive
<1>3. Contract!InOrder(fw, fw')
  <2>1. ASSUME NEW a \in Frames, fw[a].live, fw'[a].shutter, ~fw[a].shutter
        PROVE  FALSE
    <3>1. IsLive(a)
      BY <2>1 DEF Booked, Entry, Heard
    <3> QED BY <2>1, <3>1
  <2> QED BY <2>1 DEF Contract!InOrder
<1>4. fw' \in [Frames -> View]
  BY DEF Types
<1>5. Contract!Next
  <2>1. ASSUME NEW g \in Frames
        PROVE  fw'[g] = fw[g] \/ (fw[g].asked /\ Contract!MayHear(fw[g], fw'[g]))
    BY <2>1
  <2> QED BY <1>3, <1>4, <2>1, ContractHears
<1> QED BY <1>1, <1>2, <1>5 DEF Booked

\* The input buffer is read: shutter and result of a reprocess request.
LEMMA InputBooked ==
  ASSUME Types, Types', Kinds, Booked, NEW f \in Frames, handleInputBuffer(f)
  PROVE  Booked' /\ Contract!Next
<1>1. /\ <<f, "input">> \in hw /\ hw' = hw \ {<<f, "input">>}
      /\ UNCHANGED <<ask, outstanding, cached, reproc, dropped, crashed>>
  BY DEF handleInputBuffer, history
<1>2. Entry(f) /\ ask[f].kind = "pproc" /\ outstanding[f] \in SUBSET Streams /\ f \notin reproc
  BY <1>1 DEF Booked, Entry, OwedBuffers, Told, Types
<1>3. \A g \in Frames \ {f} : \A s : (<<g, s>> \in hw') <=> (<<g, s>> \in hw)
  BY <1>1
<1>4. ~IsLive(f) /\ IsInput(f)
  BY <1>2 DEF IsLive, IsInput, Input
<1>5. CASE f \in pending
  <2> DEFINE n == Notified(fw, f)
  <2>1. /\ fw' = Resulted(n, f) /\ pending' = pending \ {f}
    BY <1>4, <1>5 DEF handleInputBuffer
  <2>2. /\ n \in [Frames -> View] /\ \A g \in Frames : g # f => n[g] = fw[g]
        /\ n[f] = [fw[f] EXCEPT !.shutter = TRUE]
    BY OnNotified DEF Types
  <2> HIDE DEF n
  <2>3. /\ \A g \in Frames : g # f => fw'[g] = n[g]
        /\ fw'[f] = [n[f] EXCEPT !.result = TRUE]
    <3>1. /\ \A g \in Frames : g # f => Resulted(n, f)[g] = n[g]
          /\ Resulted(n, f)[f] = [n[f] EXCEPT !.result = TRUE]
      BY <2>2, OnResulted
    <3> QED BY <2>1, <3>1
  <2>4. /\ fw'[f].asked = fw[f].asked /\ fw'[f].live = fw[f].live /\ fw'[f].shutter /\ fw'[f].result
        /\ fw'[f].failed = fw[f].failed /\ fw'[f].told = fw[f].told
        /\ fw'[f].buffers = fw[f].buffers
    BY <2>2, <2>3 DEF Types, View
  <2>5. fw[f].asked /\ ~fw[f].failed /\ f \notin pending'
    BY <1>2, <1>5, <2>1 DEF Entry, Heard, None, Kinds
  <2>6. Out(f)' = Out(f)
    BY <2>4 DEF Out
  <2>7. Heard(f)' /\ Mapped(f)'
    BY <1>1, <1>2, <1>4, <2>4, <2>5, <2>6 DEF Entry, Heard, Mapped, IsLive
  <2>8. OwedBuffers(f)' /\ Told(f)'
    BY <1>1, <1>2, <2>4, <2>5, <2>6 DEF Entry, OwedBuffers, Told
  <2>9. Contract!MayHear(fw[f], fw'[f])
    BY <2>4, <2>5 DEF Contract!MayHear
  <2>10. Entry(f)'
    BY <2>7, <2>8 DEF Entry
  <2>11. \A g \in Frames \ {f} : fw'[g] = fw[g] /\ (g \in pending' <=> g \in pending)
    BY <2>1, <2>2, <2>3
  <2> QED BY <1>1, <1>3, <1>4, <2>5, <2>9, <2>10, <2>11, OneFrameBooked
<1>6. CASE f \notin pending
  <2>1. UNCHANGED <<fw, pending>>
    BY <1>6 DEF handleInputBuffer
  <2>2. Out(f)' = Out(f)
    BY <2>1 DEF Out
  <2>3. Heard(f)' /\ Mapped(f)'
    BY <1>1, <1>2, <2>1, <2>2 DEF Entry, Heard, Mapped, IsLive
  <2>4. OwedBuffers(f)' /\ Told(f)'
    BY <1>1, <1>2, <1>6, <2>1, <2>2 DEF Entry, OwedBuffers, Told
  <2>5. Entry(f)'
    BY <2>3, <2>4 DEF Entry
  <2> QED BY <1>1, <1>3, <1>4, <2>1, <2>5, OneFrameBooked
<1> QED BY <1>5, <1>6

\* A buffer that the framework waits for and whose request has had its result.
LEMMA ReturnBooked ==
  ASSUME Types, Types', Booked, crashed' = crashed, ask' = ask,
         NEW f \in Frames, NEW s \in Streams, <<f, s>> \in hw, hw' = hw \ {<<f, s>>},
         ReturnBuffer(f, s)
  PROVE  Booked' /\ Contract!Next
<1>1. /\ f \notin pending /\ fw' = Returned(fw, f, {s}, dropped)
      /\ dropped' = dropped \ {<<f, s>>} /\ outstanding' = [outstanding EXCEPT ![f] = @ \ {s}]
      /\ UNCHANGED <<pending, cached, reproc>>
  BY DEF ReturnBuffer
<1>2. Entry(f) /\ outstanding[f] \in SUBSET Streams
  BY DEF Booked, Types
<1>3. /\ s \in outstanding[f] /\ cached[f] = {} /\ f \notin reproc
      /\ fw[f].asked /\ ~fw[f].failed /\ s \in Out(f)
  BY <1>1, <1>2 DEF Entry, Mapped, OwedBuffers, Told
<1> DEFINE back == [x \in Streams |-> IF x \notin {s} THEN fw[f].buffers[x]
                                      ELSE IF <<f, x>> \in dropped THEN "error" ELSE "ok"]
<1>4. /\ \A g \in Frames : g # f => fw'[g] = fw[g]
      /\ fw'[f] = [fw[f] EXCEPT !.buffers = back]
  <2>1. /\ \A g \in Frames : g # f => Returned(fw, f, {s}, dropped)[g] = fw[g]
        /\ Returned(fw, f, {s}, dropped)[f] = [fw[f] EXCEPT !.buffers = back]
    <3>1. fw \in [Frames -> View]
      BY DEF Types
    <3> QED BY <3>1, OnReturned
  <2> QED BY <1>1, <2>1
<1> HIDE DEF back
<1>5. /\ fw'[f].asked = fw[f].asked /\ fw'[f].live = fw[f].live /\ fw'[f].shutter = fw[f].shutter
      /\ fw'[f].result = fw[f].result /\ fw'[f].failed = fw[f].failed /\ fw'[f].told = fw[f].told
      /\ fw'[f].buffers = back
  BY <1>4 DEF Types, View
<1>6. \A x \in Streams : fw'[f].buffers[x] = IF x = s THEN IF <<f, s>> \in dropped THEN "error" ELSE "ok"
                                             ELSE fw[f].buffers[x]
  BY <1>5 DEF back
<1>7. Out(f)' = Out(f) \ {s} /\ outstanding'[f] = outstanding[f] \ {s}
  BY <1>1, <1>6 DEF Out, Types
<1>8. Heard(f)' /\ Mapped(f)'
  BY <1>1, <1>2, <1>3, <1>5, <1>7 DEF Entry, Heard, Mapped, IsLive
<1>9. OwedBuffers(f)' /\ Told(f)'
  BY <1>1, <1>2, <1>3, <1>5, <1>7 DEF Entry, OwedBuffers, Told
<1>10. Contract!MayHear(fw[f], fw'[f])
  <2>1. fw[f].buffers[s] = "out" /\ (<<f, s>> \in dropped <=> s \in fw[f].told)
    BY <1>2, <1>3 DEF Entry, Told, Out
  <2>2. ASSUME NEW x \in Streams
        PROVE  \/ fw'[f].buffers[x] = fw[f].buffers[x]
               \/ /\ fw[f].buffers[x] = "out"
                  /\ fw'[f].buffers[x] = (IF x \in fw'[f].told \/ fw'[f].failed THEN "error" ELSE "ok")
    BY <1>3, <1>5, <1>6, <2>1
  <2> QED BY <1>3, <1>5, <2>2 DEF Contract!MayHear
<1>11. Entry(f)'
  BY <1>8, <1>9 DEF Entry
<1>12. \A g \in Frames \ {f} :
         /\ fw'[g] = fw[g] /\ (g \in pending' <=> g \in pending)
         /\ outstanding'[g] = outstanding[g] /\ cached'[g] = cached[g]
         /\ (g \in reproc' => g \in reproc)
         /\ \A x : (<<g, x>> \in hw') <=> (<<g, x>> \in hw)
         /\ \A x : (<<g, x>> \in dropped') <=> (<<g, x>> \in dropped)
  BY <1>1, <1>4 DEF Types
<1> QED BY <1>1, <1>3, <1>5, <1>10, <1>11, <1>12, OneFrameBooked

\* The buffer of a request that is only encoded carries the result, or waits.
LEMMA ReprocessedBooked ==
  ASSUME Types, Types', Kinds, Booked, crashed' = crashed, ask' = ask,
         NEW f \in Frames, NEW s \in Streams, <<f, s>> \in hw, hw' = hw \ {<<f, s>>},
         <<f, "input">> \notin hw, ReturnReprocessed(f, s)
  PROVE  Booked' /\ Contract!Next
<1>1. /\ f \in pending /\ IsInput(f)
      /\ outstanding' = [outstanding EXCEPT ![f] = @ \ {s}] /\ UNCHANGED <<cached, dropped>>
  BY DEF ReturnReprocessed
<1>2. Entry(f) /\ outstanding[f] \in SUBSET Streams /\ ask[f] \in Requests
  BY <1>1 DEF Booked, Types, Kinds
<1>3. ask[f].kind = "direct" /\ ask[f].out = {Blob} /\ ~IsLive(f) /\ ask[f] # None
  BY <1>1, <1>2, RequestShape DEF Entry, OwedBuffers, IsInput, Input, IsLive
<1>4. s = Blob /\ outstanding[f] = {Blob} /\ f \notin reproc /\ cached[f] = {}
  BY <1>1, <1>2, <1>3 DEF Entry, Mapped, OwedBuffers, Told
<1>5. Blob \in Out(f) /\ fw[f].asked /\ ~fw[f].failed /\ Blob \notin fw[f].told
  BY <1>1, <1>2, <1>3, <1>4 DEF Entry, Heard, Mapped, Told
<1>6. outstanding'[f] = {} /\ \A x \in Streams : <<f, x>> \notin hw'
  BY <1>1, <1>2, <1>4 DEF Entry, OwedBuffers, Types
<1>7. CASE \A g \in pending : g >= f
  <2> DEFINE v == Returned(Resulted(Notified(fw, f), f), f, {s}, {})
             none == {}
  <2>1. fw' = v /\ pending' = pending \ {f} /\ reproc' = reproc
    BY <1>7 DEF ReturnReprocessed
  <2>2. /\ \A g \in Frames : g # f => v[g] = fw[g]
        /\ v[f].asked = fw[f].asked /\ v[f].live = fw[f].live /\ v[f].failed = fw[f].failed
        /\ v[f].shutter /\ v[f].result /\ v[f].told = fw[f].told
        /\ v[f].buffers = [x \in Streams |-> IF x \notin {s} THEN fw[f].buffers[x]
                                             ELSE IF <<f, x>> \in {} THEN "error" ELSE "ok"]
    <3>1. fw \in [Frames -> View]
      BY DEF Types
    <3> QED BY <3>1, OnAnswered
  <2> HIDE DEF v
  <2>3. \A x \in Streams : fw'[f].buffers[x] = IF x = s THEN "ok" ELSE fw[f].buffers[x]
    BY <2>1, <2>2
  <2> DEFINE S == {s}
  <2>4. /\ S \in SUBSET Streams /\ S \subseteq Out(f)
        /\ \A x \in Streams \ S : fw'[f].buffers[x] = fw[f].buffers[x]
        /\ outstanding'[f] = outstanding[f] \ S
    BY <1>4, <1>5, <1>6, <2>3
  <2>5. /\ \A x \in S : fw'[f].buffers[x] = IF x \in fw[f].told \cup none THEN "error" ELSE "ok"
        /\ \A x \in Streams : <<f, x>> \in hw' => x \notin S
        /\ \A x \in Streams \ S : (<<f, x>> \in dropped') <=> (<<f, x>> \in dropped \/ x \in none)
    BY <1>1, <1>4, <1>5, <1>6, <2>3
  <2>6. /\ none \in SUBSET (Streams \ {Blob}) /\ fw'[f].told = fw[f].told \cup none
        /\ fw'[f].asked = fw[f].asked /\ fw'[f].live = fw[f].live /\ fw'[f].failed = fw[f].failed
        /\ fw'[f].shutter /\ fw'[f].result
    BY <2>1, <2>2
  <2>7. /\ f \notin pending' /\ f \notin reproc' /\ hw' \subseteq hw /\ cached'[f] = {}
        /\ fw' \in [Frames -> View]
    BY <1>1, <1>4, <2>1 DEF Types
  <2> HIDE DEF S, none
  <2>8. Entry(f)' /\ fw[f].asked /\ Contract!MayHear(fw[f], fw'[f])
    BY <1>1, <1>2, <1>3, <2>4, <2>5, <2>6, <2>7, AnsweredEntry
  <2>9. \A g \in Frames \ {f} :
         /\ fw'[g] = fw[g] /\ (g \in pending' <=> g \in pending)
         /\ outstanding'[g] = outstanding[g] /\ cached'[g] = cached[g]
         /\ (g \in reproc' => g \in reproc)
         /\ \A x : (<<g, x>> \in hw') <=> (<<g, x>> \in hw)
         /\ \A x : (<<g, x>> \in dropped') <=> (<<g, x>> \in dropped)
    BY <1>1, <2>1, <2>2 DEF Types
  <2> QED BY <1>3, <2>8, <2>9, OneFrameBooked
<1>8. CASE ~(\A g \in pending : g >= f)
  <2>1. reproc' = reproc \cup {f} /\ UNCHANGED <<fw, pending>>
    BY <1>8 DEF ReturnReprocessed
  <2>2. Out(f)' = Out(f)
    BY <2>1 DEF Out
  <2>3. Heard(f)' /\ Mapped(f)'
    BY <1>1, <1>2, <1>3, <1>4, <1>6, <2>1, <2>2 DEF Entry, Heard, Mapped, IsLive
  <2>4. OwedBuffers(f)' /\ Told(f)'
    BY <1>1, <1>2, <1>3, <1>5, <1>6, <2>1, <2>2 DEF Entry, OwedBuffers, Told
  <2>5. Entry(f)'
    BY <2>3, <2>4 DEF Entry
  <2>6. \A g \in Frames \ {f} :
         /\ fw'[g] = fw[g] /\ (g \in pending' <=> g \in pending)
         /\ outstanding'[g] = outstanding[g] /\ cached'[g] = cached[g]
         /\ (g \in reproc' => g \in reproc)
         /\ \A x : (<<g, x>> \in hw') <=> (<<g, x>> \in hw)
         /\ \A x : (<<g, x>> \in dropped') <=> (<<g, x>> \in dropped)
    BY <1>1, <2>1 DEF Types
  <2> QED BY <1>3, <2>1, <2>5, <2>6, OneFrameBooked
<1> QED BY <1>7, <1>8

\* Any buffer from a channel.
LEMMA BufferBooked ==
  ASSUME Types, Types', Kinds, Booked, NEW f \in Frames, NEW s \in Streams, handleBuffer(f, s)
  PROVE  Booked' /\ Contract!Next
<1>1. /\ <<f, s>> \in hw /\ <<f, "input">> \notin hw /\ hw' = hw \ {<<f, s>>}
      /\ UNCHANGED <<ask, crashed>>
  BY DEF handleBuffer, history
<1>2. Entry(f) /\ outstanding[f] \in SUBSET Streams
  BY DEF Booked, Types
<1>3. /\ <<f, "input">> \notin hw' /\ \A x \in Streams : <<f, x>> \in hw' => <<f, x>> \in hw
      /\ \A g \in Frames \ {f} : \A x : (<<g, x>> \in hw') <=> (<<g, x>> \in hw)
  BY <1>1
<1>4. CASE ReturnBuffer(f, s)
  BY <1>1, <1>4, ReturnBooked
<1>5. CASE ReturnReprocessed(f, s)
  BY <1>1, <1>5, ReprocessedBooked
<1>6. CASE KeepBuffer(f, s)
  <2>1. /\ f \in pending /\ ~IsInput(f) /\ cached' = [cached EXCEPT ![f] = @ \cup {s}]
        /\ UNCHANGED <<fw, pending, outstanding, reproc, dropped>>
    BY <1>6 DEF KeepBuffer
  <2>2. IsLive(f)
    <3>1. ask[f] \in Requests
      BY <2>1 DEF Types, Kinds
    <3> QED BY <2>1, <3>1, RequestShape DEF IsInput, Input, IsLive
  <2>3. Out(f)' = Out(f) /\ cached'[f] = cached[f] \cup {s} /\ s \in outstanding[f]
    BY <1>1, <1>2, <2>1 DEF Out, Types, Entry, OwedBuffers
  <2>4. Heard(f)' /\ Mapped(f)'
    BY <1>1, <1>2, <2>1, <2>2, <2>3 DEF Entry, Heard, Mapped, IsLive
  <2>5. OwedBuffers(f)' /\ Told(f)'
    BY <1>1, <1>2, <1>3, <2>1, <2>2, <2>3 DEF Entry, OwedBuffers, Told, IsLive
  <2>6. Entry(f)'
    BY <2>4, <2>5 DEF Entry
  <2>7. \A g \in Frames \ {f} : cached'[g] = cached[g]
    BY <2>1 DEF Types
  <2> QED BY <1>1, <1>3, <2>1, <2>6, <2>7, OneFrameBooked
<1>7. CASE UNCHANGED <<lists, fw>>
  <2>1. UNCHANGED <<fw, pending, outstanding, cached, reproc, dropped>>
    BY <1>7 DEF lists
  <2>2. Entry(f)'
    BY <1>1, <1>2, <1>3, <2>1, EntryKept
  <2> QED BY <1>1, <1>3, <2>1, <2>2, OneFrameBooked
<1> QED BY <1>4, <1>5, <1>6, <1>7 DEF handleBuffer

\* A step that touches none of it.
LEMMA SameBooked ==
  ASSUME Types, Booked, UNCHANGED <<ask, pending, outstanding, cached, reproc, dropped, fw, crashed>>,
         hw' = hw \/ hw' = {}
  PROVE  Booked'
<1>1. ASSUME NEW g \in Frames
      PROVE  Entry(g)'
  <2>1. Entry(g) /\ outstanding[g] \in SUBSET Streams
    BY DEF Booked, Types
  <2>2. /\ \A s \in Streams : <<g, s>> \in hw' =>
             <<g, s>> \in hw /\ (<<g, "input">> \in hw => <<g, "input">> \in hw')
        /\ <<g, "input">> \in hw' => <<g, "input">> \in hw
    OBVIOUS
  <2> QED BY <2>1, <2>2, EntryKept
<1> QED BY <1>1 DEF Booked, InOrder, IsLive

\* Metadata, with the requests it finds missing.
LEMMA MetadataBooked ==
  ASSUME Types, Types', Kinds, Booked, NEW f \in Frames, NEW D \in SUBSET (Streams \ {Blob}),
         handleMetadata(f, D)
  PROVE  Booked' /\ (Contract!Next \/ fw' = fw)
<1>1. f \in due /\ UNCHANGED <<ask, hw, crashed>>
  BY DEF handleMetadata, history
<1>2. CASE UNCHANGED <<state, lists, live, sig, fw>>
  BY <1>1, <1>2, SameBooked DEF lists
<1>3. CASE /\ dropped' = dropped \cup DropNoted(f, D) /\ fw' = Lost(fw, DropNoted(f, D))
           /\ UNCHANGED <<pending, outstanding, cached, reproc, live>>
  BY <1>1, <1>3, LostBooked
<1>4. CASE Missing(f) = {} /\ f \in pending /\ Answer(f, DropNoted(f, D))
  BY <1>1, <1>4, AnswerBooked
<1> QED BY <1>2, <1>3, <1>4 DEF handleMetadata

\* A flush that meets no reprocess request fails exactly the pending requests,
\* and takes them all out of the list.
LEMMA FlushPairs ==
  ASSUME Types, Kinds, Booked,
         \A f \in Frames : ~(IsInput(f) /\ (f \in pending \/ outstanding[f] # {}))
  PROVE  Failed = pending /\ Paired = pending /\ ~PastTheEnd
<1>1. ASSUME NEW f \in Frames, ask[f] # None, f \in pending \/ outstanding[f] # {}
      PROVE  IsLive(f)
  <2>1. ask[f] \in Requests
    BY <1>1 DEF Types
  <2> QED BY <1>1, <2>1, RequestShape DEF IsLive, IsInput, Input
<1>2. Failed \subseteq pending
  <2>1. ASSUME NEW f \in Frames, outstanding[f] # {}, NEW h \in pending, h <= f
        PROVE  f \in pending
    <3>1. ask[f] # None /\ h \in Frames /\ ask[h] # None
      BY <2>1 DEF Booked, Entry, Heard, Mapped, Types, Kinds
    <3>2. IsLive(f) /\ IsLive(h)
      BY <1>1, <2>1, <3>1
    <3>3. h = f \/ h < f
      BY <2>1, <3>1 DEF Frames
    <3> QED BY <2>1, <3>1, <3>2, <3>3 DEF Booked, InOrder
  <2> QED BY <2>1 DEF Failed
<1>3. pending \subseteq Failed
  <2>1. ASSUME NEW f \in pending
        PROVE  f \in Frames /\ outstanding[f] # {} /\ f <= f
    <3>1. f \in Frames /\ ask[f] \in Requests /\ f <= f
      BY HalAssumption DEF Types, Kinds, Frames
    <3>2. IsLive(f)
      BY <1>1, <3>1, RequestShape
    <3>3. outstanding[f] = ask[f].out
      BY <3>1, <3>2 DEF Booked, Entry, Mapped
    <3> QED BY <3>1, <3>3, RequestShape
  <2> QED BY <2>1 DEF Failed
<1>4. Failed = pending /\ pending \in SUBSET Frames
  BY <1>2, <1>3 DEF Types
<1>5. IsFiniteSet(pending) /\ Cardinality(pending) \in Nat
  BY <1>4, FramesFinite
<1>6. ASSUME NEW f \in pending
      PROVE  Cardinality({g \in pending : g < f}) < Cardinality(pending)
  <2> DEFINE before == {g \in pending : g < f}
  <2>1. before \subseteq pending /\ f \notin before /\ before \in SUBSET Frames
    <3>1. before \subseteq pending
      OBVIOUS
    <3>2. f \in Int
      BY <1>4, HalAssumption DEF Frames
    <3>3. ~(f < f)
      BY <3>2
    <3>4. f \notin before
      BY <3>3
    <3> HIDE DEF before
    <3> QED BY <1>4, <3>1, <3>4
  <2> HIDE DEF before
  <2>2. Cardinality(before) \in Nat /\ Cardinality(before) <= Cardinality(pending)
    BY <1>4, <2>1, FramesFinite, FramesWithin
  <2>3. Cardinality(before) # Cardinality(pending)
    BY <1>5, <2>1, FS_Subset
  <2>4. Cardinality(before) < Cardinality(pending)
    BY <1>5, <2>2, <2>3
  <2> QED BY <2>4 DEF before
<1>7. Paired = pending
  BY <1>4, <1>6 DEF Paired
<1>8. ~PastTheEnd
  BY <1>4, <1>5 DEF PastTheEnd
<1> QED BY <1>4, <1>7, <1>8

\* What a flush tells of one frame.
LEMMA OnDiscarded ==
  ASSUME Types, NEW g \in Frames, Entry(g), fw'[g] = Discarded(g)
  PROVE  /\ fw'[g].asked = fw[g].asked /\ fw'[g].live = fw[g].live
         /\ fw'[g].shutter = fw[g].shutter /\ fw'[g].result = fw[g].result
         /\ fw'[g].failed <=> (fw[g].failed \/ g \in Failed)
         /\ fw'[g].told = IF g \in Failed THEN fw[g].told ELSE fw[g].told \cup outstanding[g]
         /\ \A s \in Streams : fw'[g].buffers[s] = IF s \in outstanding[g] THEN "error"
                                                   ELSE fw[g].buffers[s]
         /\ fw'[g] = fw[g] \/ (fw[g].asked /\ Contract!MayHear(fw[g], fw'[g]))
<1> DEFINE back == [s \in Streams |-> IF s \in outstanding[g] THEN "error" ELSE fw[g].buffers[s]]
           told == IF g \in Failed THEN fw[g].told ELSE fw[g].told \cup outstanding[g]
           failed == fw[g].failed \/ g \in Failed
<1>1. fw[g] \in View /\ outstanding[g] \in SUBSET Streams /\ failed \in BOOLEAN
  BY DEF Types, View
<1>2. fw'[g] = [fw[g] EXCEPT !.failed = failed, !.told = told, !.buffers = back]
  BY DEF Discarded
<1>3. \A s \in Streams : back[s] = IF s \in outstanding[g] THEN "error" ELSE fw[g].buffers[s]
  OBVIOUS
<1>4. outstanding[g] = {} => failed = fw[g].failed /\ told = fw[g].told /\ back = fw[g].buffers
  <2>1. ASSUME outstanding[g] = {} PROVE back = fw[g].buffers
    BY <1>1, <2>1 DEF View
  <2>2. ASSUME outstanding[g] = {} PROVE g \notin Failed
    BY <2>2 DEF Failed
  <2> QED BY <1>1, <2>1, <2>2 DEF View
<1>5. /\ failed <=> (fw[g].failed \/ g \in Failed)
      /\ told = IF g \in Failed THEN fw[g].told ELSE fw[g].told \cup outstanding[g]
  OBVIOUS
<1> HIDE DEF back, told, failed
<1>6. /\ fw'[g].asked = fw[g].asked /\ fw'[g].live = fw[g].live
      /\ fw'[g].shutter = fw[g].shutter /\ fw'[g].result = fw[g].result
      /\ fw'[g].failed = failed /\ fw'[g].told = told /\ fw'[g].buffers = back
  BY <1>1, <1>2 DEF View
<1>7. CASE outstanding[g] = {}
  <2>1. fw'[g] = fw[g]
    <3>1. fw'[g] = [fw[g] EXCEPT !.failed = fw[g].failed, !.told = fw[g].told,
                                 !.buffers = fw[g].buffers]
      BY <1>2, <1>4, <1>7
    <3> QED BY <1>1, <3>1 DEF View
  <2> QED BY <1>3, <1>5, <1>6, <2>1
<1>8. CASE outstanding[g] # {}
  <2>1. fw[g].asked /\ ~fw[g].failed /\ outstanding[g] \subseteq Out(g)
    BY <1>8 DEF Entry, Mapped
  <2>2. ASSUME NEW s \in Streams
        PROVE  \/ fw'[g].buffers[s] = fw[g].buffers[s]
               \/ /\ fw[g].buffers[s] = "out"
                  /\ fw'[g].buffers[s] = (IF s \in fw'[g].told \/ fw'[g].failed THEN "error" ELSE "ok")
    BY <1>3, <1>5, <1>6, <2>1 DEF Out
  <2>3. Contract!MayHear(fw[g], fw'[g])
    BY <1>5, <1>6, <2>1, <2>2 DEF Contract!MayHear
  <2> QED BY <1>3, <1>5, <1>6, <2>1, <2>3
<1> QED BY <1>7, <1>8

\* A flush is a step of the contract, and leaves the books right unless it spoils
\* them.
LEMMA FlushBooked ==
  ASSUME Types, Types', Kinds, Stops, Booked, NEW t \in Threads, PendingNotified(t)
  PROVE  (spoilt' \/ Booked') /\ Contract!Next
<1>1. /\ fw' = [f \in Frames |-> Discarded(f)] /\ pending' = pending \ Paired
      /\ cached' = [f \in Frames |-> IF f \in Paired THEN {} ELSE cached[f]]
      /\ outstanding' = [f \in Frames |-> {}] /\ dropped' = {} /\ reproc' = {}
      /\ UNCHANGED <<ask, crashed>>
  BY DEF PendingNotified
<1>2. hw' = {}
  BY DEF PendingNotified, Stops, backend
<1>3. \A g \in Frames : Entry(g) /\ fw'[g] = Discarded(g) /\ outstanding'[g] = {}
  BY <1>1 DEF Booked
<1>4. ASSUME NEW g \in Frames
      PROVE  /\ fw'[g].shutter = fw[g].shutter
             /\ fw'[g] = fw[g] \/ (fw[g].asked /\ Contract!MayHear(fw[g], fw'[g]))
  BY <1>3, OnDiscarded
<1>5. Contract!Next
  <2>1. Contract!InOrder(fw, fw')
    BY <1>4 DEF Contract!InOrder
  <2>2. fw' \in [Frames -> View]
    BY DEF Types
  <2> QED BY <1>4, <2>1, <2>2, ContractHears
<1>6. ASSUME ~spoilt'
      PROVE  Booked'
  <2>1. Failed = pending /\ Paired = pending
    <3>1. \A f \in Frames : ~(IsInput(f) /\ (f \in pending \/ outstanding[f] # {}))
      BY <1>6 DEF PendingNotified
    <3> QED BY <3>1, FlushPairs
  <2>2. pending' = {} /\ \A g \in Frames : cached'[g] = {}
    BY <1>1, <1>3, <2>1 DEF Entry, Mapped
  <2>3. ASSUME NEW g \in Frames
        PROVE  Entry(g)'
    <3>1. /\ fw'[g].asked = fw[g].asked /\ fw'[g].live = fw[g].live
          /\ fw'[g].shutter = fw[g].shutter /\ fw'[g].result = fw[g].result
          /\ fw'[g].failed <=> (fw[g].failed \/ g \in pending)
      BY <1>3, <2>1, OnDiscarded
    <3>2. /\ fw'[g].told = IF g \in Failed THEN fw[g].told ELSE fw[g].told \cup outstanding[g]
          /\ \A s \in Streams : fw'[g].buffers[s] = IF s \in outstanding[g] THEN "error"
                                                    ELSE fw[g].buffers[s]
      BY <1>3, OnDiscarded
    <3>3. Out(g)' = Out(g) \ outstanding[g]
      BY <3>2 DEF Out
    <3>4. Heard(g)'
      BY <1>1, <1>3, <2>2, <3>1 DEF Entry, Heard, IsLive
    <3>5. Mapped(g)'
      BY <1>3, <2>2 DEF Mapped
    <3>6. OwedBuffers(g)'
      BY <1>2 DEF OwedBuffers
    <3>7. Told(g)'
      <4>1. ~fw'[g].asked => fw'[g].told = {}
        BY <1>3, <3>1, <3>2 DEF Entry, Mapped, Told
      <4>2. ~fw'[g].failed /\ Blob \in Out(g)' => Blob \notin fw'[g].told
        BY <1>3, <3>1, <3>2, <3>3 DEF Entry, Told
      <4> QED BY <1>1, <1>3, <4>1, <4>2 DEF Told
    <3> QED BY <3>4, <3>5, <3>6, <3>7 DEF Entry
  <2>4. InOrder'
    BY <2>2 DEF InOrder
  <2> QED BY <1>1, <2>3, <2>4 DEF Booked
<1> QED BY <1>5, <1>6

\* A new configuration, which the framework makes with nothing outstanding.
LEMMA ConfiguredBooked ==
  ASSUME Types, Booked, configureStreams
  PROVE  Booked'
<1>1. /\ pending' = {} /\ reproc' = {} /\ dropped' = {} /\ outstanding' = [f \in Frames |-> {}]
      /\ hw' = {} /\ UNCHANGED <<ask, cached, crashed, fw>>
  BY DEF configureStreams, history
<1>2. ASSUME NEW g \in Frames
      PROVE  Entry(g)'
  <2>1. Entry(g) /\ Out(g)' = Out(g) /\ outstanding'[g] = {}
    BY <1>1 DEF Booked, Out
  <2>2. fw[g].asked => (fw[g].result \/ fw[g].failed) /\ Out(g) = {}
    BY DEF configureStreams, Out
  <2>3. cached[g] = {}
    BY <2>1, <2>2 DEF Entry, Mapped
  <2>4. Heard(g)' /\ Mapped(g)'
    BY <1>1, <2>1, <2>2, <2>3 DEF Entry, Heard, Mapped, IsLive
  <2>5. OwedBuffers(g)' /\ Told(g)'
    BY <1>1, <2>1, <2>2 DEF Entry, OwedBuffers, Told
  <2> QED BY <2>4, <2>5 DEF Entry
<1>3. InOrder'
  BY <1>1 DEF InOrder
<1> QED BY <1>1, <1>2, <1>3 DEF Booked

\* From sound states each step keeps the books, or spoils them, and is a step of
\* the contract.
LEMMA BookedStep ==
  ASSUME Sound, Sound', Booked, [Next]_vars
  PROVE  (spoilt' \/ Booked') /\ (Contract!Next \/ fw' = fw)
<1> USE DEF Sound, history, backend, lists
<1>1. ASSUME NEW f \in Frames, NEW r \in Requests, processCaptureRequest(f, r)
      PROVE  Booked' /\ Contract!Next
  <2>1. /\ NextFrame(f) /\ Insert(f, r) /\ crashed' = crashed
        /\ \E O \in SUBSET Owed(f, r) : hw' = hw \cup O /\ (r.kind = "pproc" => O = Owed(f, r))
    BY <1>1 DEF processCaptureRequest
  <2> QED BY <2>1, InsertBooked, ContractSubmit
<1>2. ASSUME NEW f \in Frames, NEW r \in Requests, RequestInFlush(f, r)
      PROVE  Booked' /\ Contract!Next
  <2>1. /\ NextFrame(f) /\ Insert(f, r) /\ crashed' = crashed
        /\ \E O \in SUBSET Owed(f, r) : hw' = hw \cup O /\ O = {}
    BY <1>2 DEF RequestInFlush
  <2> QED BY <2>1, InsertBooked, ContractSubmit
<1>3. ASSUME NEW f \in Frames, NEW r \in Requests, RequestRefused(f, r)
      PROVE  Booked' /\ Contract!Next
  <2>1. NextFrame(f) /\ Insert(f, r) /\ crashed' = crashed
    BY <1>3 DEF RequestRefused
  <2>2. PICK S \in SUBSET (IF r.kind = "live" THEN r.out ELSE {}) :
           hw' = hw \cup {<<f, s>> : s \in S}
    BY <1>3 DEF RequestRefused
  <2>3. {<<f, s>> : s \in S} \in SUBSET Owed(f, r) /\ (r.kind = "pproc" => S = {})
    BY <2>2, RequestShape DEF Owed
  <2> QED BY <2>1, <2>2, <2>3, InsertBooked, ContractSubmit
<1>4. CASE RequestInError
  BY <1>4, SameBooked DEF RequestInError
<1>5. CASE WaitWakes
  BY <1>5, SameBooked DEF WaitWakes
<1>6. CASE WaitTimesOut
  BY <1>6, SameBooked DEF WaitTimesOut
<1>7. ASSUME NEW f \in Frames, NEW D \in SUBSET (Streams \ {Blob}), handleMetadata(f, D)
      PROVE  Booked' /\ (Contract!Next \/ fw' = fw)
  BY <1>7, MetadataBooked
<1>8. ASSUME NEW f \in Frames, handleInputBuffer(f)
      PROVE  Booked' /\ Contract!Next
  BY <1>8, InputBooked
<1>9. ASSUME NEW f \in Frames, NEW s \in Streams, handleBuffer(f, s)
      PROVE  Booked' /\ Contract!Next
  BY <1>9, BufferBooked
<1>10. CASE DaemonDied
  BY <1>10, SameBooked DEF DaemonDied
<1>11. CASE DaemonPullsRequest
  BY <1>11, SameBooked DEF DaemonPullsRequest
<1>12. CASE FlushCalled
  BY <1>12, SameBooked DEF FlushCalled
<1>13. ASSUME NEW t \in Threads, DeviceErrorFound(t)
       PROVE  Booked' /\ fw' = fw
  BY <1>13, SameBooked DEF DeviceErrorFound
<1>14. ASSUME NEW t \in Threads, FlushFlagged(t)
       PROVE  Booked' /\ fw' = fw
  BY <1>14, SameBooked DEF FlushFlagged
<1>15. ASSUME NEW t \in Threads, StreamsStopped(t)
       PROVE  Booked' /\ fw' = fw
  BY <1>15, SameBooked DEF StreamsStopped
<1>16. ASSUME NEW t \in Threads, MetadataStopped(t)
       PROVE  Booked' /\ fw' = fw
  BY <1>16, SameBooked DEF MetadataStopped
<1>17. ASSUME NEW t \in Threads, PendingNotified(t)
       PROVE  (spoilt' \/ Booked') /\ Contract!Next
  BY <1>17, FlushBooked
<1>18. ASSUME NEW t \in Threads, FlushPastTheEnd(t)
       PROVE  spoilt' /\ fw' = fw
  <2>1. PastTheEnd /\ fw' = fw
    BY <1>18 DEF FlushPastTheEnd
  <2>2. ~(\A f \in Frames : ~(IsInput(f) /\ (f \in pending \/ outstanding[f] # {})))
    BY <2>1, FlushPairs
  <2> QED BY <1>18, <2>1, <2>2 DEF FlushPastTheEnd
<1>19. ASSUME NEW t \in Threads, DeviceErrorEnds(t)
       PROVE  Booked' /\ fw' = fw
  BY <1>19, SameBooked DEF DeviceErrorEnds
<1>20. CASE configureStreams
  BY <1>20, ConfiguredBooked DEF configureStreams
<1>21. CASE UNCHANGED vars
  BY <1>21, SameBooked DEF vars
<1> QED
  BY <1>1, <1>2, <1>3, <1>4, <1>5, <1>6, <1>7, <1>8, <1>9, <1>10, <1>11, <1>12, <1>13, <1>14,
     <1>15, <1>16, <1>17, <1>18, <1>19, <1>20, <1>21
     DEF Next, RequestStep, CallbackStep, FlushStep

\* What is spoilt stays so.
LEMMA SpoiltStays == Types /\ spoilt /\ [Next]_vars => spoilt'
<1> SUFFICES ASSUME Types, spoilt, [Next]_vars PROVE spoilt'
  OBVIOUS
<1> USE DEF history
<1>1. RequestStep => spoilt'
  BY DEF RequestStep, processCaptureRequest, RequestInFlush, RequestRefused, RequestInError,
         WaitWakes, WaitTimesOut
<1>2. CallbackStep => spoilt'
  BY DEF CallbackStep, handleMetadata, handleInputBuffer, handleBuffer, DaemonDied,
         DaemonPullsRequest
<1>3. ASSUME NEW t \in Threads, FlushStep(t)
      PROVE  spoilt'
  BY <1>3 DEF FlushStep, DeviceErrorFound, FlushFlagged, StreamsStopped, MetadataStopped,
              PendingNotified, FlushPastTheEnd, DeviceErrorEnds
<1>4. FlushCalled \/ configureStreams \/ UNCHANGED vars => spoilt'
  BY DEF FlushCalled, configureStreams, vars
<1> QED BY <1>1, <1>2, <1>3, <1>4 DEF Next

LEMMA LedgerInit == Init => Ledger
<1> SUFFICES ASSUME Init PROVE Booked
  BY DEF Ledger
<1>1. ASSUME NEW g \in Frames
      PROVE  Entry(g)
  <2>1. fw[g] = [asked |-> FALSE, live |-> FALSE, shutter |-> FALSE, result |-> FALSE,
                 failed |-> FALSE, told |-> {}, buffers |-> [s \in Streams |-> "none"]]
    BY DEF Init, Contract!Init, Contract!NotAsked
  <2>2. ~fw[g].asked /\ ~fw[g].live /\ ~fw[g].result /\ fw[g].told = {} /\ Out(g) = {}
    BY <2>1 DEF Out
  <2>3. /\ ask[g] = None /\ g \notin pending /\ outstanding[g] = {} /\ cached[g] = {}
        /\ reproc = {} /\ dropped = {} /\ hw = {}
    BY DEF Init
  <2>4. Heard(g) /\ Mapped(g) /\ OwedBuffers(g) /\ Told(g)
    BY <2>2, <2>3 DEF Heard, Mapped, OwedBuffers, Told, IsLive, None
  <2> QED BY <2>4 DEF Entry
<1>2. InOrder /\ ~crashed
  BY DEF Init, InOrder
<1> QED BY <1>1, <1>2 DEF Booked

LEMMA LedgerStep == Sound /\ Sound' /\ Ledger /\ [Next]_vars => Ledger' /\ [spoilt \/ Contract!Next]_fw
<1> SUFFICES ASSUME Sound, Sound', Ledger, [Next]_vars
             PROVE  Ledger' /\ (spoilt \/ Contract!Next \/ fw' = fw)
  OBVIOUS
<1>1. CASE spoilt
  BY <1>1, SpoiltStays DEF Sound, Ledger
<1>2. CASE ~spoilt
  BY <1>2, BookedStep DEF Ledger
<1> QED BY <1>1, <1>2

LEMMA LedgerAlways == Spec => []Ledger
BY SoundAlways, LedgerInit, LedgerStep, PTL DEF Spec

\* A flush fails no request that has been answered, and finds in the list as many
\* requests as it needs, until it meets reprocess requests.
THEOREM FlushAnswersPendingAlways == Spec => []FlushAnswersPending
<1>1. Ledger => FlushAnswersPending
  BY DEF Ledger, Booked, Entry, Heard, FlushAnswersPending
<1> QED BY <1>1, LedgerAlways, PTL

\* What the framework hears of its requests is what CaptureContract allows.
THEOREM KeepsContractHolds == Spec => KeepsContract
<1>1. Init => Contract!Init
  BY DEF Init
<1> QED BY <1>1, SoundAlways, LedgerAlways, LedgerStep, PTL DEF Spec, KeepsContract, Contract!Spec

-----------------------------------------------------------------------------
(* The invariant.                                                          *)

\* The requests are served: nothing was given up by a flush or a refusal.
Running == ~mFlush /\ state \in {"CONFIGURED", "STARTED"} /\ pc["req"] # "gone"

\* A pending request, and a buffer in the map, has somebody who will bring what
\* it waits for; a result that was put aside has all that it needs.
Attended(f) ==
    /\ f \in pending =>
          /\ IsLive(f) => f \in due
          /\ ask[f].kind = "pproc" => <<f, "input">> \in hw
          /\ ask[f].kind = "direct" => f \in reproc \/ <<f, Blob>> \in hw
    /\ \A s \in outstanding[f] : <<f, s>> \in hw \/ s \in cached[f]

\* The map has every buffer that is out, but for results that were put aside, and
\* who is not pending has been answered.
Kept(f) ==
    /\ f \notin reproc => Out(f) \subseteq outstanding[f]
    /\ Out(f) \subseteq ask[f].out
    /\ fw[f].asked /\ f \notin pending => fw[f].result \/ fw[f].failed

Flushing(t) == pc[t] \in {"streams", "meta", "notify"}

\* mFlush is set by a flush that is under way, nothing is pending when the streams
\* have just been configured, and a device error does not go away.
Flagged ==
    /\ mFlush => \E t \in Threads : Flushing(t)
    /\ state = "CONFIGURED" =>
          pc["flush"] = "idle" /\ ~mFlush /\ (pc["req"] # "gone" => pending = {})
    /\ pc["req"] = "error" => state \in Dead

Level == Running /\ state = "STARTED" => live = Cardinality(Alive)

Account ==
    /\ Flagged /\ Level /\ \A f \in Frames : Kept(f)
    /\ Running => \A f \in Frames : Attended(f)

-----------------------------------------------------------------------------
(* Where the threads are.                                                  *)

\* Only a thread that found the device in error flushes from the request thread.
LEMMA AliveFlush ==
  ASSUME Sound, Flagged, NEW t \in Threads, state \notin Dead,
         pc[t] \in {"error", "flag", "streams", "meta", "notify", "deinit"}
  PROVE  t = "flush" /\ state = "STARTED"
<1>1. device = {} /\ t \in {"req", "flush"} /\ state \in {"CONFIGURED", "STARTED"}
  BY DEF Sound, Awake, Places, Threads, Dead, Types
<1>2. t = "flush"
  BY <1>1 DEF Sound, Stops, Flagged
<1>3. state = "STARTED"
  BY <1>1, <1>2 DEF Flagged
<1> QED BY <1>2, <1>3

LEMMA FlaggedStep ==
  ASSUME Sound, Sound', Flagged, [Next]_vars
  PROVE  spoilt' \/ Flagged'
<1> USE DEF history, backend, lists
<1>1. ASSUME UNCHANGED <<mFlush, pc>>, state' \in {state, "ERROR"}, pending' \subseteq pending
      PROVE  Flagged'
  BY <1>1 DEF Flagged, Flushing, Dead
<1>2. ASSUME UNCHANGED mFlush, NEW t \in Threads, ~Flushing(t), NEW p, pc' = [pc EXCEPT ![t] = p],
             state' # "CONFIGURED", state \in Dead \/ (t = "req" /\ p = "error") => state' \in Dead
      PROVE  Flagged'
  BY <1>2 DEF Flagged, Flushing, Sound, Types
<1>3. ASSUME NEW f \in Frames, NEW r \in Requests,
             processCaptureRequest(f, r) \/ RequestInFlush(f, r) \/ RequestRefused(f, r)
      PROVE  Flagged'
  BY <1>3 DEF processCaptureRequest, RequestInFlush, RequestRefused, Flagged, Flushing, Sound, Types, Threads
<1>4. CASE RequestInError
  BY <1>2, <1>4 DEF RequestInError, Dead, Flushing, Threads
<1>5. CASE WaitWakes \/ WaitTimesOut
  <2>1. state # "CONFIGURED" /\ state' = state /\ mFlush' = mFlush /\ pc["req"] = "wait"
    BY <1>5 DEF WaitWakes, WaitTimesOut, Sound, Awake, Places
  <2>2. \E p : pc' = [pc EXCEPT !["req"] = p] /\ p # "error"
    BY <1>5 DEF WaitWakes, WaitTimesOut
  <2> QED BY <1>2, <2>1, <2>2 DEF Flushing, Threads
<1>6. CASE CallbackStep
  <2>1. ASSUME NEW f \in Frames, NEW D \in SUBSET (Streams \ {Blob}), handleMetadata(f, D)
        PROVE  Flagged'
    BY <1>1, <2>1 DEF handleMetadata, Answer
  <2>2. ASSUME NEW f \in Frames, handleInputBuffer(f)
        PROVE  Flagged'
    BY <1>1, <2>2 DEF handleInputBuffer
  <2>3. ASSUME NEW f \in Frames, NEW s \in Streams, handleBuffer(f, s)
        PROVE  Flagged'
    BY <1>1, <2>3 DEF handleBuffer, ReturnBuffer, ReturnReprocessed, KeepBuffer
  <2>4. CASE DaemonDied \/ DaemonPullsRequest
    BY <1>1, <2>4 DEF DaemonDied, DaemonPullsRequest
  <2> QED BY <1>6, <2>1, <2>2, <2>3, <2>4 DEF CallbackStep
<1>7. CASE FlushCalled
  <2>1. state # "CONFIGURED" /\ state' = state /\ mFlush' = mFlush /\ pc["flush"] = "idle"
    BY <1>7 DEF FlushCalled
  <2>2. \E p : pc' = [pc EXCEPT !["flush"] = p]
    BY <1>7 DEF FlushCalled
  <2> QED BY <1>2, <2>1, <2>2 DEF Flushing, Threads
<1>8. ASSUME NEW t \in Threads, FlushStep(t)
      PROVE  spoilt' \/ Flagged'
  <2>1. CASE DeviceErrorFound(t)
    BY <2>1, AliveFlush DEF DeviceErrorFound, Over, Flagged, Flushing, Sound, Types, Threads, Dead
  <2>2. CASE FlushFlagged(t) \/ StreamsStopped(t) \/ MetadataStopped(t) \/ PendingNotified(t)
    <3>1. state # "CONFIGURED" /\ state' = state
      BY <2>2, AliveFlush
         DEF FlushFlagged, StreamsStopped, MetadataStopped, PendingNotified, Sound, Types, Dead,
             Threads, Stops, Awake, Places, Flagged
    <3>2. spoilt' \/ ~mFlush' \/ (pc[t]' \in {"streams", "meta", "notify"})
      BY <2>2 DEF FlushFlagged, StreamsStopped, MetadataStopped, PendingNotified, Sound, Types
    <3>3. pc'["req"] = "error" => pc["req"] = "error"
      BY <2>2 DEF FlushFlagged, StreamsStopped, MetadataStopped, PendingNotified, Sound, Types, Threads
    <3> QED BY <3>1, <3>2, <3>3 DEF Flagged, Flushing
  <2>3. CASE FlushPastTheEnd(t)
    BY <1>1, <2>3 DEF FlushPastTheEnd
  <2>4. CASE DeviceErrorEnds(t)
    BY <1>2, <2>4 DEF DeviceErrorEnds, Flushing, Dead
  <2> QED BY <1>8, <2>1, <2>2, <2>3, <2>4 DEF FlushStep
<1>9. CASE configureStreams
  BY <1>9 DEF configureStreams, Flagged, Flushing, Threads
<1>10. CASE UNCHANGED vars
  BY <1>1, <1>10 DEF vars
<1> QED BY <1>3, <1>4, <1>5, <1>6, <1>7, <1>8, <1>9, <1>10 DEF Next, RequestStep

-----------------------------------------------------------------------------
(* The counter.                                                            *)

\* The counter and the live requests in the list move together.
LEMMA LevelStep ==
  ASSUME Sound, Sound', Booked, Flagged, Level, ~spoilt, [Next]_vars
  PROVE  spoilt' \/ Level'
<1> USE DEF history, backend, lists
<1>1. ASSUME live' = live, Alive' = Alive, Running' => Running, state' = "STARTED" => state = "STARTED"
      PROVE  Level'
  BY <1>1 DEF Level
<1>2. ASSUME ~Running' \/ state' # "STARTED"
      PROVE  Level'
  BY <1>2 DEF Level
<1>3. ASSUME NEW f \in Frames, NEW r \in Requests, processCaptureRequest(f, r)
      PROVE  Level'
  <2>1. /\ NextFrame(f) /\ Insert(f, r) /\ state \in {"CONFIGURED", "STARTED"} /\ Running
        /\ live' = count_live(r, IF state = "CONFIGURED" THEN 0 ELSE live)
    BY <1>3 DEF processCaptureRequest, Running
  <2>2. /\ f \notin pending /\ pending' = pending \cup {f} /\ ask'[f] = r
        /\ \A g \in Frames : g # f => ask'[g] = ask[g]
    BY <2>1, InsertKinds DEF Sound
  <2>3. Alive \in SUBSET Frames /\ Cardinality(Alive) \in Nat
    BY FramesFinite DEF Sound, Types, Alive
  <2>4. (IF state = "CONFIGURED" THEN 0 ELSE live) = Cardinality(Alive)
    <3>1. CASE state = "CONFIGURED"
      BY <2>1, <3>1, FS_EmptySet DEF Flagged, Running, Alive
    <3>2. CASE state = "STARTED"
      BY <2>1, <3>2 DEF Level
    <3> QED BY <2>1, <3>1, <3>2
  <2>5. CASE r.kind = "live"
    <3>1. Alive' = Alive \cup {f} /\ f \notin Alive
      BY <2>2, <2>5 DEF Alive, IsLive, Sound, Types
    <3>2. Cardinality(Alive') = Cardinality(Alive) + 1
      BY <2>3, <3>1, FramesPlus
    <3> QED BY <2>1, <2>4, <2>5, <3>2 DEF Level, count_live
  <2>6. CASE r.kind # "live"
    <3>1. Alive' = Alive
      BY <2>2, <2>6 DEF Alive, IsLive, Sound, Types
    <3> QED BY <2>1, <2>4, <2>6, <3>1 DEF Level, count_live
  <2> QED BY <2>5, <2>6
<1>4. ASSUME NEW f \in Frames, NEW r \in Requests, RequestInFlush(f, r) \/ RequestRefused(f, r)
      PROVE  Level'
  BY <1>2, <1>4 DEF RequestInFlush, RequestRefused, Running, Sound, Types, Threads
<1>5. CASE RequestInError \/ WaitWakes \/ WaitTimesOut
  <2>1. UNCHANGED <<live, pending, ask, state, mFlush>> /\ pc["req"] # "gone"
    BY <1>5 DEF RequestInError, WaitWakes, WaitTimesOut
  <2> QED BY <1>1, <2>1 DEF Alive, IsLive, Running
<1>6. ASSUME NEW f \in Frames, NEW D \in SUBSET (Streams \ {Blob}), handleMetadata(f, D)
      PROVE  Level'
  <2>1. /\ f \in due /\ UNCHANGED <<ask, mFlush, pc>> /\ state' \in {state, "ERROR"}
    BY <1>6 DEF handleMetadata, Answer
  <2>2. CASE pending' = pending /\ live' = live
    BY <1>1, <2>1, <2>2 DEF Alive, IsLive, Running
  <2>3. CASE f \in pending /\ Answer(f, DropNoted(f, D))
    <3>1. /\ live' = live - 1 /\ state' = state
          /\ pending' = pending \ ({f} \cup ({f + 1} \cap reproc))
      BY <2>3 DEF Answer
    <3>2. Alive' = Alive \ {f} /\ f \in Alive
      BY <2>1, <2>3, <3>1 DEF Alive, IsLive, IsInput, Input, Sound, Kinds
    <3>3. Alive \ {f} \in SUBSET Frames /\ Alive = (Alive \ {f}) \cup {f} /\ f \notin Alive \ {f}
      BY <3>2 DEF Alive, Sound, Types
    <3>4. /\ Cardinality(Alive) = Cardinality(Alive \ {f}) + 1
          /\ Cardinality(Alive \ {f}) \in Nat
      BY <3>3, FramesPlus, FramesFinite
    <3>5. Running' /\ state' = "STARTED" => live = Cardinality(Alive)
      BY <2>1, <3>1 DEF Level, Running
    <3> QED BY <3>1, <3>2, <3>4, <3>5 DEF Level
  <2> QED BY <1>6, <2>2, <2>3 DEF handleMetadata
<1>7. ASSUME NEW f \in Frames, handleInputBuffer(f) \/ \E s \in Streams : handleBuffer(f, s)
      PROVE  Level'
  <2>1. UNCHANGED <<ask, live, mFlush, pc, state>>
    BY <1>7 DEF handleInputBuffer, handleBuffer
  <2>2. pending' \subseteq pending /\ \A g \in pending \ pending' : IsInput(g)
    BY <1>7 DEF handleInputBuffer, handleBuffer, ReturnBuffer, ReturnReprocessed, KeepBuffer
  <2>3. Alive' = Alive
    BY <2>1, <2>2 DEF Alive, IsLive, IsInput, Input
  <2> QED BY <1>1, <2>1, <2>3 DEF Running
<1>8. CASE DaemonDied
  BY <1>2, <1>8 DEF DaemonDied
<1>9. CASE DaemonPullsRequest \/ FlushCalled
  <2>1. UNCHANGED <<ask, live, pending, mFlush, state>> /\ pc'["req"] = pc["req"]
    BY <1>9 DEF DaemonPullsRequest, FlushCalled, Sound, Types, Threads
  <2> QED BY <1>1, <2>1 DEF Alive, IsLive, Running
<1>10. ASSUME NEW t \in Threads,
              DeviceErrorFound(t) \/ StreamsStopped(t) \/ MetadataStopped(t) \/ FlushPastTheEnd(t)
       PROVE  Level'
  <2>1. UNCHANGED <<ask, live, pending, mFlush, state>> /\ (pc'["req"] = pc["req"] \/ pc["req"] # "gone")
    BY <1>10 DEF DeviceErrorFound, StreamsStopped, MetadataStopped, FlushPastTheEnd, Sound, Types, Threads
  <2> QED BY <1>1, <2>1 DEF Alive, IsLive, Running
<1>11. ASSUME NEW t \in Threads, FlushFlagged(t)
       PROVE  Level'
  BY <1>2, <1>11 DEF FlushFlagged, Running
<1>12. ASSUME NEW t \in Threads, PendingNotified(t)
       PROVE  spoilt' \/ Level'
  <2> SUFFICES ASSUME ~spoilt' PROVE Level'
    OBVIOUS
  <2>1. Paired = pending
    <3>1. \A f \in Frames : ~(IsInput(f) /\ (f \in pending \/ outstanding[f] # {}))
      BY <1>12 DEF PendingNotified
    <3> QED BY <3>1, FlushPairs DEF Sound
  <2>2. live' = 0 /\ Alive' = {}
    BY <1>12, <2>1 DEF PendingNotified, reset_live, Alive
  <2> QED BY <2>2, FS_EmptySet DEF Level
<1>13. ASSUME NEW t \in Threads, DeviceErrorEnds(t)
       PROVE  Level'
  BY <1>2, <1>13 DEF DeviceErrorEnds
<1>14. CASE configureStreams
  BY <1>2, <1>14 DEF configureStreams
<1>15. CASE UNCHANGED vars
  BY <1>1, <1>15 DEF vars, Alive, IsLive, Running
<1> QED
  BY <1>3, <1>4, <1>5, <1>6, <1>7, <1>8, <1>9, <1>10, <1>11, <1>12, <1>13, <1>14, <1>15
     DEF Next, RequestStep, CallbackStep, FlushStep

-----------------------------------------------------------------------------
(* What is out, and what is attended to, frame by frame.                   *)

FrameOK(f) == Kept(f) /\ (Running => Attended(f))

\* A frame about which at most the lost buffers change, while nobody stops its
\* channels.
LEMMA FrameSame ==
  ASSUME NEW g \in Frames, FrameOK(g),
         fw'[g].buffers = fw[g].buffers, fw'[g].asked = fw[g].asked,
         fw'[g].result = fw[g].result, fw'[g].failed = fw[g].failed,
         ask'[g] = ask[g], g \in pending' <=> g \in pending,
         g \in reproc' <=> g \in reproc, outstanding'[g] = outstanding[g], cached'[g] = cached[g],
         Running' => /\ Running /\ (g \in pending /\ IsLive(g) /\ g \in due => g \in due')
                     /\ \A s : <<g, s>> \in hw => <<g, s>> \in hw'
  PROVE  FrameOK(g)'
<1>1. Out(g)' = Out(g)
  BY DEF Out
<1>2. Kept(g)'
  BY <1>1 DEF FrameOK, Kept
<1>3. Running' => Attended(g)'
  BY DEF FrameOK, Attended, IsLive
<1> QED BY <1>2, <1>3 DEF FrameOK

\* A new request is in the list and the map, with its work before the channels
\* unless nobody is running.
LEMMA InsertFrames ==
  ASSUME Types, Types', Kinds, \A g \in Frames : FrameOK(g),
         NEW f \in Frames, NEW r \in Requests, NextFrame(f), Insert(f, r), f \notin reproc,
         Running' => /\ Running /\ hw' = hw \cup Owed(f, r)
                     /\ due' = IF r.kind = "live" THEN due \cup {f} ELSE due
  PROVE  \A g \in Frames : FrameOK(g)'
<1>1. /\ pending' = pending \cup {f} /\ f \in pending' /\ ask'[f] = r /\ outstanding'[f] = r.out
      /\ fw'[f] = Contract!Asked(r.kind = "live", r.out)
      /\ \A g \in Frames \ {f} : /\ ask'[g] = ask[g] /\ outstanding'[g] = outstanding[g]
                                 /\ fw'[g] = fw[g]
      /\ UNCHANGED <<cached, reproc>>
  BY DEF Insert, Types
<1>2. Kept(f)'
  <2> DEFINE v == Contract!Asked(r.kind = "live", r.out)
  <2>1. fw'[f] = v
    BY <1>1
  <2>2. v.buffers = [s \in Streams |-> IF s \in r.out THEN "out" ELSE "none"]
    BY OnAsked, RequestShape, ZenonT(40)
  <2> HIDE DEF v
  <2>3. Out(f)' \subseteq r.out
    BY <2>1, <2>2 DEF Out
  <2> QED BY <1>1, <2>3 DEF Kept
<1>3. ASSUME Running' PROVE Attended(f)'
  <2>1. \A s \in r.out : <<f, s>> \in hw'
    BY <1>3 DEF Owed
  <2>2. r.kind = "pproc" => <<f, "input">> \in hw'
    BY <1>3 DEF Owed
  <2>3. r.kind = "live" => f \in due'
    BY <1>3
  <2>4. r.kind = "direct" => Blob \in r.out
    BY RequestShape
  <2> QED BY <1>1, <2>1, <2>2, <2>3, <2>4 DEF Attended, IsLive
<1>4. ASSUME NEW g \in Frames \ {f} PROVE FrameOK(g)'
  <2>1. g \in pending' <=> g \in pending
    BY <1>1
  <2>2. Running' => (g \in due => g \in due') /\ \A s : <<g, s>> \in hw => <<g, s>> \in hw'
    OBVIOUS
  <2> QED BY <1>1, <2>1, <2>2, FrameSame
<1> QED BY <1>2, <1>3, <1>4 DEF FrameOK

\* The metadata of a pending request: whoever is live and pending after it is
\* still due.
LEMMA StillDue ==
  ASSUME Types, NEW f \in Frames, Missing(f) = {}, due' = {g \in due : g > f},
         NEW g \in pending, g # f, IsLive(g), g \in due
  PROVE  g \in due'
<1>1. g \in Int /\ f \in Int
  BY HalAssumption DEF Types, Frames
<1>2. ~(g < f)
  BY DEF Missing
<1> QED BY <1>1, <1>2

\* The answer of a request, and of the one after it whose result was put aside.
LEMMA AnswerFrames ==
  ASSUME Types, Types', Kinds, Booked, \A g \in Frames : FrameOK(g),
         NEW f \in Frames, NEW D \in SUBSET (Streams \ {Blob}), f \in due, f \in pending,
         Missing(f) = {}, Answer(f, DropNoted(f, D)),
         due' = {g \in due : g > f}, ask' = ask, hw' = hw, Running' => Running
  PROVE  \A g \in Frames : FrameOK(g)'
<1> DEFINE N == DropNoted(f, D)
           w == Lost(fw, N)
           v == Returned(Resulted(Notified(w, f), f), f, cached[f], dropped \cup N)
           k == f + 1
<1>1. /\ fw' = SentResult(v, k) /\ pending' = pending \ ({f} \cup ({k} \cap reproc))
      /\ reproc' = reproc \ {k} /\ outstanding' = [outstanding EXCEPT ![f] = @ \ cached[f]]
      /\ cached' = [cached EXCEPT ![f] = {}]
  BY DEF Answer
<1>2. /\ fw \in [Frames -> View] /\ f \in Int /\ k \in Int /\ k # f
      /\ \A g \in Frames : outstanding[g] \in SUBSET Streams /\ cached[g] \in SUBSET Streams
  BY HalAssumption DEF Types, Frames
<1>3. w \in [Frames -> View] /\ \A g \in Frames : w[g].buffers = fw[g].buffers
                                 /\ w[g].asked = fw[g].asked /\ w[g].result = fw[g].result
                                 /\ w[g].failed = fw[g].failed
  <2>1. \A g \in Frames : w[g] = [fw[g] EXCEPT !.told = @ \cup {s \in Streams : <<g, s>> \in N}]
    BY <1>2, OnLost
  <2>2. w \in [Frames -> View]
    BY <1>2, OnLost
  <2> HIDE DEF w
  <2> QED BY <1>2, <2>1, <2>2 DEF View
<1> HIDE DEF w
<1>4. /\ v \in [Frames -> View] /\ \A g \in Frames : g # f => v[g] = w[g]
      /\ v[f].result
      /\ v[f].buffers = [s \in Streams |->
                           IF s \notin cached[f] THEN w[f].buffers[s]
                           ELSE IF <<f, s>> \in dropped \cup N THEN "error" ELSE "ok"]
  BY <1>3, OnAnswered
<1> HIDE DEF v
<1>5. ASSUME k \in reproc
      PROVE  /\ k \in Frames /\ k \in pending /\ fw'[k].result
             /\ \A s \in Streams : fw'[k].buffers[s] # "out"
             /\ \A g \in Frames : g # k => fw'[g] = v[g]
  <2>1. k \in Frames /\ k \in pending /\ ask[k].kind = "direct" /\ ask[k] \in Requests
    BY <1>5 DEF Types, Kinds, Booked, Entry, Told
  <2>2. ask[k].out = {Blob} /\ outstanding[k] = {} /\ Blob \in Streams
    BY <1>5, <2>1, RequestShape, HalAssumption DEF Booked, Entry, Told
  <2>3. fw' = Returned(Resulted(Notified(v, k), k), k, ask[k].out, {})
    BY <1>1, <1>5, <2>1 DEF SentResult
  <2>4. /\ \A g \in Frames : g # k => fw'[g] = v[g]
        /\ fw'[k].result
        /\ fw'[k].buffers = [s \in Streams |-> IF s \notin ask[k].out THEN v[k].buffers[s]
                                               ELSE IF <<k, s>> \in {} THEN "error" ELSE "ok"]
    BY <1>4, <2>1, <2>3, OnAnswered
  <2>5. \A s \in Streams \ {Blob} : fw[k].buffers[s] # "out"
    BY <2>1, <2>2 DEF FrameOK, Kept, Out
  <2> QED BY <1>2, <1>3, <1>4, <2>1, <2>2, <2>4, <2>5
<1>6. \A g \in Frames : g \notin reproc \/ g # k => fw'[g] = v[g]
  BY <1>1, <1>5 DEF SentResult
<1>7. f \notin reproc /\ ~IsInput(f)
  BY DEF Kinds, IsLive, IsInput, Input
<1>8. FrameOK(f)'
  <2>1. fw'[f] = v[f]
    BY <1>2, <1>6
  <2>2. ASSUME NEW s \in Streams, s \notin cached[f]
        PROVE  fw'[f].buffers[s] = fw[f].buffers[s]
    <3>1. v[f].buffers[s] = w[f].buffers[s]
      BY <1>4, <2>2
    <3>2. w[f].buffers = fw[f].buffers
      BY <1>3
    <3> QED BY <2>1, <3>1, <3>2
  <2>3. ASSUME NEW s \in cached[f] PROVE fw'[f].buffers[s] # "out"
    <3>1. s \in Streams
      BY <1>2
    <3>2. v[f].buffers[s] = IF <<f, s>> \in dropped \cup N THEN "error" ELSE "ok"
      BY <1>4, <3>1
    <3> QED BY <2>1, <3>2
  <2>4. fw'[f].result /\ Out(f)' = Out(f) \ cached[f]
    BY <1>4, <2>1, <2>2, <2>3 DEF Out
  <2>5. outstanding'[f] = outstanding[f] \ cached[f] /\ f \notin pending'
    BY <1>1 DEF Types
  <2>6. Kept(f)'
    BY <1>7, <2>4, <2>5 DEF FrameOK, Kept
  <2>7. Running' => Attended(f)'
    BY <2>5 DEF FrameOK, Attended
  <2> QED BY <2>6, <2>7 DEF FrameOK
<1>9. ASSUME k \in reproc PROVE FrameOK(k)'
  <2>1. Out(k)' = {} /\ k \notin pending'
    BY <1>1, <1>5, <1>9 DEF Out
  <2>2. outstanding'[k] = {}
    BY <1>1, <1>2, <1>5, <1>9 DEF Types, Booked, Entry, Told
  <2> QED BY <1>5, <1>9, <2>1, <2>2 DEF FrameOK, Kept, Attended
<1>10. ASSUME NEW g \in Frames, g # f, g # k \/ k \notin reproc PROVE FrameOK(g)'
  <2>1. /\ fw'[g].buffers = fw[g].buffers /\ fw'[g].asked = fw[g].asked
        /\ fw'[g].result = fw[g].result /\ fw'[g].failed = fw[g].failed
    BY <1>3, <1>4, <1>6, <1>10
  <2>2. /\ g \in pending' <=> g \in pending
        /\ g \in reproc' <=> g \in reproc
        /\ outstanding'[g] = outstanding[g] /\ cached'[g] = cached[g]
    BY <1>1, <1>10 DEF Types
  <2>3. g \in pending /\ IsLive(g) /\ g \in due => g \in due'
    BY <1>10, StillDue
  <2> QED BY <2>1, <2>2, <2>3, FrameSame
<1> QED BY <1>5, <1>8, <1>9, <1>10

\* Metadata, whatever it finds.
LEMMA MetadataFrames ==
  ASSUME Types, Types', Kinds, Booked, \A g \in Frames : FrameOK(g),
         NEW f \in Frames, NEW D \in SUBSET (Streams \ {Blob}), handleMetadata(f, D)
  PROVE  \A g \in Frames : FrameOK(g)'
<1> DEFINE N == DropNoted(f, D)
<1>1. /\ f \in due /\ due' = {g \in due : g > f} /\ UNCHANGED <<ask, hw, mFlush, pc>>
      /\ state' \in {state, "ERROR"}
  BY DEF handleMetadata, Answer
<1>2. Running' => Running
  BY <1>1 DEF Running
<1>3. CASE state \in Dead /\ UNCHANGED <<state, lists, live, sig, fw>>
  <2>1. ~Running' /\ UNCHANGED <<pending, outstanding, cached, reproc, fw>>
    BY <1>3 DEF Running, Dead, lists
  <2> QED BY <1>1, <2>1, FrameSame
<1>4. CASE /\ fw' = Lost(fw, N) /\ UNCHANGED <<pending, outstanding, cached, reproc>>
           /\ state' = "ERROR" \/ (Missing(f) = {} /\ f \notin pending)
  <2>1. ASSUME NEW g \in Frames
        PROVE  /\ fw'[g].buffers = fw[g].buffers /\ fw'[g].asked = fw[g].asked
               /\ fw'[g].result = fw[g].result /\ fw'[g].failed = fw[g].failed
    <3>1. fw \in [Frames -> View] /\ fw[g] \in View
      BY DEF Types
    <3> HIDE DEF N
    <3>2. Lost(fw, N)[g] = [fw[g] EXCEPT !.told = @ \cup {s \in Streams : <<g, s>> \in N}]
      BY <3>1, OnLost
    <3> QED BY <1>4, <3>1, <3>2 DEF View
  <2>2. ASSUME NEW g \in Frames, Running', g \in pending, IsLive(g), g \in due PROVE g \in due'
    <3>1. Missing(f) = {} /\ f \notin pending
      BY <1>4, <2>2 DEF Running
    <3> QED BY <1>1, <2>2, <3>1, StillDue
  <2>3. ASSUME NEW g \in Frames PROVE FrameOK(g)'
    BY <1>1, <1>2, <1>4, <2>1, <2>2, FrameSame
  <2> QED BY <2>3
<1>5. CASE Missing(f) = {} /\ f \in pending /\ Answer(f, N)
  BY <1>1, <1>2, <1>5, AnswerFrames
<1> QED BY <1>3, <1>4, <1>5 DEF handleMetadata

\* The input buffer of a reprocess request has been read.
LEMMA InputFrames ==
  ASSUME Types, Types', Kinds, Booked, \A g \in Frames : FrameOK(g),
         NEW f \in Frames, handleInputBuffer(f)
  PROVE  \A g \in Frames : FrameOK(g)'
<1>1. /\ <<f, "input">> \in hw /\ hw' = hw \ {<<f, "input">>}
      /\ UNCHANGED <<state, ask, outstanding, cached, reproc, mFlush, pc, due>>
  BY DEF handleInputBuffer
<1>2. Running' => Running
  BY <1>1 DEF Running
<1>3. ASSUME NEW g \in Frames \ {f} PROVE FrameOK(g)'
  <2>1. fw'[g] = fw[g] /\ (g \in pending' <=> g \in pending)
    <3>1. CASE f \in pending /\ IsInput(f)
      <4>1. fw' = Resulted(Notified(fw, f), f) /\ pending' = pending \ {f}
        BY <3>1 DEF handleInputBuffer
      <4>2. fw \in [Frames -> View] /\ g \in Frames /\ g # f
        BY DEF Types
      <4> DEFINE n == Notified(fw, f)
      <4>3. fw' = Resulted(n, f)
        BY <4>1
      <4>4. n \in [Frames -> View]
        BY <4>2, OnNotified
      <4>5. n[g] = fw[g]
        BY <4>2 DEF Notified
      <4> HIDE DEF n
      <4>6. fw'[g] = n[g]
        BY <4>2, <4>3, <4>4 DEF Resulted
      <4> QED BY <4>1, <4>2, <4>5, <4>6
    <3>2. CASE ~(f \in pending /\ IsInput(f))
      BY <3>2 DEF handleInputBuffer
    <3> QED BY <3>1, <3>2
  <2>2. Running' => \A s : <<g, s>> \in hw => <<g, s>> \in hw'
    BY <1>1
  <2> QED BY <1>1, <1>2, <2>1, <2>2, FrameSame
<1>4. FrameOK(f)'
  <2>1. \A s \in outstanding[f] : <<f, s>> \in hw => <<f, s>> \in hw'
    BY <1>1, HalAssumption DEF Types
  <2>2. CASE f \in pending /\ IsInput(f)
    <3>1. fw' = Resulted(Notified(fw, f), f) /\ pending' = pending \ {f}
      BY <2>2 DEF handleInputBuffer
    <3> DEFINE n == Notified(fw, f)
    <3>2. n \in [Frames -> View] /\ n[f] = [fw[f] EXCEPT !.shutter = TRUE] /\ fw[f] \in View
      BY OnNotified DEF Types
    <3>3. fw' = Resulted(n, f)
      BY <3>1
    <3> HIDE DEF n
    <3>4. fw'[f] = [n[f] EXCEPT !.result = TRUE] /\ n[f] \in View
      BY <3>2, <3>3, OnResulted
    <3>5. fw'[f].result /\ fw'[f].buffers = fw[f].buffers
      BY <3>2, <3>4 DEF View
    <3>6. Kept(f)'
      BY <1>1, <3>1, <3>5 DEF FrameOK, Kept, Out
    <3>7. Running' => Attended(f)'
      BY <1>1, <1>2, <2>1, <3>1 DEF FrameOK, Attended
    <3> QED BY <3>6, <3>7 DEF FrameOK
  <2>3. CASE ~(f \in pending /\ IsInput(f))
    <3>1. fw' = fw /\ pending' = pending
      BY <2>3 DEF handleInputBuffer
    <3>2. Kept(f)'
      BY <1>1, <3>1 DEF FrameOK, Kept, Out
    <3>3. ASSUME Running' PROVE Attended(f)'
      <4>1. f \in pending => ask[f].kind \notin Input
        BY <2>3 DEF IsInput
      <4> QED BY <1>1, <1>2, <2>1, <3>1, <3>3, <4>1 DEF FrameOK, Attended, IsLive, Input
    <3> QED BY <3>2, <3>3 DEF FrameOK
  <2> QED BY <2>2, <2>3
<1> QED BY <1>3, <1>4

\* A stream buffer has been filled.
LEMMA BufferFrames ==
  ASSUME Types, Types', Kinds, Booked, \A g \in Frames : FrameOK(g),
         NEW f \in Frames, NEW s \in Streams, handleBuffer(f, s)
  PROVE  \A g \in Frames : FrameOK(g)'
<1>1. /\ <<f, s>> \in hw /\ <<f, "input">> \notin hw /\ hw' = hw \ {<<f, s>>}
      /\ UNCHANGED <<state, ask, mFlush, pc, due>>
  BY DEF handleBuffer
<1>2. Running' <=> Running
  BY <1>1 DEF Running
<1>3. Entry(f) /\ s \in outstanding[f] /\ s \notin cached[f] /\ f \notin reproc
      /\ outstanding[f] \in SUBSET Streams
  BY <1>1 DEF Booked, Entry, OwedBuffers, Told, Types
<1>4. CASE state \in Dead /\ UNCHANGED <<lists, fw>>
  <2>1. ~Running' /\ UNCHANGED <<pending, outstanding, cached, reproc, fw>>
    BY <1>1, <1>4 DEF Running, Dead, lists
  <2> QED BY <1>1, <2>1, FrameSame
<1>5. CASE ReturnBuffer(f, s)
  <2>1. /\ f \notin pending /\ fw' = Returned(fw, f, {s}, dropped)
        /\ outstanding' = [outstanding EXCEPT ![f] = @ \ {s}]
        /\ UNCHANGED <<pending, cached, reproc>>
    BY <1>5 DEF ReturnBuffer
  <2> DEFINE back == [x \in Streams |-> IF x \notin {s} THEN fw[f].buffers[x]
                                        ELSE IF <<f, x>> \in dropped THEN "error" ELSE "ok"]
  <2>2. /\ \A g \in Frames : g # f => fw'[g] = fw[g]
        /\ fw'[f] = [fw[f] EXCEPT !.buffers = back] /\ fw[f] \in View
    <3>1. fw \in [Frames -> View] /\ fw[f] \in View
      BY DEF Types
    <3> QED BY <2>1, <3>1, OnReturned
  <2>3. ASSUME NEW g \in Frames \ {f} PROVE FrameOK(g)'
    BY <1>1, <1>2, <2>1, <2>2, FrameSame DEF Types
  <2>4. Out(f)' = Out(f) \ {s}
    <3>1. fw'[f].buffers = back
      BY <2>2 DEF View
    <3> QED BY <3>1 DEF Out
  <2>5. fw'[f].asked = fw[f].asked /\ fw'[f].result = fw[f].result /\ fw'[f].failed = fw[f].failed
    BY <2>2 DEF View
  <2>6. outstanding'[f] = outstanding[f] \ {s}
    BY <2>1 DEF Types
  <2>7. Kept(f)'
    BY <1>1, <2>1, <2>4, <2>5, <2>6 DEF FrameOK, Kept
  <2>8. Running' => Attended(f)'
    BY <1>1, <1>2, <2>1, <2>6 DEF FrameOK, Attended
  <2> QED BY <2>3, <2>7, <2>8 DEF FrameOK
<1>6. CASE ReturnReprocessed(f, s)
  <2>1. /\ f \in pending /\ IsInput(f) /\ outstanding' = [outstanding EXCEPT ![f] = @ \ {s}]
        /\ UNCHANGED cached
    BY <1>6 DEF ReturnReprocessed
  <2>2. outstanding'[f] = outstanding[f] \ {s}
        /\ \A g \in Frames : g # f => outstanding'[g] = outstanding[g]
    BY <2>1 DEF Types
  <2>3. ~IsLive(f) /\ (Running => ask[f].kind # "pproc")
    BY <1>1, <2>1 DEF IsLive, IsInput, Input, FrameOK, Attended
  <2>4. Running => \A x \in outstanding'[f] : <<f, x>> \in hw' \/ x \in cached'[f]
    BY <1>1, <2>1, <2>2 DEF FrameOK, Attended
  <2>5. CASE /\ fw' = Returned(Resulted(Notified(fw, f), f), f, {s}, {})
             /\ pending' = pending \ {f} /\ reproc' = reproc
    <3>1. /\ \A g \in Frames : g # f => fw'[g] = fw[g]
          /\ fw'[f].result
          /\ fw'[f].buffers = [x \in Streams |-> IF x \notin {s} THEN fw[f].buffers[x]
                                                 ELSE IF <<f, x>> \in {} THEN "error" ELSE "ok"]
      <4>1. fw \in [Frames -> View]
        BY DEF Types
      <4> QED BY <2>5, <4>1, OnAnswered
    <3>2. ASSUME NEW g \in Frames \ {f} PROVE FrameOK(g)'
      BY <1>1, <1>2, <2>1, <2>2, <2>5, <3>1, FrameSame
    <3>3. Out(f)' = Out(f) \ {s}
      BY <3>1 DEF Out
    <3>4. Kept(f)'
      BY <1>1, <1>3, <2>2, <3>1, <3>3 DEF FrameOK, Kept
    <3>5. Running' => Attended(f)'
      BY <1>2, <2>4, <2>5 DEF Attended
    <3> QED BY <3>2, <3>4, <3>5 DEF FrameOK
  <2>6. CASE reproc' = reproc \cup {f} /\ UNCHANGED <<fw, pending>>
    <3>1. ASSUME NEW g \in Frames \ {f} PROVE FrameOK(g)'
      BY <1>1, <1>2, <2>1, <2>2, <2>6, FrameSame
    <3>2. Kept(f)'
      BY <1>1, <2>6 DEF FrameOK, Kept, Out
    <3>3. Running' => Attended(f)'
      BY <1>1, <1>2, <2>3, <2>4, <2>6 DEF Attended, IsLive
    <3> QED BY <3>1, <3>2, <3>3 DEF FrameOK
  <2> QED BY <1>6, <2>5, <2>6 DEF ReturnReprocessed
<1>7. CASE KeepBuffer(f, s)
  <2>1. /\ f \in pending /\ ~IsInput(f) /\ cached' = [cached EXCEPT ![f] = @ \cup {s}]
        /\ UNCHANGED <<fw, pending, outstanding, reproc>>
    BY <1>7 DEF KeepBuffer
  <2>2. cached'[f] = cached[f] \cup {s} /\ \A g \in Frames : g # f => cached'[g] = cached[g]
    BY <2>1 DEF Types
  <2>3. ASSUME NEW g \in Frames \ {f} PROVE FrameOK(g)'
    BY <1>1, <1>2, <2>1, <2>2, FrameSame
  <2>4. Kept(f)'
    BY <1>1, <2>1 DEF FrameOK, Kept, Out
  <2>5. Running' => Attended(f)'
    BY <1>1, <1>2, <2>1, <2>2 DEF FrameOK, Attended, IsLive, IsInput, Input
  <2> QED BY <2>3, <2>4, <2>5 DEF FrameOK
<1> QED BY <1>4, <1>5, <1>6, <1>7 DEF handleBuffer

\* A flush that meets no reprocess request leaves nothing pending and nothing out.
LEMMA FlushFrames ==
  ASSUME Types, Types', Kinds, Booked, \A g \in Frames : FrameOK(g),
         NEW t \in Threads, PendingNotified(t), ~spoilt'
  PROVE  \A g \in Frames : FrameOK(g)'
<1>1. \A f \in Frames : ~(IsInput(f) /\ (f \in pending \/ outstanding[f] # {}))
  BY DEF PendingNotified
<1>2. Failed = pending /\ Paired = pending
  BY <1>1, FlushPairs
<1>3. /\ fw' = [f \in Frames |-> Discarded(f)] /\ pending' = pending \ Paired
      /\ outstanding' = [f \in Frames |-> {}] /\ reproc' = {}
  BY DEF PendingNotified
<1>4. ASSUME NEW g \in Frames PROVE FrameOK(g)'
  <2>1. Entry(g) /\ fw'[g] = Discarded(g) /\ g \notin pending' /\ outstanding'[g] = {}
    BY <1>2, <1>3 DEF Booked
  <2>2. /\ fw'[g].asked = fw[g].asked /\ fw'[g].result = fw[g].result
        /\ fw'[g].failed <=> (fw[g].failed \/ g \in Failed)
        /\ \A s \in Streams : fw'[g].buffers[s] = IF s \in outstanding[g] THEN "error"
                                                  ELSE fw[g].buffers[s]
    BY <2>1, OnDiscarded
  <2>3. g \notin reproc
    BY <1>1, <2>1 DEF Kinds, Entry, Told
  <2>4. Out(g)' = {}
    BY <2>2, <2>3 DEF FrameOK, Kept, Out
  <2>5. Kept(g)'
    BY <1>2, <1>3, <2>2, <2>4 DEF FrameOK, Kept
  <2>6. Attended(g)'
    BY <2>1 DEF Attended
  <2> QED BY <2>5, <2>6 DEF FrameOK
<1> QED BY <1>4

\* A new configuration, with nothing pending and nothing out.
LEMMA ConfiguredFrames ==
  ASSUME Types, Types', Kinds, Booked, \A g \in Frames : FrameOK(g), configureStreams
  PROVE  \A g \in Frames : FrameOK(g)'
<1>1. /\ pending' = {} /\ reproc' = {} /\ outstanding' = [f \in Frames |-> {}] /\ fw' = fw
  BY DEF configureStreams
<1>2. ASSUME NEW g \in Frames PROVE FrameOK(g)'
  <2>1. fw[g].asked => (fw[g].result \/ fw[g].failed) /\ Out(g) = {}
    BY DEF configureStreams, Out
  <2>2. ASSUME ~fw[g].asked PROVE Out(g) = {}
    <3>1. Entry(g) /\ g \notin pending
      BY <2>2 DEF Booked, Entry, Heard, Kinds
    <3>2. g \notin reproc /\ outstanding[g] = {}
      BY <2>2, <3>1 DEF Entry, Mapped, Told
    <3> QED BY <3>2 DEF FrameOK, Kept
  <2>3. Out(g)' = {} /\ outstanding'[g] = {}
    BY <1>1, <2>1, <2>2 DEF Out
  <2> QED BY <1>1, <2>1, <2>3 DEF FrameOK, Kept, Attended
<1> QED BY <1>2

\* A step that changes none of the lists, and stops the channels only when a flush
\* is under way or the device is dead.
LEMMA QuietFrames ==
  ASSUME \A g \in Frames : FrameOK(g), UNCHANGED <<ask, pending, outstanding, cached, reproc, fw>>,
         Running' => Running /\ due' = due /\ hw' = hw
  PROVE  \A g \in Frames : FrameOK(g)'
BY FrameSame

-----------------------------------------------------------------------------
(* Every step keeps the account, or spoils it.                             *)

LEMMA FramesStep ==
  ASSUME Sound, Sound', Booked, Flagged, \A g \in Frames : FrameOK(g), ~spoilt, [Next]_vars
  PROVE  spoilt' \/ \A g \in Frames : FrameOK(g)'
<1> USE DEF Sound, history, backend, lists
<1>1. ASSUME NEW f \in Frames, NEW r \in Requests,
             processCaptureRequest(f, r) \/ RequestInFlush(f, r) \/ RequestRefused(f, r)
      PROVE  \A g \in Frames : FrameOK(g)'
  <2>1. NextFrame(f) /\ Insert(f, r)
    BY <1>1 DEF processCaptureRequest, RequestInFlush, RequestRefused
  <2>2. f \notin reproc
    BY <2>1, InsertKinds
  <2>3. CASE processCaptureRequest(f, r)
    <3>1. /\ Running /\ hw' = hw \cup Owed(f, r)
          /\ due' = IF r.kind = "live" THEN due \cup {f} ELSE due
      BY <2>3 DEF processCaptureRequest, Running
    <3> QED BY <2>1, <2>2, <3>1, InsertFrames
  <2>4. CASE RequestInFlush(f, r) \/ RequestRefused(f, r)
    <3>1. ~Running'
      BY <2>4 DEF RequestInFlush, RequestRefused, Running, Types, Threads
    <3> QED BY <2>1, <2>2, <3>1, InsertFrames
  <2> QED BY <1>1, <2>3, <2>4
<1>2. CASE RequestInError \/ WaitWakes \/ WaitTimesOut
  <2>1. /\ UNCHANGED <<ask, pending, outstanding, cached, reproc, fw, due, hw, state, mFlush>>
        /\ pc["req"] # "gone"
    BY <1>2 DEF RequestInError, WaitWakes, WaitTimesOut
  <2> QED BY <2>1, QuietFrames DEF Running
<1>3. ASSUME NEW f \in Frames, NEW D \in SUBSET (Streams \ {Blob}), handleMetadata(f, D)
      PROVE  \A g \in Frames : FrameOK(g)'
  BY <1>3, MetadataFrames
<1>4. ASSUME NEW f \in Frames, handleInputBuffer(f)
      PROVE  \A g \in Frames : FrameOK(g)'
  BY <1>4, InputFrames
<1>5. ASSUME NEW f \in Frames, NEW s \in Streams, handleBuffer(f, s)
      PROVE  \A g \in Frames : FrameOK(g)'
  BY <1>5, BufferFrames
<1>6. CASE DaemonDied
  <2>1. UNCHANGED <<ask, pending, outstanding, cached, reproc, fw>> /\ ~Running'
    BY <1>6 DEF DaemonDied, Running
  <2> QED BY <2>1, QuietFrames
<1>7. CASE DaemonPullsRequest \/ FlushCalled
  <2>1. UNCHANGED <<ask, pending, outstanding, cached, reproc, fw, due, hw, state, mFlush>>
    BY <1>7 DEF DaemonPullsRequest, FlushCalled
  <2>2. pc'["req"] = pc["req"]
    BY <1>7 DEF DaemonPullsRequest, FlushCalled, Types, Threads
  <2> QED BY <2>1, <2>2, QuietFrames DEF Running
<1>8. ASSUME NEW t \in Threads,
             \/ DeviceErrorFound(t) \/ FlushFlagged(t) \/ FlushPastTheEnd(t) \/ DeviceErrorEnds(t)
      PROVE  \A g \in Frames : FrameOK(g)'
  <2>1. UNCHANGED <<ask, pending, outstanding, cached, reproc, fw, due, hw>>
    BY <1>8 DEF DeviceErrorFound, FlushFlagged, FlushPastTheEnd, DeviceErrorEnds
  <2>2. CASE DeviceErrorFound(t) \/ FlushPastTheEnd(t)
    <3>1. UNCHANGED <<state, mFlush>> /\ (pc'["req"] = pc["req"] \/ pc["req"] # "gone")
      BY <2>2 DEF DeviceErrorFound, FlushPastTheEnd, Types, Threads
    <3> QED BY <2>1, <3>1, QuietFrames DEF Running
  <2>3. CASE FlushFlagged(t) \/ DeviceErrorEnds(t)
    <3>1. ~Running'
      BY <2>3 DEF FlushFlagged, DeviceErrorEnds, Running
    <3> QED BY <2>1, <3>1, QuietFrames
  <2> QED BY <1>8, <2>2, <2>3
<1>9. ASSUME NEW t \in Threads, StreamsStopped(t) \/ MetadataStopped(t)
      PROVE  \A g \in Frames : FrameOK(g)'
  <2>1. /\ UNCHANGED <<ask, pending, outstanding, cached, reproc, fw, state, mFlush>>
        /\ pc[t] \in {"streams", "meta"}
    BY <1>9 DEF StreamsStopped, MetadataStopped
  <2>2. ~Running'
    <3>1. CASE state \in Dead
      BY <2>1, <3>1 DEF Running, Dead
    <3>2. CASE state \notin Dead
      <4>1. t = "flush"
        BY <2>1, <3>2, AliveFlush
      <4>2. pc'["req"] = pc["req"]
        BY <1>9, <4>1 DEF StreamsStopped, MetadataStopped, Types, Threads
      <4>3. pc["req"] \in {"idle", "wait", "gone"}
        <5>1. ASSUME pc["req"] \in {"error", "flag", "streams", "meta", "notify", "deinit"}
              PROVE  FALSE
          BY <3>2, <5>1, AliveFlush DEF Threads
        <5> QED BY <5>1 DEF Types, Threads
      <4>4. pc["req"] # "gone" => mFlush
        BY <2>1, <4>1, <4>3 DEF Stops
      <4> QED BY <2>1, <4>2, <4>4 DEF Running
    <3> QED BY <3>1, <3>2
  <2> QED BY <2>1, <2>2, QuietFrames
<1>10. ASSUME NEW t \in Threads, PendingNotified(t)
       PROVE  spoilt' \/ \A g \in Frames : FrameOK(g)'
  BY <1>10, FlushFrames
<1>11. CASE configureStreams
  BY <1>11, ConfiguredFrames
<1>12. CASE UNCHANGED vars
  BY <1>12, QuietFrames DEF vars, Running
<1> QED
  BY <1>1, <1>2, <1>3, <1>4, <1>5, <1>6, <1>7, <1>8, <1>9, <1>10, <1>11, <1>12
     DEF Next, RequestStep, CallbackStep, FlushStep

\* All that until a flush has met reprocess requests, or broken off.
Accounted == ~spoilt => Account

LEMMA AccountedInit == Init => Accounted
<1> SUFFICES ASSUME Init PROVE Account
  BY DEF Accounted
<1>1. Flagged /\ Level
  BY DEF Init, Flagged, Level, Threads
<1>2. ASSUME NEW f \in Frames
      PROVE  Kept(f) /\ Attended(f)
  <2>1. fw[f] = [asked |-> FALSE, live |-> FALSE, shutter |-> FALSE, result |-> FALSE,
                 failed |-> FALSE, told |-> {}, buffers |-> [s \in Streams |-> "none"]]
    BY DEF Init, Contract!Init, Contract!NotAsked
  <2>2. ~fw[f].asked /\ Out(f) = {}
    BY <2>1 DEF Out
  <2>3. f \notin pending /\ outstanding[f] = {}
    BY DEF Init
  <2> QED BY <2>2, <2>3 DEF Kept, Attended
<1> QED BY <1>1, <1>2 DEF Account

LEMMA AccountedStep ==
  Sound /\ Sound' /\ Ledger /\ Accounted /\ [Next]_vars => Accounted'
<1> SUFFICES ASSUME Sound, Sound', Ledger, Accounted, [Next]_vars PROVE spoilt' \/ Account'
  BY DEF Accounted
<1>1. CASE spoilt
  BY <1>1, SpoiltStays DEF Sound
<1>2. CASE ~spoilt
  <2>1. Booked /\ Flagged /\ Level /\ \A f \in Frames : FrameOK(f)
    BY <1>2 DEF Ledger, Accounted, Account, FrameOK
  <2>2. spoilt' \/ Flagged'
    BY <2>1, FlaggedStep
  <2>3. spoilt' \/ Level'
    BY <1>2, <2>1, LevelStep
  <2>4. spoilt' \/ \A f \in Frames : FrameOK(f)'
    BY <1>2, <2>1, FramesStep
  <2> QED BY <2>2, <2>3, <2>4 DEF Account, FrameOK
<1> QED BY <1>1, <1>2

LEMMA AccountedAlways == Spec => []Accounted
BY SoundAlways, LedgerAlways, AccountedInit, AccountedStep, PTL DEF Spec

\* The counter of live requests, the pending list and the buffers map agree in
\* every state: the counter never exceeds the list, equals it while no flush runs,
\* and when the channels owe nothing no request and no buffer is left behind.
THEOREM BooksAgreeAlways == Spec => []BooksAgree
<1>1. Sound /\ Accounted => LiveAgrees
  <2> SUFFICES ASSUME Sound, Accounted, state = "STARTED"
               PROVE  /\ live <= Cardinality(Alive)
                      /\ (~mFlush /\ ~spoilt /\ pc["req"] # "gone") => live = Cardinality(Alive)
    BY DEF LiveAgrees, Alive
  <2>1. live <= Cardinality(Alive)
    BY DEF Sound, Counted
  <2>2. ASSUME ~mFlush, ~spoilt, pc["req"] # "gone" PROVE live = Cardinality(Alive)
    BY <2>2 DEF Accounted, Account, Level, Running
  <2> QED BY <2>1, <2>2
<1>2. Sound /\ Ledger /\ Accounted => NothingIsLost
  <2> SUFFICES ASSUME Sound, Ledger, Accounted, Quiet
               PROVE  /\ pending = reproc
                      /\ \A f \in Frames :
                            /\ outstanding[f] = {} /\ cached[f] = {}
                            /\ (fw[f].asked /\ f \notin reproc) =>
                                  /\ fw[f].result # fw[f].failed
                                  /\ \A s \in Streams : fw[f].buffers[s] # "out"
    BY DEF NothingIsLost
  <2>1. /\ state = "STARTED" /\ due = {} /\ hw = {} /\ ~spoilt
        /\ \A t \in Threads : pc[t] = "idle"
    BY DEF Quiet
  <2>2. Account /\ Booked
    BY <2>1 DEF Ledger, Accounted
  <2>3. Running
    BY <2>1, <2>2 DEF Account, Flagged, Flushing, Running, Threads
  <2>4. pending = reproc
    <3>1. ASSUME NEW f \in pending PROVE f \in reproc
      <4>1. f \in Frames /\ ask[f] \in Requests
        BY DEF Sound, Types, Kinds
      <4>2. ask[f].kind \in {"live", "pproc", "direct"}
        BY <4>1, RequestShape
      <4> QED BY <2>1, <2>2, <2>3, <4>1, <4>2 DEF Account, Attended, IsLive
    <3>2. ASSUME NEW f \in reproc PROVE f \in pending
      BY <2>2 DEF Sound, Types, Booked, Entry, Told
    <3> QED BY <3>1, <3>2
  <2>5. ASSUME NEW f \in Frames
        PROVE  /\ outstanding[f] = {} /\ cached[f] = {}
               /\ (fw[f].asked /\ f \notin reproc) =>
                     /\ fw[f].result # fw[f].failed
                     /\ \A s \in Streams : fw[f].buffers[s] # "out"
    <3>1. Entry(f) /\ Attended(f) /\ Kept(f) /\ fw[f] \in View
      BY <2>2, <2>3 DEF Account, Booked, Sound, Types
    <3>2. cached[f] = {}
      BY <2>1, <3>1 DEF Entry, Mapped, Attended
    <3>3. outstanding[f] = {}
      BY <2>1, <3>1, <3>2 DEF Attended
    <3>4. ASSUME fw[f].asked, f \notin reproc
          PROVE  /\ fw[f].result # fw[f].failed
                 /\ \A s \in Streams : fw[f].buffers[s] # "out"
      <4>1. fw[f].result \in BOOLEAN /\ fw[f].failed \in BOOLEAN
        BY <3>1 DEF View
      <4>2. fw[f].result \/ fw[f].failed
        BY <2>4, <3>1, <3>4 DEF Kept
      <4>3. fw[f].result => ~fw[f].failed
        BY <3>1 DEF Entry, Heard
      <4>4. Out(f) = {}
        BY <3>1, <3>3, <3>4 DEF Kept
      <4> QED BY <4>1, <4>2, <4>3, <4>4 DEF Out
    <3> QED BY <3>2, <3>3, <3>4
  <2> QED BY <2>4, <2>5
<1> QED BY <1>1, <1>2, SoundAlways, LedgerAlways, AccountedAlways, PTL DEF BooksAgree

=============================================================================
