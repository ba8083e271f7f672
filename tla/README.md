# Verification of the LeEco msm8996 device tree

The repository is the device tree of the LeEco phones with the MSM8996: the
Qualcomm camera HAL and its stack, the Qualcomm GNSS HAL, some small HIDL
services, and a large amount of configuration. This directory holds TLA+ models
of the parts of it that are concurrent and stateful, the TLC configurations that
check them, and TLAPS proofs of their safety properties. The tree has no tests of its own;
its documentation is the comments in the code.

Contents: [Inventory](#inventory) · [How the parts interact](#how-the-parts-interact) ·
[Modules](#modules) · [Runs](#runs) · [Bounds](#bounds) · [Fairness](#fairness) ·
[Proofs](#proofs) · [Where code and comments disagree](#where-code-and-comments-disagree) ·
[Not modelled](#not-modelled) · [Plan](#plan)

To check: `tlc -workers 2 -config MCAgps.cfg MCAgps` (and so for every line of
the table of runs), `tlapm AgpsProofs.tla` (and so for every `*Proofs` module).

## Inventory

Paths are below `src/`; *QC2* is `camera/QCamera2`, *mmci* is
`camera/QCamera2/stack/mm-camera-interface/src`.

| component | state it keeps | operations | what is hard | what makes it correct |
|---|---|---|---|---|
| **AGPS manager** `gps/gnss/Agps.*`, AGPS part of `GnssAdapter.cpp` | per network interface: state (RELEASED, PENDING, ACQUIRED; RELEASING is never entered), subscribers, type | request/release from the modem; opened, failed, closed from the framework | requests and answers cross on two queues; answers to abandoned requests; a close reported from a foreign thread | a connection exists only for somebody; commands alternate; every request and release of the modem is answered |
| **Data poll thread** `mmci/mm_camera_thread.c` | poll entries, the copy that is polled, pipe, waiters | add/delete an entry (sync and async), notify, release | entries changed without a lock; one shared condition variable, no loop around the wait | no notification after a synchronous delete; no lost wakeup; no sleep on a stale set |
| **Stream and its buffers** `mmci/mm_camera_stream.c` | per buffer refcount (8 bits) and owner, queued count, state of the stream | dequeue and hand out, buffer done, start, stop, link | four kinds of threads; ioctls outside the lock; stop while buffers are out | refcount = references somebody will return; the driver never gets a buffer that is in use; a buffer always comes back |
| **Superbuf queue of a channel** `mmci/mm_camera_channel.c` | the queue of half-matched and matched superbufs, counters, ZSL triggers | enqueue a buffer, request, flush, configure, start/stop of snapshot modes | streams lose and delay frames; metadata moves the expected frame; a dozen commands in any order | every buffer is in one place; matched ones are counted and first; sent in order; the queue is bounded |
| **Frame sync** `mm_camera_channel.c:3318-3641` | frames of two channels waiting for their partner | register, add, match, flush | locks of all queues against the sync lock | lock order; a frame is matched once |
| **Cmd threads** `mm_camera_thread.c:581-700` | queue and semaphore | launch, stop, release | commands after the exit command | every command is run or freed |
| **Camera object and socket** `mm_camera.c`, `mm_camera_interface.c`, `mm_camera_sock.c` | open counts, handles, event thread | open, close, map/unmap, events | waiting for an acknowledgement that comes from the event thread | the wait ends; the last close closes |
| **HAL1 state machine** `QC2/HAL/QCameraStateMachine.cpp` with `QCamera2HWI.cpp`, `QCamera2HWICallbacks.cpp` | eight states, two queues, the list of results, what is running in the hardware | ~70 API calls, ~20 events, the notifier's synchronous event | calls overtake events; deferred jobs and threads run on; every handler has its own idea of what to answer | every caller is answered once; no capture outlives its state; in STOPPED all is off |
| **HAL1 channels, streams, memory** `QCameraChannel.cpp`, `QCameraStream.cpp`, `QCameraMem.cpp` | buffers and their counters | start, stop, callbacks | data thread against stop | as StreamBuf, one level up |
| **HAL1 postprocessor** `QCameraPostProc.cpp` | input, ongoing, save and reprocess queues | process data, JPEG event, start/stop | callbacks of the JPEG library against stop | each superbuf is encoded or returned once |
| **HAL1 parameters** `QCameraParameters*.cpp`, `QCameraThermalAdapter.cpp` | the parameter table | set, commit | little control | values within ranges |
| **Dual camera muxer** `QCameraMuxer.cpp` | JPEG queues of two cameras | store, compose | two producers, one composer | composed pairs belong together |
| **HAL3 request life cycle** `QC2/HAL3/QCamera3HWI.cpp` | the pending request list, the map of pending buffers, the counter of live requests, the state of the device | request, metadata, buffer and input-buffer callbacks, daemon events, flush, device error, configure | the framework's thread, three kinds of callback threads and a flush that lets go of the lock between its stops; three books of the same requests changed one at a time; lost metadata | every request is answered once, in order, and every buffer comes back once; the caller never sleeps with room in flight; the books agree |
| **HAL3 postprocessor and picture channel** `QCamera3PostProc.cpp`, `QCamera3Channel.cpp` | queues of settings, images, metadata, input images, jobs at the reprocess hardware and at the encoder | request, image, metadata, reprocessed frame, encoder event, start, stop | four queues paired by nothing but their order; five threads; a stop that overtakes commands | a picture is made of the parts of its own request; no job waits without a wakeup; every request ends |
| **HAL3 streams, memory, crop regions, tables** | buffers | | | |
| **mm-jpeg-interface** | job queues, sessions | start job, abort, destroy session | OMX callbacks against abort | a job ends once |
| **OMX core, lib2d, camera utilities, USB camera** | small | | | |
| **GNSS tracking** `gps/gnss/GnssAdapter.cpp:2015-2860` | clients, time-based and distance-based sessions with their options, commands that wait for the engine's capabilities | start, update, stop, remove a client; engine up; the engine's answers | several sessions on one fix session; the maps change before the engine has answered; restart of the engine with requests unanswered | each command is answered once; when all is answered the engine runs iff there is a session, at least as often as the most demanding asks |
| **GNSS adapter, other parts** `gps/gnss/GnssAdapter.cpp` | configuration, NI sessions, report masks | configure, NI respond, report | | |
| **Location API and client base** `gps/location` | clients, requests and sessions | create, destroy, start/stop session | a response may arrive before the request is recorded | each request has one response; a client is destroyed when all adapters have let go |
| **Geofences, batching** `gps/geofence`, `gps/batching` | sessions, hardware ids | add, remove, pause; start, stop, trips | responses after the client left | no orphan in the engine |
| **gps core** `gps/core` | adapters, event masks, observers | add/remove adapter, subscribe | subscriptions from two threads | masks are the union of the clients' |
| **Timers** `gps/utils/LocTimer.cpp`, `LocHeap.cpp`, `MsgTask.cpp` | delegates in one heap per container, a timerfd per container and whether it is polled, the message queue | start, stop, poll, expire, push, remove | the polling thread disarms while the message task arms; an expiry is handled after a stop; the client is read without its lock | the timerfd is armed for the soonest timer; a deleted delegate is held by nobody; every timer ends |
| **gps utilities, other** `gps/utils` | | configuration, NMEA, logs, sockets | | |
| **HIDL services of GNSS** `gps/android` | callbacks, death recipients | conversion and forwarding | death of the framework | |
| **Light, health, touch, infrared; Java applications; boot, recovery, shims, configuration** | next to none | | | |

`PROJECT.json` lists each with its sources and says whether it is modelled;
its hazards name, line by line, what can go wrong and which property would see it.

## How the parts interact

Camera. The framework calls `camera_device_ops` (QCamera2HWI.cpp). Each call is
put into the state machine's `api_queue` and its thread waits for the result.
The state machine's thread handles calls before events. Its handlers start and
stop channels (QCameraChannel, mm_camera_channel.c), which own streams
(mm_camera_stream.c). A stream's fd is polled by the channel's **poll thread**;
the callback dequeues a **buffer**, counts a reference for each receiver and
hands it to the channel's cmd thread (which runs the **superbuf queue**) and the
stream's own cmd thread. Superbufs go through a dispatch thread to the
postprocessor, whose JPEGs become events of the state machine and jobs of the
notifier, which in turn blocks in the state machine when the last picture is
delivered. Buffers return through `mm_stream_buf_done`, from any thread, and may
add the fd to the poll thread again.

HAL3. The framework's thread puts each request into the pending list and the map,
asks the channels for buffers and waits while too many are in flight. The metadata
channel's thread, the stream channels' threads and the **postprocessor** of the picture
channel call back under the same lock; whoever takes a live request off the list
lowers the counter and signals the waiting thread. A flush stops the channels without
the lock and then clears list, map and counter under it. The picture channel queues
the settings of a request on the framework's thread, gets image and metadata on two
callback threads, and its data thread pairs the heads of the queues, sends the pair to the
reprocess channel and the outcome to the encoder.

GNSS. The modem's requests reach LocApiBase, which forwards them to
GnssAdapter; they are put as messages on one queue and handled by one thread, as
are the answers of the framework (through AGnss.cpp). One answer is not: an open with an
unusable APN calls the manager on the framework's own thread. **Tracking** commands
of all clients are messages on the same queue; the adapter asks the engine through
LocApiBase, with a closure that the answer brings back as a message. The **timers** of
the GPS code have a message task and a polling thread of their own; starts and stops
are messages to the task, and so is an expiry seen by the polling thread.

## Modules

| module | models | state ↔ code | actions ↔ code |
|---|---|---|---|
| `Agps` | AgpsManager, AgpsStateMachine, the adapter messages that carry events to them; modem and framework as environment | `mState`, `mSubscriberList`, `mAgpsType` are the members of those names, per interface; `msgQ` the adapter's queue; `fwQ`, `fwConn`, `modem` the two external parties | `ProcMsg` handles the head of the queue; `requestATL`, `releaseATL`, `processAgpsEvent*`, `reportAtl*` are the methods of those names; `FwOpenedBadApn` and `ReportClosedDirectly` are `dataConnOpenCommand` with an unusable APN |
| `AgpsProofs` | five theorems | | |
| `PollThread` | the poll thread and the callers of add/del/commit | `entries` = `poll_entries`, `pollFds` = `poll_fds`, `pipe` the commands in the pipe, `pc` the place in `mm_camera_poll_fn`, `call` the place of each caller | `poll_sig`, `signal`, `poll_sig_done`, `poll_proc_pipe`, `notify`, `cb_*` (what the callback does to its own entry), `Release`, `Join` |
| `StreamBuf` | the buffers of a stream outside batch mode, its start and stop | `refcnt`, `inKernel`, `count`, `linked`, `st` as in `mm_stream_t`; `kernel` is the driver's queue; `poll` and `done` the places of the poll thread and of each owner between critical sections; `held` who owns a reference | one action per critical section of `buf_lock` or ioctl: `read_msm_frame`, `read_counts`, `read_fails`, `data_notify`, `notify_channel`, `notify_linked`, `notify_cmd_thread`, `buf_done_decrement`, `qbuf`, `qbuf_ioctl`, `qbuf_failed`, `mark_in_kernel`; and the steps of STOP |
| `SuperbufQueue` | the cmd thread of a channel, one command per action | `ch` is `mm_channel_t` with its queue: `que`, `match_cnt`, `expected`, the ZSL and LED fields | `DataCb` = `mm_channel_superbuf_comp_and_enqueue` with `mm_channel_handle_metadata`, `RequestSuperBuf`, `FlushQueue`, `StartZsl`, `StopZsl`, `ConfigNotify`, `General`, `Start`, `StartFails`, `Stop`; each ends with `process`, the tail of `mm_channel_process_stream_buf` |
| `SuperbufQueueProofs` | five theorems | | |
| `QCameraStateMachine` | the state machine, a framework thread, the notifier, the deferred job, the live snapshot thread, the camera | `hw` is everything a handler writes; `apiQ` and `hw.evts` the two queues; `hw.results` the list of API results; `app`, `note` the two threads | `procEvt*State` one per state; `smEvtProcApi` / `smEvtProcEvt` take from the queues, calls first; `processAPI`, `waitAPIResult`; `cbNotifyRoutine`, `processSyncEvtReturns`, `mDataCb`; `startSnapshots` the deferred job |
| `QCameraStateMachineProofs` | six theorems | | |
| `Hal3Requests` | the life cycle of a capture request in `QCamera3HardwareInterface` | `pending` = `mPendingRequestsList`, `outstanding` = `mPendingBuffersMap`, `cached` the buffers kept in a pending request, `reproc` = `mPendingReprocessResultList`, `live` = `mPendingLiveRequest`; `pc` where the request thread and the flush are; `due`, `hw` what the channels still owe; `fw` what the framework has heard | one action per stretch under `mMutex`: `processCaptureRequest` up to its wait and `WaitWakes`, `handleMetadata`, `handleInputBuffer`, `handleBuffer`, `DaemonDied`, `DaemonPullsRequest`; a flush is `FlushFlagged`, `StreamsStopped`, `MetadataStopped`, `PendingNotified`, and a device error `DeviceErrorFound` … `DeviceErrorEnds` around it |
| `CaptureContract` | the abstract specification of `Hal3Requests`: what `camera3.h` lets the framework rely on, over `fw` alone | `fw` | `Submit`, `Hear` |
| `Hal3RequestsProofs` | five theorems, the refinement among them | | |
| `Hal3PostProc` | the postprocessor of a picture channel | the queues have the code's names without `m_`, `hwi`, `dp` the places of the request thread and the data thread, `cmds` the data thread's commands, `active` the flag of the queues | `Request`, `QueueLive`, `QueueInput`, `Stop`, `StreamsStop` (request thread); `StartDone`, `StopDone`, `NextInactive`, `NextJpeg`, `NextInput`, `NextPair` (data thread: a DO_NEXT_JOB is three steps, because the queues have locks of their own); `ImageArrives`, `MetadataArrives`, `Reprocessed`, `EncoderDone`, `Answer` (callbacks) |
| `GnssTracking` | the tracking sessions of the adapter | `time`, `dist` = `mTimeBasedTrackingSessions`, `mDistanceBasedTrackingSessions`; `waiting` = `mPendingMsgs`; `modem` the requests of the adapter with the handler of each answer; `engine`, `engineDist` what the engine does; `due` the answers owed, none to a start that is refused without one (`IgnoreStart`) | one action per message: `StartCommand`, `UpdateCommand`, `StopCommand`, `ResentCommand`, `RemoveClient`, `EngineAnswers`, `EngineRefuses`, `EngineUp`; `EngineDies` is the environment's. The scan of an unordered map gives a set of outcomes |
| `LocTimer` | the timers with polling thread and message task | `started` the delegates ever made, `mTimer` the one of each timer, `heap`, `msgs`, `alarm`, `polled`; `task`, `poll` the places of the two threads | `start`, `stop` (under the timer's lock); `PollReturns`, `Disarm`, `RemovePoll`, `SendExpire`; `HandlePush`, `HandleRemove`, `HandleExpire`, `ReadClient`, `StopAndCallBack`, `PopNext`, `SetTime` |
| `StreamProofs` | three theorems of `StreamBuf` and four of `PollThread`, the two sides of a stream's buffers | | |
| `LocTimerProofs`, `Hal3PostProcProofs`, `GnssTrackingProofs` | three, two and four theorems | | |
| `MC*` | instances for TLC | | |

Conventions. A handler that runs on one thread under one lock, or on a
single-threaded queue, is one action. In `SuperbufQueue` and
`QCameraStateMachine` handlers are functions from a state to a state (or to the
set of states a fallible handler may leave), composed as the code calls
them, and the action applies them. Beside a definition there may be
a mutant of it, marked as such in a comment: a plausible mistake in that code,
which makes one of the properties fail; no behaviour of the specification uses it.

What the abstractions leave out, per module:

* `Agps`: APN and bearer strings; `handleModemSSR`, which nothing calls; the
  subscriber list is a set, because no code depends on its order. Every subscriber is
  made with `mWaitForCloseComplete` false (Agps.cpp:593), so the branches for inactive
  subscribers and the state RELEASING are dead and not modelled. An unusable APN is
  answered with a close or, when it is empty (AGnss.cpp:147), not at all. Each handler is
  one step although the direct close may run at the same time as one: the data race
  on the list itself is noted as a hazard, not modelled.
* `PollThread`: the COMMIT command (reached only when `del_poll_fd` fails, for
  a handler that no caller passes), failing pipes, spurious wakeups of
  `pthread_cond_wait`. `status` in the thread is always FALSE when it is tested.
* `StreamBuf`: formats, parameters, mapping, the batch mode, the states before
  BUFFED, a registration that fails part way (mm_camera_stream.c:2164). Cache operations
  that fail after DQBUF or before QBUF are modelled (`CacheFails`): the buffer
  is with nobody for the rest of the session. With `Quiet` owners have returned their buffers when the stop begins, as
  `mm_camera.c:525` expects of them, except the cmd thread's own.
* `SuperbufQueue`: capture settings (`isConfigCapture`), frame sync, failing
  allocations. Frame numbers are dense and small; the wrap of 32-bit frame
  numbers (`seq_comp_w_rollover`) is out of reach of the bound.
* `QCameraStateMachine`: events of two synchronised cameras, the delayed restart
  (`SEND_COMMAND_RESTART`), manual capture of type 3 and RestoreZSL, eztune with its backend-picture thread (which
  makes calls that nobody waits for, QCamera2HWI.cpp:5317), autofocus, face
  registration, open and close. A live snapshot that gives up without telling the state
  machine (QCamera2HWI.cpp:5396, 5464) and pictures whose message type is disabled
  are modelled. `set_parameters` is the restarting one; the
  framework ends long shot only while it is on. What streams and channels do is a
  success or a failure.
* `Hal3Requests`: the set-up of streams and of the first request, batch (HFR) mode,
  urgent partial results, sensor restarts, the translation of settings and
  metadata, the error status of a JPEG buffer. Lists of frames are sets: frame
  numbers grow, so the order of the list is the order of the numbers. When a channel refuses, any of
  the buffers of the request may have been accepted. The framework keeps its
  own side: it configures anew only when it has everything back, and submits
  nothing after an error.
* `Hal3PostProc`: want of memory, failing overrides of metadata, the content of the settings,
  the YUV channel's kind of reprocessing; `QCamera3PicChannel::flush`, which
  nothing calls. Whether an input image needs reprocessing depends on its metadata
  (`needsReprocess`) and is a choice for each.
* `GnssTracking`: the clamping of intervals, power reports, an engine without
  distance-based tracking. A start without a callback or with options of no size is
  modelled: it is ignored, and nobody is told.
* `LocTimer`: the creation of containers and threads on demand and its failures; the
  deletion of a client object, which has to outlive its timer. A heap is
  the set of its elements; which of several equal ones is the top is left open.

## Runs

Passing runs check every property in the middle column; each of them is known
to fail under a mutant of the code listed in `PROJECT.json`.

| run | properties | what it shows |
|---|---|---|
| `agps` | `ConnectionHasUser`, `WaitingIsOwed`, `FrameworkAgrees`, `ModemAgrees`, `CallsAnswered` | over all crossings of requests, releases and answers, with unusable APNs and without emergency PDN: a machine with a connection has a subscriber; PENDING has its command or its answer on the way; the framework's connection and the modem's handles agree with the machines, but for what is under way. Every request and release of the modem is answered if the framework answers its commands. `WaitingIsOwed` and `CallsAnswered` exempt what met an unusable APN |
| `poll_thread` | `PollTypeOK`, `SyncDelIsQuiet`, `EveryWaiterHasASignal`, `PollSetIsCurrent`, `CallsReturn` | although a signal may wake another waiter than the one it is for, waiters and signals stay equal in number, a stream that was deleted synchronously is not being notified when its caller goes on, the thread never sleeps on a stale set, and every call returns |
| `stream_buf` | `TypeOK`, `RefcntIsOwed`, `PolledWhileQueued`, `DriverIsFed` | a stream that is bundled, linked and has a callback: the reference count is exactly the references that somebody will return, the fd is polled exactly while the driver has buffers, and a driver that has none is offered the next one somebody is done with, although QBUF and the cache operations may fail |
| `superbuf_queue` | `TypeOK`, `MatchedFirst`, `RoomIsMade`, `BuffersAccounted`, `SentInOrder` | for every loss and interleaving of two streams and every order of three commands or pieces of news: matched superbufs are counted right and ahead of the unmatched ones (so that the loops of overflow and skip end), the loop that makes room never has to take more than one, every buffer is in the queue or given back, and superbufs go out in order |
| `state_machine` | `TypeOK`, `NobodyForgotten`, `NoStrayAnswer`, `CaptureHasState`, `WantedMessages`, `CallsReturn` | four cameras, every sequence of four framework operations, with failing starts and the death of the camera daemon: each caller is answered, no answer is left to be taken for another, no capture is left without a state that ends it. The fourth camera, whose pictures come in part from the queue, has a client that lets its captures end: one that does not may forget the caller, see [below](#where-code-and-comments-disagree) |
| `hal3_requests` | `TypeOK`, `BooksAgree`, `NoIdleWait`, `FlushAnswersPending`, `KeepsContract` | three requests of every kind on two streams, metadata lost or late, with one flush, daemon event, refusal or timeout: the counter, the list and the map agree, the caller does not sleep with room, a flush answers what is pending and only that, and the whole implements `CaptureContract` |
| `gnss_tracking` | `TypeOK`, `AnsweredOnce`, `EngineServesSessions`, `TrackedOneWay` | two clients, sessions of four kinds of options, updates between time and distance, one refusal or restart of the engine: each command is answered once, but for the starts that the adapter ignores, and once all is answered the engine serves the sessions of the maps |
| `loc_timer` | `ArmedForSoonest`, `DeletedIsForgotten`, `EveryTimerEnds` | two timers started three times on one container, stopped and expiring in every order: the disarming of the polling thread never undoes the arming of the message task, nothing that was deleted is used, and each started timer ends |
| `hal3_postproc` | `OwnPicture`, `WorkIsSignalled`, `EveryPictureEnds` | three requests, live and from an input buffer, the latter with or without reprocessing, with one stop and one refusal: pictures are put together right, no job waits without a command, each request is answered or ended |
| `hal3_cached`, `gnss_active`, `timer_early` | one each | violated: see [below](#where-code-and-comments-disagree) |

Three of the properties say nothing after a history variable is set: `spoilt` in
`Hal3Requests` (a flush met reprocess requests, or broke off), `spoilt` in
`GnssTracking` (a command about distances overtook the answer of the one before it, a
refusal nobody repairs, a client removed with a time-based session) and `muddled` in
`Hal3PostProc` (settings left behind by a stop, a live and an input request waiting for
theirs together, or an input request that needs no reprocessing finding those of others). In those situations the code does go wrong in the way the
property forbids; the comments in the modules and the hazards say how.

## Bounds

| bound | value | why it is enough |
|---|---|---|
| `Handles` | 2 | two subscribers of one machine, and one of each of two machines |
| `MaxInFlight` (messages and commands under way) | 3 | three let the stale GRANTED of a request that was released meet the next request while that is still before the framework (request, release, request or answer). Answers and closes are never held back by the bound |
| `UseEmergencyPdn` | FALSE | the default is TRUE (ContextBase.cpp:140) and only lets an emergency request keep its own type of APN; with it the space is half as large again and beyond five minutes. The theorems hold for both |
| `Streams`, `Clients` of PollThread | 2, 2 | two waiters to confuse, two entries of which one is stale |
| `MaxPipe` | 1 (a client writes while the pipe holds fewer) | with two clients, callbacks and the release the pipe reaches four commands; the pipe is FIFO |
| `Bufs` of StreamBuf | 2 (`InitialRegs` one; the theorems hold for none, as with HAL3's streams, and any) | counts 0, 1 and 2: the 0↔1 transitions start and stop polling; buffers are symmetric |
| `Streams`, `MaxFrame` of SuperbufQueue | metadata and one other, 4 frames | matched, half-matched and overtaken superbufs at once; beyond the queue's water mark of 2 |
| `MaxEvents` | 3 commands or metadata with news | start, disturb, stop of a ZSL mode |
| `MaxOps` of the state machine | 4 operations (each up to 4 calls) | preview, capture, interrupt, capture again |
| `MaxFrame` of Hal3Requests, `MinInFlight`, `MaxInFlight` | 3, 2, 3 | the caller waits at two live requests and may be let on to a third; one request lost, one late, one answered |
| `MaxUpsets` | 1 | one flush, daemon event, refusal, timeout or failed stop; the death of the daemon leads to device errors of both threads, which are not bounded. With 2 the state space is beyond five minutes; the proofs have no bound |
| `Streams` of Hal3Requests | a JPEG and another | requests on one, the other and both |
| `Sessions`, `Clients` of GnssTracking, `Options` | 2, 2, four options | the smaller interval with the larger power mode, a power mode of 0 (which the scan takes for "not set") and a distance |
| `MaxCommands`, `MaxFaults` of GnssTracking | 4, 1 | start both, change one, stop or remove one |
| `Timers`, `MaxStarts`, `MaxTime` of LocTimer | 2, 3, 3 | two in the heap and one started again while the expiry of its predecessor is handled |
| `Containers` of LocTimer | 1 (2 in the code) | containers share the message queue and the two threads, and nothing else; `poll.due` has the second one's events |
| `MaxFrame`, `MaxStops`, `MaxFaults` of Hal3PostProc | 3, 1, 1 | one job at the encoder, one in the hardware, one waiting for its pair; a picture after a stop |

Frame loss needs no bound: a stream delivers any later frame next. Bounds appear only in
guards that keep the environment from adding more; none of them stops a step of the code.

## Fairness

Liveness is checked under weak fairness of the threads: each blocks only on its
own queue, pipe or condition variable, which is part of the model, so a thread
that can go on does. Environment actions are fair only where a property is about
answering it: the framework answers AGPS commands and finishes the call its
thread is in (`Agps`), the camera reports what it was asked for
(`QCameraStateMachine`), the camera, the reprocess hardware and the encoder deliver
what they were given (`Hal3PostProc`), and time goes on (`LocTimer`). Nobody is obliged to make a
new call, to flush, or to stop. `Hal3Requests` and `GnssTracking` have no liveness
property: their promises are stated of the moments at which nothing is under way
(`Quiet`), for which no fairness is needed. One case needs strong fairness.
In `PollThread` a waiter of a condition variable on which the others may wait
again and again is woken at some time, which POSIX' scheduling order of waiters
gives. In `StreamBuf` fairness is weak: the poll thread runs on, the cmd thread goes on with its
queue, a stop that was begun goes on, and each owner sooner or later returns some buffer that
it holds.

Deadlock checking is off where the system may stop: a released poll thread, a stopped channel, a
framework that has made its calls or its requests, timers that have all ended.

## Proofs

TLC checks instances; TLAPS proves the following for every number of handles,
streams, threads, every bound and every setting of the flags.

| theorem | says | assumptions | inductive invariant |
|---|---|---|---|
| `AgpsProofs!Typed` | `Spec => []TypeOK` | `AgpsAssumption` | `TypeOK /\ ConnectionHasUser` (`StepInv`), one step per event of the state machine |
| `AgpsProofs!ConnectionHasUserAlways` | a machine is RELEASED exactly when it has no subscriber | | the same: each event that removes subscribers has to leave somebody or change the state in the same step |
| `AgpsProofs!WaitingIsOwedAlways` | PENDING has its request before the framework or the answer in the queue, unless the machine met an unusable APN | | `Owed(n)` for each machine, with `TypeOK`: inductive as it stands, because an event that moves a machine into PENDING sends the command in the same step, and any answer that a waiting machine ignores is of the other kind |
| `StreamProofs!PollTyped` | `PollSpec => []PollTypeOK`: the pipe never holds more commands than its bound | `PollThreadAssumption`: finitely many streams and threads | `PipeHasRoom`: what is in the pipe, what is about to be written and who waits are together within the bound |
| `StreamProofs!SyncDelIsQuietAlways` | after a synchronous delete the stream is not being notified | `PollThreadAssumption` | `DeletedIsQuiet`: it has no entry either, so that no scan can start on it |
| `StreamProofs!PollSetIsCurrentAlways` | asleep, with nothing under way, the thread polls what is registered | | `NewsOnItsWay`: a difference between entries and polled fds is with a caller, in the pipe, or with the callback that the thread is in |
| `StreamProofs!EveryWaiterHasASignalAlways` | waiters and pending signals are equally many | | `Waits = Signals` with the launching thread counted in; lemmas on the cardinality of waiters and of pending commands under Append and Tail |
| `Hal3RequestsProofs!Typed` | `Spec => []TypeOK`; that `live` is a natural number means that the unsigned counter never wraps | `HalAssumption` | `Sound`: `Types`, `Kinds` (what a frame's kind says of the sets it is in), `Stops` (what a flush has already silenced), `Awake`, and `Counted` (while the device runs, `live` is at most the number of live requests in the list) |
| `Hal3RequestsProofs!NoIdleWaitAlways` | the caller does not sleep unsignalled with room for a request | | `Awake`, a conjunct of `Sound` |
| `Hal3RequestsProofs!FlushAnswersPendingAlways` | a flush that met no reprocess request fails nothing that was answered and stays within the list | | `Sound /\ Ledger`; `Ledger` says, until the contract is void, of each frame where it is: what was heard of it, which of its buffers are in the map, which the channels owe, and that live frames leave the list in order |
| `Hal3RequestsProofs!KeepsContractHolds` | `Spec => Contract!Spec` | | the same; each step either sets `spoilt` or is a step, or a stutter, of `CaptureContract` |
| `Hal3RequestsProofs!BooksAgreeAlways` | the counter, the list and the map agree, and nothing is left behind when nothing is at work | | `Sound /\ Ledger /\ Accounted`; `Accounted` says, until a flush met reprocess requests, that `mFlush` is of a flush under way, that the counter is level while requests are served, that the map has every buffer that is out (`Kept`), and that whatever is pending or out has a channel that owes it (`Attended`) |
| `AgpsProofs!FrameworkAgreesAlways` | manager and framework agree on every connection, whatever the APNs | | `Agreed(n)`: commands alternate (`Ordered`), an "opened" on its way is of a connection that is up or is followed by its close (`Covered`), an acquired one likewise (`Backed`) |
| `AgpsProofs!ModemAgreesAlways` | the modem and the manager agree on every handle, whatever the APNs | | `Books`, for each handle: its messages in the queue have one of few shapes (`Shape`: at most one request, with at most one release on each side of it), and where the modem's view, the subscriber lists and those messages may differ, the difference is a message on its way (`Known`) |
| `StreamProofs!RefcntIsOwedAlways` | each counted reference is owed by somebody; the driver has no buffer in use | `StreamBufAssumption`, `Quiet` | `Ind`: a buffer is in one place (driver, poll thread, an owner who is returning it, in use), never in two (`OnePlace`); its count is that of its holders and of those still to be handed it (`Counted`, `Handed`) |
| `StreamProofs!PolledWhileQueuedAlways` | the queued count and the polling follow the buffers, with any buffers registered first or none | the same | `Ind /\ Queue`; `Queue` counts what is with the driver and what is between an ioctl and its book-keeping |
| `StreamProofs!Typed` | `Spec => []TypeOK`: the 8-bit reference count does not wrap, and the count of queued buffers does not go below zero | the same and `Quiet` | `Ind /\ Books`; `Books` counts the buffers with the driver, without the entry of the poll thread |
| `SuperbufQueueProofs!Typed` | `Spec => []TypeOK`: the unsigned counters of the channel do not wrap | `SuperbufQueueAssumption`: the types of the attributes, requests and metadata | `Inv`, below, for all five |
| `SuperbufQueueProofs!MatchedAreFirst` | matched superbufs are at the head, and `match_cnt` is their number | | `First`, and `match_cnt` as a count of nodes (`Hits`); a match releases the nodes from the first older one up to itself, so it keeps `First` only if no unmatched node before it is newer, which is the order of the nodes in `Loose` (last row) |
| `SuperbufQueueProofs!RoomIsAlwaysMade` | the queue is trimmed to its water mark, and at most one unmatched superbuf is over the limit | | `Drained` after each command, and the bound on the unmatched nodes in `Rough` |
| `SuperbufQueueProofs!BuffersInOnePlace` | a buffer is in one superbuf, sent, returned once, or lost by a failed start | | `Books`: for each stream, what is owed is what was lost, what the nodes have, and, inside a command, what was just delivered |
| `SuperbufQueueProofs!SentOnlyInOrder` | `Spec => SentInOrder`: no superbuf goes out after a newer one | | `Loose`: what each node holds fits its frame (`Fits`); of two nodes the first is older, or the second is `Doomed`: a stream that it lacks has gone past its frame, so it is never sent; and each node is newer than the last one sent, or doomed |
| `QCameraStateMachineProofs!Typed` | `Spec => []TypeOK`: what the handlers, the callers, the deferred job, the live snapshot thread and the notifier share keeps its types | `ConfigsAssumption`, `BoundsAssumption` | `Ind`, below, for all six |
| `QCameraStateMachineProofs!CaptureHasStateAlways` | a running capture is in a state that can end it, or with the thread that cancels it; in PREVIEW_STOPPED nothing runs | | `Sound(hw)`: for each state what preview, recording and capture may be. It is a property of the record alone, so that each handler keeps it whatever the threads are doing |
| `QCameraStateMachineProofs!WantedMessagesAlways` | a message that the application enabled is enabled or delayed | | `Wanted`: also while the call that enables it is on its way |
| `QCameraStateMachineProofs!NoStrayAnswerAlways` | while the daemon lives a result in the list is the only one of the call that waits, or of a call the HAL made itself | | `QuickOne`: a call that is answered at once is queued or answered, not both, once, and only while its caller waits. `SlowOne`: a call that waits for the camera is at one of four stages, once (queued, due, announced, answered) |
| `QCameraStateMachineProofs!OnlyRetroForgotten` | whoever waits is answered, queued, or waited on by a state and an event, unless it waits for pictures of the queue or for their light | | `Attended`: that, of the call that waits, next to `Ind` |
| `QCameraStateMachineProofs!NobodyForgottenAlways` | nobody who waits is forgotten | the same, and the client of a camera with pictures from the queue lets its captures end (`LetsEnd`) | `Minded`: for a camera without such pictures `Attended`; for one with them `Waits` and `Lean`, which says that no call that cuts a capture short is under way (`Undisturbed`), that the light is measured after the capture started (`LightAfter`, `Unlit`), and that the end of a capture is announced last (`Order`): the pictures announced or on their way to the application are no more than those that were taken (`Load`, `Pictured`), the queued ones come first and then the light (`InTurn`), and no news of either is behind the last picture's event (`NewsFirst`) |
| `LocTimerProofs!Typed` | `Spec => []TypeOK` | `TimerAssumption` | `Types`: also that every message names a delegate of its container |
| `LocTimerProofs!DeletedIsForgottenAlways` | nothing that was deleted is used again | | `Life`: the message that removes a delegate is the last about it (`LastWord`), and a delegate that its timer has is not being removed |
| `LocTimerProofs!ArmedForSoonestAlways` | the timerfd is polled and armed for the soonest delegate unless somebody is about to see to it | | `Armed`: for each place of the two threads, who still has to re-arm |
| `Hal3PostProcProofs!WorkIsSignalledAlways` | no job waits for a command that nobody sends | `PostProcAssumption` | `Flushed` (inactive queues are empty) and `Signalled`: there are at least as many DO_NEXT_JOB commands, the one in hand counted, as framework inputs, as complete pairs, and as it takes to start an encoder job |
| `Hal3PostProcProofs!OwnPictureAlways` | a picture has the settings, the metadata and the answer of its own request, a request one answer, and the encoder one job | `PostProcAssumption` | `Control /\ OneJob /\ InOrder` on top of that invariant. `Control`: one call to start or stop at a time, whose caller waits, so the queues take what they are given whenever a request is queued. `Ahead`, until muddled: the settings are sorted, and either all live, the images and the metadata that have arrived being a prefix of them and those to come the rest, or all of input requests, which wait in `inputFWK` in the same order. `Behind`: the frames in the hardware are those of the ongoing jobs in order, every job is of one request, and there is a function `w` from requests to stages (`Placed`): a request is in one queue, once |
| `GnssTrackingProofs!TypedAlways` | `Spec => []TypeOK` | `GnssAssumption`: finitely many sessions | `Types`: also that nothing waits once the capabilities are known, that an engine that is down has no session, and that an update by distance has options with a distance |
| `GnssTrackingProofs!AnsweredOnceAlways` | a command of a client that is there is answered once, unless it is a start that the adapter ignores | | `Types` and `Owed`: the answers due to a session are at least the requests that will report to it and its commands that wait (`Owing`), and exactly those until the run is spoilt (`Exact`); lemmas on how many requests of a queue concern a session under Append, Tail and `\o` |
| `GnssTrackingProofs!EngineServesSessionsAlways` | when all is quiet the engine does what the maps say | | `Sounds /\ Fix`. `Sound(s)`, for each session: one request about distances at a time (`Sole`, `Order`), the map holds the session until the engine was asked to switch, and with no request left the engine agrees (`Kept`), a switch to distance is the last word (`Over`), a refused start leaves nothing and a refused stop leaves the session in the engine (`Begins`, `Held`). `Fix`: the last request in the queue that changes the fix session, or without one the engine itself, fits the time-based sessions; each command's requests keep that (`Serves`), whichever way the scan of the unordered map goes |
| `GnssTrackingProofs!TrackedOneWayAlways` | a session is tracked by time or by distance | | `OneWay`, a conjunct of `Sound`, with `Over`, `Order` and `Starts` (a session that has not started is nowhere) |

The assumptions are the types of the constants, with two exceptions, each the case
the property is about.
`Quiet`: the owners have returned a stream's buffers when its stop begins, which
`mm_camera.c:525` expects; without it a buffer returned during the stop adds the fd again
(below).
`LetsEnd(c)` of a camera with pictures from the queue: its client does not stop the preview, cancel
the picture, switch longshot or record, and a capture that needs the light has a picture left to take
with it: with none left the capture ends while the light is measured, and whoever waits for the light
is left (TLC finds that within seconds for one picture, from the queue, with flash). A client that
interrupts its own capture leaves the thread that takes the pictures waiting (below);
`OnlyRetroForgotten` says, of every camera, that this is the only thread that may be left. The four
cameras of the run `state_machine` meet the assumption.

Only model-checked: the liveness properties (`CallsAnswered`, both `CallsReturn`, `DriverIsFed`,
`EveryTimerEnds`, `EveryPictureEnds`), since TLAPS has no rule for fairness and `ENABLED`.

The proofs about `QCameraStateMachine` are in three layers. `Keeps(h, g, F)` says that a handler
changes no field but those in `F`, which most of the invariant needs of most handlers. `Call(h, e, g)` and
`EventStep(h, e, g)` are the contract of a handler: what the answer to a call, or the handling of an
event, may do to the queues, the results, the capture and the state; there is one lemma for each of
the eight states that its handler keeps the contract and `Sound`. The steps of the threads are then
proved from the contract alone. The other parts of `Ind` are facts of two threads that the answers
rest on: what an operation still has to call (`Planned`), that the daemon's death is announced
once, that PREVIEWING waits for a light only if one will be reported (`Measuring`), that
the preview stopped for new parameters stays stopped until its restart (`Refreshed`).

The loops of `SuperbufQueue` (overflow, skip, flush, dispatch, the release of older nodes) are
turns of one recursive function over the naturals, `repeat`, which a proof can reason about: what
every turn keeps, the loop keeps. The model gives a loop as many turns as the queue has nodes. That
is all that the code can need, since each turn removes one, unless an unmatched head keeps the
loop of overflow or skip from ever ending; `MatchedFirst` and `RoomIsMade` rule that out, the proof of
the second by counting the matched nodes that each turn takes.

## Where code and comments disagree

Three runs end in a counterexample, each to a statement that a comment makes.

* `hal3_cached` — "Cache reprocess result for later" (QCamera3HWI.cpp:3363): the only
  delivery looks for the frame after the one whose metadata has come (line 3118). A cached
  result behind another reprocess request, or two frames on, is never sent.
* `gnss_active` — "the smallest interval, which should be the active one"
  (GnssAdapter.cpp:2154): a removed client's time-based sessions are stopped
  in the engine and stay in the map (line 2033), so the map's smallest interval is not the
  active one, and the next restart of the engine starts it for nobody.
* `timer_early` — "pop the heap until the top node's timeout is in the future"
  (LocTimer.cpp:356): the first pop (line 370) does not look at the time. When
  the timer that expired was stopped before its message is handled, the next
  one calls back early.

Others are described here and at their hazards, and the properties exempt them:

* An open with an unusable APN is turned into a close ("In case of failure reporting the
  same", GnssAdapter.cpp:4380), which PENDING ignores: the modem's request is never answered.
  An empty APN is not reported at all (AGnss.cpp:147).
* "responseCallback is called for every Tracking ... API" (LocationDataTypes.h:1319), with
  LOCATION_ERROR_CALLBACK_MISSING or LOCATION_ERROR_INVALID_PARAMETER for a start that cannot be
  served (LocationAPI.h:71): `MsgStartTracking::proc` sets that error (GnssAdapter.cpp:2410, 2412) and
  returns without reporting it. `AnsweredOnce` says nothing of such a start but that it is not
  answered later either.
* After REQUEST, RELEASE, REQUEST a stale GRANTED and its close may be taken for the answers to the
  newer request: when the real GRANTED comes the machine is RELEASED and ignores it, and the
  framework keeps a connection that nobody will release (Agps.cpp:178).
* A buffer whose cache operation or QBUF fails is with nobody until the next registration
  (mm_camera_stream.c:1507, 1688, 1717); a stream that loses its last one is silent. A registration that fails part
  way leaves its buffers with the driver (mm_camera_stream.c:2164).
* A stream that gets no buffer when it is registered may have kept the poll entry of an
  earlier session, and is then polled before its first buffer.
* `mm_stream_streamoff` means to wait for pending updates (mm_camera_stream.c:1216),
  but does so only if `del_poll_fd` fails, which it does not when an
  asynchronous delete came first: STREAMOFF overlaps the callback.
* A buffer returned between "remove fd from data poll thread" (mm_camera_stream.c:1212) and
  the end of the stop adds the fd again.
* The flush of a failed start (mm_camera_channel.c:1611, 3200) frees superbufs but returns only
  the buffers of one stream type; those of linked streams are lost.
* The notifier's START and STOP are both put at the head of its queue
  (QCameraPostProc.cpp:316), so an old STOP may be executed after a new START.
* When the light must be measured and all pictures come from the queue, SNAPSHOT_DONE can
  bring the machine back to PREVIEWING before PREP_SNAPSHOT_DONE, which PREVIEWING ignores:
  `prepare_snapshot` never returns (QCameraStateMachine.cpp:3529).
* With pictures from the queue, the thread in `take_picture` waits for the queue or for the light in
  PREVIEW_PIC_TAKING. CANCEL_PICTURE, STOP_PREVIEW and LONGSHOT_OFF of another thread, or the late
  end of a live snapshot or of a preview's capture, take the machine to a state that ignores the event it waits for
  (QCameraStateMachine.cpp:1420).
* CANCEL_PICTURE and STOP_PREVIEW in PIC_TAKING leave a restarted preview running on
  cameras with `persist.camera.feature.restart` (QCameraStateMachine.cpp:2032).

## Not modelled

See the notes in `PROJECT.json`. In short:

* Parameters, formats, EXIF, tables of tags, NMEA, conversions of HIDL types and
  configuration files are data without control; they are most of the lines of the tree
  (QCameraParameters.cpp, the translation of settings and metadata in QCamera3HWI.cpp,
  the set-up of streams in QCamera3Channel.cpp).
* The small services read or write one file per call.
* Concurrent and left out: the frame sync of two cameras' channels, the launch and
  release of cmd threads, the camera object with its socket, the data threads of HAL1's
  channels, HAL1's postprocessor (of the shape of `Hal3PostProc`), mm-jpeg's queues and abort, the
  muxer of two cameras, the client base of the location API, geofences and batching, the
  batch mode of a stream.

## Plan

Done: the nine component modules above, one abstract specification with its refinement,
and proofs of every safety property. What would come next, in this order:

1. **LocationClient** (LocationAPI.cpp, LocationAPIClientBase.cpp): requests and
   responses, destruction with up to three adapters; composed with `GnssTracking`, which
   already has the adapter's side.
2. **JpegQueues** (mm_jpeg.c): sessions, abort and the encoder's thread, in place of the
   external encoder of `Hal3PostProc`.
3. **FrameSync** (mm_camera_channel.c:3318-3641), composed of two instances of the interface
   of SuperbufQueue: lock order and matching.
4. **Muxer**, **CmdThread**, geofences and batching.
5. **StreamBuf refines a buffer's life** (driver, owners, driver) as an abstract
   specification; PollThread and StreamBuf composed for the stop.

Proofs left: those of the modules above. Every invariant and every action property that a passing
run checks has its theorem.
