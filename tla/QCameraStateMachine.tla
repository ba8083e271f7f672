------------------------ MODULE QCameraStateMachine ------------------------
(***************************************************************************)
(* The camera HAL's state machine (QCameraStateMachine.cpp) with the       *)
(* threads that talk to it: the framework thread that calls the device's   *)
(* operations and waits for their results (QCamera2HWI.cpp), the thread    *)
(* that notifies the application of its pictures (QCameraCbNotifier in     *)
(* QCamera2HWICallbacks.cpp), the deferred job that starts the             *)
(* postprocessor, the thread that takes a live snapshot, and the camera.   *)
(*                                                                         *)
(* Everything a handler of the state machine changes is one record, hw,    *)
(* and a handler is the set of records it may leave.  One camera only: the *)
(* events that the muxer of two cameras sends are not here.                *)
(***************************************************************************)
EXTENDS Naturals, Sequences, SequencesExt

CONSTANTS
  Configs,    \* settings of the camera: see ConfigOK
  MaxOps      \* bound: operations the framework calls

\* What the framework calls, see calls.
Operations ==
  {"setWindow", "enableMsg", "disableMsg", "previewEnabled", "set_parameters",
   "other", "startPreview", "startNoDisplay", "stopPreview", "start_recording",
   "stopRecording", "take_picture", "cancelPicture", "longshotOn",
   "longshotOff", "release"}

\* zsl: zero shutter lag; restart: persist.camera.feature.restart;
\* pictures: of a capture; retro: those that are already in the queue of the
\* channel;
\* flash: the light has to be measured before a picture; faulty: starting a
\* stream or a capture may fail; ops: the operations the framework calls.
ConfigOK(c) ==
  /\ DOMAIN c = {"zsl", "restart", "pictures", "retro", "flash", "faulty", "ops"}
  /\ c.pictures \in Nat \ {0} /\ c.retro \in 0 .. c.pictures
  /\ {c.zsl, c.restart, c.flash, c.faulty} \subseteq BOOLEAN
  /\ c.ops \subseteq Operations

ASSUME ConfigsAssumption == \A c \in Configs : ConfigOK(c)
ASSUME BoundsAssumption == MaxOps \in Nat

VARIABLES
  config,   \* the settings, chosen once
  hw,       \* what the handlers read and write
  apiQ,     \* api_queue
  app,      \* the framework thread
  note      \* the notifier thread

vars == <<config, hw, apiQ, app, note>>

States == {"STOPPED", "READY", "PREVIEWING", "PREPARE", "PIC", "RECORDING",
           "VIDEO_PIC", "PREVIEW_PIC"}
Capturing == {"PIC", "VIDEO_PIC", "PREVIEW_PIC"}

\* "other" stands for the calls that read or write settings only.
Apis == {"setWindow", "enableMsg", "disableMsg", "previewEnabled", "setParams",
         "setParamsStop", "setParamsRestart", "other", "startPreview",
         "startNoDisplay", "stopPreview", "preStartRecording",
         "startRecording", "stopRecording", "prepareSnapshot",
         "preTakePicture", "takePicture", "cancelPicture", "longshotOn",
         "longshotOff", "release", "regFace", "stopCaptureChannel"}
Evts == {"snapshotDone", "jpeg", "prepDone", "ready", "daemonDied"}

-----------------------------------------------------------------------------
(* What a handler does to the hardware.  A step that can fail is a set of  *)
(* pairs of what it leaves and whether it succeeded.                       *)

fallible(good, bad) ==
  (IF good.dead THEN {} ELSE {<<good, TRUE>>})
    \cup (IF config.faulty \/ good.dead THEN {<<bad, FALSE>>} ELSE {})

succeeded(s) == {p[1] : p \in {q \in s : q[2]}}
failed(s) == {q \in s : ~q[2]}

\* Moves to state good after a success and to state bad after a failure.
moved(s, good, bad) ==
  {<<[p[1] EXCEPT !.state = IF p[2] THEN good ELSE bad], p[2]>> : p \in s}

in(h, state) == [h EXCEPT !.state = state]

preparePreview(h) == fallible([h EXCEPT !.preview = "prepared"], h)
stopPreview(h) == [h EXCEPT !.preview = "none"]
startPreview(h) == fallible([h EXCEPT !.preview = "started"], h)

startOrUnprepare(h) == fallible([h EXCEPT !.preview = "started"], stopPreview(h))

\* Mutant: the delayed messages are forgotten.
dropDelayedMsgs(h) == [h EXCEPT !.delayed = @ /\ ~h.delay, !.delay = FALSE]

applyDelayedMsgs(h) ==
  [h EXCEPT !.enabled = @ \/ (h.delay /\ h.delayed),
            !.delayed = @ /\ ~h.delay, !.delay = FALSE]

prepareAndStart(h) ==
  LET p == preparePreview(h)
  IN failed(p) \cup UNION {startOrUnprepare(g) : g \in succeeded(p)}

prepareApplyStart(h) ==
  LET p == preparePreview(h)
  IN failed(p) \cup UNION {startOrUnprepare(applyDelayedMsgs(g)) : g \in succeeded(p)}

\* The restart that a change of the recording hint causes, if it changes.
preTakePicture(h) == {<<h, TRUE>>} \cup prepareAndStart(stopPreview(h))
preStartRecording(h) ==
  LET p == preparePreview(stopPreview(h))
  IN {<<h, TRUE>>} \cup failed(p) \cup UNION {startPreview(g) : g \in succeeded(p)}

startRecording(h) == fallible([h EXCEPT !.recording = TRUE], h)
stopRecording(h) == [h EXCEPT !.recording = FALSE]

\* A capture is still (the ZSL or the CAPTURE channel) or live (SNAPSHOT).
begun(h, kind) ==
  [h EXCEPT !.capture = kind, !.job = TRUE, !.shots = 0, !.ready = FALSE,
            !.lit = FALSE, !.stopSent = FALSE]

\* What a capture that does not start leaves: nothing, or what its job told
\* the notifier.  Both commands go to the front of the notifier's queue, so
\* the second one is taken first unless the first is gone by then.
notBegun(h) ==
  {h} \cup IF config.zsl
           THEN {[h EXCEPT !.pproc = FALSE, !.cmds = told \o @] :
                   told \in {<<"STOP", "START">>, <<"START", "STOP">>}}
           ELSE {[h EXCEPT !.pproc = TRUE, !.cmds = <<"START">> \o @]}

begin(h) == UNION {fallible(begun(h, "still"), b) : b \in notBegun(h)}

\* Without zero shutter lag the preview stops before the capture starts.
takePicture(h) ==
  IF ~config.zsl THEN begin(stopPreview(h))
  ELSE IF h.preview = "none" THEN {<<h, FALSE>>} ELSE begin(h)

longShot(h) ==
  IF h.capture # "none" /\ (config.zsl => h.preview # "none")
  THEN fallible([h EXCEPT !.shots = 0], h) ELSE {<<h, FALSE>>}

\* The end of the postprocessor, and its stopSnapshots.
stopPostproc(h) == [h EXCEPT !.pproc = FALSE, !.cmds = <<"STOP">> \o @]

\* Of a capture of the given kind.
ended(h, kind) == [h EXCEPT !.capture = IF @ = kind THEN "none" ELSE @]

\* Waits for the deferred job: there is no step while it has not run.
cancelPicture(h) == IF h.job THEN {} ELSE {stopPostproc(ended(h, "still"))}

\* Both join the live snapshot thread before they start it again.
takeLiveSnapshot(h) == IF h.live # "none" THEN {} ELSE {[h EXCEPT !.live = "take"]}
cancelLiveSnapshot(h) == IF h.live # "none" THEN {} ELSE {[h EXCEPT !.live = "cancel"]}

\* sendCommand with CAMERA_CMD_LONGSHOT_ON and CAMERA_CMD_LONGSHOT_OFF.
longshotOn(h) ==
  IF h.state \in Capturing THEN {<<h, FALSE>>}
  ELSE {<<[h EXCEPT !.longshot = TRUE, !.prepRun = FALSE], TRUE>>}

\* Mutant: the capture goes on after LONGSHOT_OFF.
longshotOffOnly(h) ==
  {<<[h EXCEPT !.longshot = FALSE, !.prepRun = FALSE], TRUE>>}

longshotOff(h) ==
  {<<[g EXCEPT !.longshot = FALSE, !.prepRun = FALSE], TRUE>> :
     g \in IF h.longshot /\ h.state \in Capturing
           THEN {[c EXCEPT !.evts = Append(@, "snapshotDone")] : c \in cancelPicture(h)}
           ELSE {h}}

-----------------------------------------------------------------------------
(* Answers.                                                                *)

signalAPIResult(h, api, ok) ==
  [h EXCEPT !.results = Append(@, [api |-> api, ok |-> ok])]

signalEvtResult(h) == [h EXCEPT !.evtResult = TRUE]

reply(e, s) == {signalAPIResult(p[1], e, p[2]) : p \in s}
replyOk(e, s) == {signalAPIResult(h, e, TRUE) : h \in s}

\* The calls a state answers with INVALID_OPERATION.
Refused ==
  [STOPPED |-> {"preStartRecording", "startRecording", "stopRecording",
                "prepareSnapshot", "preTakePicture", "takePicture"},
   READY |-> {"preStartRecording", "startRecording", "stopRecording",
              "prepareSnapshot", "preTakePicture", "takePicture",
              "cancelPicture", "release"},
   PREVIEWING |-> {"setWindow", "cancelPicture", "stopRecording", "release"},
   PREPARE |-> Apis \ {"regFace", "stopCaptureChannel"},
   PIC |-> {"setWindow", "prepareSnapshot", "preStartRecording",
            "startRecording", "stopRecording", "startPreview",
            "startNoDisplay", "release"},
   RECORDING |-> {"setParams", "setParamsStop", "setParamsRestart",
                  "cancelPicture", "startNoDisplay", "release"},
   VIDEO_PIC |-> {"setWindow", "setParams", "setParamsStop",
                  "setParamsRestart", "preStartRecording", "startRecording",
                  "startPreview", "startNoDisplay", "prepareSnapshot",
                  "preTakePicture", "takePicture", "release"},
   PREVIEW_PIC |-> {"setWindow", "stopRecording", "startPreview",
                    "startNoDisplay", "release"}]

\* The calls a state does not know, and so never answers.
Unanswered ==
  [s \in States |-> IF s = "PREPARE" THEN {"regFace", "stopCaptureChannel"}
                    ELSE IF s = "PIC" THEN {} ELSE {"stopCaptureChannel"}]

\* What the calls do that every state handles alike.
common(h, e) ==
  CASE e = "enableMsg" -> {<<[h EXCEPT !.enabled = TRUE], TRUE>>}
    [] e = "disableMsg" -> {<<[h EXCEPT !.enabled = FALSE], TRUE>>}
    [] e = "longshotOn" -> longshotOn(h)
    [] e = "longshotOff" -> longshotOff(h)
    [] e = "other" -> fallible(h, h)
    [] OTHER -> {<<h, TRUE>>}

plain(h, e) ==
  CASE e = "snapshotDone" -> {signalEvtResult(h)}
    [] e \in (Evts \ {"snapshotDone"}) \cup Unanswered[h.state] -> {h}
    [] e \in Refused[h.state] -> {signalAPIResult(h, e, FALSE)}
    [] OTHER -> reply(e, common(h, e))

\* Mutant: only TAKE_PICTURE is thought to wait for the camera.
stopTakeWait(h) == signalAPIResult(h, "takePicture", TRUE)

\* The daemon is gone: answers whoever may be waiting for the camera.
stopIndefiniteWait(h) ==
  signalAPIResult(signalAPIResult(h, "prepareSnapshot", TRUE), "takePicture", TRUE)

processJpegNotify(h) ==
  [h EXCEPT !.data = @ + 1, !.cmds = Append(@, "JOB")]

-----------------------------------------------------------------------------
(* The handlers, one per state.                                            *)

procEvtPreviewStoppedState(h, e) ==
  CASE e = "setWindow" -> {signalAPIResult([h EXCEPT !.window = TRUE], e, TRUE)}
    [] e = "startPreview" /\ ~h.window ->
         reply(e, moved(preparePreview(h), "READY", h.state))
    [] e = "startNoDisplay" \/ (e = "startPreview" /\ h.window) ->
         reply(e, moved(prepareApplyStart(h), "PREVIEWING", h.state))
    [] e = "release" ->
         {signalAPIResult([stopPreview(stopRecording(h)) EXCEPT !.capture = "none"], e, TRUE)}
    [] OTHER -> plain(h, e)

\* START_PREVIEW and START_NODISPLAY_PREVIEW report success even if the
\* preview did not start.
procEvtPreviewReadyState(h, e) ==
  CASE e = "setWindow" ->
         reply(e, moved(startOrUnprepare(applyDelayedMsgs([h EXCEPT !.window = TRUE])),
                        "PREVIEWING", "STOPPED"))
    [] e = "startNoDisplay" \/ (e = "startPreview" /\ h.window) ->
         replyOk(e, {p[1] : p \in moved(startOrUnprepare(h), "PREVIEWING", "STOPPED")})
    [] e = "setParamsStop" -> {signalAPIResult(stopPreview(h), e, TRUE)}
    [] e = "setParamsRestart" ->
         reply(e, moved(preparePreview(h), h.state, "STOPPED"))
    [] e = "stopPreview" ->
         {signalAPIResult(in(stopPreview(h), "STOPPED"), e, TRUE)}
    [] OTHER -> plain(h, e)

\* Mutant: the caller is answered though the camera has not measured the light.
prepareSnapshotAnswersAtOnce(h, e) ==
  {IF p[2] THEN signalAPIResult([p[1] EXCEPT !.state = "PREPARE", !.prep = TRUE], e, TRUE)
   ELSE signalAPIResult(h, e, FALSE) : p \in fallible(h, h)}

\* PREPARE_SNAPSHOT is answered only when the camera is done with it.
prepareSnapshot(h, e) ==
  {IF p[2] THEN applyDelayedMsgs([p[1] EXCEPT !.state = "PREPARE", !.prep = TRUE])
   ELSE signalAPIResult(h, e, FALSE) : p \in fallible(h, h)}

\* TAKE_PICTURE while previewing, when the preview can go on.  With
\* pictures from the queue it is answered when the camera has them.
takeWhilePreviewing(h, e) ==
  {IF ~p[2] THEN signalAPIResult(in(p[1], "PREVIEWING"), e, FALSE)
   ELSE IF h.retro THEN p[1] ELSE signalAPIResult(p[1], e, TRUE) :
     p \in takePicture([h EXCEPT !.state = "PREVIEW_PIC", !.delay = TRUE])}

\* TAKE_PICTURE when the preview has to stop: it restarts after a failure.
takeInstead(h, e) ==
  UNION {IF p[2] THEN {signalAPIResult(p[1], e, TRUE)}
         ELSE {signalAPIResult(q[1], e, FALSE) :
                 q \in moved(prepareAndStart(stopPreview(p[1])), "PREVIEWING", "STOPPED")} :
           p \in takePicture(in(h, "PIC"))}

\* LONGSHOT_ON may need a preview with more buffers.
longshotRestart(h, e) ==
  reply(e, longshotOn(h)
             \cup IF config.zsl
                  THEN UNION {prepareApplyStart(stopPreview(p[1])) : p \in longshotOn(h)}
                  ELSE {})

enableWhilePreviewing(h) ==
  IF h.delay THEN [h EXCEPT !.delayed = TRUE] ELSE [h EXCEPT !.enabled = TRUE]

disableWhilePreviewing(h) ==
  [h EXCEPT !.enabled = FALSE, !.delayed = @ /\ ~h.delay,
            !.delay = @ /\ ~h.delayed]

procEvtPreviewingState(h, e) ==
  CASE e = "enableMsg" -> {signalAPIResult(enableWhilePreviewing(h), e, TRUE)}
    [] e = "disableMsg" -> {signalAPIResult(disableWhilePreviewing(h), e, TRUE)}
    [] e \in {"startPreview", "startNoDisplay", "previewEnabled"} ->
         {signalAPIResult(applyDelayedMsgs(h), e, TRUE)}
    [] e = "setParamsStop" -> {signalAPIResult(stopPreview(h), e, TRUE)}
    [] e = "setParamsRestart" ->
         LET p == preparePreview(h)
         IN reply(e, failed(p) \cup
                       UNION {moved(startOrUnprepare(applyDelayedMsgs(g)), h.state, "STOPPED") :
                                g \in succeeded(p)})
    [] e = "stopPreview" ->
         {signalAPIResult(in(applyDelayedMsgs(stopPreview(h)), "STOPPED"), e, TRUE)}
    [] e = "preStartRecording" -> reply(e, preStartRecording(h))
    [] e = "startRecording" ->
         reply(e, {IF p[2] THEN <<applyDelayedMsgs(in(p[1], "RECORDING")), TRUE>> ELSE p :
                     p \in startRecording(h)})
    [] e = "prepareSnapshot" -> prepareSnapshot(h, e)
    [] e = "preTakePicture" -> reply(e, preTakePicture(h))
    [] e = "takePicture" /\ (config.zsl \/ h.longshot) ->
         UNION {takeWhilePreviewing(p[1], e) : p \in preTakePicture(h)}
    [] e = "takePicture" /\ ~(config.zsl \/ h.longshot) ->
         UNION {takeInstead(p[1], e) : p \in preTakePicture(h)}
    [] e = "longshotOn" -> longshotRestart(h, e)
    [] OTHER -> plain(h, e)

procEvtPrepareSnapshotState(h, e) ==
  CASE e = "prepDone" ->
         {signalAPIResult(in(h, "PREVIEWING"), "prepareSnapshot", TRUE)}
    [] e = "daemonDied" -> {stopIndefiniteWait(h)}
    [] OTHER -> plain(h, e)

\* Mutant: PRE_TAKE_PICTURE has nothing to do in longshot and is not answered.
takeAnotherSilently(h, e) ==
  CASE ~h.longshot -> {signalAPIResult(h, e, FALSE)}
    [] h.longshot /\ e = "takePicture" -> reply(e, longShot(h))
    [] OTHER -> {h}

\* TAKE_PICTURE and PRE_TAKE_PICTURE during a capture: longshot only.
takeAnother(h, e) ==
  CASE ~h.longshot -> {signalAPIResult(h, e, FALSE)}
    [] h.longshot /\ e = "takePicture" -> reply(e, longShot(h))
    [] OTHER -> {signalAPIResult(h, e, TRUE)}

stopCaptureChannel(h) ==
  IF ~config.restart THEN {<<h, TRUE>>}
  ELSE LET p == preparePreview(h)
       IN failed(p) \cup UNION {startPreview(applyDelayedMsgs(g)) : g \in succeeded(p)}

procEvtPicTakingState(h, e) ==
  CASE e \in {"stopPreview", "cancelPicture"} ->
         {signalAPIResult(in(g, "STOPPED"), e, TRUE) : g \in cancelPicture(h)}
    [] e = "longshotOff" ->
         {signalAPIResult(in(p[1], "PREVIEWING"), e, p[2]) : p \in longshotOff(h)}
    [] e \in {"preTakePicture", "takePicture"} -> takeAnother(h, e)
    [] e = "daemonDied" -> {stopIndefiniteWait(h)}
    [] e = "jpeg" -> {processJpegNotify(h)}
    [] e = "stopCaptureChannel" -> reply(e, stopCaptureChannel(h))
    [] e = "snapshotDone" ->
         {signalEvtResult(in(g, IF config.restart THEN "PREVIEWING" ELSE "STOPPED")) :
            g \in cancelPicture(h)}
    [] OTHER -> plain(h, e)

procEvtRecordingState(h, e) ==
  CASE e = "takePicture" ->
         {signalAPIResult(in(g, "VIDEO_PIC"), e, TRUE) : g \in takeLiveSnapshot(h)}
    [] e = "stopRecording" ->
         {signalAPIResult(in(stopRecording(h), "PREVIEWING"), e, TRUE)}
    [] e = "stopPreview" ->
         {signalAPIResult(in(stopPreview(stopRecording(h)), "STOPPED"), e, TRUE)}
    [] OTHER -> plain(h, e)

procEvtVideoPicTakingState(h, e) ==
  CASE e = "stopRecording" ->
         {signalAPIResult(in(stopRecording(g), "PREVIEWING"), e, TRUE) : g \in cancelLiveSnapshot(h)}
    [] e = "stopPreview" ->
         {signalAPIResult(in(stopPreview(stopRecording(g)), "STOPPED"), e, TRUE) : g \in cancelLiveSnapshot(h)}
    [] e = "cancelPicture" ->
         {signalAPIResult(in(g, "RECORDING"), e, TRUE) : g \in cancelLiveSnapshot(h)}
    [] e = "jpeg" -> {processJpegNotify(h)}
    [] e = "snapshotDone" ->
         {signalEvtResult(in(g, "RECORDING")) : g \in cancelLiveSnapshot(h)}
    [] OTHER -> plain(h, e)

\* cancelPicture or cancelLiveSnapshot, by the kind of the capture.
cancelCapture(h) ==
  IF config.zsl \/ h.longshot THEN cancelPicture(h) ELSE cancelLiveSnapshot(h)

recordDuringPicture(h, e) ==
  CASE config.zsl \/ h.longshot -> {signalAPIResult(h, e, FALSE)}
    [] ~(config.zsl \/ h.longshot) /\ e = "startRecording" ->
         reply(e, moved(startRecording(h), "VIDEO_PIC", h.state))
    [] OTHER -> reply(e, preStartRecording(h))

procEvtPreviewPicTakingState(h, e) ==
  CASE e = "setParamsStop" -> {signalAPIResult(stopPreview(h), e, TRUE)}
    [] e = "setParamsRestart" ->
         reply(e, moved(prepareApplyStart(h), h.state, "PIC"))
    [] e = "longshotOff" ->
         {signalAPIResult(in(p[1], "PREVIEWING"), e, p[2]) : p \in longshotOff(h)}
    [] e = "cancelPicture" ->
         {signalAPIResult(in(g, "PREVIEWING"), e, TRUE) : g \in cancelCapture(h)}
    [] e = "stopPreview" ->
         {signalAPIResult(in(stopPreview(g), "STOPPED"), e, TRUE) : g \in cancelCapture(h)}
    [] e \in {"preStartRecording", "startRecording"} -> recordDuringPicture(h, e)
    [] e \in {"preTakePicture", "takePicture"} -> takeAnother(h, e)
    [] e = "prepareSnapshot" ->
         {IF p[2] /\ h.retro THEN [h EXCEPT !.prep = TRUE] ELSE signalAPIResult(h, e, FALSE) :
            p \in fallible(h, h)}
    [] e = "prepDone" /\ h.retro -> {signalAPIResult(h, "prepareSnapshot", TRUE)}
    [] e = "ready" /\ h.retro -> {signalAPIResult(h, "takePicture", TRUE)}
    [] e = "daemonDied" -> {stopIndefiniteWait(h)}
    [] e = "jpeg" -> {processJpegNotify(h)}
    [] e = "snapshotDone" ->
         {signalEvtResult(IF h.retro THEN signalAPIResult(g, e, TRUE) ELSE g) :
            g \in {in(c, "PREVIEWING") : c \in cancelCapture(h)}}
    [] OTHER -> plain(h, e)

stateMachine(h, e) ==
  CASE h.state = "STOPPED" -> procEvtPreviewStoppedState(h, e)
    [] h.state = "READY" -> procEvtPreviewReadyState(h, e)
    [] h.state = "PREVIEWING" -> procEvtPreviewingState(h, e)
    [] h.state = "PREPARE" -> procEvtPrepareSnapshotState(h, e)
    [] h.state = "PIC" -> procEvtPicTakingState(h, e)
    [] h.state = "RECORDING" -> procEvtRecordingState(h, e)
    [] h.state = "VIDEO_PIC" -> procEvtVideoPicTakingState(h, e)
    [] h.state = "PREVIEW_PIC" -> procEvtPreviewPicTakingState(h, e)

-----------------------------------------------------------------------------
Init ==
  /\ config \in Configs
  /\ hw = [state |-> "STOPPED", preview |-> "none", recording |-> FALSE,
           capture |-> "none", job |-> FALSE, pproc |-> FALSE, live |-> "none",
           longshot |-> FALSE, retro |-> FALSE, prepRun |-> FALSE,
           window |-> FALSE, enabled |-> FALSE, delay |-> FALSE,
           delayed |-> FALSE, prep |-> FALSE, lit |-> FALSE,
           ready |-> FALSE, shots |-> 0, stopSent |-> FALSE, dead |-> FALSE,
           evts |-> <<>>, results |-> <<>>, evtResult |-> FALSE,
           cmds |-> <<>>, data |-> 0]
  /\ apiQ = <<>>
  /\ app = [todo |-> <<>>, waiting |-> FALSE, woken |-> FALSE, calls |-> 0,
            wants |-> FALSE]
  /\ note = [pc |-> "idle", active |-> FALSE, expected |-> 0,
             longshot |-> FALSE, rcvd |-> 0]

(* The framework thread.                                                   *)

\* prepare_snapshot asks for the light only where it is needed, and in
\* longshot only once.
prepare_snapshot == IF config.flash THEN <<"prepareSnapshot">> ELSE <<>>

isRetro ==
  /\ config.retro > 0 /\ config.zsl
  /\ ~hw.longshot
  /\ hw.state \notin {"RECORDING", "VIDEO_PIC"}

take_picture ==
  LET take == <<"preTakePicture", "takePicture">>
  IN IF isRetro THEN take \o prepare_snapshot
     ELSE (IF hw.prepRun THEN <<>> ELSE prepare_snapshot) \o take

\* With a change that needs a restart; without one it is as good as "other".
set_parameters == <<"setParams", "setParamsStop", "other", "setParamsRestart">>

start_recording == <<"preStartRecording", "startRecording">>

\* The calls an operation makes, in order.
calls(op) ==
  CASE op = "take_picture" -> take_picture
    [] op = "set_parameters" -> set_parameters
    [] op = "start_recording" -> start_recording
    [] OTHER -> <<op>>

\* The framework serialises its operations: one at a time.
Operation(op) ==
  /\ app.todo = <<>> /\ app.calls < MaxOps
  /\ op = "longshotOff" => hw.longshot
  /\ app' = [app EXCEPT !.todo = calls(op), !.calls = @ + 1,
                        !.wants = CASE op = "enableMsg" -> TRUE
                                    [] op = "disableMsg" -> FALSE
                                    [] OTHER -> @]
  /\ hw' = IF op = "take_picture" THEN [hw EXCEPT !.retro = isRetro] ELSE hw
  /\ UNCHANGED <<config, apiQ, note>>

\* lockAPI, processAPI, and the start of waitAPIResult.
processAPI ==
  /\ app.todo # <<>> /\ ~app.waiting
  /\ apiQ' = Append(apiQ, Head(app.todo))
  /\ app' = [app EXCEPT !.waiting = TRUE, !.woken = FALSE]
  /\ UNCHANGED <<config, hw, note>>

\* A failed call ends the operation; a picture is taken whatever became of
\* the light, and the light is asked for whatever became of the picture.
rest(r) ==
  IF r.ok \/ r.api \in {"prepareSnapshot", "takePicture"}
  THEN Tail(app.todo) ELSE <<>>

\* The caller wakes up and looks for a result of its call in the list.
waitAPIResult ==
  /\ app.waiting /\ app.woken
  /\ LET mine == {i \in DOMAIN hw.results : hw.results[i].api = Head(app.todo)}
         i == CHOOSE k \in mine : \A j \in mine : k <= j
         r == hw.results[i]
     IN IF mine = {}
        THEN /\ app' = [app EXCEPT !.woken = FALSE]
             /\ UNCHANGED hw
        ELSE /\ app' = [app EXCEPT !.waiting = FALSE, !.woken = FALSE, !.todo = rest(r)]
             /\ hw' = [hw EXCEPT
                        !.results = RemoveAt(@, i),
                        !.prepRun = \/ r.api = "prepareSnapshot"
                                    \/ @ /\ (r.api = "takePicture" => hw.retro \/ hw.longshot)]
  /\ UNCHANGED <<config, apiQ, note>>

(* The state machine's thread takes calls before events.                   *)

\* Every answer wakes the caller.
handled(h, e) ==
  /\ hw' \in stateMachine(h, e)
  /\ app' = [app EXCEPT !.woken = @ \/ (app.waiting /\ hw'.results # hw.results)]

smEvtProcApi ==
  /\ apiQ # <<>>
  /\ handled(hw, Head(apiQ))
  /\ apiQ' = Tail(apiQ)
  /\ UNCHANGED <<config, note>>

smEvtProcEvt ==
  /\ apiQ = <<>> /\ hw.evts # <<>>
  /\ handled([hw EXCEPT !.evts = Tail(@)], Head(hw.evts))
  /\ UNCHANGED <<config, apiQ, note>>

(* The deferred job, the live snapshot thread and the postprocessor.       *)

\* CMD_DEF_PPROC_START ends in startSnapshots: a command with priority.  If
\* the postprocessor does not start nobody but the application hears of it.
startSnapshots ==
  /\ hw.job
  /\ \/ hw' = [hw EXCEPT !.job = FALSE, !.pproc = TRUE, !.cmds = <<"START">> \o @]
     \/ config.faulty /\ hw' = [hw EXCEPT !.job = FALSE]
  /\ UNCHANGED <<config, apiQ, app, note>>

\* Two failures are returned at once: there are no preview buffers, or the
\* rotation fails, when the job has run and the postprocessor is stopped.
gaveUp(h) ==
  {h, stopPostproc(h), stopPostproc([h EXCEPT !.cmds = <<"START">> \o @])}

\* Any other failure may leave the job behind; it asks for a CANCEL_PICTURE.
takeLiveSnapshot_internal ==
  /\ hw.live = "take"
  /\ \/ \E b \in {hw, [hw EXCEPT !.job = TRUE]} : \E p \in fallible(begun(hw, "live"), b) :
          /\ hw' = [p[1] EXCEPT !.live = "none"]
          /\ apiQ' = IF p[2] THEN apiQ ELSE Append(apiQ, "cancelPicture")
     \/ /\ config.faulty \/ hw.dead
        /\ \E h \in gaveUp(hw) : hw' = [h EXCEPT !.live = "none"]
        /\ UNCHANGED apiQ
  /\ UNCHANGED <<config, app, note>>

cancelLiveSnapshot_internal ==
  /\ hw.live = "cancel"
  /\ hw' = stopPostproc([ended(hw, "live") EXCEPT !.live = "none"])
  /\ UNCHANGED <<config, apiQ, app, note>>

isRegularCapture ==
  config.pictures = 1 /\ ~config.zsl /\ ~hw.longshot /\ ~hw.recording

\* The postprocessor asks for the end of the capture channel.
stopCapture ==
  /\ hw.capture = "still" /\ hw.pproc /\ isRegularCapture /\ ~hw.stopSent
  /\ hw' = [hw EXCEPT !.stopSent = TRUE]
  /\ apiQ' = Append(apiQ, "stopCaptureChannel")
  /\ UNCHANGED <<config, app, note>>

(* The camera.                                                             *)

event(h, e) ==
  /\ hw' = [h EXCEPT !.evts = Append(@, e)]
  /\ UNCHANGED <<config, apiQ, app, note>>

\* A picture is ready.  The pictures after those of the queue wait for the
\* light if it is needed.
jpegEvtHandle ==
  /\ hw.capture # "none" /\ hw.pproc /\ ~hw.dead /\ hw.shots < config.pictures
  /\ config.zsl /\ hw.capture = "still" => hw.preview = "started"
  /\ hw.retro => /\ hw.shots + 1 < config.retro \/ hw.ready
                 /\ hw.shots + 1 > config.retro /\ config.flash => hw.lit
  /\ event([hw EXCEPT !.shots = @ + 1], "jpeg")

\* All the pictures of the queue are there.
readyForSnapshot ==
  /\ hw.capture = "still" /\ hw.retro /\ ~hw.ready /\ ~hw.dead
  /\ event([hw EXCEPT !.ready = TRUE], "ready")

prepSnapshotDone ==
  /\ hw.prep /\ ~hw.dead
  /\ event([hw EXCEPT !.prep = FALSE, !.lit = TRUE], "prepDone")

daemonDied ==
  /\ ~hw.dead
  /\ event([hw EXCEPT !.dead = TRUE], "daemonDied")

(* The notifier's thread.                                                  *)

\* Mutant: the queue is not looked at before an entry is taken.
dequeuedUnchecked(n) == n - 1

dequeued(n) == IF n = 0 THEN 0 ELSE n - 1

\* Takes the command in front.  A picture whose message the client may have
\* disabled is dropped; the last one of a capture is announced with
\* processSyncEvt before it is handed to the application.
cbNotifyRoutine ==
  /\ note.pc = "idle" /\ hw.cmds # <<>>
  /\ LET cmd == Head(hw.cmds)
         next == [hw EXCEPT !.cmds = Tail(@)]
         counted == IF note.longshot THEN note.rcvd ELSE note.rcvd + 1
         last == ~note.longshot /\ note.expected > 0 /\ counted = note.expected
     IN CASE cmd = "START" ->
               /\ note' = [note EXCEPT !.active = TRUE, !.expected = config.pictures,
                                      !.longshot = hw.longshot, !.rcvd = 0]
               /\ hw' = next
          [] cmd = "STOP" ->
               /\ note' = [note EXCEPT !.active = FALSE, !.expected = 0, !.rcvd = 0]
               /\ hw' = [next EXCEPT !.data = 0]
          [] OTHER ->
               \/ /\ hw.data = 0 \/ ~note.active \/ "disableMsg" \in config.ops
                  /\ hw' = [next EXCEPT !.data = dequeued(@)]
                  /\ UNCHANGED note
               \/ /\ hw.data > 0 /\ note.active
                  /\ note' = [note EXCEPT !.rcvd = counted,
                                         !.pc = IF last THEN "sync" ELSE "deliver"]
                  /\ hw' = IF last
                           THEN [next EXCEPT !.data = dequeued(@), !.evtResult = FALSE,
                                             !.evts = Append(@, "snapshotDone")]
                           ELSE [next EXCEPT !.data = dequeued(@)]
  /\ UNCHANGED <<config, apiQ, app>>

\* The end of processSyncEvt.
processSyncEvtReturns ==
  /\ note.pc = "sync" /\ hw.evtResult
  /\ note' = [note EXCEPT !.pc = "deliver"]
  /\ UNCHANGED <<config, hw, apiQ, app>>

\* The application's callback returns.
mDataCb ==
  /\ note.pc = "deliver"
  /\ note' = [note EXCEPT !.pc = "idle"]
  /\ UNCHANGED <<config, hw, apiQ, app>>

Next ==
  \/ \E op \in config.ops : Operation(op)
  \/ processAPI \/ waitAPIResult
  \/ smEvtProcApi \/ smEvtProcEvt
  \/ startSnapshots \/ takeLiveSnapshot_internal
  \/ cancelLiveSnapshot_internal \/ stopCapture
  \/ jpegEvtHandle \/ readyForSnapshot \/ prepSnapshotDone \/ daemonDied
  \/ cbNotifyRoutine \/ processSyncEvtReturns \/ mDataCb

Spec == Init /\ [][Next]_vars

\* Every thread goes on, and the camera answers what it was asked for.
FairSpec ==
  /\ Spec
  /\ WF_vars(processAPI) /\ WF_vars(waitAPIResult)
  /\ WF_vars(smEvtProcApi \/ smEvtProcEvt)
  /\ WF_vars(startSnapshots)
  /\ WF_vars(takeLiveSnapshot_internal \/ cancelLiveSnapshot_internal)
  /\ WF_vars(cbNotifyRoutine \/ processSyncEvtReturns \/ mDataCb)
  /\ WF_vars(readyForSnapshot) /\ WF_vars(prepSnapshotDone)

-----------------------------------------------------------------------------
(* Properties.                                                             *)

\* The variables have the values of the program's types and enumerations.
TypeOK ==
  /\ config \in Configs
  /\ hw \in [state : States, preview : {"none", "prepared", "started"},
            recording : BOOLEAN, job : BOOLEAN, pproc : BOOLEAN,
            capture : {"none", "still", "live"},
            live : {"none", "take", "cancel"}, longshot : BOOLEAN,
            retro : BOOLEAN, prepRun : BOOLEAN, window : BOOLEAN,
            enabled : BOOLEAN, delay : BOOLEAN, delayed : BOOLEAN,
            prep : BOOLEAN, lit : BOOLEAN, ready : BOOLEAN,
            shots : 0 .. config.pictures, stopSent : BOOLEAN, dead : BOOLEAN,
            evts : Seq(Evts),
            results : Seq([api : Apis \cup Evts, ok : BOOLEAN]),
            evtResult : BOOLEAN, cmds : Seq({"START", "STOP", "JOB"}),
            data : Nat]
  /\ apiQ \in Seq(Apis)
  /\ app \in [todo : Seq(Apis), waiting : BOOLEAN, woken : BOOLEAN,
             calls : 0 .. MaxOps, wants : BOOLEAN]
  /\ note \in [pc : {"idle", "sync", "deliver"}, active : BOOLEAN,
              expected : 0 .. config.pictures, longshot : BOOLEAN, rcvd : Nat]

sent(e) == e \in Range(hw.evts)

\* The camera still has to answer this call.
Owed(api) ==
  \/ /\ api = "prepareSnapshot"
     /\ hw.state = "PREPARE" \/ (hw.state = "PREVIEW_PIC" /\ hw.retro)
     /\ (hw.prep /\ ~hw.dead) \/ sent("prepDone") \/ sent("daemonDied")
  \/ /\ api = "takePicture"
     /\ hw.state = "PREVIEW_PIC" /\ hw.retro
     /\ \/ hw.capture = "still" /\ ~hw.ready /\ ~hw.dead
        \/ sent("ready") \/ sent("daemonDied")

answers(api) == {i \in DOMAIN hw.results : hw.results[i].api = api}

\* A thread that waits in waitAPIResult is never forgotten: it has been woken
\* to its result, or its call is queued, or the state machine is in a state
\* that answers it at an event of the camera which is still to come.
NobodyForgotten ==
  app.waiting =>
    LET api == Head(app.todo)
    IN \/ app.woken /\ answers(api) # {}
       \/ api \in Range(apiQ)
       \/ Owed(api)

\* waitAPIResult takes the oldest result with the number of its call, so a
\* result that nobody took would answer a later call.  While the daemon
\* lives only three kinds of results may be left over: those of the calls
\* that the HAL makes itself.  The notifier in processSyncEvt has its answer
\* too, or its event is queued: no state drops SNAPSHOT_DONE.
NoStrayAnswer ==
  /\ ~hw.dead => \A i \in DOMAIN hw.results :
       \/ hw.results[i].api \in {"stopCaptureChannel", "snapshotDone", "cancelPicture"}
       \/ app.waiting /\ answers(Head(app.todo)) = {i}
  /\ note.pc = "sync" => hw.evtResult \/ sent("snapshotDone")

\* A running capture always has a state that can end it, or a thread that is
\* about to: no sequence of calls, failures and late events leaves it alone.
\* In PREVIEW_STOPPED everything is off, whatever failed on the way there.
\* (persist.camera.feature.restart starts the preview during a capture, which
\* CANCEL_PICTURE and STOP_PREVIEW do not stop: left out.)
CaptureHasState ==
  /\ hw.capture = "none" \/ hw.state \in Capturing \/ (hw.capture = "live" /\ hw.live = "cancel")
  /\ hw.state = "STOPPED" /\ ~config.restart =>
       hw.preview = "none" /\ ~hw.recording /\ hw.capture # "still"

\* A message type that the application enabled last is enabled, or is among
\* the delayed ones that applyDelayedMsgs enables.
WantedMessages ==
  (app.todo = <<>> /\ app.wants /\ ~hw.dead) => hw.enabled \/ hw.delayed

\* Every call of the framework returns, and the notifier returns from
\* processSyncEvt and hands the picture over.
CallsReturn ==
  /\ app.waiting ~> ~app.waiting
  /\ note.pc = "sync" ~> note.pc = "idle"
=============================================================================
