---------------------- MODULE QCameraStateMachineProofs ----------------------
(***************************************************************************)
(* Safety of QCameraStateMachine for every camera and any number of         *)
(* operations.                                                              *)
(***************************************************************************)
EXTENDS QCameraStateMachine, Integers, SequenceTheorems, FiniteSetTheorems, WellFoundedInduction, TLAPS

-----------------------------------------------------------------------------
(* The record of the hardware.                                              *)

Commands == {"START", "STOP", "JOB"}
Result == [api : Apis \cup Evts, ok : BOOLEAN]

Hw ==
  [state : States, preview : {"none", "prepared", "started"},
   recording : BOOLEAN, job : BOOLEAN, pproc : BOOLEAN,
   capture : {"none", "still", "live"}, live : {"none", "take", "cancel"},
   longshot : BOOLEAN, retro : BOOLEAN, prepRun : BOOLEAN, window : BOOLEAN,
   enabled : BOOLEAN, delay : BOOLEAN, delayed : BOOLEAN, prep : BOOLEAN,
   lit : BOOLEAN, ready : BOOLEAN, shots : 0 .. config.pictures,
   stopSent : BOOLEAN, dead : BOOLEAN, evts : Seq(Evts),
   results : Seq(Result), evtResult : BOOLEAN, cmds : Seq(Commands),
   data : Nat]

Fields ==
  {"state", "preview", "recording", "job", "pproc", "capture", "live",
   "longshot", "retro", "prepRun", "window", "enabled", "delay", "delayed",
   "prep", "lit", "ready", "shots", "stopSent", "dead", "evts", "results",
   "evtResult", "cmds", "data"}

\* g is h up to the fields in F.
Keeps(h, g, F) == \A f \in Fields \ F : g[f] = h[f]

LEMMA KeepsBoth ==
  ASSUME NEW h, NEW g, NEW k, NEW F, NEW G, Keeps(h, g, F), Keeps(g, k, G)
  PROVE  Keeps(h, k, F \cup G)
BY DEF Keeps

LEMMA KeepsMore ==
  ASSUME NEW h, NEW g, NEW F, NEW G, F \subseteq G, Keeps(h, g, F)
  PROVE  Keeps(h, g, G)
BY DEF Keeps

\* A field of the record is set.
LEMMA SetBoolean ==
  ASSUME NEW h \in Hw, NEW b \in BOOLEAN
  PROVE  /\ [h EXCEPT !.recording = b] \in Hw
         /\ [h EXCEPT !.job = b] \in Hw
         /\ [h EXCEPT !.pproc = b] \in Hw
         /\ [h EXCEPT !.longshot = b] \in Hw
         /\ [h EXCEPT !.retro = b] \in Hw
         /\ [h EXCEPT !.prepRun = b] \in Hw
         /\ [h EXCEPT !.window = b] \in Hw
         /\ [h EXCEPT !.enabled = b] \in Hw
         /\ [h EXCEPT !.delay = b] \in Hw
         /\ [h EXCEPT !.delayed = b] \in Hw
         /\ [h EXCEPT !.prep = b] \in Hw
         /\ [h EXCEPT !.lit = b] \in Hw
         /\ [h EXCEPT !.ready = b] \in Hw
         /\ [h EXCEPT !.stopSent = b] \in Hw
         /\ [h EXCEPT !.dead = b] \in Hw
         /\ [h EXCEPT !.evtResult = b] \in Hw
BY ZenonT(60) DEF Hw

LEMMA SetField ==
  ASSUME NEW h \in Hw
  PROVE  /\ \A s \in States : [h EXCEPT !.state = s] \in Hw
         /\ \A s \in {"none", "prepared", "started"} : [h EXCEPT !.preview = s] \in Hw
         /\ \A s \in {"none", "still", "live"} : [h EXCEPT !.capture = s] \in Hw
         /\ \A s \in {"none", "take", "cancel"} : [h EXCEPT !.live = s] \in Hw
         /\ \A n \in 0 .. config.pictures : [h EXCEPT !.shots = n] \in Hw
         /\ \A s \in Seq(Evts) : [h EXCEPT !.evts = s] \in Hw
         /\ \A s \in Seq(Result) : [h EXCEPT !.results = s] \in Hw
         /\ \A s \in Seq(Commands) : [h EXCEPT !.cmds = s] \in Hw
         /\ \A n \in Nat : [h EXCEPT !.data = n] \in Hw
<1>1. \A s \in States : [h EXCEPT !.state = s] \in Hw
  BY DEF Hw
<1>2. \A s \in {"none", "prepared", "started"} : [h EXCEPT !.preview = s] \in Hw
  BY DEF Hw
<1>3. \A s \in {"none", "still", "live"} : [h EXCEPT !.capture = s] \in Hw
  BY DEF Hw
<1>4. \A s \in {"none", "take", "cancel"} : [h EXCEPT !.live = s] \in Hw
  BY DEF Hw
<1>5. \A n \in 0 .. config.pictures : [h EXCEPT !.shots = n] \in Hw
  BY DEF Hw
<1>6. \A s \in Seq(Evts) : [h EXCEPT !.evts = s] \in Hw
  BY DEF Hw
<1>7. \A s \in Seq(Result) : [h EXCEPT !.results = s] \in Hw
  BY DEF Hw
<1>8. \A s \in Seq(Commands) : [h EXCEPT !.cmds = s] \in Hw
  BY DEF Hw
<1>9. \A n \in Nat : [h EXCEPT !.data = n] \in Hw
  BY DEF Hw
<1> QED BY <1>1, <1>2, <1>3, <1>4, <1>5, <1>6, <1>7, <1>8, <1>9

-----------------------------------------------------------------------------
(* What the handlers' steps change.                                         *)

LEMMA Fallible ==
  ASSUME NEW good, NEW bad, NEW p \in fallible(good, bad)
  PROVE  \/ p = <<good, TRUE>> /\ ~good.dead
         \/ p = <<bad, FALSE>>
BY DEF fallible

LEMMA Signalled ==
  ASSUME NEW h \in Hw, NEW e \in Apis \cup Evts, NEW ok \in BOOLEAN,
         NEW g, g = signalAPIResult(h, e, ok)
  PROVE  /\ g \in Hw
         /\ Keeps(h, g, {"results"})
         /\ g.results = Append(h.results, [api |-> e, ok |-> ok])
<1>1. [api |-> e, ok |-> ok] \in Result
  BY DEF Result
<1>2. h.results \in Seq(Result)
  BY DEF Hw
<1>3. Append(h.results, [api |-> e, ok |-> ok]) \in Seq(Result)
  BY <1>1, <1>2, AppendProperties
<1>4. g \in Hw
  BY <1>3, SetField DEF signalAPIResult
<1>5. Keeps(h, g, {"results"}) /\ g.results = Append(h.results, [api |-> e, ok |-> ok])
  BY DEF signalAPIResult, Keeps, Fields, Hw
<1> QED BY <1>4, <1>5

LEMMA In ==
  ASSUME NEW h \in Hw, NEW s \in States, NEW g, g = in(h, s)
  PROVE  g \in Hw /\ Keeps(h, g, {"state"}) /\ g.state = s
<1>1. g \in Hw
  BY SetField DEF in
<1>2. Keeps(h, g, {"state"}) /\ g.state = s
  BY DEF in, Keeps, Fields, Hw
<1> QED BY <1>1, <1>2

LEMMA StopPreview ==
  ASSUME NEW h \in Hw, NEW g, g = stopPreview(h)
  PROVE  g \in Hw /\ Keeps(h, g, {"preview"}) /\ g.preview = "none"
<1>1. g \in Hw
  BY SetField DEF stopPreview
<1>2. Keeps(h, g, {"preview"}) /\ g.preview = "none"
  BY DEF stopPreview, Keeps, Fields, Hw
<1> QED BY <1>1, <1>2

LEMMA PreviewSet ==
  ASSUME NEW h \in Hw, NEW s \in {"none", "prepared", "started"}, NEW g, g = [h EXCEPT !.preview = s]
  PROVE  g \in Hw /\ Keeps(h, g, {"preview"}) /\ g.preview = s /\ g.dead = h.dead
<1>1. g \in Hw
  BY SetField
<1>2. Keeps(h, g, {"preview"}) /\ g.preview = s /\ g.dead = h.dead
  BY DEF Keeps, Fields, Hw
<1> QED BY <1>1, <1>2

LEMMA PreparePreview ==
  ASSUME NEW h \in Hw, NEW p \in preparePreview(h)
  PROVE  /\ p[1] \in Hw /\ p[2] \in BOOLEAN
         /\ Keeps(h, p[1], {"preview"})
         /\ ~p[2] => p[1].preview = h.preview
<1>1. CASE p = <<[h EXCEPT !.preview = "prepared"], TRUE>>
  BY <1>1, PreviewSet
<1>2. CASE p = <<h, FALSE>>
  BY <1>2 DEF Keeps
<1> QED BY <1>1, <1>2, Fallible DEF preparePreview

LEMMA StartPreview ==
  ASSUME NEW h \in Hw, NEW p \in startPreview(h)
  PROVE  p[1] \in Hw /\ p[2] \in BOOLEAN /\ Keeps(h, p[1], {"preview"})
<1>1. CASE p = <<[h EXCEPT !.preview = "started"], TRUE>>
  BY <1>1, PreviewSet
<1>2. CASE p = <<h, FALSE>>
  BY <1>2 DEF Keeps
<1> QED BY <1>1, <1>2, Fallible DEF startPreview

LEMMA StartOrUnprepare ==
  ASSUME NEW h \in Hw, NEW p \in startOrUnprepare(h)
  PROVE  /\ p[1] \in Hw /\ p[2] \in BOOLEAN
         /\ Keeps(h, p[1], {"preview"})
         /\ ~p[2] => p[1].preview = "none"
<1>1. CASE p = <<[h EXCEPT !.preview = "started"], TRUE>>
  BY <1>1, PreviewSet
<1>2. CASE p = <<stopPreview(h), FALSE>>
  BY <1>2, StopPreview
<1> QED BY <1>1, <1>2, Fallible DEF startOrUnprepare

\* No delayed message is lost.
LEMMA ApplyDelayedMsgs ==
  ASSUME NEW h \in Hw, NEW g, g = applyDelayedMsgs(h)
  PROVE  /\ g \in Hw
         /\ Keeps(h, g, {"enabled", "delayed", "delay"})
         /\ h.enabled \/ h.delayed => g.enabled \/ g.delayed
<1>1. ASSUME NEW a \in BOOLEAN, NEW b \in BOOLEAN, NEW c \in BOOLEAN
      PROVE  [h EXCEPT !.enabled = a, !.delayed = b, !.delay = c] \in Hw
  BY ZenonT(40) DEF Hw
<1>4. g \in Hw
  <2>1. /\ (h.enabled \/ (h.delay /\ h.delayed)) \in BOOLEAN
        /\ (h.delayed /\ ~h.delay) \in BOOLEAN
        /\ FALSE \in BOOLEAN
    OBVIOUS
  <2>2. g = [h EXCEPT !.enabled = h.enabled \/ (h.delay /\ h.delayed),
                      !.delayed = h.delayed /\ ~h.delay, !.delay = FALSE]
    BY ZenonT(20) DEF applyDelayedMsgs
  <2> QED BY <1>1, <2>1, <2>2, Zenon
<1>2. Keeps(h, g, {"enabled", "delayed", "delay"})
  BY DEF applyDelayedMsgs, Keeps, Fields, Hw
<1>3. /\ g.enabled = (h.enabled \/ (h.delay /\ h.delayed))
      /\ g.delayed = (h.delayed /\ ~h.delay)
  BY DEF applyDelayedMsgs, Hw
<1> QED BY <1>4, <1>2, <1>3

LEMMA PrepareAndStart ==
  ASSUME NEW h \in Hw, NEW p \in prepareAndStart(h)
  PROVE  /\ p[1] \in Hw /\ p[2] \in BOOLEAN
         /\ Keeps(h, p[1], {"preview"})
         /\ ~p[2] => p[1].preview \in {h.preview, "none"}
<1>1. CASE p \in failed(preparePreview(h))
  BY <1>1, PreparePreview DEF failed
<1>2. ASSUME NEW q \in preparePreview(h), p \in startOrUnprepare(q[1])
      PROVE  /\ p[1] \in Hw /\ p[2] \in BOOLEAN
             /\ Keeps(h, p[1], {"preview"})
             /\ ~p[2] => p[1].preview = "none"
  <2>1. q[1] \in Hw /\ Keeps(h, q[1], {"preview"})
    BY PreparePreview
  <2>2. /\ p[1] \in Hw /\ p[2] \in BOOLEAN
        /\ Keeps(q[1], p[1], {"preview"})
        /\ ~p[2] => p[1].preview = "none"
    BY <1>2, <2>1, StartOrUnprepare
  <2> QED BY <2>1, <2>2 DEF Keeps
<1> QED BY <1>1, <1>2 DEF prepareAndStart, succeeded

LEMMA PrepareApplyStart ==
  ASSUME NEW h \in Hw, NEW p \in prepareApplyStart(h)
  PROVE  /\ p[1] \in Hw /\ p[2] \in BOOLEAN
         /\ Keeps(h, p[1], {"preview", "enabled", "delayed", "delay"})
         /\ ~p[2] => p[1].preview \in {h.preview, "none"}
         /\ h.enabled \/ h.delayed => p[1].enabled \/ p[1].delayed
<1>1. CASE p \in failed(preparePreview(h))
  <2>1. /\ p[1] \in Hw /\ p[2] \in BOOLEAN
        /\ Keeps(h, p[1], {"preview"})
        /\ ~p[2] => p[1].preview = h.preview
    BY <1>1, PreparePreview DEF failed
  <2>2. p[1].enabled = h.enabled /\ p[1].delayed = h.delayed
    BY <2>1 DEF Keeps, Fields, Hw
  <2> QED BY <2>1, <2>2, KeepsMore
<1>2. ASSUME NEW q \in preparePreview(h), p \in startOrUnprepare(applyDelayedMsgs(q[1]))
      PROVE  /\ p[1] \in Hw /\ p[2] \in BOOLEAN
             /\ Keeps(h, p[1], {"preview", "enabled", "delayed", "delay"})
             /\ ~p[2] => p[1].preview = "none"
             /\ h.enabled \/ h.delayed => p[1].enabled \/ p[1].delayed
  <2>1. q[1] \in Hw /\ Keeps(h, q[1], {"preview"})
    BY PreparePreview
  <2>2. PICK a : a = applyDelayedMsgs(q[1])
    OBVIOUS
  <2>3. /\ a \in Hw
        /\ Keeps(q[1], a, {"enabled", "delayed", "delay"})
        /\ q[1].enabled \/ q[1].delayed => a.enabled \/ a.delayed
    BY <2>1, <2>2, ApplyDelayedMsgs
  <2>4. /\ p[1] \in Hw /\ p[2] \in BOOLEAN
        /\ Keeps(a, p[1], {"preview"})
        /\ ~p[2] => p[1].preview = "none"
    BY <1>2, <2>2, <2>3, StartOrUnprepare
  <2>5. Keeps(h, p[1], {"preview", "enabled", "delayed", "delay"})
    BY <2>1, <2>3, <2>4 DEF Keeps
  <2>6. p[1].enabled = a.enabled /\ p[1].delayed = a.delayed
    BY <2>3, <2>4 DEF Keeps, Fields, Hw
  <2>7. q[1].enabled = h.enabled /\ q[1].delayed = h.delayed
    BY <2>1 DEF Keeps, Fields, Hw
  <2> QED BY <2>3, <2>4, <2>5, <2>6, <2>7
<1> QED BY <1>1, <1>2 DEF prepareApplyStart, succeeded

LEMMA PreTakePicture ==
  ASSUME NEW h \in Hw, NEW p \in preTakePicture(h)
  PROVE  p[1] \in Hw /\ p[2] \in BOOLEAN /\ Keeps(h, p[1], {"preview"})
<1>1. CASE p = <<h, TRUE>>
  BY <1>1 DEF Keeps
<1>2. CASE p \in prepareAndStart(stopPreview(h))
  <2>1. PICK a : a = stopPreview(h)
    OBVIOUS
  <2>2. a \in Hw /\ Keeps(h, a, {"preview"})
    BY <2>1, StopPreview
  <2>3. p[1] \in Hw /\ p[2] \in BOOLEAN /\ Keeps(a, p[1], {"preview"})
    BY <1>2, <2>1, <2>2, PrepareAndStart
  <2> QED BY <2>2, <2>3 DEF Keeps
<1> QED BY <1>1, <1>2 DEF preTakePicture

LEMMA PreStartRecording ==
  ASSUME NEW h \in Hw, NEW p \in preStartRecording(h)
  PROVE  p[1] \in Hw /\ p[2] \in BOOLEAN /\ Keeps(h, p[1], {"preview"})
<1> DEFINE a == stopPreview(h)
<1>1. a \in Hw /\ Keeps(h, a, {"preview"})
  BY StopPreview
<1> HIDE DEF a
<1>2. CASE p = <<h, TRUE>>
  BY <1>2 DEF Keeps
<1>3. CASE p \in failed(preparePreview(a))
  <2>1. p[1] \in Hw /\ p[2] \in BOOLEAN /\ Keeps(a, p[1], {"preview"})
    BY <1>1, <1>3, PreparePreview DEF failed
  <2> QED BY <1>1, <2>1 DEF Keeps
<1>4. ASSUME NEW q \in preparePreview(a), p \in startPreview(q[1])
      PROVE  p[1] \in Hw /\ p[2] \in BOOLEAN /\ Keeps(h, p[1], {"preview"})
  <2>1. q[1] \in Hw /\ Keeps(a, q[1], {"preview"})
    BY <1>1, PreparePreview
  <2>2. p[1] \in Hw /\ p[2] \in BOOLEAN /\ Keeps(q[1], p[1], {"preview"})
    BY <1>4, <2>1, StartPreview
  <2> QED BY <1>1, <2>1, <2>2 DEF Keeps
<1> QED BY <1>2, <1>3, <1>4 DEF preStartRecording, succeeded, a

LEMMA StartRecording ==
  ASSUME NEW h \in Hw, NEW p \in startRecording(h)
  PROVE  /\ p[1] \in Hw /\ p[2] \in BOOLEAN
         /\ Keeps(h, p[1], {"recording"})
         /\ ~p[2] => p[1] = h
<1>1. [h EXCEPT !.recording = TRUE] \in Hw
  BY SetBoolean
<1>2. Keeps(h, [h EXCEPT !.recording = TRUE], {"recording"})
  BY DEF Keeps, Fields, Hw
<1>3. CASE p = <<[h EXCEPT !.recording = TRUE], TRUE>>
  BY <1>1, <1>2, <1>3
<1>4. CASE p = <<h, FALSE>>
  BY <1>4 DEF Keeps
<1> QED BY <1>3, <1>4, Fallible DEF startRecording

LEMMA StopRecording ==
  ASSUME NEW h \in Hw, NEW g, g = stopRecording(h)
  PROVE  g \in Hw /\ Keeps(h, g, {"recording"}) /\ g.recording = FALSE
<1>1. g \in Hw
  BY SetBoolean DEF stopRecording
<1>2. Keeps(h, g, {"recording"}) /\ g.recording = FALSE
  BY DEF stopRecording, Keeps, Fields, Hw
<1> QED BY <1>1, <1>2

\* What starting a capture changes.
Start == {"capture", "job", "shots", "ready", "lit", "stopSent"}

LEMMA Begun ==
  ASSUME config.pictures \in Nat,
         NEW h \in Hw, NEW kind \in {"still", "live"}, NEW g, g = begun(h, kind)
  PROVE  /\ g \in Hw
         /\ Keeps(h, g, Start)
         /\ g.capture = kind /\ g.job /\ ~g.ready /\ ~g.lit /\ g.shots = 0
<1>1. /\ 0 \in 0 .. config.pictures /\ TRUE \in BOOLEAN /\ FALSE \in BOOLEAN
      /\ kind \in {"none", "still", "live"}
  OBVIOUS
<1>2. ASSUME NEW k \in {"none", "still", "live"}, NEW n \in 0 .. config.pictures, NEW t \in BOOLEAN, NEW f \in BOOLEAN
      PROVE  [h EXCEPT !.capture = k, !.job = t, !.shots = n, !.ready = f,
                       !.lit = f, !.stopSent = f] \in Hw
  BY ZenonT(60) DEF Hw
<1>3. g \in Hw
  BY <1>1, <1>2, Zenon DEF begun
<1>4. /\ Keeps(h, g, Start)
      /\ g.capture = kind /\ g.job /\ ~g.ready /\ ~g.lit /\ g.shots = 0
  BY DEF begun, Keeps, Fields, Hw, Start
<1> QED BY <1>3, <1>4

\* The notifier's commands of a capture that did not start.
Told == {<<"STOP", "START">>, <<"START", "STOP">>}

LEMMA Prepended ==
  ASSUME NEW s \in Seq(Commands), NEW t \in Told
  PROVE  t \o s \in Seq(Commands) /\ <<"STOP">> \o s \in Seq(Commands) /\ <<"START">> \o s \in Seq(Commands)
<1>1. <<"STOP">> \in Seq(Commands) /\ <<"START">> \in Seq(Commands)
  BY DEF Commands
<1>2. <<"STOP", "START">> \in Seq(Commands) /\ <<"START", "STOP">> \in Seq(Commands)
  BY DEF Commands
<1>3. t \in Seq(Commands)
  BY <1>2 DEF Told
<1> QED BY <1>1, <1>3, ConcatProperties

LEMMA NotBegun ==
  ASSUME NEW h \in Hw, NEW g \in notBegun(h)
  PROVE  /\ g \in Hw
         /\ Keeps(h, g, {"pproc", "cmds"})
         /\ config.zsl => \/ g = h
                          \/ ~g.pproc /\ \E t \in Told : g.cmds = t \o h.cmds
<1>0. h.cmds \in Seq(Commands)
  BY DEF Hw
<1>1. ASSUME NEW b \in BOOLEAN, NEW s \in Seq(Commands), g = [h EXCEPT !.pproc = b, !.cmds = s]
      PROVE  g \in Hw /\ Keeps(h, g, {"pproc", "cmds"}) /\ g.pproc = b /\ g.cmds = s
  <2>1. [h EXCEPT !.pproc = b, !.cmds = s] \in Hw
    BY ZenonT(40) DEF Hw
  <2>2. Keeps(h, g, {"pproc", "cmds"}) /\ g.pproc = b /\ g.cmds = s
    BY <1>1 DEF Keeps, Fields, Hw
  <2> QED BY <1>1, <2>1, <2>2
<1>2. CASE g = h
  BY <1>2 DEF Keeps
<1>3. ASSUME NEW t \in Told, g = [h EXCEPT !.pproc = FALSE, !.cmds = t \o @]
      PROVE  g \in Hw /\ Keeps(h, g, {"pproc", "cmds"}) /\ g.pproc = FALSE /\ g.cmds = t \o h.cmds
  BY <1>0, <1>1, <1>3, Prepended
<1>4. CASE ~config.zsl /\ g = [h EXCEPT !.pproc = TRUE, !.cmds = <<"START">> \o @]
  <2>1. <<"START">> \o h.cmds \in Seq(Commands)
    BY <1>0, Prepended DEF Told
  <2> QED BY <1>1, <1>4, <2>1
<1> QED BY <1>2, <1>3, <1>4 DEF notBegun, Told

\* What a capture that does not start leaves.
Failed(h, g) ==
  /\ Keeps(h, g, {"preview", "pproc", "cmds"})
  /\ g.preview \in {h.preview, "none"}
  /\ ~config.zsl => g.preview = "none"
  /\ config.zsl => \/ g.pproc = h.pproc /\ g.cmds = h.cmds
                   \/ ~g.pproc /\ \E t \in Told : g.cmds = t \o h.cmds

Captures(h, g) ==
  /\ ~h.dead
  /\ Keeps(h, g, Start \cup {"preview"})
  /\ g.preview = IF config.zsl THEN h.preview ELSE "none"
  /\ g.capture = "still" /\ g.job /\ ~g.ready /\ ~g.lit /\ g.shots = 0

LEMMA Begin ==
  ASSUME config.pictures \in Nat, NEW h \in Hw, NEW p \in begin(h)
  PROVE  /\ p[1] \in Hw /\ p[2] \in BOOLEAN
         /\ ~p[2] => p[1] \in notBegun(h)
         /\ p[2] => p[1] = begun(h, "still") /\ ~h.dead
<1>1. PICK b \in notBegun(h) : p \in fallible(begun(h, "still"), b)
  BY DEF begin
<1>2. CASE p = <<begun(h, "still"), TRUE>> /\ ~begun(h, "still").dead
  <2>1. begun(h, "still") \in Hw /\ Keeps(h, begun(h, "still"), Start)
    BY Begun
  <2>2. begun(h, "still").dead = h.dead
    BY <2>1 DEF Keeps, Fields, Start
  <2> QED BY <1>2, <2>1, <2>2
<1>3. CASE p = <<b, FALSE>>
  BY <1>3, NotBegun
<1> QED BY <1>1, <1>2, <1>3, Fallible

LEMMA TakePicture ==
  ASSUME config.pictures \in Nat, NEW h \in Hw, NEW p \in takePicture(h), config.zsl \in BOOLEAN
  PROVE  /\ p[1] \in Hw /\ p[2] \in BOOLEAN
         /\ p[2] => Captures(h, p[1])
         /\ ~p[2] => Failed(h, p[1])
<1>1. ASSUME NEW a \in Hw, Keeps(h, a, {"preview"}), a.preview = IF config.zsl THEN h.preview ELSE "none",
             p \in begin(a)
      PROVE  /\ p[1] \in Hw /\ p[2] \in BOOLEAN
             /\ p[2] => Captures(h, p[1])
             /\ ~p[2] => Failed(h, p[1])
  <2>1. a.dead = h.dead /\ a.pproc = h.pproc /\ a.cmds = h.cmds
    BY <1>1 DEF Keeps, Fields
  <2>2. CASE p[2]
    <3>1. /\ p[1] \in Hw /\ p[2] \in BOOLEAN /\ ~a.dead
          /\ Keeps(a, p[1], Start)
          /\ p[1].capture = "still" /\ p[1].job /\ ~p[1].ready /\ ~p[1].lit /\ p[1].shots = 0
      BY <1>1, <2>2, Begin, Begun
    <3>2. p[1].preview = a.preview
      BY <3>1 DEF Keeps, Fields, Start
    <3>3. Keeps(h, p[1], Start \cup {"preview"})
      BY <1>1, <3>1 DEF Keeps
    <3> QED BY <1>1, <2>1, <2>2, <3>1, <3>2, <3>3 DEF Captures
  <2>3. CASE ~p[2]
    <3>1. p[1] \in Hw /\ p[2] \in BOOLEAN /\ p[1] \in notBegun(a)
      BY <1>1, <2>3, Begin
    <3>2. /\ Keeps(a, p[1], {"pproc", "cmds"})
          /\ config.zsl => \/ p[1] = a
                           \/ ~p[1].pproc /\ \E t \in Told : p[1].cmds = t \o a.cmds
      BY <1>1, <3>1, NotBegun
    <3>3. p[1].preview = a.preview
      BY <3>2 DEF Keeps, Fields
    <3>4. Keeps(h, p[1], {"preview", "pproc", "cmds"})
      BY <1>1, <3>2 DEF Keeps
    <3> QED BY <1>1, <2>1, <2>3, <3>1, <3>2, <3>3, <3>4 DEF Failed
  <2> QED BY <2>2, <2>3
<1>2. CASE ~config.zsl
  <2>1. stopPreview(h) \in Hw /\ Keeps(h, stopPreview(h), {"preview"}) /\ stopPreview(h).preview = "none"
    BY StopPreview
  <2> QED BY <1>1, <1>2, <2>1 DEF takePicture
<1>3. CASE config.zsl
  <2>1. Keeps(h, h, {"preview"}) /\ Keeps(h, h, {"preview", "pproc", "cmds"})
    BY DEF Keeps
  <2>2. CASE p = <<h, FALSE>>
    BY <1>3, <2>1, <2>2 DEF Failed
  <2>3. CASE p \in begin(h)
    BY <1>1, <1>3, <2>1, <2>3
  <2> QED BY <1>3, <2>2, <2>3 DEF takePicture
<1> QED BY <1>2, <1>3

\* What ending a capture leaves.
Cancels(h, g) ==
  /\ ~h.job /\ ~g.pproc
  /\ Keeps(h, g, {"capture", "pproc", "cmds"})
  /\ g.capture = IF h.capture = "still" THEN "none" ELSE h.capture
  /\ g.cmds = <<"STOP">> \o h.cmds

LEMMA StopPostproc ==
  ASSUME NEW h \in Hw, NEW g, g = stopPostproc(h)
  PROVE  /\ g \in Hw
         /\ Keeps(h, g, {"pproc", "cmds"})
         /\ ~g.pproc /\ g.cmds = <<"STOP">> \o h.cmds
<1>1. <<"STOP">> \o h.cmds \in Seq(Commands)
  BY Prepended DEF Hw, Told
<1>2. ASSUME NEW b \in BOOLEAN, NEW s \in Seq(Commands)
      PROVE  [h EXCEPT !.pproc = b, !.cmds = s] \in Hw
  BY ZenonT(40) DEF Hw
<1>3. g = [h EXCEPT !.pproc = FALSE, !.cmds = <<"STOP">> \o h.cmds]
  BY DEF stopPostproc
<1>4. Keeps(h, g, {"pproc", "cmds"}) /\ ~g.pproc /\ g.cmds = <<"STOP">> \o h.cmds
  BY DEF stopPostproc, Keeps, Fields, Hw
<1> QED BY <1>1, <1>2, <1>3, <1>4

LEMMA Ended ==
  ASSUME NEW h \in Hw, NEW kind \in {"still", "live"}, NEW g, g = ended(h, kind)
  PROVE  /\ g \in Hw
         /\ Keeps(h, g, {"capture"})
         /\ g.capture = IF h.capture = kind THEN "none" ELSE h.capture
<1>1. (IF h.capture = kind THEN "none" ELSE h.capture) \in {"none", "still", "live"}
  BY DEF Hw
<1>2. g \in Hw
  BY <1>1, SetField DEF ended
<1>3. Keeps(h, g, {"capture"}) /\ g.capture = IF h.capture = kind THEN "none" ELSE h.capture
  BY DEF ended, Keeps, Fields, Hw
<1> QED BY <1>2, <1>3

LEMMA CancelPicture ==
  ASSUME NEW h \in Hw, NEW g \in cancelPicture(h)
  PROVE  g \in Hw /\ Cancels(h, g)
<1>1. ~h.job /\ g = stopPostproc(ended(h, "still"))
  BY DEF cancelPicture
<1>2. PICK a : a = ended(h, "still")
  OBVIOUS
<1>3. a \in Hw /\ Keeps(h, a, {"capture"}) /\ a.capture = IF h.capture = "still" THEN "none" ELSE h.capture
  BY <1>2, Ended
<1>4. g \in Hw /\ Keeps(a, g, {"pproc", "cmds"}) /\ ~g.pproc /\ g.cmds = <<"STOP">> \o a.cmds
  BY <1>1, <1>2, <1>3, StopPostproc
<1>5. Keeps(h, g, {"capture", "pproc", "cmds"}) /\ a.cmds = h.cmds /\ g.capture = a.capture
  BY <1>3, <1>4 DEF Keeps, Fields
<1> QED BY <1>1, <1>3, <1>4, <1>5 DEF Cancels

LEMMA LiveSnapshot ==
  ASSUME NEW h \in Hw
  PROVE  /\ \A g \in takeLiveSnapshot(h) :
              g \in Hw /\ Keeps(h, g, {"live"}) /\ h.live = "none" /\ g.live = "take"
         /\ \A g \in cancelLiveSnapshot(h) :
              g \in Hw /\ Keeps(h, g, {"live"}) /\ h.live = "none" /\ g.live = "cancel"
<1>1. ASSUME NEW s \in {"take", "cancel"}
      PROVE  /\ [h EXCEPT !.live = s] \in Hw
             /\ Keeps(h, [h EXCEPT !.live = s], {"live"})
             /\ [h EXCEPT !.live = s].live = s
  <2>1. [h EXCEPT !.live = s] \in Hw
    BY SetField
  <2>2. Keeps(h, [h EXCEPT !.live = s], {"live"}) /\ [h EXCEPT !.live = s].live = s
    BY DEF Keeps, Fields, Hw
  <2> QED BY <2>1, <2>2
<1> QED BY <1>1 DEF takeLiveSnapshot, cancelLiveSnapshot

LEMMA LongshotSet ==
  ASSUME NEW h \in Hw, NEW b \in BOOLEAN, NEW g, g = [h EXCEPT !.longshot = b, !.prepRun = FALSE]
  PROVE  g \in Hw /\ Keeps(h, g, {"longshot", "prepRun"}) /\ g.longshot = b
<1>1. ASSUME NEW c \in BOOLEAN
      PROVE  [h EXCEPT !.longshot = b, !.prepRun = c] \in Hw
  BY ZenonT(40) DEF Hw
<1>2. g \in Hw
  BY <1>1
<1>3. Keeps(h, g, {"longshot", "prepRun"}) /\ g.longshot = b
  BY DEF Keeps, Fields, Hw
<1> QED BY <1>2, <1>3

LEMMA LongshotOn ==
  ASSUME NEW h \in Hw, NEW p \in longshotOn(h)
  PROVE  /\ p[1] \in Hw /\ p[2] \in BOOLEAN
         /\ Keeps(h, p[1], {"longshot", "prepRun"})
         /\ h.longshot => p[1].longshot
<1>1. CASE p = <<h, FALSE>>
  BY <1>1 DEF Keeps
<1>2. CASE p = <<[h EXCEPT !.longshot = TRUE, !.prepRun = FALSE], TRUE>>
  BY <1>2, LongshotSet
<1> QED BY <1>1, <1>2 DEF longshotOn

\* LONGSHOT_OFF ends the capture, if there is one, and tells the state machine.
LEMMA LongshotOff ==
  ASSUME NEW h \in Hw, NEW p \in longshotOff(h)
  PROVE  /\ p[1] \in Hw /\ p[2] = TRUE
         /\ ~p[1].longshot
         /\ h.longshot /\ h.state \in Capturing =>
              /\ Keeps(h, p[1], {"longshot", "prepRun", "capture", "pproc", "cmds", "evts"})
              /\ p[1].capture = IF h.capture = "still" THEN "none" ELSE h.capture
              /\ p[1].evts = Append(h.evts, "snapshotDone")
         /\ ~(h.longshot /\ h.state \in Capturing) => Keeps(h, p[1], {"longshot", "prepRun"})
<1>1. CASE h.longshot /\ h.state \in Capturing
  <2>1a. PICK c \in cancelPicture(h) :
            \E g \in {[c EXCEPT !.evts = Append(@, "snapshotDone")]} :
              p = <<[g EXCEPT !.longshot = FALSE, !.prepRun = FALSE], TRUE>>
    BY <1>1 DEF longshotOff
  <2>1. PICK g : /\ g = [c EXCEPT !.evts = Append(@, "snapshotDone")]
                 /\ p = <<[g EXCEPT !.longshot = FALSE, !.prepRun = FALSE], TRUE>>
    BY <2>1a
  <2>2. c \in Hw /\ Cancels(h, c)
    BY CancelPicture
  <2>3. Append(c.evts, "snapshotDone") \in Seq(Evts) /\ c.evts = h.evts
    <3>1. c.evts = h.evts /\ c.evts \in Seq(Evts) /\ "snapshotDone" \in Evts
      BY <2>2 DEF Cancels, Keeps, Fields, Hw, Evts
    <3> QED BY <3>1, AppendProperties
  <2>4. g \in Hw
    BY <2>1, <2>2, <2>3, SetField
  <2>5. Keeps(c, g, {"evts"}) /\ g.evts = Append(c.evts, "snapshotDone")
    BY <2>1, <2>2 DEF Keeps, Fields, Hw
  <2>6. p[1] \in Hw /\ Keeps(g, p[1], {"longshot", "prepRun"}) /\ p[1].longshot = FALSE
    BY <2>1, <2>4, LongshotSet
  <2>7. p[1].capture = c.capture /\ p[1].evts = Append(h.evts, "snapshotDone")
    BY <2>3, <2>5, <2>6 DEF Keeps, Fields
  <2>8. Keeps(h, p[1], {"longshot", "prepRun", "capture", "pproc", "cmds", "evts"})
    BY <2>2, <2>5, <2>6 DEF Cancels, Keeps
  <2> QED BY <1>1, <2>1, <2>2, <2>6, <2>7, <2>8 DEF Cancels
<1>2. CASE ~(h.longshot /\ h.state \in Capturing)
  <2>1. p = <<[h EXCEPT !.longshot = FALSE, !.prepRun = FALSE], TRUE>>
    BY <1>2 DEF longshotOff
  <2> QED BY <1>2, <2>1, LongshotSet
<1> QED BY <1>1, <1>2

\* Another shot of a longshot.
LEMMA LongShot ==
  ASSUME config.pictures \in Nat, NEW h \in Hw, NEW p \in longShot(h)
  PROVE  p[1] \in Hw /\ p[2] \in BOOLEAN /\ Keeps(h, p[1], {"shots"})
<1>1. CASE p = <<h, FALSE>>
  BY <1>1 DEF Keeps
<1>2. CASE p = <<[h EXCEPT !.shots = 0], TRUE>>
  <2>0. 0 \in 0 .. config.pictures
    OBVIOUS
  <2>1. [h EXCEPT !.shots = 0] \in Hw
    BY <2>0, SetField
  <2>2. Keeps(h, [h EXCEPT !.shots = 0], {"shots"})
    BY DEF Keeps, Fields, Hw
  <2> QED BY <1>2, <2>1, <2>2
<1>3. p \in {<<h, FALSE>>} \/ p \in fallible([h EXCEPT !.shots = 0], h)
  BY Zenon DEF longShot
<1> QED BY <1>1, <1>2, <1>3, Fallible

-----------------------------------------------------------------------------
(* What a handler does, summed up.                                          *)

ConfigTyped ==
  /\ config.pictures \in Nat \ {0}
  /\ config.zsl \in BOOLEAN /\ config.restart \in BOOLEAN /\ config.flash \in BOOLEAN
  /\ config.faulty \in BOOLEAN /\ config.retro \in 0 .. config.pictures

Retro == config.zsl /\ config.retro > 0
Recording == {"RECORDING", "VIDEO_PIC"}

\* What holds of the hardware on its own between two handlers.
Sound(h) ==
  /\ h.capture = "still" => h.state \in {"PIC", "PREVIEW_PIC"}
  /\ h.capture = "live" => h.live = "cancel" \/ (h.state = "VIDEO_PIC" /\ h.live = "none")
  /\ h.live = "take" => h.state = "VIDEO_PIC"
  /\ h.state = "PREVIEW_PIC" => config.zsl \/ h.longshot
  /\ h.recording => h.state \in Recording
  /\ (~config.restart /\ h.state \in {"STOPPED", "PIC"}) => h.preview = "none"
  /\ h.retro => Retro

\* The preview is off where a failed restart of it would go unnoticed.
Halted(h) == h.state \in {"READY", "PREVIEW_PIC"} => h.preview = "none"

\* What holds of the hardware when a call is handled.
Expects(h, e) ==
  /\ h \in Hw /\ Sound(h) /\ ConfigTyped
  /\ e = "setParamsRestart" => Halted(h)
  /\ e = "longshotOff" => h.longshot

Answers(h, e, g) ==
  \E ok \in BOOLEAN : g.results = Append(h.results, [api |-> e, ok |-> ok])

\* The kinds of steps a call may cause, by what they change.
Settings == {"state", "preview", "recording", "window", "enabled", "delay", "delayed", "results"}

Settles(h, e, g) == Keeps(h, g, Settings) /\ Answers(h, e, g)

Ignores(h, e, g) == e \in {"regFace", "stopCaptureChannel"} /\ Keeps(h, g, {})

Awaiting(h) == h.state = "PREPARE" \/ (h.state = "PREVIEW_PIC" /\ h.retro)

Measures(h, e, g) ==
  /\ e = "prepareSnapshot" /\ ~h.dead
  /\ Keeps(h, g, (Settings \ {"results"}) \cup {"prep"})
  /\ g.prep /\ Awaiting(g)

Starts(h, e, g) ==
  /\ e = "takePicture" /\ ~h.dead /\ h.state = "PREVIEWING"
  /\ Keeps(h, g, Settings \cup Start)
  /\ g.capture = "still" /\ g.job /\ ~g.ready /\ ~g.lit /\ g.shots = 0
  /\ IF h.retro THEN g.results = h.results /\ g.state = "PREVIEW_PIC"
     ELSE Answers(h, e, g)

StartFails(h, e, g) ==
  /\ e = "takePicture" /\ h.state = "PREVIEWING"
  /\ Keeps(h, g, Settings \cup {"pproc", "cmds"})
  /\ Answers(h, e, g)
  /\ config.zsl => \/ g.pproc = h.pproc /\ g.cmds = h.cmds
                   \/ ~g.pproc /\ \E t \in Told : g.cmds = t \o h.cmds

Ends(h, e, g) ==
  /\ e \in {"cancelPicture", "stopPreview", "longshotOff"} /\ ~h.job
  /\ Keeps(h, g, Settings \cup {"capture", "pproc", "cmds", "longshot", "prepRun", "evts"})
  /\ Answers(h, e, g)
  /\ g.capture = IF h.capture = "still" THEN "none" ELSE h.capture
  /\ IF e = "longshotOff" THEN g.evts = Append(h.evts, "snapshotDone")
     ELSE g.evts = h.evts /\ g.longshot = h.longshot

Releases(h, e, g) ==
  /\ e = "release" /\ h.capture # "still"
  /\ Keeps(h, g, Settings \cup {"capture"})
  /\ Answers(h, e, g)
  /\ g.capture = "none"

Lives(h, e, g) ==
  /\ e \in {"takePicture", "stopRecording", "stopPreview", "cancelPicture"}
  /\ h.state \in Recording
  /\ Keeps(h, g, Settings \cup {"live"})
  /\ Answers(h, e, g)

Longs(h, e, g) ==
  /\ e \in {"longshotOn", "longshotOff"}
  /\ Keeps(h, g, Settings \cup {"longshot", "prepRun"})
  /\ Answers(h, e, g)
  /\ e = "longshotOn" => (h.longshot => g.longshot)
  /\ e = "longshotOff" => h.capture # "still"

Repeats(h, e, g) ==
  /\ e = "takePicture" /\ h.longshot
  /\ Keeps(h, g, Settings \cup {"shots"})
  /\ Answers(h, e, g)

Kinds(h, e, g) ==
  \/ Settles(h, e, g) \/ Ignores(h, e, g) \/ Measures(h, e, g)
  \/ Starts(h, e, g) \/ StartFails(h, e, g) \/ Ends(h, e, g)
  \/ Releases(h, e, g) \/ Lives(h, e, g) \/ Longs(h, e, g) \/ Repeats(h, e, g)

\* Where a call may lead, and what becomes of the preview and the messages.
Moves(h, e, g) ==
  /\ g.state = "PREPARE" => h.state = "PREPARE" \/ g.prep
  /\ h.state \in Recording /\ e \notin {"stopRecording", "stopPreview"} => g.state \in Recording
  /\ g.state \in Recording /\ e # "startRecording" => h.state \in Recording
  /\ e = "setParamsStop" => Halted(g)
  /\ (e \in {"other", "cancelPicture", "stopCaptureChannel", "prepareSnapshot"} \/ (e = "takePicture" /\ h.dead))
       /\ Halted(h) => Halted(g)
  /\ e # "disableMsg" /\ (h.enabled \/ h.delayed) => g.enabled \/ g.delayed
  /\ e = "enableMsg" /\ h.state # "PREPARE" => g.enabled \/ g.delayed

Call(h, e, g) == g \in Hw /\ Sound(g) /\ Kinds(h, e, g) /\ Moves(h, e, g)

\* What most branches need: a pair of a step that changes settings only, and
\* its answer.
LEMMA Reply ==
  ASSUME NEW e \in Apis \cup Evts, NEW s, NEW g \in reply(e, s),
         \A p \in s : p[1] \in Hw /\ p[2] \in BOOLEAN
  PROVE  \E p \in s : /\ g \in Hw /\ Keeps(p[1], g, {"results"})
                      /\ g.results = Append(p[1].results, [api |-> e, ok |-> p[2]])
<1>1. PICK p \in s : g = signalAPIResult(p[1], e, p[2])
  BY DEF reply
<1>2. p[1] \in Hw /\ p[2] \in BOOLEAN
  OBVIOUS
<1>3. /\ g \in Hw /\ Keeps(p[1], g, {"results"})
      /\ g.results = Append(p[1].results, [api |-> e, ok |-> p[2]])
  BY <1>1, <1>2, Signalled, Zenon
<1> QED BY <1>3, Zenon

LEMMA ReplyOne ==
  ASSUME NEW e, NEW a, NEW ok, NEW g \in reply(e, {<<a, ok>>})
  PROVE  g = signalAPIResult(a, e, ok)
BY DEF reply

LEMMA Moved ==
  ASSUME NEW s, NEW good \in States, NEW bad \in States, NEW p \in moved(s, good, bad),
         \A q \in s : q[1] \in Hw /\ q[2] \in BOOLEAN
  PROVE  \E q \in s : /\ p[1] \in Hw /\ p[2] = q[2] /\ Keeps(q[1], p[1], {"state"})
                      /\ p[1].state = IF p[2] THEN good ELSE bad
<1>1. PICK q \in s : p = <<[q[1] EXCEPT !.state = IF q[2] THEN good ELSE bad], q[2]>>
  BY DEF moved
<1>2. p[1] = in(q[1], IF q[2] THEN good ELSE bad) /\ p[2] = q[2]
  BY <1>1 DEF in
<1> QED BY <1>2, In

\* A call that changes settings only.
LEMMA Settled ==
  ASSUME NEW h \in Hw, NEW e \in Apis, NEW s, NEW g \in reply(e, s),
         \A p \in s : p[1] \in Hw /\ p[2] \in BOOLEAN /\ Keeps(h, p[1], Settings \ {"results"})
  PROVE  /\ g \in Hw /\ Settles(h, e, g)
         /\ \E p \in s : p[1] \in Hw /\ p[2] \in BOOLEAN /\ Keeps(p[1], g, {"results"})
<1>1. PICK p \in s : /\ g \in Hw /\ Keeps(p[1], g, {"results"})
                     /\ g.results = Append(p[1].results, [api |-> e, ok |-> p[2]])
  BY Reply
<1>2. p[1] \in Hw /\ p[2] \in BOOLEAN /\ Keeps(h, p[1], Settings \ {"results"})
  OBVIOUS
<1>3. p[1].results = h.results
  BY <1>2 DEF Keeps, Settings, Fields
<1>4. Keeps(h, g, Settings)
  BY <1>1, <1>2 DEF Keeps, Settings
<1>5. Answers(h, e, g)
  BY <1>1, <1>2, <1>3, Zenon DEF Answers
<1> QED BY <1>1, <1>2, <1>4, <1>5, Zenon DEF Settles

LEMMA SettledOne ==
  ASSUME NEW h \in Hw, NEW e \in Apis, NEW a \in Hw, NEW ok \in BOOLEAN, NEW g, g = signalAPIResult(a, e, ok),
         Keeps(h, a, Settings \ {"results"})
  PROVE  g \in Hw /\ Settles(h, e, g) /\ Keeps(a, g, {"results"})
<1>1. /\ g \in Hw /\ Keeps(a, g, {"results"})
      /\ g.results = Append(a.results, [api |-> e, ok |-> ok])
  BY Signalled, Zenon
<1>2. a.results = h.results
  BY DEF Keeps, Settings, Fields
<1>3. Keeps(h, g, Settings)
  BY <1>1 DEF Keeps, Settings
<1>4. Answers(h, e, g)
  BY <1>1, <1>2, Zenon DEF Answers
<1> QED BY <1>1, <1>3, <1>4, Zenon DEF Settles

\* A call that only answers.
LEMMA Unmoved ==
  ASSUME NEW h \in Hw, NEW e \in Apis, NEW g \in Hw, Keeps(h, g, {"results", "window", "prepRun"}), Sound(h),
         e = "enableMsg" => h.state = "PREPARE",
         e = "setParamsStop" => Halted(h)
  PROVE  Sound(g) /\ Moves(h, e, g)
<1>1. /\ g.state = h.state /\ g.preview = h.preview /\ g.capture = h.capture
      /\ g.live = h.live /\ g.longshot = h.longshot /\ g.recording = h.recording
      /\ g.retro = h.retro /\ g.enabled = h.enabled /\ g.delayed = h.delayed
      /\ g.prep = h.prep
  BY DEF Keeps, Fields
<1>2. Sound(g)
  BY <1>1, Zenon DEF Sound
<1>3. Moves(h, e, g)
  BY <1>1 DEF Moves, Halted
<1> QED BY <1>2, <1>3

LEMMA Refuses ==
  ASSUME NEW h, NEW e \in Apis, Expects(h, e), NEW g, NEW ok \in BOOLEAN, g = signalAPIResult(h, e, ok),
         e = "enableMsg" => h.state = "PREPARE",
         e = "setParamsStop" => h.state \notin {"READY", "PREVIEW_PIC"}
  PROVE  Call(h, e, g)
<1>1. h \in Hw /\ Sound(h)
  BY DEF Expects
<1>2. Keeps(h, h, Settings \ {"results"})
  BY DEF Keeps
<1>3. g \in Hw /\ Settles(h, e, g) /\ Keeps(h, g, {"results"})
  BY <1>1, <1>2, SettledOne
<1>4. Keeps(h, g, {"results", "window", "prepRun"})
  BY <1>3 DEF Keeps
<1>5. e = "setParamsStop" => Halted(h)
  BY DEF Halted
<1>6. Sound(g) /\ Moves(h, e, g)
  BY <1>1, <1>3, <1>4, <1>5, Unmoved
<1> QED BY <1>3, <1>6 DEF Call, Kinds

LEMMA LongshotOffAlone ==
  ASSUME NEW h, Expects(h, "longshotOff"), NEW g \in reply("longshotOff", longshotOff(h)),
         h.state \notin {"PIC", "PREVIEW_PIC"}
  PROVE  Call(h, "longshotOff", g)
<1>1. h \in Hw /\ Sound(h) /\ h.longshot
  BY DEF Expects
<1>2. PICK p \in longshotOff(h) : /\ g \in Hw /\ Keeps(p[1], g, {"results"})
                                  /\ g.results = Append(p[1].results, [api |-> "longshotOff", ok |-> p[2]])
  <2>1. \A p \in longshotOff(h) : p[1] \in Hw /\ p[2] \in BOOLEAN
    BY <1>1, LongshotOff
  <2> QED BY <2>1, Reply DEF Apis
<1>3. p[1] \in Hw /\ p[2] = TRUE /\ ~p[1].longshot
  BY <1>1, LongshotOff
<1>4. h.capture # "still"
  BY <1>1 DEF Sound
<1>5. CASE h.state \in Capturing
  <2>1. /\ Keeps(h, p[1], {"longshot", "prepRun", "capture", "pproc", "cmds", "evts"})
        /\ p[1].capture = h.capture
        /\ p[1].evts = Append(h.evts, "snapshotDone")
        /\ ~h.job
    <3>1. ~h.job
      BY <1>1, <1>5, CancelPicture DEF longshotOff, Cancels
    <3> QED BY <1>1, <1>4, <1>5, <3>1, LongshotOff
  <2>2. /\ Keeps(h, g, Settings \cup {"capture", "pproc", "cmds", "longshot", "prepRun", "evts"})
        /\ g.evts = Append(h.evts, "snapshotDone")
        /\ g.results = Append(h.results, [api |-> "longshotOff", ok |-> TRUE])
        /\ g.state = h.state /\ g.preview = h.preview /\ g.capture = h.capture
        /\ g.live = h.live /\ g.recording = h.recording
        /\ g.retro = h.retro /\ g.enabled = h.enabled /\ g.delayed = h.delayed
    BY <1>2, <1>3, <2>1 DEF Keeps, Fields, Settings
  <2>3. Ends(h, "longshotOff", g)
    BY <1>4, <2>1, <2>2 DEF Ends, Answers
  <2>4. Sound(g)
    BY <1>1, <2>2 DEF Sound
  <2>5. Moves(h, "longshotOff", g)
    BY <1>1, <2>2 DEF Moves
  <2> QED BY <1>2, <2>3, <2>4, <2>5 DEF Call, Kinds
<1>6. CASE h.state \notin Capturing
  <2>1. Keeps(h, p[1], {"longshot", "prepRun"})
    BY <1>1, <1>6, LongshotOff
  <2>2. /\ Keeps(h, g, Settings \cup {"longshot", "prepRun"})
        /\ g.results = Append(h.results, [api |-> "longshotOff", ok |-> TRUE])
        /\ g.state = h.state /\ g.preview = h.preview /\ g.capture = h.capture
        /\ g.live = h.live /\ g.recording = h.recording
        /\ g.retro = h.retro /\ g.enabled = h.enabled /\ g.delayed = h.delayed
    BY <1>2, <1>3, <2>1 DEF Keeps, Fields, Settings
  <2>3. Longs(h, "longshotOff", g)
    BY <1>4, <2>2 DEF Longs, Answers
  <2>4. Sound(g)
    BY <1>1, <1>6, <2>2 DEF Sound, Capturing
  <2>5. Moves(h, "longshotOff", g)
    BY <1>1, <2>2 DEF Moves
  <2> QED BY <1>2, <2>3, <2>4, <2>5 DEF Call, Kinds
<1> QED BY <1>5, <1>6

\* The calls that every state handles alike.
LEMMA Common ==
  ASSUME NEW h, NEW e \in Apis, Expects(h, e), NEW g \in reply(e, common(h, e)),
         e = "longshotOff" => h.state \notin {"PIC", "PREVIEW_PIC"},
         e = "setParamsStop" => h.state \notin {"READY", "PREVIEW_PIC"}
  PROVE  Call(h, e, g)
<1>0. h \in Hw /\ Sound(h) /\ h.state \in States
  BY DEF Expects, Hw
<1>1. CASE e = "longshotOff"
  <2>1. g \in reply("longshotOff", longshotOff(h))
    BY <1>1 DEF common
  <2> QED BY <1>1, <2>1, LongshotOffAlone
<1>2. CASE e = "longshotOn"
  <2>1. g \in reply(e, longshotOn(h))
    BY <1>2 DEF common
  <2>2. \A p \in longshotOn(h) : p[1] \in Hw /\ p[2] \in BOOLEAN
    BY <1>0, LongshotOn
  <2>3. PICK p \in longshotOn(h) : /\ g \in Hw /\ Keeps(p[1], g, {"results"})
                                   /\ g.results = Append(p[1].results, [api |-> e, ok |-> p[2]])
    BY <2>1, <2>2, Reply
  <2>4. p[1] \in Hw /\ p[2] \in BOOLEAN /\ Keeps(h, p[1], {"longshot", "prepRun"}) /\ (h.longshot => p[1].longshot)
    BY <1>0, LongshotOn
  <2>5. /\ Keeps(h, g, Settings \cup {"longshot", "prepRun"})
        /\ g.results = Append(h.results, [api |-> e, ok |-> p[2]])
        /\ g.state = h.state /\ g.preview = h.preview /\ g.capture = h.capture
        /\ g.live = h.live /\ g.recording = h.recording
        /\ g.retro = h.retro /\ g.enabled = h.enabled /\ g.delayed = h.delayed
        /\ g.longshot = p[1].longshot
    BY <2>3, <2>4 DEF Keeps, Fields, Settings
  <2>6. Answers(h, e, g)
    BY <2>4, <2>5, Zenon DEF Answers
  <2>7. Longs(h, e, g)
    BY <1>2, <2>4, <2>5, <2>6 DEF Longs
  <2>8. Sound(g)
    BY <1>0, <2>4, <2>5 DEF Sound
  <2>9. Moves(h, e, g)
    BY <1>0, <1>2, <2>5 DEF Moves
  <2> QED BY <2>3, <2>7, <2>8, <2>9 DEF Call, Kinds
<1>3. CASE e = "enableMsg" \/ e = "disableMsg"
  <2>0. PICK b \in BOOLEAN : b = (e = "enableMsg")
    OBVIOUS
  <2>1. /\ common(h, e) = {<<[h EXCEPT !.enabled = b], TRUE>>}
        /\ b = (e = "enableMsg")
    BY <1>3, <2>0 DEF common
  <2>2. [h EXCEPT !.enabled = b] \in Hw
    BY <1>0, SetBoolean
  <2>3. Keeps(h, [h EXCEPT !.enabled = b], {"enabled"}) /\ [h EXCEPT !.enabled = b].enabled = b
    BY <1>0 DEF Keeps, Fields, Hw
  <2>4. Keeps(h, [h EXCEPT !.enabled = b], Settings \ {"results"})
    BY <2>3 DEF Keeps, Settings
  <2>5. g \in Hw /\ Settles(h, e, g) /\ Keeps([h EXCEPT !.enabled = b], g, {"results"})
    <3>0. g \in reply(e, {<<[h EXCEPT !.enabled = b], TRUE>>})
      BY <2>1
    <3>1. g = signalAPIResult([h EXCEPT !.enabled = b], e, TRUE)
      BY <3>0, ReplyOne
    <3> QED BY <1>0, <2>2, <2>4, <3>1, SettledOne
  <2>6. g.enabled = b
    BY <2>3, <2>5 DEF Keeps, Fields
  <2>7. Keeps(h, g, {"results", "enabled"})
    BY <2>3, <2>5 DEF Keeps
  <2>8. /\ g.state = h.state /\ g.preview = h.preview /\ g.capture = h.capture
        /\ g.live = h.live /\ g.recording = h.recording /\ g.longshot = h.longshot
        /\ g.retro = h.retro
    BY <2>7 DEF Keeps, Fields
  <2>9. Sound(g)
    BY <1>0, <2>8, Zenon DEF Sound
  <2>10. Moves(h, e, g)
    BY <1>0, <1>3, <2>1, <2>6, <2>8 DEF Moves
  <2> QED BY <2>5, <2>9, <2>10 DEF Call, Kinds
<1>4. CASE e \notin {"longshotOff", "longshotOn", "enableMsg", "disableMsg"}
  <2>1. \A p \in common(h, e) : p = <<h, TRUE>> \/ p = <<h, FALSE>>
    BY <1>4, Fallible DEF common
  <2>2. PICK ok \in BOOLEAN : g = signalAPIResult(h, e, ok)
    <3>1. PICK p \in common(h, e) : g = signalAPIResult(p[1], e, p[2])
      BY DEF reply
    <3>2. p = <<h, TRUE>> \/ p = <<h, FALSE>>
      BY <2>1
    <3>3. CASE p = <<h, TRUE>>
      BY <3>1, <3>3
    <3>4. CASE p = <<h, FALSE>>
      BY <3>1, <3>4
    <3> QED BY <3>2, <3>3, <3>4
  <2> QED BY <1>4, <2>2, Refuses
<1> QED BY <1>1, <1>2, <1>3, <1>4

LEMMA PlainIs ==
  ASSUME NEW h, NEW e, h.state \in States
  PROVE  /\ e = "snapshotDone" => plain(h, e) = {signalEvtResult(h)}
         /\ e \in Evts \ {"snapshotDone"} => plain(h, e) = {h}
         /\ e \in Apis /\ e \in Unanswered[h.state] =>
              plain(h, e) = {h} /\ e \in {"regFace", "stopCaptureChannel"}
         /\ e \in Apis /\ e \notin Unanswered[h.state] /\ e \in Refused[h.state] =>
              plain(h, e) = {signalAPIResult(h, e, FALSE)}
         /\ e \in Apis /\ e \notin Unanswered[h.state] /\ e \notin Refused[h.state] =>
              plain(h, e) = reply(e, common(h, e))
<1>1. Evts \cap Apis = {} /\ "snapshotDone" \in Evts
  BY DEF Evts, Apis
<1>2. Unanswered[h.state] \subseteq {"regFace", "stopCaptureChannel"}
  BY DEF Unanswered
<1>3. /\ Refused[h.state] \subseteq Apis
      /\ Unanswered[h.state] \cap Refused[h.state] = {}
  BY DEF Refused, States, Apis, Unanswered
<1>4. {"regFace", "stopCaptureChannel"} \subseteq Apis
  BY DEF Apis
<1> QED BY <1>1, <1>2, <1>3, <1>4 DEF plain

LEMMA Plain ==
  ASSUME NEW h, NEW e \in Apis, Expects(h, e), NEW g \in plain(h, e),
         e = "longshotOff" => h.state \notin {"PIC", "PREVIEW_PIC"},
         e = "setParamsStop" => h.state \notin {"READY", "PREVIEW_PIC"}
  PROVE  Call(h, e, g)
<1>0. h \in Hw /\ Sound(h) /\ h.state \in States /\ e # "snapshotDone"
  BY DEF Expects, Hw, Apis
<1>1. CASE e \in Unanswered[h.state]
  <2>1. g = h /\ e \in {"regFace", "stopCaptureChannel"}
    <3>1. plain(h, e) = {h} /\ e \in {"regFace", "stopCaptureChannel"}
      BY <1>0, <1>1, PlainIs, Zenon
    <3> QED BY <3>1
  <2>2. Ignores(h, e, g)
    BY <2>1 DEF Ignores, Keeps
  <2>3. Moves(h, e, g)
    BY <2>1 DEF Moves
  <2> QED BY <1>0, <2>1, <2>2, <2>3 DEF Call, Kinds
<1>2. CASE e \notin Unanswered[h.state] /\ e \in Refused[h.state]
  <2>1. g = signalAPIResult(h, e, FALSE)
    <3>1. plain(h, e) = {signalAPIResult(h, e, FALSE)}
      BY <1>0, <1>2, PlainIs, Zenon
    <3> QED BY <3>1
  <2>2. e = "enableMsg" => h.state = "PREPARE"
    BY <1>0, <1>2 DEF Refused, States
  <2> QED BY <2>1, <2>2, Refuses
<1>3. CASE e \notin Unanswered[h.state] /\ e \notin Refused[h.state]
  <2>1. g \in reply(e, common(h, e))
    BY <1>0, <1>3, PlainIs
  <2> QED BY <2>1, Common
<1> QED BY <1>1, <1>2, <1>3

\* A call that moves between the states without a capture.
LEMMA IdleCall ==
  ASSUME NEW h, NEW e \in Apis, Expects(h, e), h.state \in {"STOPPED", "READY", "PREVIEWING"},
         NEW g \in Hw, Settles(h, e, g),
         g.state \in {"STOPPED", "READY", "PREVIEWING"}, g.recording = h.recording,
         ~config.restart /\ g.state = "STOPPED" => g.preview = "none",
         h.enabled \/ h.delayed => g.enabled \/ g.delayed,
         e \notin {"setParamsStop", "other", "cancelPicture", "stopCaptureChannel",
                   "prepareSnapshot", "takePicture", "enableMsg"}
  PROVE  Call(h, e, g)
<1>1. h \in Hw /\ Sound(h)
  BY DEF Expects
<1>2. g.capture = h.capture /\ g.live = h.live /\ g.longshot = h.longshot /\ g.retro = h.retro
  BY DEF Settles, Keeps, Settings, Fields
<1>3. Sound(g)
  BY <1>1, <1>2 DEF Sound, Recording
<1>4. Moves(h, e, g)
  BY <1>1 DEF Moves, Recording
<1> QED BY <1>3, <1>4 DEF Call, Kinds

\* The answer to a pair that is the outcome of a start of the preview.
LEMMA SettledMove ==
  ASSUME NEW h \in Hw, NEW e \in Apis, NEW s, NEW good \in States, NEW bad \in States,
         NEW g \in reply(e, moved(s, good, bad)),
         \A p \in s : /\ p[1] \in Hw /\ p[2] \in BOOLEAN
                      /\ Keeps(h, p[1], {"preview", "window", "enabled", "delayed", "delay", "recording"})
  PROVE  /\ g \in Hw /\ Settles(h, e, g)
         /\ \E p \in s : /\ p[1] \in Hw /\ p[2] \in BOOLEAN
                         /\ Keeps(h, p[1], {"preview", "window", "enabled", "delayed", "delay", "recording"})
                         /\ Keeps(p[1], g, {"state", "results"})
                         /\ g.state = IF p[2] THEN good ELSE bad
                         /\ g.preview = p[1].preview /\ g.enabled = p[1].enabled
                         /\ g.delayed = p[1].delayed /\ g.recording = p[1].recording
<1>1. \A p \in moved(s, good, bad) :
        \E q \in s : /\ p[1] \in Hw /\ p[2] = q[2] /\ Keeps(q[1], p[1], {"state"})
                     /\ p[1].state = IF p[2] THEN good ELSE bad
  BY Moved
<1>2. \A p \in moved(s, good, bad) : p[1] \in Hw /\ p[2] \in BOOLEAN /\ Keeps(h, p[1], Settings \ {"results"})
  <2> TAKE p \in moved(s, good, bad)
  <2>1. PICK q \in s : /\ p[1] \in Hw /\ p[2] = q[2] /\ Keeps(q[1], p[1], {"state"})
    BY <1>1
  <2>2. Keeps(h, q[1], {"preview", "window", "enabled", "delayed", "delay", "recording"}) /\ q[2] \in BOOLEAN
    OBVIOUS
  <2>3. Keeps(h, p[1], Settings \ {"results"})
    BY <2>1, <2>2 DEF Keeps, Settings
  <2> QED BY <2>1, <2>2, <2>3
<1>3. PICK p \in moved(s, good, bad) : p[1] \in Hw /\ p[2] \in BOOLEAN /\ Keeps(p[1], g, {"results"})
  BY <1>2, Settled
<1>4. g \in Hw /\ Settles(h, e, g)
  BY <1>2, Settled
<1>5. PICK q \in s : /\ p[2] = q[2] /\ Keeps(q[1], p[1], {"state"})
                     /\ p[1].state = IF p[2] THEN good ELSE bad
  BY <1>1
<1>6. g.state = p[1].state
  BY <1>3 DEF Keeps, Fields
<1>7. Keeps(q[1], g, {"state", "results"})
  BY <1>3, <1>5 DEF Keeps
<1>8. /\ g.preview = q[1].preview /\ g.enabled = q[1].enabled
      /\ g.delayed = q[1].delayed /\ g.recording = q[1].recording
  BY <1>7 DEF Keeps, Fields
<1>9. /\ q[1] \in Hw /\ q[2] \in BOOLEAN
      /\ Keeps(h, q[1], {"preview", "window", "enabled", "delayed", "delay", "recording"})
  OBVIOUS
<1> QED BY <1>4, <1>5, <1>6, <1>7, <1>8, <1>9

LEMMA StoppedCall ==
  ASSUME NEW h, NEW e \in Apis, Expects(h, e), h.state = "STOPPED",
         NEW g \in procEvtPreviewStoppedState(h, e)
  PROVE  Call(h, e, g)
<1>0. /\ h \in Hw /\ Sound(h) /\ h.capture # "still" /\ ~h.recording
      /\ (~config.restart => h.preview = "none")
      /\ "STOPPED" \in States /\ "READY" \in States /\ "PREVIEWING" \in States
  BY DEF Expects, Sound, Recording, Hw, States
<1>1. CASE e = "setWindow"
  <2>1. g = signalAPIResult([h EXCEPT !.window = TRUE], e, TRUE)
    BY <1>1 DEF procEvtPreviewStoppedState
  <2>2. [h EXCEPT !.window = TRUE] \in Hw
    BY <1>0, SetBoolean
  <2>3. Keeps(h, [h EXCEPT !.window = TRUE], {"window"})
    BY <1>0 DEF Keeps, Fields, Hw
  <2>4. Keeps(h, [h EXCEPT !.window = TRUE], Settings \ {"results"})
    BY <2>3 DEF Keeps, Settings
  <2>5. g \in Hw /\ Settles(h, e, g) /\ Keeps([h EXCEPT !.window = TRUE], g, {"results"})
    BY <1>0, <2>1, <2>2, <2>4, SettledOne
  <2>6. Keeps(h, g, {"results", "window", "prepRun"})
    BY <2>3, <2>5 DEF Keeps
  <2>7. Sound(g) /\ Moves(h, e, g)
    BY <1>0, <1>1, <2>5, <2>6, Unmoved
  <2> QED BY <2>5, <2>7 DEF Call, Kinds
<1>2. CASE e = "startPreview" /\ ~h.window
  <2>1. g \in reply(e, moved(preparePreview(h), "READY", "STOPPED"))
    BY <1>2 DEF procEvtPreviewStoppedState
  <2>2. \A p \in preparePreview(h) :
          /\ p[1] \in Hw /\ p[2] \in BOOLEAN
          /\ Keeps(h, p[1], {"preview", "window", "enabled", "delayed", "delay", "recording"})
    BY <1>0, PreparePreview, KeepsMore
  <2>3. PICK p \in preparePreview(h) :
          /\ Keeps(p[1], g, {"state", "results"})
          /\ g.state = IF p[2] THEN "READY" ELSE "STOPPED"
          /\ g.preview = p[1].preview /\ g.enabled = p[1].enabled
          /\ g.delayed = p[1].delayed /\ g.recording = p[1].recording
    BY <1>0, <2>1, <2>2, SettledMove
  <2>4. p[2] \in BOOLEAN /\ Keeps(h, p[1], {"preview"}) /\ (~p[2] => p[1].preview = h.preview)
    BY <1>0, PreparePreview
  <2>5. p[1].enabled = h.enabled /\ p[1].delayed = h.delayed /\ p[1].recording = h.recording
    BY <2>4 DEF Keeps, Fields
  <2>6. g \in Hw /\ Settles(h, e, g)
    BY <1>0, <2>1, <2>2, SettledMove
  <2> QED BY <1>0, <1>2, <2>3, <2>4, <2>5, <2>6, IdleCall
<1>3. CASE e = "startNoDisplay" \/ (e = "startPreview" /\ h.window)
  <2>1. g \in reply(e, moved(prepareApplyStart(h), "PREVIEWING", "STOPPED"))
    BY <1>3 DEF procEvtPreviewStoppedState
  <2>2. \A p \in prepareApplyStart(h) :
          /\ p[1] \in Hw /\ p[2] \in BOOLEAN
          /\ Keeps(h, p[1], {"preview", "window", "enabled", "delayed", "delay", "recording"})
    BY <1>0, PrepareApplyStart, KeepsMore
  <2>3. PICK p \in prepareApplyStart(h) :
          /\ Keeps(p[1], g, {"state", "results"})
          /\ g.state = IF p[2] THEN "PREVIEWING" ELSE "STOPPED"
          /\ g.preview = p[1].preview /\ g.enabled = p[1].enabled
          /\ g.delayed = p[1].delayed /\ g.recording = p[1].recording
    BY <1>0, <2>1, <2>2, SettledMove
  <2>4. /\ p[2] \in BOOLEAN /\ Keeps(h, p[1], {"preview", "enabled", "delayed", "delay"})
        /\ ~p[2] => p[1].preview \in {h.preview, "none"}
        /\ h.enabled \/ h.delayed => p[1].enabled \/ p[1].delayed
    BY <1>0, PrepareApplyStart
  <2>5. p[1].recording = h.recording
    BY <2>4 DEF Keeps, Fields
  <2>6. g \in Hw /\ Settles(h, e, g)
    BY <1>0, <2>1, <2>2, SettledMove
  <2> QED BY <1>0, <1>3, <2>3, <2>4, <2>5, <2>6, IdleCall
<1>4. CASE e = "release"
  <2>1. PICK a, b, c : /\ a = stopRecording(h) /\ b = stopPreview(a) /\ c = [b EXCEPT !.capture = "none"]
                       /\ g = signalAPIResult(c, e, TRUE)
    BY <1>4 DEF procEvtPreviewStoppedState
  <2>2. a \in Hw /\ Keeps(h, a, {"recording"}) /\ a.recording = FALSE
    BY <1>0, <2>1, StopRecording
  <2>3. b \in Hw /\ Keeps(a, b, {"preview"}) /\ b.preview = "none"
    BY <2>1, <2>2, StopPreview
  <2>4. c \in Hw /\ Keeps(b, c, {"capture"}) /\ c.capture = "none"
    <3>1. c \in Hw
      BY <2>1, <2>3, SetField
    <3>2. Keeps(b, c, {"capture"}) /\ c.capture = "none"
      BY <2>1, <2>3 DEF Keeps, Fields, Hw
    <3> QED BY <3>1, <3>2
  <2>5. /\ g \in Hw /\ Keeps(c, g, {"results"})
        /\ g.results = Append(c.results, [api |-> e, ok |-> TRUE])
    BY <2>1, <2>4, Signalled
  <2>6. Keeps(h, g, Settings \cup {"capture"})
    BY <2>2, <2>3, <2>4, <2>5 DEF Keeps, Settings
  <2>7. /\ c.results = h.results /\ g.preview = "none" /\ g.capture = "none" /\ g.recording = FALSE
        /\ g.state = h.state /\ g.live = h.live /\ g.longshot = h.longshot /\ g.retro = h.retro
        /\ g.enabled = h.enabled /\ g.delayed = h.delayed
    BY <2>2, <2>3, <2>4, <2>5 DEF Keeps, Fields
  <2>8. Releases(h, e, g)
    BY <1>0, <1>4, <2>5, <2>6, <2>7 DEF Releases, Answers
  <2>9. Sound(g)
    BY <1>0, <2>7 DEF Sound
  <2>10. Moves(h, e, g)
    BY <1>4, <2>7 DEF Moves, Halted
  <2> QED BY <2>5, <2>8, <2>9, <2>10 DEF Call, Kinds
<1>5. CASE e \notin {"setWindow", "startPreview", "startNoDisplay", "release"}
  <2>1. g \in plain(h, e)
    BY <1>5 DEF procEvtPreviewStoppedState
  <2> QED BY <2>1, Plain
<1> QED BY <1>1, <1>2, <1>3, <1>4, <1>5

LEMMA ReadyCall ==
  ASSUME NEW h, NEW e \in Apis, Expects(h, e), h.state = "READY",
         NEW g \in procEvtPreviewReadyState(h, e)
  PROVE  Call(h, e, g)
<1>0. /\ h \in Hw /\ Sound(h) /\ ~h.recording
      /\ "STOPPED" \in States /\ "READY" \in States /\ "PREVIEWING" \in States
  BY DEF Expects, Sound, Recording, Hw, States
<1>1. CASE e = "setWindow"
  <2>1. PICK w, a : /\ w = [h EXCEPT !.window = TRUE] /\ a = applyDelayedMsgs(w)
                    /\ g \in reply(e, moved(startOrUnprepare(a), "PREVIEWING", "STOPPED"))
    BY <1>1 DEF procEvtPreviewReadyState
  <2>2. w \in Hw /\ Keeps(h, w, {"window"})
    <3>1. w \in Hw
      BY <1>0, <2>1, SetBoolean
    <3>2. Keeps(h, w, {"window"})
      BY <1>0, <2>1 DEF Keeps, Fields, Hw
    <3> QED BY <3>1, <3>2
  <2>3. /\ a \in Hw /\ Keeps(w, a, {"enabled", "delayed", "delay"})
        /\ w.enabled \/ w.delayed => a.enabled \/ a.delayed
    BY <2>1, <2>2, ApplyDelayedMsgs
  <2>4. \A p \in startOrUnprepare(a) :
          /\ p[1] \in Hw /\ p[2] \in BOOLEAN /\ Keeps(a, p[1], {"preview"})
          /\ ~p[2] => p[1].preview = "none"
    BY <2>3, StartOrUnprepare
  <2>5. \A p \in startOrUnprepare(a) :
          /\ p[1] \in Hw /\ p[2] \in BOOLEAN
          /\ Keeps(h, p[1], {"preview", "window", "enabled", "delayed", "delay", "recording"})
    BY <2>2, <2>3, <2>4 DEF Keeps
  <2>0. g \in reply(e, moved(startOrUnprepare(a), "PREVIEWING", "STOPPED"))
    BY <2>1
  <2>6. PICK p \in startOrUnprepare(a) :
          /\ Keeps(p[1], g, {"state", "results"})
          /\ g.state = IF p[2] THEN "PREVIEWING" ELSE "STOPPED"
          /\ g.preview = p[1].preview /\ g.enabled = p[1].enabled
          /\ g.delayed = p[1].delayed /\ g.recording = p[1].recording
    BY <1>0, <2>0, <2>5, SettledMove
  <2>7. g \in Hw /\ Settles(h, e, g)
    BY <1>0, <2>0, <2>5, SettledMove
  <2>8. /\ p[1].recording = h.recording /\ p[1].enabled = a.enabled /\ p[1].delayed = a.delayed
        /\ w.enabled = h.enabled /\ w.delayed = h.delayed
    BY <2>2, <2>3, <2>4 DEF Keeps, Fields
  <2>9. p[2] \in BOOLEAN /\ (~p[2] => p[1].preview = "none")
    BY <2>4
  <2> QED BY <1>0, <1>1, <2>3, <2>6, <2>7, <2>8, <2>9, IdleCall
<1>2. CASE e = "startNoDisplay" \/ (e = "startPreview" /\ h.window)
  <2>1. PICK q \in moved(startOrUnprepare(h), "PREVIEWING", "STOPPED") : g = signalAPIResult(q[1], e, TRUE)
    BY <1>2 DEF procEvtPreviewReadyState, replyOk
  <2>2. \A p \in startOrUnprepare(h) : p[1] \in Hw /\ p[2] \in BOOLEAN
    BY <1>0, StartOrUnprepare
  <2>3. PICK p \in startOrUnprepare(h) :
          /\ q[1] \in Hw /\ q[2] = p[2] /\ Keeps(p[1], q[1], {"state"})
          /\ q[1].state = IF q[2] THEN "PREVIEWING" ELSE "STOPPED"
    BY <1>0, <2>1, <2>2, Moved
  <2>4. /\ p[2] \in BOOLEAN /\ Keeps(h, p[1], {"preview"})
        /\ ~p[2] => p[1].preview = "none"
    BY <1>0, StartOrUnprepare
  <2>5. Keeps(h, q[1], Settings \ {"results"})
    BY <2>3, <2>4 DEF Keeps, Settings
  <2>6. g \in Hw /\ Settles(h, e, g) /\ Keeps(q[1], g, {"results"})
    BY <1>0, <2>1, <2>3, <2>5, SettledOne
  <2>7. /\ g.state = q[1].state /\ g.preview = p[1].preview
        /\ g.enabled = h.enabled /\ g.delayed = h.delayed /\ g.recording = h.recording
    BY <2>3, <2>4, <2>6 DEF Keeps, Fields
  <2> QED BY <1>0, <1>2, <2>3, <2>4, <2>6, <2>7, IdleCall
<1>3. CASE e = "setParamsStop"
  <2>1. PICK a : a = stopPreview(h) /\ g = signalAPIResult(a, e, TRUE)
    BY <1>3 DEF procEvtPreviewReadyState
  <2>2. a \in Hw /\ Keeps(h, a, {"preview"}) /\ a.preview = "none"
    BY <1>0, <2>1, StopPreview
  <2>3. Keeps(h, a, Settings \ {"results"})
    BY <2>2 DEF Keeps, Settings
  <2>4. g \in Hw /\ Settles(h, e, g) /\ Keeps(a, g, {"results"})
    BY <1>0, <2>1, <2>2, <2>3, SettledOne
  <2>5. /\ g.preview = "none" /\ g.capture = h.capture
        /\ g.state = h.state /\ g.live = h.live /\ g.longshot = h.longshot /\ g.retro = h.retro
        /\ g.enabled = h.enabled /\ g.delayed = h.delayed /\ g.recording = h.recording
    BY <2>2, <2>4 DEF Keeps, Fields
  <2>6. Sound(g)
    BY <1>0, <2>5 DEF Sound
  <2>7. Moves(h, e, g)
    BY <1>0, <1>3, <2>5 DEF Moves, Halted, Recording
  <2> QED BY <2>4, <2>6, <2>7 DEF Call, Kinds
<1>4. CASE e = "setParamsRestart"
  <2>1. g \in reply(e, moved(preparePreview(h), "READY", "STOPPED"))
    BY <1>4 DEF procEvtPreviewReadyState
  <2>2. \A p \in preparePreview(h) :
          /\ p[1] \in Hw /\ p[2] \in BOOLEAN
          /\ Keeps(h, p[1], {"preview", "window", "enabled", "delayed", "delay", "recording"})
    BY <1>0, PreparePreview, KeepsMore
  <2>3. PICK p \in preparePreview(h) :
          /\ Keeps(p[1], g, {"state", "results"})
          /\ g.state = IF p[2] THEN "READY" ELSE "STOPPED"
          /\ g.preview = p[1].preview /\ g.enabled = p[1].enabled
          /\ g.delayed = p[1].delayed /\ g.recording = p[1].recording
    BY <1>0, <2>1, <2>2, SettledMove
  <2>4. p[2] \in BOOLEAN /\ Keeps(h, p[1], {"preview"}) /\ (~p[2] => p[1].preview = h.preview)
    BY <1>0, PreparePreview
  <2>5. p[1].enabled = h.enabled /\ p[1].delayed = h.delayed /\ p[1].recording = h.recording
    BY <2>4 DEF Keeps, Fields
  <2>6. g \in Hw /\ Settles(h, e, g)
    BY <1>0, <2>1, <2>2, SettledMove
  <2>7. h.preview = "none"
    BY <1>4 DEF Expects, Halted
  <2> QED BY <1>0, <1>4, <2>3, <2>4, <2>5, <2>6, <2>7, IdleCall
<1>5. CASE e = "stopPreview"
  <2>1. PICK a, b : a = stopPreview(h) /\ b = in(a, "STOPPED") /\ g = signalAPIResult(b, e, TRUE)
    BY <1>5 DEF procEvtPreviewReadyState
  <2>2. a \in Hw /\ Keeps(h, a, {"preview"}) /\ a.preview = "none"
    BY <1>0, <2>1, StopPreview
  <2>3. b \in Hw /\ Keeps(a, b, {"state"}) /\ b.state = "STOPPED"
    BY <1>0, <2>1, <2>2, In
  <2>4. Keeps(h, b, Settings \ {"results"})
    BY <2>2, <2>3 DEF Keeps, Settings
  <2>5. g \in Hw /\ Settles(h, e, g) /\ Keeps(b, g, {"results"})
    BY <1>0, <2>1, <2>3, <2>4, SettledOne
  <2>6. /\ g.preview = "none" /\ g.state = "STOPPED"
        /\ g.enabled = h.enabled /\ g.delayed = h.delayed /\ g.recording = h.recording
    BY <2>2, <2>3, <2>5 DEF Keeps, Fields
  <2> QED BY <1>0, <1>5, <2>5, <2>6, IdleCall
<1>6. CASE /\ e \notin {"setWindow", "startNoDisplay", "setParamsStop", "setParamsRestart", "stopPreview"}
           /\ ~(e = "startPreview" /\ h.window)
  <2>1. g \in plain(h, e)
    BY <1>6 DEF procEvtPreviewReadyState
  <2> QED BY <1>0, <1>6, <2>1, Plain
<1> QED BY <1>1, <1>2, <1>3, <1>4, <1>5, <1>6

\* The messages that the application enables and disables while previewing.
LEMMA PreviewingMessages ==
  ASSUME NEW h, NEW e \in {"enableMsg", "disableMsg"}, Expects(h, e), h.state = "PREVIEWING",
         NEW g \in procEvtPreviewingState(h, e)
  PROVE  Call(h, e, g)
<1>0. h \in Hw /\ Sound(h) /\ e \in Apis
  BY DEF Expects, Apis
<1>1. PICK a : /\ a = IF e = "enableMsg" THEN enableWhilePreviewing(h) ELSE disableWhilePreviewing(h)
               /\ g = signalAPIResult(a, e, TRUE)
  BY DEF procEvtPreviewingState
<1>2. /\ a \in Hw /\ Keeps(h, a, {"enabled", "delayed", "delay"})
      /\ e = "enableMsg" => a.enabled \/ a.delayed
  <2>1. CASE e = "enableMsg" /\ h.delay
    <3>1. a = [h EXCEPT !.delayed = TRUE]
      BY <1>1, <2>1 DEF enableWhilePreviewing
    <3>2. a \in Hw
      BY <1>0, <3>1, SetBoolean
    <3>3. Keeps(h, a, {"enabled", "delayed", "delay"}) /\ a.delayed
      BY <1>0, <3>1 DEF Keeps, Fields, Hw
    <3> QED BY <3>2, <3>3
  <2>2. CASE e = "enableMsg" /\ ~h.delay
    <3>1. a = [h EXCEPT !.enabled = TRUE]
      BY <1>1, <2>2 DEF enableWhilePreviewing
    <3>2. a \in Hw
      BY <1>0, <3>1, SetBoolean
    <3>3. Keeps(h, a, {"enabled", "delayed", "delay"}) /\ a.enabled
      BY <1>0, <3>1 DEF Keeps, Fields, Hw
    <3> QED BY <3>2, <3>3
  <2>3. CASE e # "enableMsg"
    <3>1. PICK b \in BOOLEAN, c \in BOOLEAN : b = (h.delayed /\ ~h.delay) /\ c = (h.delay /\ ~h.delayed)
      OBVIOUS
    <3>2. a = [h EXCEPT !.enabled = FALSE, !.delayed = b, !.delay = c]
      BY <1>1, <2>3, <3>1 DEF disableWhilePreviewing
    <3>3. ASSUME NEW x \in BOOLEAN
          PROVE  [h EXCEPT !.enabled = x, !.delayed = b, !.delay = c] \in Hw
      BY <1>0, ZenonT(40) DEF Hw
    <3>4. a \in Hw
      BY <3>2, <3>3
    <3>5. Keeps(h, a, {"enabled", "delayed", "delay"})
      BY <1>0, <3>2 DEF Keeps, Fields, Hw
    <3> QED BY <2>3, <3>4, <3>5
  <2> QED BY <2>1, <2>2, <2>3
<1>3. Keeps(h, a, Settings \ {"results"})
  BY <1>2 DEF Keeps, Settings
<1>4. g \in Hw /\ Settles(h, e, g) /\ Keeps(a, g, {"results"})
  BY <1>0, <1>1, <1>2, <1>3, SettledOne
<1>5. /\ g.state = h.state /\ g.preview = h.preview /\ g.capture = h.capture
      /\ g.live = h.live /\ g.recording = h.recording /\ g.longshot = h.longshot
      /\ g.retro = h.retro /\ g.enabled = a.enabled /\ g.delayed = a.delayed
  BY <1>2, <1>4 DEF Keeps, Fields
<1>6. Sound(g)
  BY <1>0, <1>5 DEF Sound
<1>7. Moves(h, e, g)
  BY <1>0, <1>2, <1>5 DEF Moves, Recording
<1> QED BY <1>4, <1>6, <1>7 DEF Call, Kinds

\* The calls that keep or restart the preview.
LEMMA PreviewingRestarts ==
  ASSUME NEW h, NEW e \in {"startPreview", "startNoDisplay", "previewEnabled", "setParamsStop",
                           "setParamsRestart", "stopPreview", "preStartRecording", "preTakePicture"},
         Expects(h, e), h.state = "PREVIEWING",
         NEW g \in procEvtPreviewingState(h, e)
  PROVE  Call(h, e, g)
<1>0. /\ h \in Hw /\ Sound(h) /\ ~h.recording /\ e \in Apis
      /\ "STOPPED" \in States /\ "READY" \in States /\ "PREVIEWING" \in States
  BY DEF Expects, Sound, Recording, Hw, States, Apis
<1>1. CASE e \in {"startPreview", "startNoDisplay", "previewEnabled"}
  <2>1. PICK a : a = applyDelayedMsgs(h) /\ g = signalAPIResult(a, e, TRUE)
    BY <1>1 DEF procEvtPreviewingState
  <2>2. /\ a \in Hw /\ Keeps(h, a, {"enabled", "delayed", "delay"})
        /\ h.enabled \/ h.delayed => a.enabled \/ a.delayed
    BY <1>0, <2>1, ApplyDelayedMsgs
  <2>3. Keeps(h, a, Settings \ {"results"})
    BY <2>2 DEF Keeps, Settings
  <2>4. g \in Hw /\ Settles(h, e, g) /\ Keeps(a, g, {"results"})
    BY <1>0, <2>1, <2>2, <2>3, SettledOne
  <2>5. /\ g.state = h.state /\ g.recording = h.recording
        /\ g.enabled = a.enabled /\ g.delayed = a.delayed
    BY <2>2, <2>4 DEF Keeps, Fields
  <2> QED BY <1>0, <1>1, <2>2, <2>4, <2>5, IdleCall
<1>2. CASE e = "setParamsStop"
  <2>1. PICK a : a = stopPreview(h) /\ g = signalAPIResult(a, e, TRUE)
    BY <1>2 DEF procEvtPreviewingState
  <2>2. a \in Hw /\ Keeps(h, a, {"preview"}) /\ a.preview = "none"
    BY <1>0, <2>1, StopPreview
  <2>3. Keeps(h, a, Settings \ {"results"})
    BY <2>2 DEF Keeps, Settings
  <2>4. g \in Hw /\ Settles(h, e, g) /\ Keeps(a, g, {"results"})
    BY <1>0, <2>1, <2>2, <2>3, SettledOne
  <2>5. /\ g.preview = "none" /\ g.capture = h.capture
        /\ g.state = h.state /\ g.live = h.live /\ g.longshot = h.longshot /\ g.retro = h.retro
        /\ g.enabled = h.enabled /\ g.delayed = h.delayed /\ g.recording = h.recording
    BY <2>2, <2>4 DEF Keeps, Fields
  <2>6. Sound(g)
    BY <1>0, <2>5 DEF Sound
  <2>7. Moves(h, e, g)
    BY <1>0, <1>2, <2>5 DEF Moves, Halted, Recording
  <2> QED BY <2>4, <2>6, <2>7 DEF Call, Kinds
<1>3. CASE e = "setParamsRestart"
  <2> DEFINE s == failed(preparePreview(h)) \cup
                    UNION {moved(startOrUnprepare(applyDelayedMsgs(k)), h.state, "STOPPED") :
                             k \in succeeded(preparePreview(h))}
             F == {"state", "preview", "enabled", "delayed", "delay"}
  <2>1. g \in reply(e, s)
    BY <1>3 DEF procEvtPreviewingState
  <2>2. ASSUME NEW p \in s
        PROVE  /\ p[1] \in Hw /\ p[2] \in BOOLEAN /\ Keeps(h, p[1], F)
               /\ p[1].state \in {"PREVIEWING", "STOPPED"}
               /\ p[1].state = "STOPPED" => p[1].preview = "none"
               /\ h.enabled \/ h.delayed => p[1].enabled \/ p[1].delayed
    <3>1. CASE p \in failed(preparePreview(h))
      <4>1. p[1] \in Hw /\ p[2] \in BOOLEAN /\ Keeps(h, p[1], {"preview"})
        BY <1>0, <3>1, PreparePreview DEF failed
      <4>2. p[1].state = h.state /\ p[1].enabled = h.enabled /\ p[1].delayed = h.delayed
        BY <4>1 DEF Keeps, Fields
      <4>3. Keeps(h, p[1], F)
        BY <4>1 DEF Keeps
      <4> QED BY <4>1, <4>2, <4>3
    <3>2. ASSUME NEW k \in succeeded(preparePreview(h)),
                 p \in moved(startOrUnprepare(applyDelayedMsgs(k)), h.state, "STOPPED")
          PROVE  /\ p[1] \in Hw /\ p[2] \in BOOLEAN /\ Keeps(h, p[1], F)
                 /\ p[1].state \in {"PREVIEWING", "STOPPED"}
                 /\ p[1].state = "STOPPED" => p[1].preview = "none"
                 /\ h.enabled \/ h.delayed => p[1].enabled \/ p[1].delayed
      <4>1. k \in Hw /\ Keeps(h, k, {"preview"})
        BY <1>0, PreparePreview DEF succeeded
      <4>2. PICK a : a = applyDelayedMsgs(k)
        OBVIOUS
      <4>3. /\ a \in Hw /\ Keeps(k, a, {"enabled", "delayed", "delay"})
            /\ k.enabled \/ k.delayed => a.enabled \/ a.delayed
        BY <4>1, <4>2, ApplyDelayedMsgs
      <4>4. \A q \in startOrUnprepare(a) :
              /\ q[1] \in Hw /\ q[2] \in BOOLEAN /\ Keeps(a, q[1], {"preview"})
              /\ ~q[2] => q[1].preview = "none"
        BY <4>3, StartOrUnprepare
      <4>5. p \in moved(startOrUnprepare(a), "PREVIEWING", "STOPPED")
        BY <3>2, <4>2
      <4>6. PICK q \in startOrUnprepare(a) :
              /\ p[1] \in Hw /\ p[2] = q[2] /\ Keeps(q[1], p[1], {"state"})
              /\ p[1].state = IF p[2] THEN "PREVIEWING" ELSE "STOPPED"
        BY <1>0, <4>4, <4>5, Moved
      <4>7. q[2] \in BOOLEAN /\ Keeps(a, q[1], {"preview"}) /\ (~q[2] => q[1].preview = "none")
        BY <4>4
      <4>8. Keeps(h, p[1], F)
        BY <4>1, <4>3, <4>6, <4>7 DEF Keeps
      <4>9. /\ p[1].preview = q[1].preview /\ p[1].enabled = a.enabled /\ p[1].delayed = a.delayed
            /\ k.enabled = h.enabled /\ k.delayed = h.delayed
        BY <4>1, <4>3, <4>6, <4>7 DEF Keeps, Fields
      <4> QED BY <4>3, <4>6, <4>7, <4>8, <4>9
    <3> QED BY <3>1, <3>2
  <2> HIDE DEF s
  <2>3. \A p \in s : p[1] \in Hw /\ p[2] \in BOOLEAN /\ Keeps(h, p[1], Settings \ {"results"})
    <3>1. F \subseteq Settings \ {"results"}
      BY DEF Settings
    <3> QED BY <2>2, <3>1, KeepsMore
  <2>4. PICK p \in s : Keeps(p[1], g, {"results"})
    BY <1>0, <2>1, <2>3, Settled
  <2>5. g \in Hw /\ Settles(h, e, g)
    BY <1>0, <2>1, <2>3, Settled
  <2>6. /\ g.state = p[1].state /\ g.preview = p[1].preview
        /\ g.enabled = p[1].enabled /\ g.delayed = p[1].delayed
    BY <2>4 DEF Keeps, Fields
  <2>7. g.recording = h.recording
    BY <2>2, <2>4 DEF Keeps, Fields
  <2>8. /\ p[1].state \in {"PREVIEWING", "STOPPED"}
        /\ p[1].state = "STOPPED" => p[1].preview = "none"
        /\ h.enabled \/ h.delayed => p[1].enabled \/ p[1].delayed
    BY <2>2
  <2> QED BY <1>0, <1>3, <2>5, <2>6, <2>7, <2>8, IdleCall
<1>4. CASE e = "stopPreview"
  <2>1. PICK a, b, c : /\ a = stopPreview(h) /\ b = applyDelayedMsgs(a) /\ c = in(b, "STOPPED")
                       /\ g = signalAPIResult(c, e, TRUE)
    BY <1>4 DEF procEvtPreviewingState
  <2>2. a \in Hw /\ Keeps(h, a, {"preview"}) /\ a.preview = "none"
    BY <1>0, <2>1, StopPreview
  <2>3. /\ b \in Hw /\ Keeps(a, b, {"enabled", "delayed", "delay"})
        /\ a.enabled \/ a.delayed => b.enabled \/ b.delayed
    BY <2>1, <2>2, ApplyDelayedMsgs
  <2>4. c \in Hw /\ Keeps(b, c, {"state"}) /\ c.state = "STOPPED"
    BY <1>0, <2>1, <2>3, In
  <2>5. Keeps(h, c, Settings \ {"results"})
    BY <2>2, <2>3, <2>4 DEF Keeps, Settings
  <2>6. g \in Hw /\ Settles(h, e, g) /\ Keeps(c, g, {"results"})
    BY <1>0, <2>1, <2>4, <2>5, SettledOne
  <2>7. /\ g.preview = "none" /\ g.state = "STOPPED" /\ g.enabled = b.enabled /\ g.delayed = b.delayed
        /\ a.enabled = h.enabled /\ a.delayed = h.delayed /\ g.recording = h.recording
    BY <2>2, <2>3, <2>4, <2>6 DEF Keeps, Fields
  <2> QED BY <1>0, <1>4, <2>3, <2>6, <2>7, IdleCall
<1>5. CASE e = "preStartRecording" \/ e = "preTakePicture"
  <2>1. PICK s : /\ s = IF e = "preStartRecording" THEN preStartRecording(h) ELSE preTakePicture(h)
                 /\ g \in reply(e, s)
    BY <1>5 DEF procEvtPreviewingState
  <2>2. \A p \in s : p[1] \in Hw /\ p[2] \in BOOLEAN /\ Keeps(h, p[1], {"preview"})
    BY <1>0, <2>1, PreStartRecording, PreTakePicture
  <2>3. \A p \in s : p[1] \in Hw /\ p[2] \in BOOLEAN /\ Keeps(h, p[1], Settings \ {"results"})
    BY <2>2 DEF Keeps, Settings
  <2>4. PICK p \in s : Keeps(p[1], g, {"results"})
    BY <1>0, <2>1, <2>3, Settled
  <2>5. g \in Hw /\ Settles(h, e, g)
    BY <1>0, <2>1, <2>3, Settled
  <2>6. /\ g.state = h.state /\ g.enabled = h.enabled /\ g.delayed = h.delayed
        /\ g.recording = h.recording
    BY <2>2, <2>4 DEF Keeps, Fields
  <2> QED BY <1>0, <1>5, <2>5, <2>6, IdleCall
<1> QED BY <1>1, <1>2, <1>3, <1>4, <1>5

LEMMA PreviewingRecords ==
  ASSUME NEW h, Expects(h, "startRecording"), h.state = "PREVIEWING",
         NEW g \in procEvtPreviewingState(h, "startRecording")
  PROVE  Call(h, "startRecording", g)
<1> DEFINE e == "startRecording"
           s == {IF p[2] THEN <<applyDelayedMsgs(in(p[1], "RECORDING")), TRUE>> ELSE p :
                   p \in startRecording(h)}
<1>0. h \in Hw /\ Sound(h) /\ ~h.recording /\ e \in Apis /\ "RECORDING" \in States
  BY DEF Expects, Sound, Recording, States, Apis
<1>1. g \in reply(e, s)
  BY DEF procEvtPreviewingState
<1>2. ASSUME NEW q \in s
      PROVE  /\ q[1] \in Hw /\ q[2] \in BOOLEAN
             /\ Keeps(h, q[1], {"state", "recording", "enabled", "delayed", "delay"})
             /\ q[1].recording => q[1].state = "RECORDING"
             /\ q[1].state \in {"PREVIEWING", "RECORDING"}
             /\ h.enabled \/ h.delayed => q[1].enabled \/ q[1].delayed
  <2>1. PICK p \in startRecording(h) :
               q = IF p[2] THEN <<applyDelayedMsgs(in(p[1], "RECORDING")), TRUE>> ELSE p
    OBVIOUS
  <2>2. /\ p[1] \in Hw /\ p[2] \in BOOLEAN /\ Keeps(h, p[1], {"recording"})
        /\ ~p[2] => p[1] = h
    BY <1>0, StartRecording
  <2>3. CASE ~p[2]
    <3>1. q = p /\ p[1] = h
      BY <2>1, <2>2, <2>3
    <3>2. Keeps(h, h, {"state", "recording", "enabled", "delayed", "delay"})
      BY DEF Keeps
    <3> QED BY <1>0, <2>2, <3>1, <3>2
  <2>4. CASE p[2]
    <3>1. PICK a, b : a = in(p[1], "RECORDING") /\ b = applyDelayedMsgs(a) /\ q = <<b, TRUE>>
      BY <2>1, <2>4
    <3>2. a \in Hw /\ Keeps(p[1], a, {"state"}) /\ a.state = "RECORDING"
      BY <1>0, <2>2, <3>1, In
    <3>3. /\ b \in Hw /\ Keeps(a, b, {"enabled", "delayed", "delay"})
          /\ a.enabled \/ a.delayed => b.enabled \/ b.delayed
      BY <3>1, <3>2, ApplyDelayedMsgs
    <3>4. Keeps(h, b, {"state", "recording", "enabled", "delayed", "delay"})
      BY <2>2, <3>2, <3>3 DEF Keeps
    <3>5. a.enabled = h.enabled /\ a.delayed = h.delayed /\ b.state = a.state
      BY <2>2, <3>2, <3>3 DEF Keeps, Fields
    <3>6. q[1] = b /\ q[2] = TRUE
      BY <3>1
    <3> QED BY <3>2, <3>3, <3>4, <3>5, <3>6
  <2> QED BY <2>2, <2>3, <2>4
<1> HIDE DEF s
<1>3. \A q \in s : q[1] \in Hw /\ q[2] \in BOOLEAN /\ Keeps(h, q[1], Settings \ {"results"})
  <2>1. {"state", "recording", "enabled", "delayed", "delay"} \subseteq Settings \ {"results"}
    BY DEF Settings
  <2> QED BY <1>2, <2>1, KeepsMore
<1>4. PICK q \in s : Keeps(q[1], g, {"results"})
  BY <1>0, <1>1, <1>3, Settled
<1>5. g \in Hw /\ Settles(h, e, g)
  BY <1>0, <1>1, <1>3, Settled
<1>6. /\ g.state = q[1].state /\ g.preview = h.preview /\ g.capture = h.capture
      /\ g.live = h.live /\ g.recording = q[1].recording /\ g.longshot = h.longshot
      /\ g.retro = h.retro /\ g.enabled = q[1].enabled /\ g.delayed = q[1].delayed
  BY <1>2, <1>4 DEF Keeps, Fields
<1>7. /\ q[1].recording => q[1].state = "RECORDING"
      /\ q[1].state \in {"PREVIEWING", "RECORDING"}
      /\ h.enabled \/ h.delayed => q[1].enabled \/ q[1].delayed
  BY <1>2
<1>8. Sound(g)
  BY <1>0, <1>6, <1>7 DEF Sound, Recording
<1>9. Moves(h, e, g)
  BY <1>0, <1>6, <1>7 DEF Moves, Recording
<1> QED BY <1>5, <1>8, <1>9 DEF Call, Kinds

LEMMA PrepSet ==
  ASSUME NEW h \in Hw, NEW s \in States, NEW g, g = [h EXCEPT !.state = s, !.prep = TRUE]
  PROVE  g \in Hw /\ Keeps(h, g, {"state", "prep"}) /\ g.prep /\ g.state = s
<1>1. ASSUME NEW b \in BOOLEAN
      PROVE  [h EXCEPT !.state = s, !.prep = b] \in Hw
  BY ZenonT(40) DEF Hw
<1>2. g \in Hw
  BY <1>1
<1>3. Keeps(h, g, {"state", "prep"}) /\ g.prep /\ g.state = s
  BY DEF Keeps, Fields, Hw
<1> QED BY <1>2, <1>3

LEMMA PreviewingMeasures ==
  ASSUME NEW h, Expects(h, "prepareSnapshot"), h.state = "PREVIEWING",
         NEW g \in procEvtPreviewingState(h, "prepareSnapshot")
  PROVE  Call(h, "prepareSnapshot", g)
<1> DEFINE e == "prepareSnapshot"
<1>0. h \in Hw /\ Sound(h) /\ ~h.recording /\ e \in Apis /\ "PREPARE" \in States
  BY DEF Expects, Sound, Recording, States, Apis
<1>1. PICK p \in fallible(h, h) :
            g = IF p[2] THEN applyDelayedMsgs([p[1] EXCEPT !.state = "PREPARE", !.prep = TRUE])
                ELSE signalAPIResult(h, e, FALSE)
  BY DEF procEvtPreviewingState, prepareSnapshot
<1>2. CASE p = <<h, TRUE>> /\ ~h.dead
  <2>1. PICK a : a = [h EXCEPT !.state = "PREPARE", !.prep = TRUE] /\ g = applyDelayedMsgs(a)
    BY <1>1, <1>2
  <2>0. "PREPARE" \in States /\ h \in Hw /\ a = [h EXCEPT !.state = "PREPARE", !.prep = TRUE]
    BY <1>0, <2>1
  <2>2. a \in Hw /\ Keeps(h, a, {"state", "prep"}) /\ a.prep /\ a.state = "PREPARE"
    BY <2>0, PrepSet, Zenon
  <2>3. /\ g \in Hw /\ Keeps(a, g, {"enabled", "delayed", "delay"})
        /\ a.enabled \/ a.delayed => g.enabled \/ g.delayed
    BY <2>1, <2>2, ApplyDelayedMsgs
  <2>4. /\ g.state = "PREPARE" /\ g.preview = h.preview /\ g.capture = h.capture
        /\ g.live = h.live /\ g.recording = h.recording /\ g.longshot = h.longshot
        /\ g.retro = h.retro /\ g.prep /\ a.enabled = h.enabled /\ a.delayed = h.delayed
    BY <2>2, <2>3 DEF Keeps, Fields
  <2>5. Keeps(h, g, (Settings \ {"results"}) \cup {"prep"})
    BY <2>2, <2>3 DEF Keeps, Settings
  <2>6. Measures(h, e, g)
    BY <1>2, <2>4, <2>5 DEF Measures, Awaiting
  <2>7. Sound(g)
    BY <1>0, <2>4 DEF Sound
  <2>8. Moves(h, e, g)
    BY <1>0, <2>3, <2>4 DEF Moves, Halted, Recording
  <2> QED BY <2>3, <2>6, <2>7, <2>8 DEF Call, Kinds
<1>3. CASE p = <<h, FALSE>>
  <2>1. g = signalAPIResult(h, e, FALSE)
    BY <1>1, <1>3
  <2> QED BY <1>0, <2>1, Refuses
<1> QED BY <1>2, <1>3, Fallible

LEMMA PreviewingLongshot ==
  ASSUME NEW h, Expects(h, "longshotOn"), h.state = "PREVIEWING",
         NEW g \in procEvtPreviewingState(h, "longshotOn")
  PROVE  Call(h, "longshotOn", g)
<1> DEFINE e == "longshotOn"
           s == longshotOn(h)
                  \cup IF config.zsl
                       THEN UNION {prepareApplyStart(stopPreview(p[1])) : p \in longshotOn(h)}
                       ELSE {}
           F == {"longshot", "prepRun", "preview", "enabled", "delayed", "delay"}
<1>0. h \in Hw /\ Sound(h) /\ ~h.recording /\ e \in Apis
  BY DEF Expects, Sound, Recording, Apis
<1>1. g \in reply(e, s)
  BY DEF procEvtPreviewingState, longshotRestart
<1>2. ASSUME NEW p \in s
      PROVE  /\ p[1] \in Hw /\ p[2] \in BOOLEAN /\ Keeps(h, p[1], F)
             /\ h.longshot => p[1].longshot
             /\ h.enabled \/ h.delayed => p[1].enabled \/ p[1].delayed
  <2>1. CASE p \in longshotOn(h)
    <3>1. /\ p[1] \in Hw /\ p[2] \in BOOLEAN /\ Keeps(h, p[1], {"longshot", "prepRun"})
          /\ h.longshot => p[1].longshot
      BY <1>0, <2>1, LongshotOn
    <3>2. p[1].enabled = h.enabled /\ p[1].delayed = h.delayed
      BY <3>1 DEF Keeps, Fields
    <3>3. Keeps(h, p[1], F)
      BY <3>1 DEF Keeps
    <3> QED BY <3>1, <3>2, <3>3
  <2>2. ASSUME NEW q \in longshotOn(h), p \in prepareApplyStart(stopPreview(q[1]))
        PROVE  /\ p[1] \in Hw /\ p[2] \in BOOLEAN /\ Keeps(h, p[1], F)
               /\ h.longshot => p[1].longshot
               /\ h.enabled \/ h.delayed => p[1].enabled \/ p[1].delayed
    <3>1. /\ q[1] \in Hw /\ Keeps(h, q[1], {"longshot", "prepRun"})
          /\ h.longshot => q[1].longshot
      BY <1>0, LongshotOn
    <3>2. PICK a : a = stopPreview(q[1])
      OBVIOUS
    <3>3. a \in Hw /\ Keeps(q[1], a, {"preview"})
      BY <3>1, <3>2, StopPreview
    <3>4. /\ p[1] \in Hw /\ p[2] \in BOOLEAN
          /\ Keeps(a, p[1], {"preview", "enabled", "delayed", "delay"})
          /\ a.enabled \/ a.delayed => p[1].enabled \/ p[1].delayed
      BY <2>2, <3>2, <3>3, PrepareApplyStart
    <3>5. Keeps(h, p[1], F)
      BY <3>1, <3>3, <3>4 DEF Keeps
    <3>6. p[1].longshot = q[1].longshot /\ a.enabled = h.enabled /\ a.delayed = h.delayed
      BY <3>1, <3>3, <3>4 DEF Keeps, Fields
    <3> QED BY <3>1, <3>4, <3>5, <3>6
  <2> QED BY <2>1, <2>2
<1> HIDE DEF s
<1>3. PICK p \in s : /\ g \in Hw /\ Keeps(p[1], g, {"results"})
                     /\ g.results = Append(p[1].results, [api |-> e, ok |-> p[2]])
  BY <1>0, <1>1, <1>2, Reply
<1>4. /\ p[1] \in Hw /\ p[2] \in BOOLEAN /\ Keeps(h, p[1], F)
      /\ h.longshot => p[1].longshot
      /\ h.enabled \/ h.delayed => p[1].enabled \/ p[1].delayed
  BY <1>2
<1>5. Keeps(h, g, Settings \cup {"longshot", "prepRun"}) /\ p[1].results = h.results
  BY <1>3, <1>4 DEF Keeps, Settings, Fields
<1>6. /\ g.state = h.state /\ g.capture = h.capture
      /\ g.live = h.live /\ g.recording = h.recording /\ g.longshot = p[1].longshot
      /\ g.retro = h.retro /\ g.enabled = p[1].enabled /\ g.delayed = p[1].delayed
  BY <1>3, <1>4 DEF Keeps, Fields
<1>7. Answers(h, e, g)
  BY <1>3, <1>4, <1>5, Zenon DEF Answers
<1>8. Longs(h, e, g)
  BY <1>4, <1>5, <1>6, <1>7 DEF Longs
<1>9. Sound(g)
  BY <1>0, <1>4, <1>6 DEF Sound
<1>10. Moves(h, e, g)
  BY <1>0, <1>4, <1>6 DEF Moves, Recording
<1> QED BY <1>3, <1>8, <1>9, <1>10 DEF Call, Kinds

\* What a capture that starts while previewing leaves.
LEMMA PictureStarts ==
  ASSUME NEW h, Expects(h, "takePicture"), h.state = "PREVIEWING",
         NEW m \in Hw, Keeps(h, m, {"preview", "state", "delay"}),
         NEW b \in Hw, Captures(m, b), b.state \in {"PIC", "PREVIEW_PIC"},
         b.state = "PIC" => ~config.zsl,
         b.state = "PREVIEW_PIC" => config.zsl \/ h.longshot,
         NEW g, IF h.retro THEN b.state = "PREVIEW_PIC" /\ g = b
                ELSE g = signalAPIResult(b, "takePicture", TRUE)
  PROVE  Call(h, "takePicture", g)
<1> DEFINE e == "takePicture"
<1>0. h \in Hw /\ Sound(h) /\ ~h.recording /\ h.live # "take" /\ e \in Apis
  BY DEF Expects, Sound, Recording, Apis
<1>1. /\ ~m.dead /\ Keeps(m, b, Start \cup {"preview"})
      /\ b.preview = IF config.zsl THEN m.preview ELSE "none"
      /\ b.capture = "still" /\ b.job /\ ~b.ready /\ ~b.lit /\ b.shots = 0
  BY DEF Captures
<1>2. Keeps(h, b, (Settings \ {"results"}) \cup Start) /\ h.dead = m.dead /\ b.results = h.results
  BY <1>1 DEF Keeps, Settings, Start, Fields
<1>3. g \in Hw /\ Keeps(b, g, {"results"}) /\ (h.retro => g.results = h.results) /\ (~h.retro => Answers(h, e, g))
  <2>1. CASE h.retro
    BY <2>1, <1>2 DEF Keeps
  <2>2. CASE ~h.retro
    <3>1. /\ g \in Hw /\ Keeps(b, g, {"results"})
          /\ g.results = Append(b.results, [api |-> e, ok |-> TRUE])
      BY <1>0, <2>2, Signalled
    <3>2. Answers(h, e, g)
      BY <1>2, <3>1, Zenon DEF Answers
    <3> QED BY <2>2, <3>1, <3>2
  <2> QED BY <2>1, <2>2
<1>4. Keeps(h, g, Settings \cup Start)
  BY <1>2, <1>3 DEF Keeps, Settings
<1>5. /\ g.state = b.state /\ g.preview = b.preview /\ g.capture = "still" /\ g.job
      /\ g.ready = b.ready /\ g.lit = b.lit /\ g.shots = 0
      /\ g.live = h.live /\ g.recording = h.recording /\ g.longshot = h.longshot
      /\ g.retro = h.retro /\ g.enabled = h.enabled /\ g.delayed = h.delayed
  BY <1>1, <1>2, <1>3 DEF Keeps, Fields, Start
<1>6. Starts(h, e, g)
  BY <1>1, <1>2, <1>3, <1>4, <1>5 DEF Starts
<1>7. Sound(g)
  BY <1>0, <1>1, <1>5 DEF Sound
<1>8. Moves(h, e, g)
  BY <1>0, <1>1, <1>2, <1>5 DEF Moves, Recording
<1> QED BY <1>3, <1>6, <1>7, <1>8 DEF Call, Kinds

\* What one that does not start leaves.
LEMMA PictureFails ==
  ASSUME NEW h, Expects(h, "takePicture"), h.state = "PREVIEWING",
         NEW m \in Hw, Keeps(h, m, {"preview", "state", "delay"}),
         NEW b \in Hw, Failed(m, b),
         NEW c \in Hw, Keeps(b, c, {"state", "preview"}), c.state \in {"STOPPED", "PREVIEWING"},
         c.state = "STOPPED" => c.preview = "none",
         NEW g, g = signalAPIResult(c, "takePicture", FALSE)
  PROVE  Call(h, "takePicture", g)
<1> DEFINE e == "takePicture"
<1>0. h \in Hw /\ Sound(h) /\ ~h.recording /\ h.live # "take" /\ h.capture # "still" /\ e \in Apis
  BY DEF Expects, Sound, Recording, Apis
<1>1. /\ Keeps(m, b, {"preview", "pproc", "cmds"})
      /\ config.zsl => \/ b.pproc = m.pproc /\ b.cmds = m.cmds
                       \/ ~b.pproc /\ \E t \in Told : b.cmds = t \o m.cmds
  BY DEF Failed
<1>2. /\ g \in Hw /\ Keeps(c, g, {"results"})
      /\ g.results = Append(c.results, [api |-> e, ok |-> FALSE])
  BY <1>0, Signalled
<1>3. Keeps(h, g, Settings \cup {"pproc", "cmds"})
  BY <1>1, <1>2 DEF Keeps, Settings
<1>9. /\ g.state = c.state /\ g.preview = c.preview /\ g.pproc = b.pproc /\ g.cmds = b.cmds
      /\ m.pproc = h.pproc /\ m.cmds = h.cmds /\ c.results = h.results
  BY <1>1, <1>2 DEF Keeps, Fields
<1>10. Keeps(h, g, {"preview", "state", "delay", "pproc", "cmds", "results"})
  BY <1>1, <1>2 DEF Keeps
<1>11. /\ g.capture = h.capture /\ g.live = h.live /\ g.recording = h.recording
       /\ g.longshot = h.longshot /\ g.retro = h.retro /\ g.enabled = h.enabled /\ g.delayed = h.delayed
  BY <1>10 DEF Keeps, Fields
<1>4. /\ g.state = c.state /\ g.preview = c.preview /\ g.pproc = b.pproc /\ g.cmds = b.cmds
      /\ m.pproc = h.pproc /\ m.cmds = h.cmds /\ c.results = h.results
      /\ g.capture = h.capture /\ g.live = h.live /\ g.recording = h.recording
      /\ g.longshot = h.longshot /\ g.retro = h.retro /\ g.enabled = h.enabled /\ g.delayed = h.delayed
  BY <1>9, <1>11
<1>5. Answers(h, e, g)
  BY <1>2, <1>4, Zenon DEF Answers
<1>6. config.zsl => \/ g.pproc = h.pproc /\ g.cmds = h.cmds
                    \/ ~g.pproc /\ \E t \in Told : g.cmds = t \o h.cmds
  BY <1>1, <1>4, Zenon
<1>7. StartFails(h, e, g)
  BY <1>3, <1>5, <1>6 DEF StartFails
<1>8. Sound(g)
  BY <1>0, <1>4 DEF Sound
<1>12. Moves(h, e, g)
  BY <1>0, <1>4 DEF Moves, Recording, Halted
<1> QED BY <1>2, <1>7, <1>8, <1>12 DEF Call, Kinds

LEMMA PreviewingPicture ==
  ASSUME NEW h, Expects(h, "takePicture"), h.state = "PREVIEWING",
         NEW g \in procEvtPreviewingState(h, "takePicture")
  PROVE  Call(h, "takePicture", g)
<1> DEFINE e == "takePicture"
<1>0. /\ h \in Hw /\ Sound(h) /\ e \in Apis /\ config.pictures \in Nat /\ config.zsl \in BOOLEAN
      /\ {"PIC", "PREVIEW_PIC", "PREVIEWING", "STOPPED"} \subseteq States
      /\ h.retro => config.zsl
  BY DEF Expects, Sound, Retro, ConfigTyped, States, Apis
<1>1. CASE config.zsl \/ h.longshot
  <2>1. PICK q \in preTakePicture(h) : g \in takeWhilePreviewing(q[1], e)
    BY <1>1 DEF procEvtPreviewingState
  <2>2. PICK k : k = q[1]
    OBVIOUS
  <2>3. k \in Hw /\ Keeps(h, k, {"preview"})
    BY <1>0, <2>2, PreTakePicture
  <2>4. PICK m : m = [k EXCEPT !.state = "PREVIEW_PIC", !.delay = TRUE]
    OBVIOUS
  <2>5. m \in Hw /\ Keeps(k, m, {"state", "delay"}) /\ m.state = "PREVIEW_PIC"
    <3>1. ASSUME NEW s \in States, NEW b \in BOOLEAN
          PROVE  [k EXCEPT !.state = s, !.delay = b] \in Hw
      BY <2>3, ZenonT(40) DEF Hw
    <3>2. m \in Hw
      BY <1>0, <2>4, <3>1
    <3>3. Keeps(k, m, {"state", "delay"}) /\ m.state = "PREVIEW_PIC"
      BY <2>3, <2>4 DEF Keeps, Fields, Hw
    <3> QED BY <3>2, <3>3
  <2>6. Keeps(h, m, {"preview", "state", "delay"})
    BY <2>3, <2>5 DEF Keeps
  <2>7. PICK p \in takePicture(m) :
            g = IF ~p[2] THEN signalAPIResult(in(p[1], "PREVIEWING"), e, FALSE)
                ELSE IF k.retro THEN p[1] ELSE signalAPIResult(p[1], e, TRUE)
    BY <2>1, <2>2, <2>4 DEF takeWhilePreviewing
  <2>8. PICK b : b = p[1]
    OBVIOUS
  <2>9. b \in Hw /\ p[2] \in BOOLEAN /\ (p[2] => Captures(m, b)) /\ (~p[2] => Failed(m, b))
    BY <1>0, <2>5, <2>8, TakePicture
  <2>10. k.retro = h.retro
    BY <2>3 DEF Keeps, Fields
  <2>11. CASE p[2]
    <3>1. b.state = "PREVIEW_PIC"
      BY <2>5, <2>9, <2>11 DEF Captures, Keeps, Fields, Start
    <3>2. IF h.retro THEN b.state = "PREVIEW_PIC" /\ g = b
          ELSE g = signalAPIResult(b, "takePicture", TRUE)
      BY <2>7, <2>8, <2>10, <2>11, <3>1
    <3>3. /\ b.state = "PIC" => ~config.zsl
          /\ b.state = "PREVIEW_PIC" => config.zsl \/ h.longshot
          /\ b.state \in {"PIC", "PREVIEW_PIC"}
      BY <1>1, <3>1
    <3> HIDE <1>1
    <3> QED BY <2>5, <2>6, <2>9, <2>11, <3>2, <3>3, PictureStarts
  <2>12. CASE ~p[2]
    <3>1. PICK c : c = in(b, "PREVIEWING")
      OBVIOUS
    <3>2. c \in Hw /\ Keeps(b, c, {"state"}) /\ c.state = "PREVIEWING"
      BY <1>0, <2>9, <3>1, In
    <3>3. Keeps(b, c, {"state", "preview"})
      BY <3>2 DEF Keeps
    <3>4. g = signalAPIResult(c, "takePicture", FALSE)
      BY <2>7, <2>8, <2>12, <3>1
    <3> QED BY <2>5, <2>6, <2>9, <2>12, <3>2, <3>3, <3>4, PictureFails
  <2> QED BY <2>9, <2>11, <2>12
<1>2. CASE ~(config.zsl \/ h.longshot)
  <2>1. PICK q \in preTakePicture(h) : g \in takeInstead(q[1], e)
    BY <1>2 DEF procEvtPreviewingState
  <2>2. PICK k : k = q[1]
    OBVIOUS
  <2>3. k \in Hw /\ Keeps(h, k, {"preview"})
    BY <1>0, <2>2, PreTakePicture
  <2>4. PICK m : m = in(k, "PIC")
    OBVIOUS
  <2>5. m \in Hw /\ Keeps(k, m, {"state"}) /\ m.state = "PIC"
    BY <1>0, <2>3, <2>4, In
  <2>6. Keeps(h, m, {"preview", "state", "delay"})
    BY <2>3, <2>5 DEF Keeps
  <2>7. PICK p \in takePicture(m) :
            g \in IF p[2] THEN {signalAPIResult(p[1], e, TRUE)}
                  ELSE {signalAPIResult(r[1], e, FALSE) :
                          r \in moved(prepareAndStart(stopPreview(p[1])), "PREVIEWING", "STOPPED")}
    BY <2>1, <2>2, <2>4 DEF takeInstead
  <2>8. PICK b : b = p[1]
    OBVIOUS
  <2>9. b \in Hw /\ p[2] \in BOOLEAN /\ (p[2] => Captures(m, b)) /\ (~p[2] => Failed(m, b))
    BY <1>0, <2>5, <2>8, TakePicture
  <2>11. CASE p[2]
    <3>1. b.state = "PIC"
      BY <2>5, <2>9, <2>11 DEF Captures, Keeps, Fields, Start
    <3>2. ~h.retro /\ g = signalAPIResult(b, "takePicture", TRUE)
      BY <1>0, <1>2, <2>7, <2>8, <2>11
    <3>3. /\ b.state = "PIC" => ~config.zsl
          /\ b.state = "PREVIEW_PIC" => config.zsl \/ h.longshot
          /\ b.state \in {"PIC", "PREVIEW_PIC"}
      BY <1>2, <3>1
    <3> QED BY <2>5, <2>6, <2>9, <2>11, <3>2, <3>3, PictureStarts
  <2>12. CASE ~p[2]
    <3>0. PICK a : a = stopPreview(b)
      OBVIOUS
    <3>1. a \in Hw /\ Keeps(b, a, {"preview"}) /\ a.preview = "none"
      BY <2>9, <3>0, StopPreview
    <3>2. PICK r \in moved(prepareAndStart(a), "PREVIEWING", "STOPPED") :
              g = signalAPIResult(r[1], e, FALSE)
      BY <2>7, <2>8, <2>12, <3>0
    <3>3. \A x \in prepareAndStart(a) : x[1] \in Hw /\ x[2] \in BOOLEAN
      BY <3>1, PrepareAndStart
    <3>4. PICK x \in prepareAndStart(a) :
              /\ r[1] \in Hw /\ r[2] = x[2] /\ Keeps(x[1], r[1], {"state"})
              /\ r[1].state = IF r[2] THEN "PREVIEWING" ELSE "STOPPED"
      BY <1>0, <3>3, Moved
    <3>5. /\ x[2] \in BOOLEAN /\ Keeps(a, x[1], {"preview"})
          /\ ~x[2] => x[1].preview \in {a.preview, "none"}
      BY <3>1, PrepareAndStart
    <3>6. PICK c : c = r[1]
      OBVIOUS
    <3>7. c \in Hw /\ Keeps(b, c, {"state", "preview"})
      BY <3>1, <3>4, <3>5, <3>6 DEF Keeps
    <3>8. c.preview = x[1].preview
      BY <3>4, <3>6 DEF Keeps, Fields
    <3>9. c.state \in {"STOPPED", "PREVIEWING"} /\ (c.state = "STOPPED" => c.preview = "none")
      BY <3>1, <3>4, <3>5, <3>6, <3>8
    <3> QED BY <2>5, <2>6, <2>9, <2>12, <3>2, <3>6, <3>7, <3>9, PictureFails
  <2> QED BY <2>9, <2>11, <2>12
<1> QED BY <1>1, <1>2

LEMMA PreviewingCall ==
  ASSUME NEW h, NEW e \in Apis, Expects(h, e), h.state = "PREVIEWING",
         NEW g \in procEvtPreviewingState(h, e)
  PROVE  Call(h, e, g)
<1>1. CASE e \notin {"enableMsg", "disableMsg", "startPreview", "startNoDisplay", "previewEnabled",
                     "setParamsStop", "setParamsRestart", "stopPreview", "preStartRecording",
                     "startRecording", "prepareSnapshot", "preTakePicture", "takePicture", "longshotOn"}
  <2>1. g \in plain(h, e)
    BY <1>1 DEF procEvtPreviewingState
  <2> QED BY <1>1, <2>1, Plain
<1>2. CASE e \in {"enableMsg", "disableMsg"}
  BY <1>2, PreviewingMessages
<1>3. CASE e \in {"startPreview", "startNoDisplay", "previewEnabled", "setParamsStop",
                  "setParamsRestart", "stopPreview", "preStartRecording", "preTakePicture"}
  BY <1>3, PreviewingRestarts
<1>4. CASE e = "startRecording"
  BY <1>4, PreviewingRecords
<1>5. CASE e = "prepareSnapshot"
  BY <1>5, PreviewingMeasures
<1>6. CASE e = "takePicture"
  BY <1>6, PreviewingPicture
<1>7. CASE e = "longshotOn"
  BY <1>7, PreviewingLongshot
<1> QED BY <1>1, <1>2, <1>3, <1>4, <1>5, <1>6, <1>7

LEMMA PrepareCall ==
  ASSUME NEW h, NEW e \in Apis, Expects(h, e), h.state = "PREPARE",
         NEW g \in procEvtPrepareSnapshotState(h, e)
  PROVE  Call(h, e, g)
<1>1. g \in plain(h, e)
  BY DEF procEvtPrepareSnapshotState, Apis
<1> QED BY <1>1, Plain

\* CANCEL_PICTURE and STOP_PREVIEW while a picture is taken.
LEMMA CaptureEnds ==
  ASSUME NEW h, NEW e \in {"cancelPicture", "stopPreview"}, Expects(h, e),
         h.state \in {"PIC", "PREVIEW_PIC"},
         NEW k \in cancelPicture(h),
         NEW c \in Hw, Keeps(k, c, {"state", "preview"}), c.state \in {"STOPPED", "PREVIEWING"},
         ~config.restart /\ c.state = "STOPPED" => c.preview = "none",
         NEW g, g = signalAPIResult(c, e, TRUE)
  PROVE  Call(h, e, g)
<1>0. h \in Hw /\ Sound(h) /\ ~h.recording /\ h.live # "take" /\ e \in Apis
  BY DEF Expects, Sound, Recording, Apis
<1>1. k \in Hw /\ Cancels(h, k)
  BY <1>0, CancelPicture
<1>2. /\ ~h.job /\ Keeps(h, k, {"capture", "pproc", "cmds"})
      /\ k.capture = IF h.capture = "still" THEN "none" ELSE h.capture
  BY <1>1 DEF Cancels
<1>3. /\ g \in Hw /\ Keeps(c, g, {"results"})
      /\ g.results = Append(c.results, [api |-> e, ok |-> TRUE])
  BY <1>0, Signalled
<1>4. Keeps(h, g, Settings \cup {"capture", "pproc", "cmds", "longshot", "prepRun", "evts"})
  BY <1>2, <1>3 DEF Keeps, Settings
<1>5. /\ c.results = h.results /\ g.capture = k.capture /\ g.evts = h.evts
      /\ g.state = c.state /\ g.preview = c.preview
      /\ g.live = h.live /\ g.recording = h.recording
      /\ g.longshot = h.longshot /\ g.retro = h.retro /\ g.enabled = h.enabled /\ g.delayed = h.delayed
  <2>1. /\ Keeps(k, g, {"state", "preview", "results"}) /\ Keeps(h, c, {"capture", "pproc", "cmds", "state", "preview"})
    BY <1>2, <1>3 DEF Keeps
  <2>2. Keeps(h, g, {"capture", "pproc", "cmds", "state", "preview", "results"})
    BY <1>2, <2>1 DEF Keeps
  <2>3. c.results = h.results /\ g.capture = k.capture /\ g.state = c.state /\ g.preview = c.preview
    BY <1>3, <2>1 DEF Keeps, Fields
  <2>4. /\ g.evts = h.evts /\ g.live = h.live /\ g.recording = h.recording
        /\ g.longshot = h.longshot /\ g.retro = h.retro /\ g.enabled = h.enabled /\ g.delayed = h.delayed
    BY <2>2 DEF Keeps, Fields
  <2> QED BY <2>3, <2>4
<1>6. Answers(h, e, g)
  BY <1>3, <1>5, Zenon DEF Answers
<1>7. Ends(h, e, g)
  BY <1>2, <1>4, <1>5, <1>6 DEF Ends
<1>8. Sound(g)
  BY <1>0, <1>2, <1>5 DEF Sound
<1>9. Moves(h, e, g)
  BY <1>0, <1>5 DEF Moves, Recording, Halted
<1> QED BY <1>3, <1>7, <1>8, <1>9 DEF Call, Kinds

\* LONGSHOT_OFF while a picture is taken.
LEMMA LongshotEnds ==
  ASSUME NEW h, Expects(h, "longshotOff"), h.state \in {"PIC", "PREVIEW_PIC"},
         NEW p \in longshotOff(h),
         NEW g, g = signalAPIResult(in(p[1], "PREVIEWING"), "longshotOff", p[2])
  PROVE  Call(h, "longshotOff", g)
<1> DEFINE e == "longshotOff"
<1>0. /\ h \in Hw /\ Sound(h) /\ ~h.recording /\ h.live # "take" /\ e \in Apis
      /\ h.longshot /\ h.state \in Capturing /\ "PREVIEWING" \in States
  BY DEF Expects, Sound, Recording, Apis, States, Capturing
<1>1. PICK k : k = p[1]
  OBVIOUS
<1>2. /\ k \in Hw /\ p[2] = TRUE
      /\ Keeps(h, k, {"longshot", "prepRun", "capture", "pproc", "cmds", "evts"})
      /\ k.capture = IF h.capture = "still" THEN "none" ELSE h.capture
      /\ k.evts = Append(h.evts, "snapshotDone")
  BY <1>0, <1>1, LongshotOff
<1>3. ~h.job
  BY <1>0, CancelPicture DEF longshotOff, Cancels
<1>4. PICK c : c = in(k, "PREVIEWING")
  OBVIOUS
<1>5. c \in Hw /\ Keeps(k, c, {"state"}) /\ c.state = "PREVIEWING"
  BY <1>0, <1>2, <1>4, In
<1>6. g = signalAPIResult(c, e, TRUE)
  BY <1>1, <1>2, <1>4
<1>7. /\ g \in Hw /\ Keeps(c, g, {"results"})
      /\ g.results = Append(c.results, [api |-> e, ok |-> TRUE])
  BY <1>0, <1>5, <1>6, Signalled
<1>8. Keeps(h, g, Settings \cup {"capture", "pproc", "cmds", "longshot", "prepRun", "evts"})
  BY <1>2, <1>5, <1>7 DEF Keeps, Settings
<1>9. /\ c.results = h.results /\ g.capture = k.capture /\ g.evts = k.evts
      /\ g.state = "PREVIEWING"
      /\ g.live = h.live /\ g.recording = h.recording
      /\ g.retro = h.retro /\ g.enabled = h.enabled /\ g.delayed = h.delayed
  <2>1. Keeps(k, g, {"state", "results"}) /\ Keeps(h, c, {"longshot", "prepRun", "capture", "pproc", "cmds", "evts", "state"})
    BY <1>2, <1>5, <1>7 DEF Keeps
  <2>2. Keeps(h, g, {"longshot", "prepRun", "capture", "pproc", "cmds", "evts", "state", "results"})
    BY <1>2, <2>1 DEF Keeps
  <2>3. c.results = h.results /\ g.capture = k.capture /\ g.evts = k.evts /\ g.state = "PREVIEWING"
    BY <1>5, <1>7, <2>1 DEF Keeps, Fields
  <2>4. /\ g.live = h.live /\ g.recording = h.recording
        /\ g.retro = h.retro /\ g.enabled = h.enabled /\ g.delayed = h.delayed
    BY <2>2 DEF Keeps, Fields
  <2> QED BY <2>3, <2>4
<1>10. Answers(h, e, g)
  BY <1>7, <1>9, Zenon DEF Answers
<1>11. Ends(h, e, g)
  BY <1>2, <1>3, <1>8, <1>9, <1>10 DEF Ends
<1>12. Sound(g)
  BY <1>0, <1>2, <1>9 DEF Sound
<1>13. Moves(h, e, g)
  BY <1>0, <1>9 DEF Moves, Recording
<1> QED BY <1>7, <1>11, <1>12, <1>13 DEF Call, Kinds

\* PRE_TAKE_PICTURE and TAKE_PICTURE while a picture is taken.
LEMMA AnotherPicture ==
  ASSUME NEW h, NEW e \in {"preTakePicture", "takePicture"}, Expects(h, e),
         NEW g \in takeAnother(h, e)
  PROVE  Call(h, e, g)
<1>0. h \in Hw /\ Sound(h) /\ e \in Apis /\ config.pictures \in Nat
  BY DEF Expects, Apis, ConfigTyped
<1>1. CASE ~h.longshot
  <2>1. g = signalAPIResult(h, e, FALSE)
    BY <1>1 DEF takeAnother
  <2> QED BY <1>0, <2>1, Refuses
<1>2. CASE h.longshot /\ e # "takePicture"
  <2>1. g = signalAPIResult(h, e, TRUE)
    BY <1>2 DEF takeAnother
  <2> QED BY <1>0, <2>1, Refuses
<1>3. CASE h.longshot /\ e = "takePicture"
  <2>1. g \in reply(e, longShot(h))
    BY <1>3 DEF takeAnother
  <2>2. \A p \in longShot(h) : p[1] \in Hw /\ p[2] \in BOOLEAN /\ Keeps(h, p[1], {"shots"})
    BY <1>0, LongShot
  <2>3. PICK p \in longShot(h) : /\ g \in Hw /\ Keeps(p[1], g, {"results"})
                                 /\ g.results = Append(p[1].results, [api |-> e, ok |-> p[2]])
    BY <1>0, <2>1, <2>2, Reply
  <2>4. p[1] \in Hw /\ p[2] \in BOOLEAN /\ Keeps(h, p[1], {"shots"})
    BY <2>2
  <2>5. Keeps(h, g, Settings \cup {"shots"})
    BY <2>3, <2>4 DEF Keeps, Settings
  <2>6. /\ p[1].results = h.results
        /\ g.state = h.state /\ g.preview = h.preview /\ g.capture = h.capture
        /\ g.live = h.live /\ g.longshot = h.longshot /\ g.recording = h.recording
        /\ g.retro = h.retro /\ g.enabled = h.enabled /\ g.delayed = h.delayed
        /\ g.prep = h.prep
    BY <2>3, <2>4 DEF Keeps, Fields
  <2>7. Answers(h, e, g)
    BY <2>3, <2>4, <2>6, Zenon DEF Answers
  <2>8. Repeats(h, e, g)
    BY <1>3, <2>5, <2>7 DEF Repeats
  <2>9. Sound(g)
    BY <1>0, <2>6, Zenon DEF Sound
  <2>10. Moves(h, e, g)
    BY <1>3, <2>6 DEF Moves, Halted
  <2> QED BY <2>3, <2>8, <2>9, <2>10 DEF Call, Kinds
<1> QED BY <1>1, <1>2, <1>3

LEMMA PicCall ==
  ASSUME NEW h, NEW e \in Apis, Expects(h, e), h.state = "PIC",
         NEW g \in procEvtPicTakingState(h, e)
  PROVE  Call(h, e, g)
<1>0. /\ h \in Hw /\ Sound(h) /\ "STOPPED" \in States /\ "PREVIEWING" \in States
      /\ e \notin {"daemonDied", "jpeg", "snapshotDone"}
      /\ (~config.restart => h.preview = "none")
  BY DEF Expects, States, Apis, Sound
<1>1. CASE e \in {"stopPreview", "cancelPicture"}
  <2>1. PICK k \in cancelPicture(h) : g = signalAPIResult(in(k, "STOPPED"), e, TRUE)
    BY <1>1 DEF procEvtPicTakingState
  <2>2. PICK c : c = in(k, "STOPPED")
    OBVIOUS
  <2>3. k \in Hw /\ Cancels(h, k)
    BY <1>0, CancelPicture
  <2>4. c \in Hw /\ Keeps(k, c, {"state"}) /\ c.state = "STOPPED"
    BY <1>0, <2>2, <2>3, In
  <2>5. Keeps(k, c, {"state", "preview"})
    BY <2>4 DEF Keeps
  <2>6. c.preview = h.preview
    BY <2>3, <2>4 DEF Cancels, Keeps, Fields
  <2>7. g = signalAPIResult(c, e, TRUE)
    BY <2>1, <2>2
  <2> QED BY <1>0, <1>1, <2>4, <2>5, <2>6, <2>7, CaptureEnds
<1>2. CASE e = "longshotOff"
  <2>1. PICK p \in longshotOff(h) : g = signalAPIResult(in(p[1], "PREVIEWING"), "longshotOff", p[2])
    BY <1>2 DEF procEvtPicTakingState
  <2> QED BY <1>2, <2>1, LongshotEnds
<1>3. CASE e \in {"preTakePicture", "takePicture"}
  <2>1. g \in takeAnother(h, e)
    BY <1>3 DEF procEvtPicTakingState
  <2> QED BY <1>3, <2>1, AnotherPicture
<1>4. CASE e = "stopCaptureChannel"
  <2> DEFINE F == {"preview", "enabled", "delayed", "delay"}
  <2>1. g \in reply(e, stopCaptureChannel(h))
    BY <1>4 DEF procEvtPicTakingState
  <2>2. ASSUME NEW p \in stopCaptureChannel(h)
        PROVE  /\ p[1] \in Hw /\ p[2] \in BOOLEAN /\ Keeps(h, p[1], F)
               /\ ~config.restart => p[1].preview = h.preview
               /\ h.enabled \/ h.delayed => p[1].enabled \/ p[1].delayed
    <3>1. CASE ~config.restart
      <4>1. p = <<h, TRUE>>
        BY <3>1 DEF stopCaptureChannel
      <4> QED BY <1>0, <4>1 DEF Keeps
    <3>2. CASE config.restart /\ p \in failed(preparePreview(h))
      <4>1. p[1] \in Hw /\ p[2] \in BOOLEAN /\ Keeps(h, p[1], {"preview"})
        BY <1>0, <3>2, PreparePreview DEF failed
      <4>2. Keeps(h, p[1], F) /\ p[1].enabled = h.enabled /\ p[1].delayed = h.delayed
        BY <4>1 DEF Keeps, Fields
      <4> QED BY <3>2, <4>1, <4>2
    <3>3. ASSUME NEW q \in preparePreview(h), p \in startPreview(applyDelayedMsgs(q[1])), config.restart
          PROVE  /\ p[1] \in Hw /\ p[2] \in BOOLEAN /\ Keeps(h, p[1], F)
                 /\ h.enabled \/ h.delayed => p[1].enabled \/ p[1].delayed
      <4>1. q[1] \in Hw /\ Keeps(h, q[1], {"preview"})
        BY <1>0, PreparePreview
      <4>2. PICK a : a = applyDelayedMsgs(q[1])
        OBVIOUS
      <4>3. /\ a \in Hw /\ Keeps(q[1], a, {"enabled", "delayed", "delay"})
            /\ q[1].enabled \/ q[1].delayed => a.enabled \/ a.delayed
        BY <4>1, <4>2, ApplyDelayedMsgs
      <4>4. p[1] \in Hw /\ p[2] \in BOOLEAN /\ Keeps(a, p[1], {"preview"})
        BY <3>3, <4>2, <4>3, StartPreview
      <4>5. Keeps(h, p[1], F)
        BY <4>1, <4>3, <4>4 DEF Keeps
      <4>6. /\ p[1].enabled = a.enabled /\ p[1].delayed = a.delayed
            /\ q[1].enabled = h.enabled /\ q[1].delayed = h.delayed
        BY <4>1, <4>4 DEF Keeps, Fields
      <4> QED BY <4>3, <4>4, <4>5, <4>6
    <3> QED BY <3>1, <3>2, <3>3 DEF stopCaptureChannel, succeeded
  <2>3. \A p \in stopCaptureChannel(h) : p[1] \in Hw /\ p[2] \in BOOLEAN /\ Keeps(h, p[1], Settings \ {"results"})
    BY <2>2 DEF Keeps, Settings
  <2>4. PICK p \in stopCaptureChannel(h) : Keeps(p[1], g, {"results"})
    BY <1>0, <2>1, <2>3, Settled
  <2>5. g \in Hw /\ Settles(h, e, g)
    BY <1>0, <2>1, <2>3, Settled
  <2>6. /\ Keeps(h, p[1], F)
        /\ ~config.restart => p[1].preview = h.preview
        /\ h.enabled \/ h.delayed => p[1].enabled \/ p[1].delayed
    BY <2>2
  <2>7. /\ g.state = h.state /\ g.preview = p[1].preview /\ g.capture = h.capture
        /\ g.live = h.live /\ g.longshot = h.longshot /\ g.recording = h.recording
        /\ g.retro = h.retro /\ g.enabled = p[1].enabled /\ g.delayed = p[1].delayed
    BY <2>4, <2>6 DEF Keeps, Fields
  <2>8. Sound(g)
    BY <1>0, <2>6, <2>7 DEF Sound
  <2>9. Moves(h, e, g)
    BY <1>4, <2>6, <2>7 DEF Moves, Halted, Recording
  <2> QED BY <2>5, <2>8, <2>9 DEF Call, Kinds
<1>5. CASE e \notin {"stopPreview", "cancelPicture", "longshotOff", "preTakePicture", "takePicture", "stopCaptureChannel"}
  <2>1. g \in plain(h, e)
    BY <1>0, <1>5 DEF procEvtPicTakingState
  <2> QED BY <1>5, <2>1, Plain
<1> QED BY <1>1, <1>2, <1>3, <1>4, <1>5

\* The calls that start and stop a live snapshot, or the recording.
LEMMA RecordingEnds ==
  ASSUME NEW h, NEW e \in {"takePicture", "stopRecording", "stopPreview", "cancelPicture"}, Expects(h, e),
         h.state \in Recording,
         NEW k \in Hw, Keeps(h, k, {"live"}),
         h.state = "VIDEO_PIC" => k.live = "cancel",
         h.state = "RECORDING" => k.live = h.live \/ h.live = "none",
         NEW c \in Hw, Keeps(k, c, {"state", "preview", "recording"}),
         \/ c.state \in Recording
         \/ /\ e \in {"stopRecording", "stopPreview"}
            /\ c.state = "PREVIEWING" \/ (c.state = "STOPPED" /\ c.preview = "none")
            /\ ~c.recording,
         k.live = "take" => c.state = "VIDEO_PIC",
         NEW g, g = signalAPIResult(c, e, TRUE)
  PROVE  Call(h, e, g)
<1>0. /\ h \in Hw /\ Sound(h) /\ e \in Apis /\ h.capture # "still"
      /\ h.capture = "live" => h.live = "cancel" \/ (h.state = "VIDEO_PIC" /\ h.live = "none")
  BY DEF Expects, Apis, Sound, Recording
<1>1. /\ g \in Hw /\ Keeps(c, g, {"results"})
      /\ g.results = Append(c.results, [api |-> e, ok |-> TRUE])
  BY <1>0, Signalled
<1>2. Keeps(h, c, {"live", "state", "preview", "recording"})
  BY DEF Keeps
<1>3. Keeps(h, g, {"live", "state", "preview", "recording", "results"})
  BY <1>1, <1>2 DEF Keeps
<1>4. Keeps(h, g, Settings \cup {"live"})
  BY <1>3 DEF Keeps, Settings
<1>5. c.live = k.live
  BY DEF Keeps, Fields
<1>6. /\ g.state = c.state /\ g.preview = c.preview /\ g.recording = c.recording /\ g.live = c.live
  BY <1>1 DEF Keeps, Fields
<1>7. /\ c.results = h.results
      /\ g.capture = h.capture /\ g.longshot = h.longshot /\ g.retro = h.retro
      /\ g.enabled = h.enabled /\ g.delayed = h.delayed
  BY <1>2, <1>3 DEF Keeps, Fields
<1>8. Answers(h, e, g)
  BY <1>1, <1>7, Zenon DEF Answers
<1>9. Lives(h, e, g)
  BY <1>4, <1>8 DEF Lives
<1>10. g.capture = "live" => g.live = "cancel"
  BY <1>0, <1>5, <1>6, <1>7 DEF Recording
<1>11. Sound(g)
  BY <1>0, <1>5, <1>6, <1>7, <1>10 DEF Sound, Recording
<1>12. Moves(h, e, g)
  BY <1>6, <1>7 DEF Moves, Recording, Halted
<1> QED BY <1>1, <1>9, <1>11, <1>12 DEF Call, Kinds

LEMMA RecordingCall ==
  ASSUME NEW h, NEW e \in Apis, Expects(h, e), h.state = "RECORDING",
         NEW g \in procEvtRecordingState(h, e)
  PROVE  Call(h, e, g)
<1>0. /\ h \in Hw /\ Sound(h) /\ h.live # "take" /\ h.state \in Recording
      /\ {"STOPPED", "PREVIEWING", "VIDEO_PIC"} \subseteq States
      /\ Keeps(h, h, {"live"})
  BY DEF Expects, States, Sound, Recording, Keeps
<1>1. CASE e = "takePicture"
  <2>1. PICK k \in takeLiveSnapshot(h) : g = signalAPIResult(in(k, "VIDEO_PIC"), e, TRUE)
    BY <1>1 DEF procEvtRecordingState
  <2>2. k \in Hw /\ Keeps(h, k, {"live"}) /\ h.live = "none" /\ k.live = "take"
    BY <1>0, LiveSnapshot
  <2>3. PICK c : c = in(k, "VIDEO_PIC")
    OBVIOUS
  <2>4. c \in Hw /\ Keeps(k, c, {"state"}) /\ c.state = "VIDEO_PIC"
    BY <1>0, <2>2, <2>3, In
  <2>5. Keeps(k, c, {"state", "preview", "recording"}) /\ c.state \in Recording
    BY <2>4 DEF Keeps, Recording
  <2>6. g = signalAPIResult(c, e, TRUE)
    BY <2>1, <2>3
  <2> QED BY <1>0, <1>1, <2>2, <2>4, <2>5, <2>6, RecordingEnds
<1>2. CASE e = "stopRecording"
  <2>1. PICK r, c : r = stopRecording(h) /\ c = in(r, "PREVIEWING") /\ g = signalAPIResult(c, e, TRUE)
    BY <1>2 DEF procEvtRecordingState
  <2>2. r \in Hw /\ Keeps(h, r, {"recording"}) /\ ~r.recording
    BY <1>0, <2>1, StopRecording
  <2>3. c \in Hw /\ Keeps(r, c, {"state"}) /\ c.state = "PREVIEWING"
    BY <1>0, <2>1, <2>2, In
  <2>4. Keeps(h, c, {"state", "preview", "recording"}) /\ c.recording = r.recording
    BY <2>2, <2>3 DEF Keeps, Fields
  <2> QED BY <1>0, <1>2, <2>1, <2>2, <2>3, <2>4, RecordingEnds
<1>3. CASE e = "stopPreview"
  <2>1. PICK r, s, c : r = stopRecording(h) /\ s = stopPreview(r) /\ c = in(s, "STOPPED") /\ g = signalAPIResult(c, e, TRUE)
    BY <1>3 DEF procEvtRecordingState
  <2>2. r \in Hw /\ Keeps(h, r, {"recording"}) /\ ~r.recording
    BY <1>0, <2>1, StopRecording
  <2>3. s \in Hw /\ Keeps(r, s, {"preview"}) /\ s.preview = "none"
    BY <2>1, <2>2, StopPreview
  <2>4. c \in Hw /\ Keeps(s, c, {"state"}) /\ c.state = "STOPPED"
    BY <1>0, <2>1, <2>3, In
  <2>5. Keeps(h, c, {"state", "preview", "recording"}) /\ c.recording = r.recording /\ c.preview = s.preview
    BY <2>2, <2>3, <2>4 DEF Keeps, Fields
  <2> QED BY <1>0, <1>3, <2>1, <2>2, <2>3, <2>4, <2>5, RecordingEnds
<1>4. CASE e \notin {"takePicture", "stopRecording", "stopPreview"}
  <2>1. g \in plain(h, e)
    BY <1>4 DEF procEvtRecordingState
  <2> QED BY <2>1, Plain
<1> QED BY <1>1, <1>2, <1>3, <1>4

LEMMA VideoPicCall ==
  ASSUME NEW h, NEW e \in Apis, Expects(h, e), h.state = "VIDEO_PIC",
         NEW g \in procEvtVideoPicTakingState(h, e)
  PROVE  Call(h, e, g)
<1>0. /\ h \in Hw /\ Sound(h) /\ h.state \in Recording
      /\ {"STOPPED", "PREVIEWING", "RECORDING"} \subseteq States
      /\ e \notin {"jpeg", "snapshotDone"}
  BY DEF Expects, States, Recording, Apis
<1>a. \A k \in cancelLiveSnapshot(h) : k \in Hw /\ Keeps(h, k, {"live"}) /\ k.live = "cancel"
  BY <1>0, LiveSnapshot
<1>1. CASE e = "cancelPicture"
  <2>1. PICK k \in cancelLiveSnapshot(h) : g = signalAPIResult(in(k, "RECORDING"), e, TRUE)
    BY <1>1 DEF procEvtVideoPicTakingState
  <2>2. k \in Hw /\ Keeps(h, k, {"live"}) /\ k.live = "cancel"
    BY <1>a
  <2>3. PICK c : c = in(k, "RECORDING")
    OBVIOUS
  <2>4. c \in Hw /\ Keeps(k, c, {"state"}) /\ c.state = "RECORDING"
    BY <1>0, <2>2, <2>3, In
  <2>5. Keeps(k, c, {"state", "preview", "recording"}) /\ c.state \in Recording
    BY <2>4 DEF Keeps, Recording
  <2>6. g = signalAPIResult(c, e, TRUE)
    BY <2>1, <2>3
  <2> QED BY <1>0, <1>1, <2>2, <2>4, <2>5, <2>6, RecordingEnds
<1>2. CASE e = "stopRecording"
  <2>1. PICK k \in cancelLiveSnapshot(h) : g = signalAPIResult(in(stopRecording(k), "PREVIEWING"), e, TRUE)
    BY <1>2 DEF procEvtVideoPicTakingState
  <2>2. k \in Hw /\ Keeps(h, k, {"live"}) /\ k.live = "cancel"
    BY <1>a
  <2>3. PICK r, c : r = stopRecording(k) /\ c = in(r, "PREVIEWING") /\ g = signalAPIResult(c, e, TRUE)
    BY <2>1
  <2>4. r \in Hw /\ Keeps(k, r, {"recording"}) /\ ~r.recording
    BY <2>2, <2>3, StopRecording
  <2>5. c \in Hw /\ Keeps(r, c, {"state"}) /\ c.state = "PREVIEWING"
    BY <1>0, <2>3, <2>4, In
  <2>6. Keeps(k, c, {"state", "preview", "recording"}) /\ c.recording = r.recording
    BY <2>4, <2>5 DEF Keeps, Fields
  <2> QED BY <1>0, <1>2, <2>2, <2>3, <2>4, <2>5, <2>6, RecordingEnds
<1>3. CASE e = "stopPreview"
  <2>1. PICK k \in cancelLiveSnapshot(h) : g = signalAPIResult(in(stopPreview(stopRecording(k)), "STOPPED"), e, TRUE)
    BY <1>3 DEF procEvtVideoPicTakingState
  <2>2. k \in Hw /\ Keeps(h, k, {"live"}) /\ k.live = "cancel"
    BY <1>a
  <2>3. PICK r, s, c : r = stopRecording(k) /\ s = stopPreview(r) /\ c = in(s, "STOPPED") /\ g = signalAPIResult(c, e, TRUE)
    BY <2>1
  <2>4. r \in Hw /\ Keeps(k, r, {"recording"}) /\ ~r.recording
    BY <2>2, <2>3, StopRecording
  <2>5. s \in Hw /\ Keeps(r, s, {"preview"}) /\ s.preview = "none"
    BY <2>3, <2>4, StopPreview
  <2>6. c \in Hw /\ Keeps(s, c, {"state"}) /\ c.state = "STOPPED"
    BY <1>0, <2>3, <2>5, In, Zenon
  <2>7. Keeps(k, c, {"state", "preview", "recording"}) /\ c.recording = r.recording /\ c.preview = s.preview
    BY <2>4, <2>5, <2>6 DEF Keeps, Fields
  <2> QED BY <1>0, <1>3, <2>2, <2>3, <2>4, <2>5, <2>6, <2>7, RecordingEnds
<1>4. CASE e \notin {"cancelPicture", "stopRecording", "stopPreview"}
  <2>1. g \in plain(h, e)
    BY <1>0, <1>4 DEF procEvtVideoPicTakingState
  <2> QED BY <2>1, Plain
<1> QED BY <1>1, <1>2, <1>3, <1>4

LEMMA PreviewPicCall ==
  ASSUME NEW h, NEW e \in Apis, Expects(h, e), h.state = "PREVIEW_PIC",
         NEW g \in procEvtPreviewPicTakingState(h, e)
  PROVE  Call(h, e, g)
<1>0. /\ h \in Hw /\ Sound(h) /\ {"STOPPED", "PREVIEWING", "PREVIEW_PIC", "PIC"} \subseteq States
      /\ e \notin {"prepDone", "ready", "daemonDied", "jpeg", "snapshotDone"}
      /\ config.zsl \/ h.longshot
      /\ ~h.recording
  BY DEF Expects, States, Apis, Sound, Recording
<1>1. CASE e = "setParamsStop"
  <2>1. PICK a : a = stopPreview(h) /\ g = signalAPIResult(a, e, TRUE)
    BY <1>1 DEF procEvtPreviewPicTakingState
  <2>2. a \in Hw /\ Keeps(h, a, {"preview"}) /\ a.preview = "none"
    BY <1>0, <2>1, StopPreview
  <2>3. Keeps(h, a, Settings \ {"results"})
    BY <2>2 DEF Keeps, Settings
  <2>4. g \in Hw /\ Settles(h, e, g) /\ Keeps(a, g, {"results"})
    BY <1>0, <2>1, <2>2, <2>3, SettledOne
  <2>5. /\ g.preview = "none" /\ g.capture = h.capture
        /\ g.state = h.state /\ g.live = h.live /\ g.longshot = h.longshot /\ g.retro = h.retro
        /\ g.enabled = h.enabled /\ g.delayed = h.delayed /\ g.recording = h.recording
    BY <2>2, <2>4 DEF Keeps, Fields
  <2>6. Sound(g)
    BY <1>0, <2>5 DEF Sound
  <2>7. Moves(h, e, g)
    BY <1>0, <1>1, <2>5 DEF Moves, Halted, Recording
  <2> QED BY <2>4, <2>6, <2>7 DEF Call, Kinds
<1>2. CASE e = "setParamsRestart"
  <2>1. g \in reply(e, moved(prepareApplyStart(h), "PREVIEW_PIC", "PIC"))
    BY <1>2 DEF procEvtPreviewPicTakingState
  <2>2. \A p \in prepareApplyStart(h) :
          /\ p[1] \in Hw /\ p[2] \in BOOLEAN
          /\ Keeps(h, p[1], {"preview", "window", "enabled", "delayed", "delay", "recording"})
    BY <1>0, PrepareApplyStart, KeepsMore
  <2>3. PICK p \in prepareApplyStart(h) :
          /\ Keeps(p[1], g, {"state", "results"})
          /\ g.state = IF p[2] THEN "PREVIEW_PIC" ELSE "PIC"
          /\ g.preview = p[1].preview /\ g.enabled = p[1].enabled
          /\ g.delayed = p[1].delayed /\ g.recording = p[1].recording
    BY <1>0, <2>1, <2>2, SettledMove
  <2>4. /\ p[2] \in BOOLEAN /\ Keeps(h, p[1], {"preview", "enabled", "delayed", "delay"})
        /\ ~p[2] => p[1].preview \in {h.preview, "none"}
        /\ h.enabled \/ h.delayed => p[1].enabled \/ p[1].delayed
    BY <1>0, PrepareApplyStart
  <2>5. p[1].recording = h.recording
    BY <2>4 DEF Keeps, Fields
  <2>6. g \in Hw /\ Settles(h, e, g)
    BY <1>0, <2>1, <2>2, SettledMove
  <2>7. h.preview = "none"
    BY <1>2 DEF Expects, Halted
  <2>8. /\ g.capture = h.capture /\ g.live = h.live
        /\ g.longshot = h.longshot /\ g.retro = h.retro
    BY <2>6 DEF Settles, Keeps, Settings, Fields
  <2>9. Sound(g)
    BY <1>0, <2>3, <2>4, <2>5, <2>7, <2>8 DEF Sound
  <2>10. Moves(h, e, g)
    BY <1>0, <1>2, <2>3, <2>4 DEF Moves, Recording
  <2> QED BY <2>6, <2>9, <2>10 DEF Call, Kinds
<1>3. CASE e = "longshotOff"
  <2>1. PICK p \in longshotOff(h) : g = signalAPIResult(in(p[1], "PREVIEWING"), "longshotOff", p[2])
    BY <1>3 DEF procEvtPreviewPicTakingState
  <2> QED BY <1>3, <2>1, LongshotEnds
<1>4. CASE e = "cancelPicture"
  <2>1. PICK k \in cancelPicture(h) : g = signalAPIResult(in(k, "PREVIEWING"), e, TRUE)
    BY <1>0, <1>4 DEF procEvtPreviewPicTakingState, cancelCapture
  <2>2. PICK c : c = in(k, "PREVIEWING")
    OBVIOUS
  <2>3. k \in Hw
    BY <1>0, CancelPicture
  <2>4. c \in Hw /\ Keeps(k, c, {"state"}) /\ c.state = "PREVIEWING"
    BY <1>0, <2>2, <2>3, In
  <2>5. Keeps(k, c, {"state", "preview"})
    BY <2>4 DEF Keeps
  <2>6. g = signalAPIResult(c, e, TRUE)
    BY <2>1, <2>2
  <2> QED BY <1>0, <1>4, <2>4, <2>5, <2>6, CaptureEnds
<1>5. CASE e = "stopPreview"
  <2>1. PICK k \in cancelPicture(h) : g = signalAPIResult(in(stopPreview(k), "STOPPED"), e, TRUE)
    BY <1>0, <1>5 DEF procEvtPreviewPicTakingState, cancelCapture
  <2>2. PICK s, c : s = stopPreview(k) /\ c = in(s, "STOPPED") /\ g = signalAPIResult(c, e, TRUE)
    BY <2>1
  <2>3. k \in Hw
    BY <1>0, CancelPicture
  <2>4. s \in Hw /\ Keeps(k, s, {"preview"}) /\ s.preview = "none"
    BY <2>2, <2>3, StopPreview
  <2>5. c \in Hw /\ Keeps(s, c, {"state"}) /\ c.state = "STOPPED"
    BY <1>0, <2>2, <2>4, In
  <2>6. Keeps(k, c, {"state", "preview"}) /\ c.preview = s.preview
    BY <2>4, <2>5 DEF Keeps, Fields
  <2> QED BY <1>0, <1>5, <2>2, <2>4, <2>5, <2>6, CaptureEnds
<1>6. CASE e \in {"preStartRecording", "startRecording"}
  <2>1. g \in recordDuringPicture(h, e)
    BY <1>6 DEF procEvtPreviewPicTakingState
  <2>2. g = signalAPIResult(h, e, FALSE)
    BY <1>0, <2>1 DEF recordDuringPicture
  <2> QED BY <1>6, <2>2, Refuses
<1>7. CASE e \in {"preTakePicture", "takePicture"}
  <2>1. g \in takeAnother(h, e)
    BY <1>7 DEF procEvtPreviewPicTakingState
  <2> QED BY <1>7, <2>1, AnotherPicture
<1>8. CASE e = "prepareSnapshot"
  <2>1. PICK p \in fallible(h, h) :
            g = IF p[2] /\ h.retro THEN [h EXCEPT !.prep = TRUE] ELSE signalAPIResult(h, e, FALSE)
    BY <1>8 DEF procEvtPreviewPicTakingState
  <2>2. CASE p = <<h, TRUE>> /\ ~h.dead /\ h.retro
    <3>1. g = [h EXCEPT !.prep = TRUE]
      BY <2>1, <2>2
    <3>2. g \in Hw
      BY <1>0, <3>1, SetBoolean
    <3>3. Keeps(h, g, {"prep"}) /\ g.prep
      BY <1>0, <3>1 DEF Keeps, Fields, Hw
    <3>4. /\ g.state = h.state /\ g.preview = h.preview /\ g.capture = h.capture
          /\ g.live = h.live /\ g.recording = h.recording /\ g.longshot = h.longshot
          /\ g.retro = h.retro /\ g.enabled = h.enabled /\ g.delayed = h.delayed
      BY <3>3 DEF Keeps, Fields
    <3>5. Keeps(h, g, (Settings \ {"results"}) \cup {"prep"})
      BY <3>3 DEF Keeps
    <3>6. Measures(h, e, g)
      BY <1>8, <2>2, <3>3, <3>4, <3>5 DEF Measures, Awaiting
    <3>7. Sound(g)
      BY <1>0, <3>4 DEF Sound
    <3>8. Moves(h, e, g)
      BY <1>8, <3>3, <3>4 DEF Moves, Halted
    <3> QED BY <3>2, <3>6, <3>7, <3>8 DEF Call, Kinds
  <2>3. CASE p = <<h, FALSE>>
    <3>1. g = signalAPIResult(h, e, FALSE)
      BY <2>1, <2>3
    <3> QED BY <1>8, <3>1, Refuses
  <2>4. CASE ~h.retro
    <3>1. g = signalAPIResult(h, e, FALSE)
      BY <2>1, <2>4
    <3> QED BY <1>8, <3>1, Refuses
  <2> QED BY <2>2, <2>3, <2>4, Fallible
<1>9. CASE e \notin {"setParamsStop", "setParamsRestart", "longshotOff", "cancelPicture", "stopPreview",
                     "preStartRecording", "startRecording", "preTakePicture", "takePicture", "prepareSnapshot"}
  <2>1. g \in plain(h, e)
    BY <1>0, <1>9 DEF procEvtPreviewPicTakingState
  <2> QED BY <1>9, <2>1, Plain
<1> QED BY <1>1, <1>2, <1>3, <1>4, <1>5, <1>6, <1>7, <1>8, <1>9

LEMMA StateMachineCall ==
  ASSUME NEW h, NEW e \in Apis, Expects(h, e), NEW g \in stateMachine(h, e)
  PROVE  Call(h, e, g)
<1>1. h.state \in States
  BY DEF Expects, Hw
<1>2. CASE h.state = "STOPPED"
  BY <1>2, StoppedCall DEF stateMachine
<1>3. CASE h.state = "READY"
  BY <1>3, ReadyCall DEF stateMachine
<1>4. CASE h.state = "PREVIEWING"
  BY <1>4, PreviewingCall DEF stateMachine
<1>5. CASE h.state = "PREPARE"
  BY <1>5, PrepareCall DEF stateMachine
<1>6. CASE h.state = "PIC"
  BY <1>6, PicCall DEF stateMachine
<1>7. CASE h.state = "RECORDING"
  BY <1>7, RecordingCall DEF stateMachine
<1>8. CASE h.state = "VIDEO_PIC"
  BY <1>8, VideoPicCall DEF stateMachine
<1>9. CASE h.state = "PREVIEW_PIC"
  BY <1>9, PreviewPicCall DEF stateMachine
<1> QED BY <1>1, <1>2, <1>3, <1>4, <1>5, <1>6, <1>7, <1>8, <1>9 DEF States

-----------------------------------------------------------------------------
(* What an event does.                                                      *)

Slow == {"prepareSnapshot", "takePicture"}

\* The state answers this call at an event of the camera.
Waiter(h, c) ==
  IF c = "prepareSnapshot" THEN Awaiting(h) ELSE h.state = "PREVIEW_PIC" /\ h.retro

Yes(c) == [api |-> c, ok |-> TRUE]

Announces(h, e, g) ==
  /\ e = "snapshotDone" /\ g.evtResult
  /\ Keeps(h, g, {"state", "capture", "live", "pproc", "cmds", "results", "evtResult"})
  /\ g.results = h.results \/ g.results = Append(h.results, Yes("snapshotDone"))
  /\ IF h.state \in {"PIC", "PREVIEW_PIC"}
     THEN /\ g.state \in {"STOPPED", "PREVIEWING"} /\ Keeps(h, g, Fields \ {"live"})
          /\ ~h.job /\ ~g.pproc /\ g.cmds = <<"STOP">> \o h.cmds
          /\ g.capture = IF h.capture = "still" THEN "none" ELSE h.capture
     ELSE /\ g.capture = h.capture /\ g.pproc = h.pproc /\ g.cmds = h.cmds
          /\ IF h.state = "VIDEO_PIC" THEN g.state = "RECORDING" ELSE g.state = h.state

Pictures(h, e, g) ==
  /\ e = "jpeg" /\ Keeps(h, g, {"data", "cmds"})
  /\ g.cmds = h.cmds \/ g.cmds = Append(h.cmds, "JOB")

Measured(h, e, g) ==
  /\ e = "prepDone" /\ Keeps(h, g, {"state", "results"})
  /\ IF h.state = "PREPARE" THEN g.state = "PREVIEWING" ELSE g.state = h.state
  /\ IF Awaiting(h) THEN g.results = Append(h.results, Yes("prepareSnapshot"))
     ELSE g.results = h.results

Queued(h, e, g) ==
  /\ e = "ready" /\ Keeps(h, g, {"results"})
  /\ IF h.state = "PREVIEW_PIC" /\ h.retro
     THEN g.results = Append(h.results, Yes("takePicture"))
     ELSE g.results = h.results

Died(h, e, g) ==
  /\ e = "daemonDied" /\ Keeps(h, g, {"results"})
  /\ IF h.state \in {"PREPARE", "PIC", "PREVIEW_PIC"}
     THEN g.results = Append(Append(h.results, Yes("prepareSnapshot")), Yes("takePicture"))
     ELSE g.results = h.results

EventStep(h, e, g) ==
  /\ g \in Hw /\ Sound(g)
  /\ \/ Announces(h, e, g) \/ Pictures(h, e, g) \/ Measured(h, e, g)
     \/ Queued(h, e, g) \/ Died(h, e, g)

LEMMA SignalledEvt ==
  ASSUME NEW h \in Hw, NEW g, g = signalEvtResult(h)
  PROVE  g \in Hw /\ Keeps(h, g, {"evtResult"}) /\ g.evtResult
<1>1. g \in Hw
  BY SetBoolean DEF signalEvtResult
<1>2. Keeps(h, g, {"evtResult"}) /\ g.evtResult
  BY DEF signalEvtResult, Keeps, Fields, Hw
<1> QED BY <1>1, <1>2

LEMMA IndefiniteWait ==
  ASSUME NEW h \in Hw, NEW g, g = stopIndefiniteWait(h)
  PROVE  /\ g \in Hw /\ Keeps(h, g, {"results"})
         /\ g.results = Append(Append(h.results, Yes("prepareSnapshot")), Yes("takePicture"))
<1>0. "prepareSnapshot" \in Apis /\ "takePicture" \in Apis
  BY DEF Apis
<1>1. PICK a : a = signalAPIResult(h, "prepareSnapshot", TRUE) /\ g = signalAPIResult(a, "takePicture", TRUE)
  BY DEF stopIndefiniteWait
<1>2. a \in Hw /\ Keeps(h, a, {"results"}) /\ a.results = Append(h.results, Yes("prepareSnapshot"))
  BY <1>0, <1>1, Signalled DEF Yes
<1>3. g \in Hw /\ Keeps(a, g, {"results"}) /\ g.results = Append(a.results, Yes("takePicture"))
  BY <1>0, <1>1, <1>2, Signalled DEF Yes
<1>4. Keeps(h, g, {"results"})
  BY <1>2, <1>3 DEF Keeps
<1> QED BY <1>2, <1>3, <1>4

LEMMA JpegNotify ==
  ASSUME NEW h \in Hw, NEW g, g = processJpegNotify(h)
  PROVE  g \in Hw /\ Keeps(h, g, {"data", "cmds"}) /\ g.cmds = Append(h.cmds, "JOB")
<1>1. Append(h.cmds, "JOB") \in Seq(Commands) /\ h.data + 1 \in Nat
  BY AppendProperties DEF Hw, Commands
<1>2. ASSUME NEW n \in Nat, NEW s \in Seq(Commands)
      PROVE  [h EXCEPT !.data = n, !.cmds = s] \in Hw
  BY ZenonT(40) DEF Hw
<1>3. g = [h EXCEPT !.data = h.data + 1, !.cmds = Append(h.cmds, "JOB")]
  BY DEF processJpegNotify
<1>4. g \in Hw
  BY <1>1, <1>2, <1>3
<1>5. Keeps(h, g, {"data", "cmds"}) /\ g.cmds = Append(h.cmds, "JOB")
  BY <1>3 DEF Keeps, Fields, Hw
<1> QED BY <1>4, <1>5

\* An event that changes results only keeps the hardware sound.
LEMMA SoundKept ==
  ASSUME NEW h, NEW g, Sound(h), Keeps(h, g, {"results", "data", "cmds", "evts", "evtResult"})
  PROVE  Sound(g)
<1>1. /\ g.state = h.state /\ g.preview = h.preview /\ g.capture = h.capture
      /\ g.live = h.live /\ g.longshot = h.longshot /\ g.recording = h.recording
      /\ g.retro = h.retro
  BY DEF Keeps, Fields
<1> QED BY <1>1, Zenon DEF Sound

LEMMA StateMachineIs ==
  ASSUME NEW h, NEW e, h.state \in States
  PROVE  /\ h.state = "STOPPED" => stateMachine(h, e) = procEvtPreviewStoppedState(h, e)
         /\ h.state = "READY" => stateMachine(h, e) = procEvtPreviewReadyState(h, e)
         /\ h.state = "PREVIEWING" => stateMachine(h, e) = procEvtPreviewingState(h, e)
         /\ h.state = "PREPARE" => stateMachine(h, e) = procEvtPrepareSnapshotState(h, e)
         /\ h.state = "PIC" => stateMachine(h, e) = procEvtPicTakingState(h, e)
         /\ h.state = "RECORDING" => stateMachine(h, e) = procEvtRecordingState(h, e)
         /\ h.state = "VIDEO_PIC" => stateMachine(h, e) = procEvtVideoPicTakingState(h, e)
         /\ h.state = "PREVIEW_PIC" => stateMachine(h, e) = procEvtPreviewPicTakingState(h, e)
BY DEF stateMachine

\* What the handlers do with the events they know.
LEMMA EventHandlers ==
  ASSUME NEW h
  PROVE  /\ procEvtPrepareSnapshotState(h, "daemonDied") = {stopIndefiniteWait(h)}
         /\ procEvtPrepareSnapshotState(h, "prepDone") =
              {signalAPIResult(in(h, "PREVIEWING"), "prepareSnapshot", TRUE)}
         /\ procEvtPicTakingState(h, "daemonDied") = {stopIndefiniteWait(h)}
         /\ procEvtPicTakingState(h, "jpeg") = {processJpegNotify(h)}
         /\ procEvtVideoPicTakingState(h, "jpeg") = {processJpegNotify(h)}
         /\ procEvtPreviewPicTakingState(h, "daemonDied") = {stopIndefiniteWait(h)}
         /\ procEvtPreviewPicTakingState(h, "jpeg") = {processJpegNotify(h)}
         /\ h.retro => procEvtPreviewPicTakingState(h, "prepDone") =
                         {signalAPIResult(h, "prepareSnapshot", TRUE)}
         /\ h.retro => procEvtPreviewPicTakingState(h, "ready") =
                         {signalAPIResult(h, "takePicture", TRUE)}
<1>1. /\ procEvtPrepareSnapshotState(h, "daemonDied") = {stopIndefiniteWait(h)}
      /\ procEvtPrepareSnapshotState(h, "prepDone") =
           {signalAPIResult(in(h, "PREVIEWING"), "prepareSnapshot", TRUE)}
  BY DEF procEvtPrepareSnapshotState
<1>2. procEvtPicTakingState(h, "daemonDied") = {stopIndefiniteWait(h)}
  BY DEF procEvtPicTakingState
<1>3. procEvtPicTakingState(h, "jpeg") = {processJpegNotify(h)}
  BY DEF procEvtPicTakingState
<1>4. procEvtVideoPicTakingState(h, "jpeg") = {processJpegNotify(h)}
  BY DEF procEvtVideoPicTakingState
<1>5. procEvtPreviewPicTakingState(h, "daemonDied") = {stopIndefiniteWait(h)}
  BY DEF procEvtPreviewPicTakingState
<1>6. procEvtPreviewPicTakingState(h, "jpeg") = {processJpegNotify(h)}
  BY DEF procEvtPreviewPicTakingState
<1>7. h.retro => procEvtPreviewPicTakingState(h, "prepDone") = {signalAPIResult(h, "prepareSnapshot", TRUE)}
  BY DEF procEvtPreviewPicTakingState
<1>8. h.retro => procEvtPreviewPicTakingState(h, "ready") = {signalAPIResult(h, "takePicture", TRUE)}
  BY DEF procEvtPreviewPicTakingState
<1> QED BY <1>1, <1>2, <1>3, <1>4, <1>5, <1>6, <1>7, <1>8

\* The events that a state treats like every other.
LEMMA EventPlain ==
  ASSUME NEW h, NEW e \in Evts, h.state \in States,
         \/ h.state \in {"STOPPED", "READY", "PREVIEWING", "RECORDING"}
         \/ h.state = "PREPARE" /\ e \notin {"prepDone", "daemonDied"}
         \/ h.state = "PIC" /\ e \notin {"daemonDied", "jpeg", "snapshotDone"}
         \/ h.state = "VIDEO_PIC" /\ e \notin {"jpeg", "snapshotDone"}
         \/ /\ h.state = "PREVIEW_PIC" /\ e \notin {"daemonDied", "jpeg", "snapshotDone"}
            /\ e \in {"prepDone", "ready"} => ~h.retro
  PROVE  stateMachine(h, e) = plain(h, e)
<1>0. e \in {"snapshotDone", "jpeg", "prepDone", "ready", "daemonDied"}
  BY DEF Evts
<1>1. CASE h.state = "STOPPED"
  <2>1. stateMachine(h, e) = procEvtPreviewStoppedState(h, e)
    BY <1>1, StateMachineIs
  <2>2. procEvtPreviewStoppedState(h, e) = plain(h, e)
    BY <1>0, <1>1, Zenon DEF procEvtPreviewStoppedState
  <2> QED BY <2>1, <2>2
<1>2. CASE h.state = "READY"
  <2>1. stateMachine(h, e) = procEvtPreviewReadyState(h, e)
    BY <1>2, StateMachineIs
  <2>2. procEvtPreviewReadyState(h, e) = plain(h, e)
    BY <1>0, <1>2, Zenon DEF procEvtPreviewReadyState
  <2> QED BY <2>1, <2>2
<1>3. CASE h.state = "PREVIEWING"
  <2>1. stateMachine(h, e) = procEvtPreviewingState(h, e)
    BY <1>3, StateMachineIs
  <2>2. procEvtPreviewingState(h, e) = plain(h, e)
    BY <1>0, <1>3, Zenon DEF procEvtPreviewingState
  <2> QED BY <2>1, <2>2
<1>4. CASE h.state = "RECORDING"
  <2>1. stateMachine(h, e) = procEvtRecordingState(h, e)
    BY <1>4, StateMachineIs
  <2>2. procEvtRecordingState(h, e) = plain(h, e)
    BY <1>0, <1>4, Zenon DEF procEvtRecordingState
  <2> QED BY <2>1, <2>2
<1>5. CASE h.state = "PREPARE" /\ e \notin {"prepDone", "daemonDied"}
  <2>1. stateMachine(h, e) = procEvtPrepareSnapshotState(h, e)
    BY <1>5, StateMachineIs
  <2>2. procEvtPrepareSnapshotState(h, e) = plain(h, e)
    BY <1>0, <1>5, Zenon DEF procEvtPrepareSnapshotState
  <2> QED BY <2>1, <2>2
<1>6. CASE h.state = "PIC" /\ e \notin {"daemonDied", "jpeg", "snapshotDone"}
  <2>1. stateMachine(h, e) = procEvtPicTakingState(h, e)
    BY <1>6, StateMachineIs
  <2>2. procEvtPicTakingState(h, e) = plain(h, e)
    BY <1>0, <1>6, Zenon DEF procEvtPicTakingState
  <2> QED BY <2>1, <2>2
<1>7. CASE h.state = "VIDEO_PIC" /\ e \notin {"jpeg", "snapshotDone"}
  <2>1. stateMachine(h, e) = procEvtVideoPicTakingState(h, e)
    BY <1>7, StateMachineIs
  <2>2. procEvtVideoPicTakingState(h, e) = plain(h, e)
    BY <1>0, <1>7, Zenon DEF procEvtVideoPicTakingState
  <2> QED BY <2>1, <2>2
<1>8. CASE /\ h.state = "PREVIEW_PIC" /\ e \notin {"daemonDied", "jpeg", "snapshotDone"}
           /\ e \in {"prepDone", "ready"} => ~h.retro
  <2>1. stateMachine(h, e) = procEvtPreviewPicTakingState(h, e)
    BY <1>8, StateMachineIs
  <2>2. procEvtPreviewPicTakingState(h, e) = plain(h, e)
    BY <1>0, <1>8, Zenon DEF procEvtPreviewPicTakingState
  <2> QED BY <2>1, <2>2
<1> QED BY <1>1, <1>2, <1>3, <1>4, <1>5, <1>6, <1>7, <1>8

LEMMA JpegEvent ==
  ASSUME NEW h \in Hw, Sound(h), NEW g \in stateMachine(h, "jpeg")
  PROVE  EventStep(h, "jpeg", g)
<1>0. h.state \in States /\ "jpeg" \in Evts
  BY DEF Hw, Evts
<1>1. CASE h.state \in Capturing
  <2>1. g = processJpegNotify(h)
    <3>1. CASE h.state = "PIC"
      <4>a. stateMachine(h, "jpeg") = procEvtPicTakingState(h, "jpeg")
        BY <1>0, <3>1, StateMachineIs
      <4>b. stateMachine(h, "jpeg") = {processJpegNotify(h)}
        BY <1>0, <3>1, <4>a, EventHandlers, Zenon
      <4> QED BY <4>b
    <3>2. CASE h.state = "VIDEO_PIC"
      <4>a. stateMachine(h, "jpeg") = procEvtVideoPicTakingState(h, "jpeg")
        BY <1>0, <3>2, StateMachineIs
      <4>b. stateMachine(h, "jpeg") = {processJpegNotify(h)}
        BY <1>0, <3>2, <4>a, EventHandlers, Zenon
      <4> QED BY <4>b
    <3>3. CASE h.state = "PREVIEW_PIC"
      <4>a. stateMachine(h, "jpeg") = procEvtPreviewPicTakingState(h, "jpeg")
        BY <1>0, <3>3, StateMachineIs
      <4>b. stateMachine(h, "jpeg") = {processJpegNotify(h)}
        BY <1>0, <3>3, <4>a, EventHandlers, Zenon
      <4> QED BY <4>b
    <3> QED BY <1>1, <3>1, <3>2, <3>3 DEF Capturing
  <2>2. g \in Hw /\ Keeps(h, g, {"data", "cmds"}) /\ g.cmds = Append(h.cmds, "JOB")
    BY <2>1, JpegNotify
  <2>3. Keeps(h, g, {"results", "data", "cmds", "evts", "evtResult"})
    BY <2>2 DEF Keeps
  <2> QED BY <2>2, <2>3, SoundKept DEF EventStep, Pictures
<1>2. CASE h.state \notin Capturing
  <2>1. stateMachine(h, "jpeg") = plain(h, "jpeg")
    BY <1>0, <1>2, EventPlain DEF Capturing, States
  <2>2. plain(h, "jpeg") = {h}
    BY <1>0, PlainIs
  <2>3. g = h
    BY <2>1, <2>2
  <2>4. Keeps(h, h, {"data", "cmds"})
    BY DEF Keeps
  <2> QED BY <2>3, <2>4 DEF EventStep, Pictures
<1> QED BY <1>1, <1>2

LEMMA PrepEvent ==
  ASSUME NEW h \in Hw, Sound(h), NEW g \in stateMachine(h, "prepDone")
  PROVE  EventStep(h, "prepDone", g)
<1>0. h.state \in States /\ "prepDone" \in Evts /\ "prepareSnapshot" \in Apis /\ "PREVIEWING" \in States
  BY DEF Hw, Evts, Apis, States
<1>1. CASE h.state = "PREPARE"
  <2>1. PICK a : a = in(h, "PREVIEWING") /\ g = signalAPIResult(a, "prepareSnapshot", TRUE)
    <3>a. stateMachine(h, "prepDone") = procEvtPrepareSnapshotState(h, "prepDone")
      BY <1>0, <1>1, StateMachineIs
    <3>b. stateMachine(h, "prepDone") = {signalAPIResult(in(h, "PREVIEWING"), "prepareSnapshot", TRUE)}
      BY <1>0, <1>1, <3>a, EventHandlers, Zenon
    <3> QED BY <3>b
  <2>2. a \in Hw /\ Keeps(h, a, {"state"}) /\ a.state = "PREVIEWING"
    BY <1>0, <2>1, In
  <2>3. g \in Hw /\ Keeps(a, g, {"results"}) /\ g.results = Append(a.results, Yes("prepareSnapshot"))
    BY <1>0, <2>1, <2>2, Signalled DEF Yes
  <2>4. Keeps(h, g, {"state", "results"}) /\ a.results = h.results /\ g.state = "PREVIEWING"
    BY <2>2, <2>3 DEF Keeps, Fields
  <2>5. /\ g.preview = h.preview /\ g.capture = h.capture
        /\ g.live = h.live /\ g.longshot = h.longshot /\ g.recording = h.recording
        /\ g.retro = h.retro
    BY <2>4 DEF Keeps, Fields
  <2>6. Sound(g)
    BY <1>1, <2>4, <2>5 DEF Sound, Recording
  <2>7. Measured(h, "prepDone", g)
    BY <1>1, <2>3, <2>4 DEF Measured, Awaiting
  <2> QED BY <2>3, <2>6, <2>7 DEF EventStep
<1>2. CASE h.state = "PREVIEW_PIC" /\ h.retro
  <2>1. g = signalAPIResult(h, "prepareSnapshot", TRUE)
    <3>a. stateMachine(h, "prepDone") = procEvtPreviewPicTakingState(h, "prepDone")
      BY <1>0, <1>2, StateMachineIs
    <3>b. stateMachine(h, "prepDone") = {signalAPIResult(h, "prepareSnapshot", TRUE)}
      BY <1>0, <1>2, <3>a, EventHandlers, Zenon
    <3> QED BY <3>b
  <2>2. g \in Hw /\ Keeps(h, g, {"results"}) /\ g.results = Append(h.results, Yes("prepareSnapshot"))
    BY <1>0, <2>1, Signalled DEF Yes
  <2>3. /\ Keeps(h, g, {"state", "results"}) /\ g.state = h.state
        /\ Keeps(h, g, {"results", "data", "cmds", "evts", "evtResult"})
    BY <2>2 DEF Keeps, Fields
  <2>4. Measured(h, "prepDone", g)
    BY <1>2, <2>2, <2>3 DEF Measured, Awaiting
  <2> QED BY <2>2, <2>3, <2>4, SoundKept DEF EventStep
<1>3. CASE ~Awaiting(h)
  <2>1. stateMachine(h, "prepDone") = plain(h, "prepDone")
    BY <1>0, <1>3, EventPlain DEF Awaiting, States
  <2>2. plain(h, "prepDone") = {h}
    BY <1>0, PlainIs
  <2>3. g = h
    BY <2>1, <2>2
  <2>4. Keeps(h, h, {"state", "results"})
    BY DEF Keeps
  <2>5. Measured(h, "prepDone", g)
    BY <1>3, <2>3, <2>4 DEF Measured, Awaiting
  <2> QED BY <2>3, <2>5 DEF EventStep
<1> QED BY <1>1, <1>2, <1>3 DEF Awaiting

LEMMA ReadyEvent ==
  ASSUME NEW h \in Hw, Sound(h), NEW g \in stateMachine(h, "ready")
  PROVE  EventStep(h, "ready", g)
<1>0. h.state \in States /\ "ready" \in Evts /\ "takePicture" \in Apis
  BY DEF Hw, Evts, Apis
<1>1. CASE h.state = "PREVIEW_PIC" /\ h.retro
  <2>1. g = signalAPIResult(h, "takePicture", TRUE)
    <3>a. stateMachine(h, "ready") = procEvtPreviewPicTakingState(h, "ready")
      BY <1>0, <1>1, StateMachineIs
    <3>b. stateMachine(h, "ready") = {signalAPIResult(h, "takePicture", TRUE)}
      BY <1>0, <1>1, <3>a, EventHandlers, Zenon
    <3> QED BY <3>b
  <2>2. g \in Hw /\ Keeps(h, g, {"results"}) /\ g.results = Append(h.results, Yes("takePicture"))
    BY <1>0, <2>1, Signalled DEF Yes
  <2>3. Keeps(h, g, {"results", "data", "cmds", "evts", "evtResult"})
    BY <2>2 DEF Keeps
  <2>4. Queued(h, "ready", g)
    BY <1>1, <2>2 DEF Queued
  <2> QED BY <2>2, <2>3, <2>4, SoundKept DEF EventStep
<1>2. CASE ~(h.state = "PREVIEW_PIC" /\ h.retro)
  <2>1. stateMachine(h, "ready") = plain(h, "ready")
    BY <1>0, <1>2, EventPlain DEF States
  <2>2. plain(h, "ready") = {h}
    BY <1>0, PlainIs
  <2>3. g = h
    BY <2>1, <2>2
  <2>4. Keeps(h, h, {"results"})
    BY DEF Keeps
  <2>5. Queued(h, "ready", g)
    BY <1>2, <2>3, <2>4 DEF Queued
  <2> QED BY <2>3, <2>5 DEF EventStep
<1> QED BY <1>1, <1>2

LEMMA DiedEvent ==
  ASSUME NEW h \in Hw, Sound(h), NEW g \in stateMachine(h, "daemonDied")
  PROVE  EventStep(h, "daemonDied", g)
<1>0. h.state \in States /\ "daemonDied" \in Evts
  BY DEF Hw, Evts
<1>1. CASE h.state \in {"PREPARE", "PIC", "PREVIEW_PIC"}
  <2>1. g = stopIndefiniteWait(h)
    <3>1. CASE h.state = "PREPARE"
      <4>a. stateMachine(h, "daemonDied") = procEvtPrepareSnapshotState(h, "daemonDied")
        BY <1>0, <3>1, StateMachineIs
      <4>b. stateMachine(h, "daemonDied") = {stopIndefiniteWait(h)}
        BY <1>0, <3>1, <4>a, EventHandlers, Zenon
      <4> QED BY <4>b
    <3>2. CASE h.state = "PIC"
      <4>a. stateMachine(h, "daemonDied") = procEvtPicTakingState(h, "daemonDied")
        BY <1>0, <3>2, StateMachineIs
      <4>b. stateMachine(h, "daemonDied") = {stopIndefiniteWait(h)}
        BY <1>0, <3>2, <4>a, EventHandlers, Zenon
      <4> QED BY <4>b
    <3>3. CASE h.state = "PREVIEW_PIC"
      <4>a. stateMachine(h, "daemonDied") = procEvtPreviewPicTakingState(h, "daemonDied")
        BY <1>0, <3>3, StateMachineIs
      <4>b. stateMachine(h, "daemonDied") = {stopIndefiniteWait(h)}
        BY <1>0, <3>3, <4>a, EventHandlers, Zenon
      <4> QED BY <4>b
    <3> QED BY <1>1, <3>1, <3>2, <3>3
  <2>2. /\ g \in Hw /\ Keeps(h, g, {"results"})
        /\ g.results = Append(Append(h.results, Yes("prepareSnapshot")), Yes("takePicture"))
    BY <2>1, IndefiniteWait
  <2>3. Keeps(h, g, {"results", "data", "cmds", "evts", "evtResult"})
    BY <2>2 DEF Keeps
  <2>4. Died(h, "daemonDied", g)
    BY <1>1, <2>2 DEF Died
  <2> QED BY <2>2, <2>3, <2>4, SoundKept DEF EventStep
<1>2. CASE h.state \notin {"PREPARE", "PIC", "PREVIEW_PIC"}
  <2>1. stateMachine(h, "daemonDied") = plain(h, "daemonDied")
    BY <1>0, <1>2, EventPlain DEF States
  <2>2. plain(h, "daemonDied") = {h}
    BY <1>0, PlainIs
  <2>3. g = h
    BY <2>1, <2>2
  <2>4. Keeps(h, h, {"results"})
    BY DEF Keeps
  <2>5. Died(h, "daemonDied", g)
    BY <1>2, <2>3, <2>4 DEF Died
  <2> QED BY <2>3, <2>5 DEF EventStep
<1> QED BY <1>1, <1>2

LEMMA SnapshotEnds ==
  ASSUME NEW h \in Hw, Sound(h), h.state \in {"PIC", "PREVIEW_PIC"},
         NEW k \in cancelPicture(h),
         NEW s \in {"STOPPED", "PREVIEWING"}, s = "STOPPED" => h.state = "PIC",
         NEW c, c = in(k, s),
         NEW r, r = c \/ r = signalAPIResult(c, "snapshotDone", TRUE),
         NEW g, g = signalEvtResult(r)
  PROVE  EventStep(h, "snapshotDone", g)
<1>0. s \in States /\ "snapshotDone" \in Evts /\ ~h.recording /\ h.live # "take"
  BY DEF States, Evts, Sound, Recording
<1>1. k \in Hw /\ Cancels(h, k)
  BY CancelPicture
<1>2. /\ ~h.job /\ ~k.pproc /\ Keeps(h, k, {"capture", "pproc", "cmds"})
      /\ k.cmds = <<"STOP">> \o h.cmds
      /\ k.capture = IF h.capture = "still" THEN "none" ELSE h.capture
  BY <1>1 DEF Cancels
<1>3. c \in Hw /\ Keeps(k, c, {"state"}) /\ c.state = s
  BY <1>0, <1>1, In
<1>4. r \in Hw /\ Keeps(c, r, {"results"}) /\ (r.results = c.results \/ r.results = Append(c.results, Yes("snapshotDone")))
  <2>1. CASE r = c
    BY <1>3, <2>1 DEF Keeps
  <2>2. CASE r = signalAPIResult(c, "snapshotDone", TRUE)
    BY <1>0, <1>3, <2>2, Signalled DEF Yes
  <2> QED BY <2>1, <2>2
<1>5. g \in Hw /\ Keeps(r, g, {"evtResult"}) /\ g.evtResult
  BY <1>4, SignalledEvt
<1>6. Keeps(k, g, {"state", "results", "evtResult"}) /\ Keeps(h, c, {"capture", "pproc", "cmds", "state"})
  BY <1>2, <1>3, <1>4, <1>5 DEF Keeps
<1>7. Keeps(h, g, {"state", "capture", "pproc", "cmds", "results", "evtResult"})
  BY <1>2, <1>6 DEF Keeps
<1>8. g.capture = k.capture /\ g.pproc = k.pproc /\ g.cmds = k.cmds /\ c.results = h.results
  BY <1>6 DEF Keeps, Fields
<1>9. g.state = c.state /\ g.results = r.results
  BY <1>4, <1>5 DEF Keeps, Fields
<1>10. /\ g.preview = h.preview /\ g.live = h.live /\ g.longshot = h.longshot
       /\ g.recording = h.recording /\ g.retro = h.retro
  BY <1>7 DEF Keeps, Fields
<1>11. /\ Keeps(h, g, {"state", "capture", "live", "pproc", "cmds", "results", "evtResult"})
       /\ Keeps(h, g, Fields \ {"live"})
  BY <1>7, <1>10 DEF Keeps, Fields
<1>12. g.results = h.results \/ g.results = Append(h.results, Yes("snapshotDone"))
  BY <1>4, <1>8, <1>9
<1>13. Announces(h, "snapshotDone", g)
  BY <1>2, <1>3, <1>5, <1>8, <1>9, <1>11, <1>12 DEF Announces
<1>14. Sound(g)
  BY <1>0, <1>2, <1>3, <1>8, <1>9, <1>10 DEF Sound
<1> QED BY <1>5, <1>13, <1>14 DEF EventStep

LEMMA SnapshotEvent ==
  ASSUME NEW h \in Hw, Sound(h), NEW g \in stateMachine(h, "snapshotDone")
  PROVE  EventStep(h, "snapshotDone", g)
<1> DEFINE e == "snapshotDone"
<1>0. h.state \in States /\ e \in Evts /\ "RECORDING" \in States
  BY DEF Hw, Evts, States
<1>1. CASE h.state = "PIC"
  <2>1. g \in procEvtPicTakingState(h, e)
    BY <1>0, <1>1, StateMachineIs
  <2>2. PICK k \in cancelPicture(h) : g = signalEvtResult(in(k, IF config.restart THEN "PREVIEWING" ELSE "STOPPED"))
    BY <2>1 DEF procEvtPicTakingState
  <2>3. PICK s \in {"STOPPED", "PREVIEWING"} : s = IF config.restart THEN "PREVIEWING" ELSE "STOPPED"
    OBVIOUS
  <2>4. g = signalEvtResult(in(k, s))
    BY <2>2, <2>3
  <2> QED BY <1>1, <2>4, SnapshotEnds
<1>2. CASE h.state = "PREVIEW_PIC"
  <2>0. config.zsl \/ h.longshot
    BY <1>2 DEF Sound
  <2>1. g \in procEvtPreviewPicTakingState(h, e)
    BY <1>0, <1>2, StateMachineIs
  <2>2. PICK k \in cancelCapture(h) :
            LET c == in(k, "PREVIEWING")
            IN g = signalEvtResult(IF h.retro THEN signalAPIResult(c, e, TRUE) ELSE c)
    BY <2>1 DEF procEvtPreviewPicTakingState
  <2>3. k \in cancelPicture(h)
    BY <2>0, <2>2 DEF cancelCapture
  <2>4. PICK c : c = in(k, "PREVIEWING")
    OBVIOUS
  <2>5. PICK r : r = IF h.retro THEN signalAPIResult(c, "snapshotDone", TRUE) ELSE c
    OBVIOUS
  <2>6. g = signalEvtResult(r) /\ (r = c \/ r = signalAPIResult(c, "snapshotDone", TRUE))
    BY <2>2, <2>4, <2>5
  <2> QED BY <1>2, <2>3, <2>4, <2>6, SnapshotEnds
<1>3. CASE h.state = "VIDEO_PIC"
  <2>1. g \in procEvtVideoPicTakingState(h, e)
    BY <1>0, <1>3, StateMachineIs
  <2>2. PICK k \in cancelLiveSnapshot(h) : g = signalEvtResult(in(k, "RECORDING"))
    BY <2>1 DEF procEvtVideoPicTakingState
  <2>3. k \in Hw /\ Keeps(h, k, {"live"}) /\ k.live = "cancel"
    BY LiveSnapshot
  <2>4. PICK c : c = in(k, "RECORDING")
    OBVIOUS
  <2>5. c \in Hw /\ Keeps(k, c, {"state"}) /\ c.state = "RECORDING"
    BY <1>0, <2>3, <2>4, In
  <2>6. g \in Hw /\ Keeps(c, g, {"evtResult"}) /\ g.evtResult
    BY <2>2, <2>4, <2>5, SignalledEvt
  <2>7. Keeps(h, g, {"live", "state", "evtResult"}) /\ Keeps(k, g, {"state", "evtResult"})
    BY <2>3, <2>5, <2>6 DEF Keeps
  <2>8. g.live = "cancel" /\ g.state = "RECORDING"
    BY <2>3, <2>5, <2>6, <2>7 DEF Keeps, Fields
  <2>9. /\ g.preview = h.preview /\ g.capture = h.capture /\ g.longshot = h.longshot
        /\ g.recording = h.recording /\ g.retro = h.retro /\ g.results = h.results
        /\ g.pproc = h.pproc /\ g.cmds = h.cmds
    BY <2>7 DEF Keeps, Fields
  <2>10. Keeps(h, g, {"state", "capture", "live", "pproc", "cmds", "results", "evtResult"})
    BY <2>7 DEF Keeps
  <2>11. Announces(h, e, g)
    BY <1>3, <2>6, <2>8, <2>9, <2>10 DEF Announces
  <2>12. Sound(g)
    BY <1>3, <2>8, <2>9 DEF Sound, Recording
  <2> QED BY <2>6, <2>11, <2>12 DEF EventStep
<1>4. CASE h.state \notin Capturing
  <2>1. stateMachine(h, e) = plain(h, e)
    BY <1>0, <1>4, EventPlain DEF Capturing, States
  <2>2. plain(h, e) = {signalEvtResult(h)}
    BY <1>0, PlainIs
  <2>3. g = signalEvtResult(h)
    BY <2>1, <2>2
  <2>4. g \in Hw /\ Keeps(h, g, {"evtResult"}) /\ g.evtResult
    BY <2>3, SignalledEvt
  <2>5. /\ Keeps(h, g, {"state", "capture", "live", "pproc", "cmds", "results", "evtResult"})
        /\ Keeps(h, g, {"results", "data", "cmds", "evts", "evtResult"})
        /\ g.results = h.results /\ g.capture = h.capture /\ g.pproc = h.pproc /\ g.cmds = h.cmds
        /\ g.state = h.state
    BY <2>4 DEF Keeps, Fields
  <2>6. Announces(h, e, g)
    BY <1>4, <2>4, <2>5 DEF Announces, Capturing
  <2> QED BY <2>4, <2>5, <2>6, SoundKept DEF EventStep
<1> QED BY <1>1, <1>2, <1>3, <1>4 DEF Capturing

LEMMA StateMachineEvent ==
  ASSUME NEW h \in Hw, Sound(h), NEW e \in Evts, NEW g \in stateMachine(h, e)
  PROVE  EventStep(h, e, g)
BY JpegEvent, PrepEvent, ReadyEvent, DiedEvent, SnapshotEvent DEF Evts

-----------------------------------------------------------------------------
(* The queues and the list of results.                                      *)

Has(s, x) == \E i \in 1 .. Len(s) : s[i] = x
Once(s, x) == \A i, j \in 1 .. Len(s) : s[i] = x /\ s[j] = x => i = j

\* A result answers the call.
Answered(s, c) == \E i \in 1 .. Len(s) : s[i].api = c
AnsweredOnce(s, c) == \A i, j \in 1 .. Len(s) : s[i].api = c /\ s[j].api = c => i = j

LEMMA Appended ==
  ASSUME NEW S, NEW s \in Seq(S), NEW y \in S, NEW x
  PROVE  /\ Has(Append(s, y), x) <=> Has(s, x) \/ x = y
         /\ Once(Append(s, y), x) <=> Once(s, x) /\ (x = y => ~Has(s, x))
<1> DEFINE t == Append(s, y)
<1>1. /\ Len(t) = Len(s) + 1 /\ \A i \in 1 .. Len(s) : t[i] = s[i]
      /\ t[Len(s) + 1] = y /\ Len(s) \in Nat
  BY AppendProperties, LenProperties
<1> HIDE DEF t
<1>2. Has(t, x) <=> Has(s, x) \/ x = y
  BY <1>1 DEF Has
<1>3. Once(t, x) <=> Once(s, x) /\ (x = y => ~Has(s, x))
  BY <1>1 DEF Has, Once
<1> QED BY <1>2, <1>3 DEF t

LEMMA Taken ==
  ASSUME NEW S, NEW s \in Seq(S), s # <<>>, NEW x
  PROVE  /\ Tail(s) \in Seq(S) /\ Head(s) \in S /\ Has(s, Head(s))
         /\ Has(s, x) <=> Has(Tail(s), x) \/ x = Head(s)
         /\ Once(s, x) => Once(Tail(s), x) /\ (x = Head(s) => ~Has(Tail(s), x))
<1> DEFINE t == Tail(s)
<1>1. /\ t \in Seq(S) /\ Len(t) = Len(s) - 1 /\ \A i \in 1 .. Len(t) : t[i] = s[i + 1]
      /\ Head(s) \in S
  BY HeadTailProperties
<1>2. Len(s) \in Nat \ {0} /\ Head(s) = s[1]
  BY EmptySeq, LenProperties
<1> HIDE DEF t
<1>3. \A k \in 1 .. Len(s) : k = 1 \/ (k - 1 \in 1 .. Len(t) /\ s[k] = t[k - 1])
  BY <1>1, <1>2
<1>4. \A k \in 1 .. Len(t) : k + 1 \in 1 .. Len(s) /\ k + 1 # 1 /\ t[k] = s[k + 1]
  BY <1>1, <1>2
<1>6. Has(s, Head(s))
  BY <1>2 DEF Has
<1>5. Has(s, x) <=> Has(t, x) \/ x = Head(s)
  <2>1. ASSUME NEW k \in 1 .. Len(s), s[k] = x PROVE Has(t, x) \/ x = Head(s)
    BY <1>2, <1>3, <2>1 DEF Has
  <2>2. ASSUME NEW k \in 1 .. Len(t), t[k] = x PROVE Has(s, x)
    BY <1>4, <2>2 DEF Has
  <2> QED BY <1>6, <2>1, <2>2, Zenon DEF Has
<1>7. ASSUME Once(s, x) PROVE Once(t, x) /\ (x = Head(s) => ~Has(t, x))
  <2>1. ASSUME NEW i \in 1 .. Len(t), NEW j \in 1 .. Len(t), t[i] = x, t[j] = x
        PROVE  i = j
    <3>1. i + 1 = j + 1
      BY <1>4, <1>7, <2>1 DEF Once
    <3> QED BY <3>1
  <2>2. ASSUME x = Head(s), NEW i \in 1 .. Len(t), t[i] = x
        PROVE  FALSE
    <3>1. i + 1 = 1 /\ 1 \in 1 .. Len(s)
      BY <1>2, <1>4, <1>7, <2>2 DEF Once
    <3> QED BY <1>4, <3>1
  <2> QED BY <2>1, <2>2 DEF Once, Has
<1> QED BY <1>1, <1>5, <1>6, <1>7 DEF t

LEMMA AnswerAppended ==
  ASSUME NEW s \in Seq(Result), NEW r \in Result, NEW x
  PROVE  /\ Append(s, r) # s
         /\ Answered(Append(s, r), x) <=> Answered(s, x) \/ x = r.api
         /\ AnsweredOnce(Append(s, r), x) <=> AnsweredOnce(s, x) /\ (x = r.api => ~Answered(s, x))
         /\ \A i \in 1 .. Len(Append(s, r)) : (\E j \in 1 .. Len(s) : Append(s, r)[i] = s[j]) \/ Append(s, r)[i] = r
<1> DEFINE t == Append(s, r)
<1>1. /\ Len(t) = Len(s) + 1 /\ \A i \in 1 .. Len(s) : t[i] = s[i]
      /\ t[Len(s) + 1] = r /\ Len(s) \in Nat
  BY AppendProperties, LenProperties
<1> HIDE DEF t
<1>2. Answered(t, x) <=> Answered(s, x) \/ x = r.api
  BY <1>1 DEF Answered
<1>3. AnsweredOnce(t, x) <=> AnsweredOnce(s, x) /\ (x = r.api => ~Answered(s, x))
  BY <1>1 DEF Answered, AnsweredOnce
<1>4. t # s
  BY <1>1
<1>5. \A i \in 1 .. Len(t) : i \in 1 .. Len(s) \/ i = Len(s) + 1
  BY <1>1
<1> QED BY <1>1, <1>2, <1>3, <1>4, <1>5 DEF t

\* r is s without its i-th element.
Without(s, i, r) ==
  /\ Len(r) = Len(s) - 1
  /\ \A k \in 1 .. Len(r) : r[k] = s[IF k < i THEN k ELSE k + 1]

LEMMA Removed ==
  ASSUME NEW S, NEW s \in Seq(S), NEW i \in 1 .. Len(s)
  PROVE  RemoveAt(s, i) \in Seq(S) /\ Without(s, i, RemoveAt(s, i))
<1>0. Len(s) \in Nat /\ i \in Int /\ i - 1 \in Int /\ i + 1 \in Int /\ Len(s) \in Int
  BY LenProperties
<1>1. \A k \in 1 .. Len(s) : s[k] \in S
  BY ElementOfSeq
<1>2. PICK a \in Seq(S) : /\ a = SubSeq(s, 1, i - 1) /\ Len(a) = i - 1
                          /\ \A k \in 1 .. i - 1 : a[k] = s[k]
  <2>1. \A k \in 1 .. i - 1 : s[k] \in S
    BY <1>0, <1>1
  <2>2. /\ SubSeq(s, 1, i - 1) \in Seq(S)
        /\ Len(SubSeq(s, 1, i - 1)) = IF 1 <= i - 1 THEN i - 1 - 1 + 1 ELSE 0
        /\ \A k \in 1 .. i - 1 - 1 + 1 : SubSeq(s, 1, i - 1)[k] = s[1 + k - 1]
    BY <1>0, <2>1, SubSeqProperties
  <2>3. i - 1 - 1 + 1 = i - 1 /\ (~(1 <= i - 1) => i - 1 = 0) /\ \A k \in 1 .. i - 1 : 1 + k - 1 = k
    BY <1>0
  <2>4. Len(SubSeq(s, 1, i - 1)) = i - 1
    BY <2>2, <2>3
  <2> QED BY <2>2, <2>3, <2>4
<1>3. PICK b \in Seq(S) : /\ b = SubSeq(s, i + 1, Len(s)) /\ Len(b) = Len(s) - i
                          /\ \A k \in 1 .. Len(s) - i : b[k] = s[k + i]
  <2>1. \A k \in i + 1 .. Len(s) : s[k] \in S
    BY <1>0, <1>1
  <2>2. /\ SubSeq(s, i + 1, Len(s)) \in Seq(S)
        /\ Len(SubSeq(s, i + 1, Len(s))) = IF i + 1 <= Len(s) THEN Len(s) - (i + 1) + 1 ELSE 0
        /\ \A k \in 1 .. Len(s) - (i + 1) + 1 : SubSeq(s, i + 1, Len(s))[k] = s[(i + 1) + k - 1]
    BY <1>0, <2>1, SubSeqProperties
  <2>3. /\ Len(s) - (i + 1) + 1 = Len(s) - i /\ (~(i + 1 <= Len(s)) => Len(s) - i = 0)
        /\ \A k \in 1 .. Len(s) - i : (i + 1) + k - 1 = k + i
    BY <1>0
  <2>4. Len(SubSeq(s, i + 1, Len(s))) = Len(s) - i
    BY <2>2, <2>3
  <2> QED BY <2>2, <2>3, <2>4
<1>4. PICK w \in Seq(S) :
        /\ w = a \o b /\ Len(w) = Len(a) + Len(b)
        /\ \A k \in 1 .. Len(a) + Len(b) : w[k] = IF k <= Len(a) THEN a[k] ELSE b[k - Len(a)]
  <2>1. /\ a \o b \in Seq(S) /\ Len(a \o b) = Len(a) + Len(b)
        /\ \A k \in 1 .. Len(a) + Len(b) : (a \o b)[k] = IF k <= Len(a) THEN a[k] ELSE b[k - Len(a)]
    BY ConcatProperties
  <2> QED BY <2>1
<1>5. RemoveAt(s, i) = w
  BY <1>2, <1>3, <1>4 DEF RemoveAt
<1>6. Len(w) = Len(s) - 1 /\ Len(a) + Len(b) = Len(s) - 1 /\ Len(a) = i - 1
  <2>1. Len(a) = i - 1 /\ Len(b) = Len(s) - i /\ Len(w) = Len(a) + Len(b)
    BY <1>2, <1>3, <1>4
  <2> QED BY <1>0, <2>1
<1>7. ASSUME NEW k \in 1 .. Len(s) - 1
      PROVE  w[k] = s[IF k < i THEN k ELSE k + 1]
  <2>0. w[k] = IF k <= i - 1 THEN a[k] ELSE b[k - (i - 1)]
    BY <1>4, <1>6
  <2>1. CASE k < i
    <3>1. k <= i - 1 /\ k \in 1 .. i - 1
      BY <1>0, <2>1
    <3> QED BY <1>2, <2>0, <2>1, <3>1
  <2>2. CASE ~(k < i)
    <3>1. ~(k <= i - 1) /\ k - (i - 1) \in 1 .. Len(s) - i /\ (k - (i - 1)) + i = k + 1
      BY <1>0, <2>2
    <3> QED BY <1>3, <2>0, <2>2, <3>1
  <2> QED BY <2>1, <2>2
<1> QED BY <1>5, <1>6, <1>7 DEF Without

LEMMA AnswerTaken ==
  ASSUME NEW s \in Seq(Result), NEW i \in 1 .. Len(s), NEW r, r = RemoveAt(s, i), NEW x
  PROVE  /\ r \in Seq(Result)
         /\ Answered(r, x) => Answered(s, x)
         /\ AnsweredOnce(s, x) => AnsweredOnce(r, x) /\ (x = s[i].api => ~Answered(r, x))
         /\ \A k \in 1 .. Len(r) : \E j \in 1 .. Len(s) : r[k] = s[j]
<1>1. r \in Seq(Result) /\ Len(r) = Len(s) - 1 /\ Len(s) \in Nat
  BY Removed, LenProperties DEF Without
<1>2. PICK f \in [1 .. Len(r) -> 1 .. Len(s)] : \A k \in 1 .. Len(r) : f[k] = IF k < i THEN k ELSE k + 1
  <2> DEFINE f == [k \in 1 .. Len(r) |-> IF k < i THEN k ELSE k + 1]
  <2>1. f \in [1 .. Len(r) -> 1 .. Len(s)]
    BY <1>1
  <2> QED BY <2>1
<1>3. \A k \in 1 .. Len(r) : r[k] = s[f[k]]
  BY <1>2, Removed DEF Without
<1>4. \A k, l \in 1 .. Len(r) : f[k] # i /\ (f[k] = f[l] => k = l)
  BY <1>1, <1>2
<1>5. \A k \in 1 .. Len(r) : f[k] \in 1 .. Len(s)
  BY <1>2
<1>6. Answered(r, x) => Answered(s, x)
  BY <1>3, <1>5 DEF Answered
<1>7. AnsweredOnce(s, x) => AnsweredOnce(r, x) /\ (x = s[i].api => ~Answered(r, x))
  <2>1. ASSUME AnsweredOnce(s, x), NEW k \in 1 .. Len(r), NEW l \in 1 .. Len(r), r[k].api = x, r[l].api = x
        PROVE  k = l
    <3>1. f[k] \in 1 .. Len(s) /\ f[l] \in 1 .. Len(s) /\ s[f[k]].api = x /\ s[f[l]].api = x
      BY <1>3, <1>5, <2>1
    <3>2. f[k] = f[l]
      BY <2>1, <3>1 DEF AnsweredOnce
    <3> QED BY <1>4, <3>2
  <2>2. ASSUME AnsweredOnce(s, x), x = s[i].api, NEW k \in 1 .. Len(r), r[k].api = x
        PROVE  FALSE
    <3>1. f[k] \in 1 .. Len(s) /\ s[f[k]].api = x
      BY <1>3, <1>5, <2>2
    <3>2. f[k] = i
      BY <2>2, <3>1 DEF AnsweredOnce
    <3> QED BY <1>4, <3>2
  <2> QED BY <2>1, <2>2 DEF Answered, AnsweredOnce
<1> QED BY <1>1, <1>3, <1>5, <1>6, <1>7

LEMMA AnswersLeft ==
  ASSUME NEW s \in Seq(Result), NEW i \in 1 .. Len(s), NEW r, r = RemoveAt(s, i), NEW x
  PROVE  \A k \in 1 .. Len(r) : \E j \in 1 .. Len(s) : r[k] = s[j]
BY AnswerTaken

\* There is an oldest result of a call that has one.
LEMMA OldestIs ==
  ASSUME NEW n \in Nat, NEW mine \in SUBSET (1 .. n), mine # {}
  PROVE  (CHOOSE k \in mine : \A j \in mine : k <= j) \in mine
<1>1. \E k \in mine : \A j \in mine : k <= j
  <2>1. mine \in SUBSET Nat
    OBVIOUS
  <2>2. PICK x \in mine : \A y \in mine : <<y, x>> \notin OpToRel(<, Nat)
    BY <2>1, WFMin, NatLessThanWellFounded, Zenon
  <2>3. \A y \in mine : ~(y < x)
    BY <2>1, <2>2, Zenon DEF OpToRel
  <2>4. \A y \in mine : x <= y
    BY <2>1, <2>3
  <2> QED BY <2>4
<1> QED BY <1>1, Zenon

-----------------------------------------------------------------------------
(* The inductive invariant.                                                 *)

\* What an operation of the framework still has to call.
Longer ==
  {<<"preTakePicture", "takePicture", "prepareSnapshot">>,
   <<"takePicture", "prepareSnapshot">>,
   <<"prepareSnapshot", "preTakePicture", "takePicture">>,
   <<"preTakePicture", "takePicture">>,
   <<"setParams", "setParamsStop", "other", "setParamsRestart">>,
   <<"setParamsStop", "other", "setParamsRestart">>,
   <<"other", "setParamsRestart">>,
   <<"preStartRecording", "startRecording">>}

Lasts ==
  {"takePicture", "prepareSnapshot", "setParamsRestart", "startRecording"}
    \cup (Operations \ {"take_picture", "set_parameters", "start_recording"})

Plans == {<<>>} \cup Longer \cup {<<c>> : c \in Lasts}

OwnCalls == {"cancelPicture", "stopCaptureChannel"}

Asked(c) == app.waiting /\ app.todo # <<>> /\ Head(app.todo) = c

\* The camera will answer, or the daemon's death is still to be handled.
Alive == ~hw.dead \/ Has(hw.evts, "daemonDied")

Due(h, c) ==
  IF c = "prepareSnapshot" THEN h.prep ELSE h.capture = "still" /\ h.retro /\ ~h.ready

Ev(c) == IF c = "prepareSnapshot" THEN "prepDone" ELSE "ready"

Planned ==
  /\ app.todo \in Plans
  /\ app.waiting => app.todo # <<>>
  /\ app.woken => app.waiting

\* A call that is answered at once is queued, or answered, only while its
\* caller waits for it, and is there once.
QuickOne ==
  \A c \in Apis \ (OwnCalls \cup Slow) :
    /\ Has(apiQ, c) \/ Answered(hw.results, c) => Asked(c)
    /\ ~(Has(apiQ, c) /\ Answered(hw.results, c))
    /\ Once(apiQ, c) /\ AnsweredOnce(hw.results, c)

\* While the daemon lives so is one that waits for the camera, which is
\* queued, due, announced or answered.
OneStage(c) ==
  /\ Has(apiQ, c) \/ Answered(hw.results, c) \/ Has(hw.evts, Ev(c)) \/ Due(hw, c) => Asked(c)
  /\ ~(Has(apiQ, c) /\ (Answered(hw.results, c) \/ Has(hw.evts, Ev(c)) \/ Due(hw, c)))
  /\ ~(Answered(hw.results, c) /\ (Has(hw.evts, Ev(c)) \/ Due(hw, c)))
  /\ ~(Has(hw.evts, Ev(c)) /\ Due(hw, c))
  /\ Once(apiQ, c) /\ AnsweredOnce(hw.results, c) /\ Once(hw.evts, Ev(c))

SlowOne == Alive => \A c \in Slow : OneStage(c)

DiedOnce ==
  /\ Once(hw.evts, "daemonDied")
  /\ ~hw.dead => ~Has(hw.evts, "daemonDied")

\* With a queue of pictures a capture uses it unless in longshot.
RetroOK ==
  Retro /\ ~hw.retro =>
    /\ hw.capture = "still" => hw.longshot
    /\ Has(app.todo, "takePicture") => hw.longshot \/ hw.state \in Recording

\* The preview has stopped for new parameters and is to be restarted.
ToRestart ==
  \/ Answered(hw.results, "setParamsStop")
  \/ app.todo = <<"other", "setParamsRestart">>
  \/ app.todo = <<"setParamsRestart">> /\ ~Answered(hw.results, "setParamsRestart")

Refreshed == ToRestart => Halted(hw)

LongshotLeft ==
  app.todo = <<"longshotOff">> /\ ~Answered(hw.results, "longshotOff") => hw.longshot

Measuring == hw.state = "PREPARE" /\ ~hw.dead => hw.prep \/ Has(hw.evts, "prepDone")

Wanted ==
  /\ /\ ~hw.dead /\ app.wants
     /\ ~(app.todo = <<"enableMsg">> /\ ~Answered(hw.results, "enableMsg"))
     => hw.enabled \/ hw.delayed
  /\ app.todo = <<"disableMsg">> => ~app.wants

Announced == note.pc = "sync" => hw.evtResult \/ Has(hw.evts, "snapshotDone")

Known == \A i \in 1 .. Len(hw.results) : hw.results[i].api \in Apis \cup {"snapshotDone"}

Ind ==
  /\ TypeOK /\ Planned /\ QuickOne /\ SlowOne /\ DiedOnce
  /\ Sound(hw) /\ RetroOK /\ Refreshed /\ LongshotLeft /\ Measuring
  /\ Wanted /\ Announced /\ Known

LEMMA Typing ==
  /\ hw \in Hw <=> hw \in [state : States, preview : {"none", "prepared", "started"},
            recording : BOOLEAN, job : BOOLEAN, pproc : BOOLEAN,
            capture : {"none", "still", "live"},
            live : {"none", "take", "cancel"}, longshot : BOOLEAN,
            retro : BOOLEAN, prepRun : BOOLEAN, window : BOOLEAN,
            enabled : BOOLEAN, delay : BOOLEAN, delayed : BOOLEAN,
            prep : BOOLEAN, lit : BOOLEAN, ready : BOOLEAN,
            shots : 0 .. config.pictures, stopSent : BOOLEAN, dead : BOOLEAN,
            evts : Seq(Evts),
            results : Seq([api : Apis \cup Evts, ok : BOOLEAN]),
            evtResult : BOOLEAN, cmds : Seq({"START", "STOP", "JOB"}),
            data : Nat]
  /\ config \in Configs => ConfigTyped /\ config.ops \subseteq Operations
<1>1. config \in Configs => ConfigTyped /\ config.ops \subseteq Operations
  BY ConfigsAssumption DEF ConfigOK, ConfigTyped
<1>2. Hw = [state : States, preview : {"none", "prepared", "started"},
            recording : BOOLEAN, job : BOOLEAN, pproc : BOOLEAN,
            capture : {"none", "still", "live"},
            live : {"none", "take", "cancel"}, longshot : BOOLEAN,
            retro : BOOLEAN, prepRun : BOOLEAN, window : BOOLEAN,
            enabled : BOOLEAN, delay : BOOLEAN, delayed : BOOLEAN,
            prep : BOOLEAN, lit : BOOLEAN, ready : BOOLEAN,
            shots : 0 .. config.pictures, stopSent : BOOLEAN, dead : BOOLEAN,
            evts : Seq(Evts),
            results : Seq([api : Apis \cup Evts, ok : BOOLEAN]),
            evtResult : BOOLEAN, cmds : Seq({"START", "STOP", "JOB"}),
            data : Nat]
  BY Zenon DEF Hw, Result, Commands
<1> QED BY <1>1, <1>2, Zenon

LEMMA LongerTails ==
  ASSUME NEW t \in Longer
  PROVE  /\ t \in Seq(Apis) /\ t # <<>> /\ Tail(t) # <<>>
         /\ Head(t) \in {"preTakePicture", "takePicture", "prepareSnapshot", "setParams",
                         "setParamsStop", "other", "preStartRecording"}
         /\ Head(t) = "other" => t = <<"other", "setParamsRestart">>
         /\ Tail(t) \in Longer \cup {<<"prepareSnapshot">>, <<"takePicture">>, <<"setParamsRestart">>,
                                     <<"startRecording">>}
         /\ Tail(t) = <<"other", "setParamsRestart">> => Head(t) = "setParamsStop"
         /\ Tail(t) = <<"setParamsRestart">> => t = <<"other", "setParamsRestart">>
<1>1. CASE t = <<"preTakePicture", "takePicture", "prepareSnapshot">>
  BY <1>1 DEF Longer, Apis
<1>2. CASE t = <<"takePicture", "prepareSnapshot">>
  BY <1>2 DEF Longer, Apis
<1>3. CASE t = <<"prepareSnapshot", "preTakePicture", "takePicture">>
  BY <1>3 DEF Longer, Apis
<1>4. CASE t = <<"preTakePicture", "takePicture">>
  BY <1>4 DEF Longer, Apis
<1>5. CASE t = <<"setParams", "setParamsStop", "other", "setParamsRestart">>
  BY <1>5 DEF Longer, Apis
<1>6. CASE t = <<"setParamsStop", "other", "setParamsRestart">>
  BY <1>6 DEF Longer, Apis
<1>7. CASE t = <<"other", "setParamsRestart">>
  BY <1>7 DEF Longer, Apis
<1>8. CASE t = <<"preStartRecording", "startRecording">>
  BY <1>8 DEF Longer, Apis
<1> QED BY <1>1, <1>2, <1>3, <1>4, <1>5, <1>6, <1>7, <1>8 DEF Longer

LEMMA OnlyTails ==
  ASSUME NEW c
  PROVE  <<c>> # <<>> /\ Head(<<c>>) = c /\ Tail(<<c>>) = <<>> /\ (\A x : <<x>> = <<c>> => x = c)
         /\ (\A x : Has(<<c>>, x) <=> x = c)
BY DEF Has

LEMMA PlanFacts ==
  ASSUME NEW t \in Plans, t # <<>>
  PROVE  /\ t \in Seq(Apis) /\ Head(t) \in Apis \ {"regFace", "stopCaptureChannel"} /\ Tail(t) \in Plans
         /\ \A c \in Apis \ {"preTakePicture", "takePicture", "prepareSnapshot", "setParams",
                             "setParamsStop", "other", "preStartRecording"} :
              /\ Head(t) = c => t = <<c>>
              /\ Tail(t) = <<c>> => c \in {"setParamsRestart", "startRecording"}
         /\ Head(t) = "other" => t = <<"other">> \/ t = <<"other", "setParamsRestart">>
         /\ Tail(t) = <<"other", "setParamsRestart">> => Head(t) = "setParamsStop"
         /\ Tail(t) = <<"setParamsRestart">> => t = <<"other", "setParamsRestart">>
<1>1. CASE t \in Longer
  <2>1. Tail(t) \in Plans
    BY <1>1, LongerTails DEF Plans, Lasts
  <2>2. \A c \in Apis : Tail(t) = <<c>> => c \in {"prepareSnapshot", "takePicture", "setParamsRestart", "startRecording"}
    <3>1. ASSUME NEW c, Tail(t) = <<c>>, Tail(t) \in Longer PROVE FALSE
      <4>1. Tail(Tail(t)) # <<>>
        BY <3>1, LongerTails
      <4> QED BY <3>1, <4>1, OnlyTails
    <3> QED BY <1>1, <3>1, LongerTails, OnlyTails
  <2>3. Head(t) \in Apis \ {"regFace", "stopCaptureChannel"}
    BY <1>1, LongerTails DEF Apis
  <2> QED BY <1>1, <2>1, <2>2, <2>3, LongerTails
<1>2. ASSUME NEW c \in Lasts, t = <<c>>
      PROVE  /\ t \in Seq(Apis) /\ Head(t) = c /\ Tail(t) = <<>> /\ c \in Apis \ {"regFace", "stopCaptureChannel"}
  BY <1>2, OnlyTails DEF Lasts, Operations, Apis
<1>3. CASE \E c \in Lasts : t = <<c>>
  <2>1. PICK c \in Lasts : t = <<c>>
    BY <1>3
  <2>2. <<>> \in Plans /\ <<>> # <<"other", "setParamsRestart">> /\ <<>> # <<"setParamsRestart">>
        /\ \A x : <<>> # <<x>>
    BY DEF Plans
  <2> QED BY <1>2, <2>1, <2>2
<1> QED BY <1>1, <1>3 DEF Plans

LEMMA PicturePlans ==
  /\ <<"preTakePicture", "takePicture">> \o <<"prepareSnapshot">> =
       <<"preTakePicture", "takePicture", "prepareSnapshot">>
  /\ <<"prepareSnapshot">> \o <<"preTakePicture", "takePicture">> =
       <<"prepareSnapshot", "preTakePicture", "takePicture">>
  /\ <<"preTakePicture", "takePicture">> \o <<>> = <<"preTakePicture", "takePicture">>
  /\ <<>> \o <<"preTakePicture", "takePicture">> = <<"preTakePicture", "takePicture">>
<1> DEFINE take == <<"preTakePicture", "takePicture">>
           first == <<"prepareSnapshot", "preTakePicture", "takePicture">>
           S == {"preTakePicture", "takePicture", "prepareSnapshot"}
<1>1. take \in Seq(S) /\ <<"prepareSnapshot">> \in Seq(S) /\ "prepareSnapshot" \in S
  OBVIOUS
<1>2. take \o <<"prepareSnapshot">> = <<"preTakePicture", "takePicture", "prepareSnapshot">>
  <2>1. PICK t : t = Append(take, "prepareSnapshot")
    OBVIOUS
  <2>2. /\ Len(t) = 3 /\ t \in Seq(S) /\ t[1] = "preTakePicture" /\ t[2] = "takePicture"
        /\ t[3] = "prepareSnapshot"
    BY <1>1, <2>1, AppendProperties
  <2>3. t = <<"preTakePicture", "takePicture", "prepareSnapshot">>
    BY <2>2
  <2> QED BY <1>1, <2>1, <2>3, AppendIsConcat
<1>3. <<"prepareSnapshot">> \o take = first
  <2>1. PICK t : t = <<"prepareSnapshot">> \o take
    OBVIOUS
  <2>2. /\ t \in Seq(S) /\ Len(t) = Len(<<"prepareSnapshot">>) + Len(take)
        /\ \A i \in 1 .. Len(<<"prepareSnapshot">>) + Len(take) :
             t[i] = IF i <= Len(<<"prepareSnapshot">>) THEN <<"prepareSnapshot">>[i]
                    ELSE take[i - Len(<<"prepareSnapshot">>)]
    BY <1>1, <2>1, ConcatProperties
  <2>3. Len(t) = 3 /\ t[1] = "prepareSnapshot" /\ t[2] = "preTakePicture" /\ t[3] = "takePicture"
    BY <2>2
  <2>4. first \in Seq(S) /\ Len(first) = 3
    OBVIOUS
  <2>5. \A i \in 1 .. Len(t) : t[i] = first[i]
    BY <2>3
  <2>6. t = first
    BY <2>2, <2>3, <2>4, <2>5, SeqEqual
  <2> QED BY <2>1, <2>6
<1>4. take \o <<>> = take /\ <<>> \o take = take
  BY <1>1, ConcatEmptySeq
<1> QED BY <1>2, <1>3, <1>4

LEMMA CallsPlanned ==
  ASSUME NEW op \in Operations
  PROVE  calls(op) \in Plans
<1>1. CASE op = "take_picture"
  <2> DEFINE take == <<"preTakePicture", "takePicture">>
  <2>1. take \in Longer /\ <<"preTakePicture", "takePicture", "prepareSnapshot">> \in Longer
        /\ <<"prepareSnapshot", "preTakePicture", "takePicture">> \in Longer
    BY DEF Longer
  <2>2. prepare_snapshot = <<>> \/ prepare_snapshot = <<"prepareSnapshot">>
    BY DEF prepare_snapshot
  <2>3. \/ take_picture = take \o prepare_snapshot
        \/ take_picture = <<>> \o take
        \/ take_picture = prepare_snapshot \o take
    BY Zenon DEF take_picture
  <2>4. take_picture \in Longer
    BY <2>1, <2>2, <2>3, PicturePlans
  <2> QED BY <1>1, <2>4 DEF calls, Plans
<1>2. CASE op = "set_parameters"
  BY <1>2 DEF calls, set_parameters, Plans, Longer
<1>3. CASE op = "start_recording"
  BY <1>3 DEF calls, start_recording, Plans, Longer
<1>4. CASE op \notin {"take_picture", "set_parameters", "start_recording"}
  BY <1>4 DEF calls, Plans, Lasts
<1> QED BY <1>1, <1>2, <1>3, <1>4

-----------------------------------------------------------------------------
(* Steps that are nobody's answer.                                          *)

App == [todo : Seq(Apis), waiting : BOOLEAN, woken : BOOLEAN, calls : 0 .. MaxOps, wants : BOOLEAN]
Note == [pc : {"idle", "sync", "deliver"}, active : BOOLEAN, expected : 0 .. config.pictures,
         longshot : BOOLEAN, rcvd : Nat]

LEMMA TypeIs ==
  TypeOK <=> /\ config \in Configs /\ hw \in Hw /\ apiQ \in Seq(Apis)
             /\ app \in App /\ note \in Note
BY Zenon DEF TypeOK, Hw, Result, Commands, App, Note

LEMMA TypeStep ==
  ASSUME config \in Configs, config' = config, hw' \in Hw, apiQ' \in Seq(Apis), app' \in App, note' \in Note
  PROVE  TypeOK'
<1>1. config' \in Configs /\ hw' \in Hw' /\ app' \in App' /\ note' \in Note'
  BY Zenon DEF Hw, App, Note
<1> QED BY <1>1, Zenon DEF TypeOK, Hw, Result, Commands, App, Note

\* The camera's step adds e to the queue of events.
Adds(e) == hw'.evts = Append(hw.evts, e)

Quiet ==
  /\ config' = config /\ app' = app /\ note' \in Note
  /\ hw' \in Hw /\ Sound(hw')
  /\ Keeps(hw, hw', {"job", "pproc", "capture", "shots", "stopSent", "ready", "lit",
                     "prep", "dead", "evts", "evtResult", "cmds", "data", "live"})
  /\ apiQ' = apiQ \/ \E c \in OwnCalls : apiQ' = Append(apiQ, c)
  /\ \/ hw'.evts = hw.evts /\ hw'.dead = hw.dead /\ hw'.prep = hw.prep
     \/ (Adds("jpeg") \/ Adds("snapshotDone")) /\ hw'.dead = hw.dead /\ hw'.prep = hw.prep
     \/ /\ Adds("ready") /\ ~hw.dead /\ ~hw'.dead /\ hw'.prep = hw.prep
        /\ Due(hw, "takePicture") /\ ~Due(hw', "takePicture")
     \/ Adds("prepDone") /\ hw.prep /\ ~hw'.prep /\ ~hw.dead /\ ~hw'.dead
     \/ Adds("daemonDied") /\ ~hw.dead /\ hw'.dead /\ hw'.prep = hw.prep
  /\ Due(hw', "takePicture") => Due(hw, "takePicture")
  /\ hw'.capture = "still" => hw.capture = "still"
  /\ Announced'

LEMMA QuietQueues ==
  ASSUME Ind, Quiet
  PROVE  /\ apiQ' \in Seq(Apis)
         /\ \A c \in Apis \ OwnCalls : Has(apiQ', c) <=> Has(apiQ, c)
         /\ \A c \in Apis \ OwnCalls : Once(apiQ', c) <=> Once(apiQ, c)
         /\ \A e \in Evts : Has(hw'.evts, e) <=> Has(hw.evts, e) \/ Adds(e)
         /\ \A e \in Evts : Once(hw'.evts, e) <=> Once(hw.evts, e) /\ (Adds(e) => ~Has(hw.evts, e))
         /\ Alive' => Alive
<1>1. apiQ \in Seq(Apis) /\ hw.evts \in Seq(Evts) /\ OwnCalls \subseteq Apis
  BY TypeIs DEF Ind, Hw, OwnCalls, Apis
<1>2. ASSUME NEW c \in OwnCalls, apiQ' = Append(apiQ, c)
      PROVE  /\ apiQ' \in Seq(Apis)
             /\ \A d \in Apis \ OwnCalls : (Has(apiQ', d) <=> Has(apiQ, d)) /\ (Once(apiQ', d) <=> Once(apiQ, d))
  BY <1>1, <1>2, Appended, AppendProperties
<1>3. ASSUME NEW e \in Evts, Adds(e)
      PROVE  \A d \in Evts : /\ Has(hw'.evts, d) <=> Has(hw.evts, d) \/ d = e
                             /\ Once(hw'.evts, d) <=> Once(hw.evts, d) /\ (d = e => ~Has(hw.evts, d))
                             /\ Adds(d) <=> d = e
  <2>1. \A d \in Evts : Adds(d) => d = e
    <3>1. ASSUME NEW d \in Evts, Adds(d) PROVE d = e
      <4>1. Append(hw.evts, d) = Append(hw.evts, e)
        BY <1>3, <3>1 DEF Adds
      <4>2. /\ Append(hw.evts, d)[Len(hw.evts) + 1] = d /\ Append(hw.evts, e)[Len(hw.evts) + 1] = e
        BY <1>1, AppendProperties
      <4> QED BY <4>1, <4>2
    <3> QED BY <3>1
  <2> QED BY <1>1, <1>3, <2>1, Appended DEF Adds
<1>4. hw'.evts = hw.evts => \A d \in Evts : ~Adds(d)
  <2>1. ASSUME hw'.evts = hw.evts, NEW d \in Evts, Adds(d) PROVE FALSE
    <3>1. Len(hw'.evts) = Len(hw.evts) + 1 /\ Len(hw.evts) \in Nat
      BY <1>1, <2>1, AppendProperties, LenProperties DEF Adds
    <3> QED BY <2>1, <3>1
  <2> QED BY <2>1
<1>5. hw'.evts = hw.evts \/ \E e \in Evts : Adds(e)
  BY DEF Quiet, Evts
<1>6. /\ \A e \in Evts : Has(hw'.evts, e) <=> Has(hw.evts, e) \/ Adds(e)
      /\ \A e \in Evts : Once(hw'.evts, e) <=> Once(hw.evts, e) /\ (Adds(e) => ~Has(hw.evts, e))
  BY <1>3, <1>4, <1>5
<1>7. Alive' => Alive
  <2>0. "daemonDied" \in Evts /\ "jpeg" \in Evts /\ "snapshotDone" \in Evts /\ "ready" \in Evts /\ "prepDone" \in Evts
    BY DEF Evts
  <2>1. CASE Adds("daemonDied")
    <3>1. ~hw.dead
      BY <1>3, <1>4, <2>0, <2>1 DEF Quiet
    <3> QED BY <3>1 DEF Alive
  <2>2. CASE ~Adds("daemonDied")
    <3>1. hw'.dead = hw.dead
      BY <2>2, TypeIs DEF Quiet, Ind, Hw
    <3>2. Has(hw'.evts, "daemonDied") <=> Has(hw.evts, "daemonDied")
      BY <1>6, <2>0, <2>2
    <3> QED BY <3>1, <3>2 DEF Alive
  <2> QED BY <2>1, <2>2
<1>8. /\ apiQ' \in Seq(Apis)
      /\ \A c \in Apis \ OwnCalls : (Has(apiQ', c) <=> Has(apiQ, c)) /\ (Once(apiQ', c) <=> Once(apiQ, c))
  <2>1. CASE apiQ' = apiQ
    BY <1>1, <2>1
  <2>2. CASE \E c \in OwnCalls : apiQ' = Append(apiQ, c)
    BY <1>2, <2>2
  <2> QED BY <2>1, <2>2 DEF Quiet
<1> QED BY <1>6, <1>7, <1>8
LEMMA SoundStep ==
  ASSUME config' = config, Sound(hw')
  PROVE  Sound(hw)'
BY Zenon DEF Sound, Retro

LEMMA QuietInd ==
  ASSUME Ind, Quiet
  PROVE  Ind'
<1>0. /\ config \in Configs /\ hw \in Hw /\ apiQ \in Seq(Apis) /\ app \in App /\ note \in Note
      /\ config' = config /\ app' = app
  BY TypeIs DEF Ind, Quiet
<1>1. /\ hw'.state = hw.state /\ hw'.preview = hw.preview /\ hw'.longshot = hw.longshot
      /\ hw'.retro = hw.retro /\ hw'.results = hw.results /\ hw'.enabled = hw.enabled
      /\ hw'.delayed = hw.delayed /\ hw'.recording = hw.recording
  BY DEF Quiet, Keeps, Fields
<1>2. \A c : Asked(c)' <=> Asked(c)
  BY <1>0 DEF Asked
<1>3. \A c \in Apis \ OwnCalls : (Has(apiQ', c) <=> Has(apiQ, c)) /\ (Once(apiQ', c) <=> Once(apiQ, c))
  BY QuietQueues
<1>4. \A e \in Evts : /\ Has(hw'.evts, e) <=> Has(hw.evts, e) \/ Adds(e)
                      /\ Once(hw'.evts, e) <=> Once(hw.evts, e) /\ (Adds(e) => ~Has(hw.evts, e))
  BY QuietQueues
<1>5. TypeOK'
  BY <1>0, QuietQueues, TypeStep DEF Quiet
<1>6. Planned'
  BY <1>0 DEF Planned, Ind
<1>7. QuickOne'
  <2>1. ASSUME NEW c \in Apis \ (OwnCalls \cup Slow)
        PROVE  /\ Has(apiQ', c) \/ Answered(hw'.results, c) => Asked(c)'
               /\ ~(Has(apiQ', c) /\ Answered(hw'.results, c))
               /\ Once(apiQ', c) /\ AnsweredOnce(hw'.results, c)
    <3>1. /\ Has(apiQ, c) \/ Answered(hw.results, c) => Asked(c)
          /\ ~(Has(apiQ, c) /\ Answered(hw.results, c))
          /\ Once(apiQ, c) /\ AnsweredOnce(hw.results, c)
      BY DEF Ind, QuickOne
    <3> QED BY <1>1, <1>2, <1>3, <3>1
  <2> QED BY <2>1 DEF QuickOne
<1>8. SlowOne'
  <2>1. ASSUME Alive', NEW c \in Slow
        PROVE  OneStage(c)'
    <3>1. OneStage(c)
      BY <2>1, QuietQueues DEF Ind, SlowOne
    <3>2. c \in Apis \ OwnCalls /\ Ev(c) \in Evts
      BY DEF Slow, OwnCalls, Ev, Evts, Apis
    <3>3. Due(hw', c) => Due(hw, c)
      <4>1. c = "prepareSnapshot" => (hw'.prep => hw.prep)
        BY DEF Quiet
      <4> QED BY <4>1 DEF Quiet, Due, Slow
    <3>4. Adds(Ev(c)) => Due(hw, c) /\ ~Due(hw', c)
      <4>1. ASSUME Adds(Ev(c)) PROVE Due(hw, c) /\ ~Due(hw', c)
        <5>1. \A e \in Evts : Adds(e) => e = Ev(c)
          <6>1. ASSUME NEW e \in Evts, Adds(e) PROVE e = Ev(c)
            <7>0. hw.evts \in Seq(Evts)
              BY <1>0 DEF Hw
            <7>1. Append(hw.evts, e) = Append(hw.evts, Ev(c))
              BY <4>1, <6>1 DEF Adds
            <7>2. /\ Append(hw.evts, e)[Len(hw.evts) + 1] = e
                  /\ Append(hw.evts, Ev(c))[Len(hw.evts) + 1] = Ev(c)
              BY <3>2, <7>0, AppendProperties
            <7> QED BY <7>1, <7>2
          <6> QED BY <6>1
        <5>2. hw'.evts # hw.evts
          <6>1. hw.evts \in Seq(Evts)
            BY <1>0 DEF Hw
          <6>2. Len(Append(hw.evts, Ev(c))) = Len(hw.evts) + 1 /\ Len(hw.evts) \in Nat
            BY <3>2, <6>1, AppendProperties, LenProperties
          <6> QED BY <4>1, <6>2 DEF Adds
        <5>3. \/ Adds("ready") /\ Due(hw, "takePicture") /\ ~Due(hw', "takePicture")
              \/ Adds("prepDone") /\ hw.prep /\ ~hw'.prep
              \/ Adds("jpeg") \/ Adds("snapshotDone") \/ Adds("daemonDied")
          BY <5>2 DEF Quiet
        <5>4. Ev(c) \in {"ready", "prepDone"} /\ (Ev(c) = "ready" <=> c = "takePicture")
          BY DEF Ev, Slow
        <5> QED BY <5>1, <5>3, <5>4 DEF Due, Evts, Slow
      <4> QED BY <4>1
    <3>5. (Has(apiQ', c) <=> Has(apiQ, c)) /\ (Once(apiQ', c) <=> Once(apiQ, c))
      BY <1>3, <3>2
    <3>6. /\ Has(hw'.evts, Ev(c)) <=> Has(hw.evts, Ev(c)) \/ Adds(Ev(c))
          /\ Once(hw'.evts, Ev(c)) <=> Once(hw.evts, Ev(c)) /\ (Adds(Ev(c)) => ~Has(hw.evts, Ev(c)))
      BY <1>4, <3>2
    <3>7. Asked(c)' <=> Asked(c)
      BY <1>2
    <3>8. Answered(hw'.results, c) = Answered(hw.results, c) /\ AnsweredOnce(hw'.results, c) = AnsweredOnce(hw.results, c)
      BY <1>1
    <3> QED BY <3>1, <3>3, <3>4, <3>5, <3>6, <3>7, <3>8, Zenon DEF OneStage
  <2> QED BY <2>1, Zenon DEF SlowOne
<1>9. DiedOnce'
  <2>1. "daemonDied" \in Evts
    BY DEF Evts
  <2>2. Once(hw.evts, "daemonDied") /\ (~hw.dead => ~Has(hw.evts, "daemonDied"))
    BY DEF Ind, DiedOnce
  <2>3. Adds("daemonDied") => ~hw.dead /\ hw'.dead
    <3>1. ASSUME Adds("daemonDied") PROVE ~hw.dead /\ hw'.dead
      <4>1. hw.evts \in Seq(Evts) /\ {"jpeg", "snapshotDone", "ready", "prepDone"} \subseteq Evts
        BY <1>0 DEF Hw, Evts
      <4>2. \A e \in Evts : Append(hw.evts, e)[Len(hw.evts) + 1] = e /\ Len(Append(hw.evts, e)) = Len(hw.evts) + 1 /\ Len(hw.evts) \in Nat
        BY <4>1, AppendProperties, LenProperties
      <4>3. hw'.evts # hw.evts /\ ~Adds("jpeg") /\ ~Adds("snapshotDone") /\ ~Adds("ready") /\ ~Adds("prepDone")
        BY <2>1, <3>1, <4>1, <4>2 DEF Adds
      <4> QED BY <4>3 DEF Quiet
    <3> QED BY <3>1
  <2>4. ~hw'.dead => ~hw.dead
    BY DEF Quiet
  <2> QED BY <1>4, <2>1, <2>2, <2>3, <2>4 DEF DiedOnce
<1>10. RetroOK'
  <2>1. Retro' <=> Retro
    BY <1>0 DEF Retro
  <2> QED BY <1>0, <1>1, <2>1 DEF RetroOK, Ind, Quiet
<1>11. Refreshed' /\ LongshotLeft'
  BY <1>0, <1>1 DEF Ind, Refreshed, ToRestart, Halted, LongshotLeft
<1>12. Measuring'
  <2>1. ~hw'.dead => ~hw.dead
    BY DEF Quiet
  <2>2. hw.prep => hw'.prep \/ Adds("prepDone")
    BY DEF Quiet
  <2>3. "prepDone" \in Evts
    BY DEF Evts
  <2> QED BY <1>1, <1>4, <2>1, <2>2, <2>3 DEF Ind, Measuring
<1>13. Wanted'
  <2>1. ~hw'.dead => ~hw.dead
    BY DEF Quiet
  <2> QED BY <1>0, <1>1, <2>1 DEF Ind, Wanted
<1>14. Known' /\ Announced' /\ Sound(hw')
  BY <1>1 DEF Ind, Known, Quiet
<1>15. Sound(hw)'
  BY <1>14, SoundStep DEF Quiet
<1> QED BY <1>5, <1>6, <1>7, <1>8, <1>9, <1>10, <1>11, <1>12, <1>13, <1>14, <1>15 DEF Ind
LEMMA StillAnnounced ==
  ASSUME Ind, note' = note, hw'.evtResult = hw.evtResult,
         hw'.evts = hw.evts \/ \E e \in Evts : hw'.evts = Append(hw.evts, e)
  PROVE  Announced'
<1>1. hw.evts \in Seq(Evts)
  BY TypeIs DEF Ind, Hw
<1>2. Has(hw.evts, "snapshotDone") => Has(hw'.evts, "snapshotDone")
  <2>1. ASSUME NEW e \in Evts, hw'.evts = Append(hw.evts, e)
        PROVE  Has(hw.evts, "snapshotDone") => Has(hw'.evts, "snapshotDone")
    BY <1>1, <2>1, Appended
  <2> QED BY <2>1
<1> QED BY <1>2 DEF Ind, Announced

\* What every step needs to know of the state it starts in.
LEMMA Before ==
  ASSUME Ind
  PROVE  /\ config \in Configs /\ hw \in Hw /\ apiQ \in Seq(Apis) /\ app \in App /\ note \in Note
         /\ ConfigTyped /\ config.ops \subseteq Operations /\ Sound(hw)
BY TypeIs, Typing DEF Ind

\* A step of another thread that announces nothing and ends no measurement.
LEMMA SilentQuiet ==
  ASSUME Ind, config' = config, app' = app, note' = note, hw' \in Hw, Sound(hw'),
         Keeps(hw, hw', {"job", "pproc", "capture", "shots", "stopSent", "ready", "lit",
                         "cmds", "data", "live"}),
         apiQ' = apiQ \/ \E c \in OwnCalls : apiQ' = Append(apiQ, c),
         hw'.capture = "still" => hw.capture = "still" /\ (~hw'.ready => ~hw.ready)
  PROVE  Quiet
<1>1. /\ hw'.evts = hw.evts /\ hw'.dead = hw.dead /\ hw'.prep = hw.prep /\ hw'.evtResult = hw.evtResult
      /\ hw'.retro = hw.retro
  BY DEF Keeps, Fields
<1>2. Announced'
  BY <1>1, StillAnnounced
<1>3. Keeps(hw, hw', {"job", "pproc", "capture", "shots", "stopSent", "ready", "lit",
                     "prep", "dead", "evts", "evtResult", "cmds", "data", "live"})
  BY DEF Keeps
<1>4. Due(hw', "takePicture") => Due(hw, "takePicture")
  BY <1>1 DEF Due
<1>5. note' \in Note
  BY Before
<1> QED BY <1>1, <1>2, <1>3, <1>4, <1>5 DEF Quiet

LEMMA SnapshotsQuiet ==
  ASSUME Ind, startSnapshots
  PROVE  Quiet
<1>0. hw \in Hw /\ Sound(hw) /\ config' = config /\ app' = app /\ note' = note /\ apiQ' = apiQ
  BY Before DEF startSnapshots
<1>1. \/ hw' = [hw EXCEPT !.job = FALSE, !.pproc = TRUE, !.cmds = <<"START">> \o @]
      \/ hw' = [hw EXCEPT !.job = FALSE]
  BY DEF startSnapshots
<1>2. hw' \in Hw /\ Keeps(hw, hw', {"job", "pproc", "cmds"})
  <2>1. CASE hw' = [hw EXCEPT !.job = FALSE]
    <3>1. hw' \in Hw
      BY <1>0, <2>1, SetBoolean
    <3> QED BY <1>0, <2>1, <3>1 DEF Keeps, Fields, Hw
  <2>2. CASE hw' = [hw EXCEPT !.job = FALSE, !.pproc = TRUE, !.cmds = <<"START">> \o @]
    <3>1. ASSUME NEW b \in BOOLEAN, NEW c \in BOOLEAN, NEW s \in Seq(Commands)
          PROVE  [hw EXCEPT !.job = b, !.pproc = c, !.cmds = s] \in Hw
      BY <1>0, ZenonT(40) DEF Hw
    <3>2. <<"START">> \o hw.cmds \in Seq(Commands)
      BY <1>0, Prepended DEF Hw, Told
    <3>3. hw' = [hw EXCEPT !.job = FALSE, !.pproc = TRUE, !.cmds = <<"START">> \o hw.cmds]
      BY <2>2, Zenon
    <3>4. hw' \in Hw
      BY <3>1, <3>2, <3>3
    <3>5. Keeps(hw, hw', {"job", "pproc", "cmds"})
      BY <1>0, <3>3 DEF Keeps, Fields, Hw
    <3> QED BY <3>4, <3>5
  <2> QED BY <1>1, <2>1, <2>2
<1>3. /\ hw'.state = hw.state /\ hw'.preview = hw.preview /\ hw'.live = hw.live
      /\ hw'.longshot = hw.longshot /\ hw'.recording = hw.recording
      /\ hw'.capture = hw.capture /\ hw'.retro = hw.retro /\ hw'.ready = hw.ready
  BY <1>2 DEF Keeps, Fields
<1>4. Sound(hw')
  BY <1>0, <1>3, Zenon DEF Sound
<1>5. Keeps(hw, hw', {"job", "pproc", "capture", "shots", "stopSent", "ready", "lit", "cmds", "data", "live"})
  BY <1>2 DEF Keeps
<1> QED BY <1>0, <1>2, <1>3, <1>4, <1>5, SilentQuiet

\* The live snapshot's thread tries to begin.
LEMMA TakeLiveTried ==
  ASSUME Ind, takeLiveSnapshot_internal,
         NEW b \in {hw, [hw EXCEPT !.job = TRUE]}, NEW p \in fallible(begun(hw, "live"), b),
         hw' = [p[1] EXCEPT !.live = "none"],
         apiQ' = IF p[2] THEN apiQ ELSE Append(apiQ, "cancelPicture")
  PROVE  Quiet
<1>0. hw \in Hw /\ Sound(hw) /\ config' = config /\ app' = app /\ note' = note /\ hw.live = "take" /\ ConfigTyped
  BY Before DEF takeLiveSnapshot_internal
<1>3. p[1] = begun(hw, "live") \/ p[1] = b
  <2>1. PICK g : g = begun(hw, "live")
    OBVIOUS
  <2>2. p = <<g, TRUE>> \/ p = <<b, FALSE>>
    BY <2>1, Fallible, Zenon
  <2>3. p[1] = g \/ p[1] = b
    <3>1. CASE p = <<g, TRUE>>
      BY <3>1
    <3>2. CASE p = <<b, FALSE>>
      BY <3>2
    <3> QED BY <2>2, <3>1, <3>2
  <2> QED BY <2>1, <2>3, Zenon
<1>4. b \in Hw /\ Keeps(hw, b, {"job"})
  <2>1. [hw EXCEPT !.job = TRUE] \in Hw /\ Keeps(hw, [hw EXCEPT !.job = TRUE], {"job"})
    <3>1. [hw EXCEPT !.job = TRUE] \in Hw
      BY <1>0, SetBoolean
    <3> QED BY <1>0, <3>1 DEF Keeps, Fields, Hw
  <2> QED BY <1>0, <2>1 DEF Keeps
<1>5. PICK a \in Hw : a = p[1] /\ Keeps(hw, a, Start) /\ (a.capture = hw.capture \/ a.capture = "live")
  <2>1. begun(hw, "live") \in Hw /\ Keeps(hw, begun(hw, "live"), Start) /\ begun(hw, "live").capture = "live"
    BY <1>0, Begun DEF ConfigTyped
  <2>2. Keeps(hw, b, Start) /\ b.capture = hw.capture
    BY <1>4 DEF Keeps, Start, Fields
  <2> QED BY <1>3, <1>4, <2>1, <2>2
<1>6. hw' \in Hw /\ Keeps(a, hw', {"live"}) /\ hw'.live = "none"
  <2>1. hw' = [a EXCEPT !.live = "none"]
    BY <1>5
  <2>2. hw' \in Hw
    BY <2>1, SetField
  <2> QED BY <2>1, <2>2 DEF Keeps, Fields, Hw
<1>7. Keeps(hw, hw', Start \cup {"live"}) /\ hw'.capture = a.capture
  BY <1>5, <1>6 DEF Keeps, Fields
<1>8. /\ hw'.state = hw.state /\ hw'.preview = hw.preview
      /\ hw'.longshot = hw.longshot /\ hw'.recording = hw.recording /\ hw'.retro = hw.retro
  BY <1>7 DEF Keeps, Fields, Start
<1>9. hw.state = "VIDEO_PIC" /\ hw.capture # "still" /\ hw.capture # "live"
  BY <1>0 DEF Sound
<1>10. Sound(hw')
  <2>1. /\ hw'.state = "VIDEO_PIC" /\ hw'.live = "none"
        /\ hw'.capture = "none" \/ hw'.capture = "live"
    BY <1>0, <1>5, <1>6, <1>7, <1>8, <1>9 DEF Hw
  <2>2. (hw.recording => hw.state \in Recording) /\ (hw.retro => Retro)
    BY <1>0 DEF Sound
  <2> QED BY <1>8, <2>1, <2>2 DEF Sound
<1>11. Keeps(hw, hw', {"job", "pproc", "capture", "shots", "stopSent", "ready", "lit", "cmds", "data", "live"})
  BY <1>7 DEF Keeps, Start
<1>12. apiQ' = apiQ \/ \E c \in OwnCalls : apiQ' = Append(apiQ, c)
  BY DEF OwnCalls
<1> QED BY <1>0, <1>5, <1>6, <1>7, <1>9, <1>10, <1>11, <1>12, SilentQuiet

\* ... and gives up.
LEMMA TakeLiveGaveUp ==
  ASSUME Ind, takeLiveSnapshot_internal,
         NEW h \in gaveUp(hw), hw' = [h EXCEPT !.live = "none"], apiQ' = apiQ
  PROVE  Quiet
<1>0. hw \in Hw /\ Sound(hw) /\ config' = config /\ app' = app /\ note' = note /\ hw.live = "take"
  BY Before DEF takeLiveSnapshot_internal
<1>1. h \in Hw /\ Keeps(hw, h, {"pproc", "cmds"})
  <2>1. PICK g : g = [hw EXCEPT !.cmds = <<"START">> \o @]
    OBVIOUS
  <2>2. <<"START">> \o hw.cmds \in Seq(Commands)
    BY <1>0, Prepended DEF Hw, Told
  <2>3. g \in Hw /\ Keeps(hw, g, {"cmds"})
    <3>1. g \in Hw
      BY <1>0, <2>1, <2>2, SetField
    <3> QED BY <1>0, <2>1, <3>1 DEF Keeps, Fields, Hw
  <2>4. h = hw \/ h = stopPostproc(hw) \/ h = stopPostproc(g)
    BY <2>1, Zenon DEF gaveUp
  <2>5. CASE h = hw
    BY <1>0, <2>5 DEF Keeps
  <2>6. CASE h = stopPostproc(hw)
    BY <1>0, <2>6, StopPostproc
  <2>7. CASE h = stopPostproc(g)
    <3>1. h \in Hw /\ Keeps(g, h, {"pproc", "cmds"})
      BY <2>3, <2>7, StopPostproc
    <3> QED BY <2>3, <3>1 DEF Keeps
  <2> QED BY <2>4, <2>5, <2>6, <2>7
<1>2. hw' \in Hw /\ Keeps(h, hw', {"live"}) /\ hw'.live = "none"
  <2>1. hw' \in Hw
    BY <1>1, SetField
  <2> QED BY <1>1, <2>1 DEF Keeps, Fields, Hw
<1>3. Keeps(hw, hw', {"pproc", "cmds", "live"})
  BY <1>1, <1>2 DEF Keeps
<1>4. /\ hw'.state = hw.state /\ hw'.preview = hw.preview /\ hw'.capture = hw.capture /\ hw'.ready = hw.ready
      /\ hw'.longshot = hw.longshot /\ hw'.recording = hw.recording /\ hw'.retro = hw.retro
  BY <1>3 DEF Keeps, Fields
<1>5. Sound(hw')
  BY <1>0, <1>2, <1>4 DEF Sound
<1>6. Keeps(hw, hw', {"job", "pproc", "capture", "shots", "stopSent", "ready", "lit", "cmds", "data", "live"})
  BY <1>3 DEF Keeps
<1> QED BY <1>0, <1>2, <1>4, <1>5, <1>6, SilentQuiet

LEMMA TakeLiveQuiet ==
  ASSUME Ind, takeLiveSnapshot_internal
  PROVE  Quiet
<1>1. \/ \E b \in {hw, [hw EXCEPT !.job = TRUE]} : \E p \in fallible(begun(hw, "live"), b) :
           /\ hw' = [p[1] EXCEPT !.live = "none"]
           /\ apiQ' = IF p[2] THEN apiQ ELSE Append(apiQ, "cancelPicture")
      \/ \E h \in gaveUp(hw) : hw' = [h EXCEPT !.live = "none"] /\ apiQ' = apiQ
  BY DEF takeLiveSnapshot_internal
<1> QED BY <1>1, TakeLiveTried, TakeLiveGaveUp

LEMMA CancelLiveQuiet ==
  ASSUME Ind, cancelLiveSnapshot_internal
  PROVE  Quiet
<1>0. /\ hw \in Hw /\ Sound(hw) /\ config' = config /\ app' = app /\ note' = note /\ apiQ' = apiQ
      /\ hw.live = "cancel" /\ hw' = stopPostproc([ended(hw, "live") EXCEPT !.live = "none"])
  BY Before DEF cancelLiveSnapshot_internal
<1>1. PICK a : a = ended(hw, "live")
  OBVIOUS
<1>2. a \in Hw /\ Keeps(hw, a, {"capture"}) /\ a.capture = IF hw.capture = "live" THEN "none" ELSE hw.capture
  BY <1>0, <1>1, Ended
<1>3. PICK b \in Hw : b = [a EXCEPT !.live = "none"]
  BY <1>2, SetField
<1>4. Keeps(a, b, {"live"}) /\ b.live = "none"
  BY <1>2, <1>3 DEF Keeps, Fields, Hw
<1>5. hw' \in Hw /\ Keeps(b, hw', {"pproc", "cmds"})
  BY <1>0, <1>1, <1>3, StopPostproc
<1>6. Keeps(hw, b, {"capture", "live"}) /\ b.capture = a.capture
  BY <1>2, <1>4 DEF Keeps, Fields
<1>7. Keeps(hw, hw', {"capture", "live", "pproc", "cmds"}) /\ hw'.capture = b.capture /\ hw'.live = "none"
  BY <1>4, <1>5, <1>6 DEF Keeps, Fields
<1>8. /\ hw'.state = hw.state /\ hw'.preview = hw.preview /\ hw'.ready = hw.ready
      /\ hw'.longshot = hw.longshot /\ hw'.recording = hw.recording /\ hw'.retro = hw.retro
  BY <1>7 DEF Keeps, Fields
<1>9. Sound(hw')
  BY <1>0, <1>2, <1>6, <1>7, <1>8 DEF Sound
<1>10. Keeps(hw, hw', {"job", "pproc", "capture", "shots", "stopSent", "ready", "lit", "cmds", "data", "live"})
  BY <1>7 DEF Keeps
<1>11. hw'.capture = "still" => hw.capture = "still"
  BY <1>2, <1>6, <1>7
<1> QED BY <1>0, <1>5, <1>8, <1>9, <1>10, <1>11, SilentQuiet

LEMMA StopCaptureQuiet ==
  ASSUME Ind, stopCapture
  PROVE  Quiet
<1>0. /\ hw \in Hw /\ Sound(hw) /\ config' = config /\ app' = app /\ note' = note
      /\ hw' = [hw EXCEPT !.stopSent = TRUE] /\ apiQ' = Append(apiQ, "stopCaptureChannel")
  BY Before DEF stopCapture
<1>1. hw' \in Hw
  BY <1>0, SetBoolean
<1>2. Keeps(hw, hw', {"stopSent"})
  BY <1>0 DEF Keeps, Fields, Hw
<1>3. /\ hw'.state = hw.state /\ hw'.preview = hw.preview /\ hw'.live = hw.live
      /\ hw'.longshot = hw.longshot /\ hw'.recording = hw.recording
      /\ hw'.capture = hw.capture /\ hw'.retro = hw.retro /\ hw'.ready = hw.ready
  BY <1>2 DEF Keeps, Fields
<1>4. Sound(hw')
  BY <1>0, <1>3, Zenon DEF Sound
<1>5. Keeps(hw, hw', {"job", "pproc", "capture", "shots", "stopSent", "ready", "lit", "cmds", "data", "live"})
  BY <1>2 DEF Keeps
<1>6. \E c \in OwnCalls : apiQ' = Append(apiQ, c)
  BY <1>0 DEF OwnCalls
<1> QED BY <1>0, <1>1, <1>3, <1>4, <1>5, <1>6, SilentQuiet
\* A step of the notifier that announces nothing.
LEMMA IdleQuiet ==
  ASSUME Ind, config' = config, app' = app, apiQ' = apiQ, note' \in Note, note'.pc # "sync",
         hw' \in Hw, Keeps(hw, hw', {"cmds", "data"})
  PROVE  Quiet
<1>1. /\ hw'.state = hw.state /\ hw'.preview = hw.preview /\ hw'.live = hw.live
      /\ hw'.longshot = hw.longshot /\ hw'.recording = hw.recording
      /\ hw'.capture = hw.capture /\ hw'.retro = hw.retro /\ hw'.ready = hw.ready
      /\ hw'.dead = hw.dead /\ hw'.prep = hw.prep /\ hw'.evts = hw.evts
  BY DEF Keeps, Fields
<1>2. Sound(hw')
  BY <1>1, Before, Zenon DEF Sound
<1>3. Keeps(hw, hw', {"job", "pproc", "capture", "shots", "stopSent", "ready", "lit",
                     "prep", "dead", "evts", "evtResult", "cmds", "data", "live"})
  BY DEF Keeps
<1>4. Due(hw', "takePicture") => Due(hw, "takePicture")
  BY <1>1 DEF Due
<1> QED BY <1>1, <1>2, <1>3, <1>4 DEF Quiet, Announced

\* The camera's steps: one field or two, and an event.
LEMMA CameraStep ==
  ASSUME Ind, NEW h, NEW F, NEW e \in Evts, event(h, e), h \in Hw, Keeps(hw, h, F),
         F \subseteq {"shots", "ready", "prep", "lit", "dead"}
  PROVE  /\ config' = config /\ app' = app /\ note' = note /\ apiQ' = apiQ /\ note' \in Note
         /\ hw' \in Hw /\ Keeps(hw, hw', F \cup {"evts"}) /\ Adds(e)
         /\ hw'.ready = h.ready /\ hw'.prep = h.prep /\ hw'.dead = h.dead
         /\ hw'.capture = hw.capture /\ hw'.retro = hw.retro
         /\ Sound(hw') /\ Announced'
<1>0. /\ hw \in Hw /\ Sound(hw) /\ config' = config /\ app' = app /\ note' = note /\ apiQ' = apiQ
      /\ hw' = [h EXCEPT !.evts = Append(h.evts, e)] /\ note' \in Note
  BY Before DEF event
<1>1. h.evts \in Seq(Evts) /\ Append(h.evts, e) \in Seq(Evts)
  BY AppendProperties DEF Hw
<1>2. hw' \in Hw
  BY <1>0, <1>1, SetField
<1>3. Keeps(h, hw', {"evts"}) /\ hw'.evts = Append(h.evts, e)
  BY <1>0 DEF Keeps, Fields, Hw
<1>4. h.evts = hw.evts /\ h.capture = hw.capture /\ h.retro = hw.retro
  BY DEF Keeps, Fields
<1>5. Keeps(hw, hw', F \cup {"evts"})
  BY <1>3 DEF Keeps
<1>6. /\ hw'.ready = h.ready /\ hw'.prep = h.prep /\ hw'.dead = h.dead
      /\ hw'.capture = h.capture /\ hw'.retro = h.retro
  BY <1>3 DEF Keeps, Fields
<1>7. /\ hw'.state = hw.state /\ hw'.preview = hw.preview /\ hw'.live = hw.live
      /\ hw'.longshot = hw.longshot /\ hw'.recording = hw.recording
      /\ hw'.capture = hw.capture /\ hw'.retro = hw.retro /\ hw'.evtResult = hw.evtResult
  BY <1>5 DEF Keeps, Fields
<1>8. Sound(hw')
  BY <1>0, <1>7, Zenon DEF Sound
<1>9. Announced'
  BY <1>0, <1>3, <1>4, <1>7, StillAnnounced
<1> QED BY <1>0, <1>2, <1>3, <1>4, <1>5, <1>6, <1>7, <1>8, <1>9 DEF Adds

LEMMA CameraQuiet ==
  ASSUME Ind, jpegEvtHandle \/ readyForSnapshot \/ prepSnapshotDone \/ daemonDied
  PROVE  Quiet
<1>0. hw \in Hw /\ ConfigTyped
  BY Before
<1>1. CASE jpegEvtHandle
  <2>1. PICK h : h = [hw EXCEPT !.shots = @ + 1]
    OBVIOUS
  <2>2. event(h, "jpeg") /\ hw.shots < config.pictures
    BY <1>1, <2>1, Zenon DEF jpegEvtHandle
  <2>3. hw.shots + 1 \in 0 .. config.pictures
    BY <1>0, <2>2 DEF Hw, ConfigTyped
  <2>4. h \in Hw
    BY <1>0, <2>1, <2>3, SetField
  <2>5. Keeps(hw, h, {"shots"})
    BY <1>0, <2>1 DEF Keeps, Fields, Hw
  <2>6. h.ready = hw.ready /\ h.prep = hw.prep /\ h.dead = hw.dead /\ "jpeg" \in Evts
    BY <2>5 DEF Keeps, Fields, Evts
  <2>7. /\ config' = config /\ app' = app /\ note' = note /\ apiQ' = apiQ /\ note' \in Note
        /\ hw' \in Hw /\ Keeps(hw, hw', {"shots"} \cup {"evts"}) /\ Adds("jpeg")
        /\ hw'.ready = h.ready /\ hw'.prep = h.prep /\ hw'.dead = h.dead
        /\ hw'.capture = hw.capture /\ hw'.retro = hw.retro
        /\ Sound(hw') /\ Announced'
    BY <2>2, <2>4, <2>5, <2>6, CameraStep, Zenon
  <2>8. Keeps(hw, hw', {"job", "pproc", "capture", "shots", "stopSent", "ready", "lit",
                     "prep", "dead", "evts", "evtResult", "cmds", "data", "live"})
    BY <2>7 DEF Keeps
  <2>9. Due(hw', "takePicture") => Due(hw, "takePicture")
    BY <2>6, <2>7 DEF Due
  <2> QED BY <2>6, <2>7, <2>8, <2>9 DEF Quiet
<1>2. CASE readyForSnapshot
  <2>1. PICK h : h = [hw EXCEPT !.ready = TRUE]
    OBVIOUS
  <2>2. event(h, "ready") /\ hw.capture = "still" /\ hw.retro /\ ~hw.ready /\ ~hw.dead
    BY <1>2, <2>1, Zenon DEF readyForSnapshot
  <2>4. h \in Hw
    BY <1>0, <2>1, SetBoolean
  <2>5. Keeps(hw, h, {"ready"}) /\ h.ready
    BY <1>0, <2>1 DEF Keeps, Fields, Hw
  <2>6. h.prep = hw.prep /\ h.dead = hw.dead /\ "ready" \in Evts
    BY <2>5 DEF Keeps, Fields, Evts
  <2>7. /\ config' = config /\ app' = app /\ note' = note /\ apiQ' = apiQ /\ note' \in Note
        /\ hw' \in Hw /\ Keeps(hw, hw', {"ready"} \cup {"evts"}) /\ Adds("ready")
        /\ hw'.ready = h.ready /\ hw'.prep = h.prep /\ hw'.dead = h.dead
        /\ hw'.capture = hw.capture /\ hw'.retro = hw.retro
        /\ Sound(hw') /\ Announced'
    BY <2>2, <2>4, <2>5, <2>6, CameraStep, Zenon
  <2>8. Keeps(hw, hw', {"job", "pproc", "capture", "shots", "stopSent", "ready", "lit",
                     "prep", "dead", "evts", "evtResult", "cmds", "data", "live"})
    BY <2>7 DEF Keeps
  <2>9. Due(hw, "takePicture") /\ ~Due(hw', "takePicture")
    BY <2>2, <2>5, <2>7 DEF Due
  <2> QED BY <2>2, <2>6, <2>7, <2>8, <2>9 DEF Quiet
<1>3. CASE prepSnapshotDone
  <2>1. PICK h : h = [hw EXCEPT !.prep = FALSE, !.lit = TRUE]
    OBVIOUS
  <2>2. event(h, "prepDone") /\ hw.prep /\ ~hw.dead
    BY <1>3, <2>1, Zenon DEF prepSnapshotDone
  <2>3. ASSUME NEW b \in BOOLEAN, NEW c \in BOOLEAN
        PROVE  [hw EXCEPT !.prep = b, !.lit = c] \in Hw
    BY <1>0, ZenonT(40) DEF Hw
  <2>4. h \in Hw
    BY <2>1, <2>3
  <2>5. Keeps(hw, h, {"prep", "lit"}) /\ ~h.prep
    BY <1>0, <2>1 DEF Keeps, Fields, Hw
  <2>6. h.ready = hw.ready /\ h.dead = hw.dead /\ "prepDone" \in Evts
    BY <2>5 DEF Keeps, Fields, Evts
  <2>7. /\ config' = config /\ app' = app /\ note' = note /\ apiQ' = apiQ /\ note' \in Note
        /\ hw' \in Hw /\ Keeps(hw, hw', {"prep", "lit"} \cup {"evts"}) /\ Adds("prepDone")
        /\ hw'.ready = h.ready /\ hw'.prep = h.prep /\ hw'.dead = h.dead
        /\ hw'.capture = hw.capture /\ hw'.retro = hw.retro
        /\ Sound(hw') /\ Announced'
    BY <2>2, <2>4, <2>5, <2>6, CameraStep, Zenon
  <2>8. Keeps(hw, hw', {"job", "pproc", "capture", "shots", "stopSent", "ready", "lit",
                     "prep", "dead", "evts", "evtResult", "cmds", "data", "live"})
    BY <2>7 DEF Keeps
  <2>9. Due(hw', "takePicture") => Due(hw, "takePicture")
    BY <2>6, <2>7 DEF Due
  <2> QED BY <2>2, <2>5, <2>6, <2>7, <2>8, <2>9 DEF Quiet
<1>4. CASE daemonDied
  <2>1. PICK h : h = [hw EXCEPT !.dead = TRUE]
    OBVIOUS
  <2>2. event(h, "daemonDied") /\ ~hw.dead
    BY <1>4, <2>1, Zenon DEF daemonDied
  <2>4. h \in Hw
    BY <1>0, <2>1, SetBoolean
  <2>5. Keeps(hw, h, {"dead"}) /\ h.dead
    BY <1>0, <2>1 DEF Keeps, Fields, Hw
  <2>6. h.prep = hw.prep /\ h.ready = hw.ready /\ "daemonDied" \in Evts
    BY <2>5 DEF Keeps, Fields, Evts
  <2>7. /\ config' = config /\ app' = app /\ note' = note /\ apiQ' = apiQ /\ note' \in Note
        /\ hw' \in Hw /\ Keeps(hw, hw', {"dead"} \cup {"evts"}) /\ Adds("daemonDied")
        /\ hw'.ready = h.ready /\ hw'.prep = h.prep /\ hw'.dead = h.dead
        /\ hw'.capture = hw.capture /\ hw'.retro = hw.retro
        /\ Sound(hw') /\ Announced'
    BY <2>2, <2>4, <2>5, <2>6, CameraStep, Zenon
  <2>8. Keeps(hw, hw', {"job", "pproc", "capture", "shots", "stopSent", "ready", "lit",
                     "prep", "dead", "evts", "evtResult", "cmds", "data", "live"})
    BY <2>7 DEF Keeps
  <2>9. Due(hw', "takePicture") => Due(hw, "takePicture")
    BY <2>6, <2>7 DEF Due
  <2> QED BY <2>2, <2>5, <2>6, <2>7, <2>8, <2>9 DEF Quiet
<1> QED BY <1>1, <1>2, <1>3, <1>4

LEMMA NotifierQuiet ==
  ASSUME Ind, cbNotifyRoutine \/ processSyncEvtReturns \/ mDataCb
  PROVE  Quiet
<1>0. hw \in Hw /\ note \in Note /\ Sound(hw) /\ ConfigTyped
  BY Before
<1>1. CASE processSyncEvtReturns \/ mDataCb
  <2>1. /\ config' = config /\ app' = app /\ apiQ' = apiQ /\ hw' = hw
        /\ note' = [note EXCEPT !.pc = "deliver"] \/ note' = [note EXCEPT !.pc = "idle"]
    BY <1>1 DEF processSyncEvtReturns, mDataCb
  <2>2. note' \in Note /\ note'.pc # "sync"
    BY <1>0, <2>1 DEF Note
  <2>3. Keeps(hw, hw', {"job", "pproc", "capture", "shots", "stopSent", "ready", "lit",
                     "prep", "dead", "evts", "evtResult", "cmds", "data", "live"})
    BY <2>1 DEF Keeps
  <2>4. hw' \in Hw /\ Sound(hw')
    BY <1>0, <2>1
  <2> QED BY <2>1, <2>2, <2>3, <2>4 DEF Quiet, Announced
<1>2. CASE cbNotifyRoutine
  <2> DEFINE next == [hw EXCEPT !.cmds = Tail(@)]
             counted == IF note.longshot THEN note.rcvd ELSE note.rcvd + 1
             last == ~note.longshot /\ note.expected > 0 /\ counted = note.expected
             k == dequeued(hw.data)
  <2>1. hw.cmds \in Seq(Commands) /\ hw.cmds # <<>> /\ config' = config /\ app' = app /\ apiQ' = apiQ
    BY <1>0, <1>2 DEF cbNotifyRoutine, Hw
  <2>2. Tail(hw.cmds) \in Seq(Commands) /\ hw.data \in Nat /\ k \in Nat /\ counted \in Nat /\ last \in BOOLEAN
    BY <1>0, <2>1, HeadTailProperties DEF Hw, Note, dequeued
  <2>3. \/ /\ note' = [note EXCEPT !.active = TRUE, !.expected = config.pictures,
                                  !.longshot = hw.longshot, !.rcvd = 0]
           /\ hw' = next
        \/ /\ note' = [note EXCEPT !.active = FALSE, !.expected = 0, !.rcvd = 0]
           /\ hw' = [next EXCEPT !.data = 0]
        \/ hw' = [next EXCEPT !.data = k] /\ note' = note
        \/ /\ note' = [note EXCEPT !.rcvd = counted, !.pc = IF last THEN "sync" ELSE "deliver"]
           /\ hw' = IF last
                    THEN [next EXCEPT !.data = k, !.evtResult = FALSE,
                                      !.evts = Append(@, "snapshotDone")]
                    ELSE [next EXCEPT !.data = k]
    <3> HIDE DEF counted, last
    <3> QED BY <1>2 DEF cbNotifyRoutine, counted, last
  <2> HIDE DEF k
  <2>4. PICK h : h = next
    OBVIOUS
  <2>5. h \in Hw
    BY <1>0, <2>2, <2>4, SetField
  <2>6. Keeps(hw, h, {"cmds"})
    BY <1>0, <2>4 DEF Keeps, Fields, Hw
  <2> HIDE DEF next, counted, last
  <2>7. note.pc = "idle"
    BY <1>2 DEF cbNotifyRoutine
  <2>0. ASSUME NEW a \in BOOLEAN, NEW n \in 0 .. config.pictures, NEW b \in BOOLEAN, NEW r \in Nat
        PROVE  /\ [note EXCEPT !.active = a, !.expected = n, !.longshot = b, !.rcvd = r] \in Note
               /\ [note EXCEPT !.active = a, !.expected = n, !.rcvd = r] \in Note
    BY <1>0, ZenonT(40) DEF Note
  <2>14. /\ TRUE \in BOOLEAN /\ FALSE \in BOOLEAN /\ 0 \in Nat /\ hw.longshot \in BOOLEAN
         /\ config.pictures \in 0 .. config.pictures /\ 0 \in 0 .. config.pictures
    BY <1>0 DEF ConfigTyped, Hw
  <2>8. CASE /\ note' = [note EXCEPT !.active = TRUE, !.expected = config.pictures,
                                    !.longshot = hw.longshot, !.rcvd = 0]
             /\ hw' = next
    <3>1. note' \in Note /\ note'.pc = "idle"
      <4>1. note' \in Note
        BY <2>0, <2>8, <2>14, Zenon
      <4>2. note'.pc = note.pc
        BY <1>0, <2>8 DEF Note
      <4> QED BY <2>7, <4>1, <4>2
    <3>2. hw' = h
      BY <2>4, <2>8
    <3>3. Keeps(hw, hw', {"cmds", "data"})
      BY <2>6, <3>2 DEF Keeps
    <3> QED BY <2>1, <2>5, <3>1, <3>2, <3>3, IdleQuiet
  <2>9. CASE /\ note' = [note EXCEPT !.active = FALSE, !.expected = 0, !.rcvd = 0]
             /\ hw' = [next EXCEPT !.data = 0]
    <3>1. note' \in Note /\ note'.pc = "idle"
      <4>1. note' \in Note
        BY <2>0, <2>9, <2>14, Zenon
      <4>2. note'.pc = note.pc
        BY <1>0, <2>9 DEF Note
      <4> QED BY <2>7, <4>1, <4>2
    <3>2. hw' \in Hw
      BY <2>4, <2>5, <2>9, SetField
    <3>3. Keeps(h, hw', {"data"})
      BY <2>4, <2>5, <2>9 DEF Keeps, Fields, Hw
    <3>4. Keeps(hw, hw', {"cmds", "data"})
      BY <2>6, <3>3 DEF Keeps
    <3> QED BY <2>1, <3>1, <3>2, <3>4, IdleQuiet
  <2>10. ASSUME hw' = [next EXCEPT !.data = k]
         PROVE  hw' \in Hw /\ Keeps(hw, hw', {"cmds", "data"})
    <3>1. hw' \in Hw
      BY <2>2, <2>4, <2>5, <2>10, SetField
    <3>2. Keeps(h, hw', {"data"})
      BY <2>4, <2>5, <2>10 DEF Keeps, Fields, Hw
    <3> QED BY <2>6, <3>1, <3>2 DEF Keeps
  <2>11. CASE hw' = [next EXCEPT !.data = k] /\ note' = note
    BY <1>0, <2>1, <2>7, <2>10, <2>11, IdleQuiet
  <2>12. CASE /\ note' = [note EXCEPT !.rcvd = counted, !.pc = IF last THEN "sync" ELSE "deliver"]
              /\ ~last /\ hw' = [next EXCEPT !.data = k]
    <3>1. note' \in Note /\ note'.pc = "deliver"
      BY <1>0, <2>2, <2>12 DEF Note
    <3> QED BY <2>1, <2>10, <2>12, <3>1, IdleQuiet
  <2>13. CASE /\ note' = [note EXCEPT !.rcvd = counted, !.pc = IF last THEN "sync" ELSE "deliver"]
              /\ last /\ hw' = [next EXCEPT !.data = k, !.evtResult = FALSE,
                                            !.evts = Append(@, "snapshotDone")]
    <3>1. note' \in Note
      BY <1>0, <2>2, <2>13 DEF Note
    <3>2. ASSUME NEW n \in Nat, NEW b \in BOOLEAN, NEW s \in Seq(Evts)
          PROVE  [h EXCEPT !.data = n, !.evtResult = b, !.evts = s] \in Hw
      BY <2>5, ZenonT(40) DEF Hw
    <3>3. h.evts = hw.evts /\ hw.evts \in Seq(Evts) /\ "snapshotDone" \in Evts
      BY <1>0, <2>6 DEF Keeps, Fields, Hw, Evts
    <3>4. Append(h.evts, "snapshotDone") \in Seq(Evts)
      BY <3>3, AppendProperties
    <3>5. hw' = [h EXCEPT !.data = k, !.evtResult = FALSE, !.evts = Append(h.evts, "snapshotDone")]
      BY <2>4, <2>13, Zenon
    <3>6. hw' \in Hw
      BY <2>2, <3>2, <3>4, <3>5
    <3>7. Keeps(h, hw', {"data", "evtResult", "evts"}) /\ hw'.evts = Append(h.evts, "snapshotDone")
      BY <2>5, <3>5 DEF Keeps, Fields, Hw
    <3>8. Keeps(hw, hw', {"cmds", "data", "evtResult", "evts"})
      BY <2>6, <3>7 DEF Keeps
    <3>9. /\ hw'.state = hw.state /\ hw'.preview = hw.preview /\ hw'.live = hw.live
          /\ hw'.longshot = hw.longshot /\ hw'.recording = hw.recording
          /\ hw'.capture = hw.capture /\ hw'.retro = hw.retro /\ hw'.ready = hw.ready
          /\ hw'.dead = hw.dead /\ hw'.prep = hw.prep
      BY <3>8 DEF Keeps, Fields
    <3>10. Sound(hw')
      BY <1>0, <3>9, Zenon DEF Sound
    <3>11. Announced'
      <4>1. Has(hw'.evts, "snapshotDone")
        BY <3>3, <3>7, Appended
      <4> QED BY <4>1 DEF Announced
    <3>12. Keeps(hw, hw', {"job", "pproc", "capture", "shots", "stopSent", "ready", "lit",
                     "prep", "dead", "evts", "evtResult", "cmds", "data", "live"})
      BY <3>8 DEF Keeps
    <3>13. Adds("snapshotDone")
      BY <3>3, <3>7 DEF Adds
    <3>14. Due(hw', "takePicture") => Due(hw, "takePicture")
      BY <3>9 DEF Due
    <3> QED BY <2>1, <3>1, <3>6, <3>9, <3>10, <3>11, <3>12, <3>13, <3>14 DEF Quiet
  <2> QED BY <2>2, <2>3, <2>8, <2>9, <2>11, <2>12, <2>13
<1> QED BY <1>1, <1>2
-----------------------------------------------------------------------------
(* The framework's steps.                                                   *)

LEMMA InitInd ==
  ASSUME Init
  PROVE  Ind
<1>1. config \in Configs /\ ConfigTyped
  BY Typing DEF Init
<1>2. \A x : /\ ~Has(<<>>, x) /\ Once(<<>>, x) /\ ~Answered(<<>>, x) /\ AnsweredOnce(<<>>, x)
  BY DEF Has, Once, Answered, AnsweredOnce
<1>3. /\ hw.state = "STOPPED" /\ hw.preview = "none" /\ hw.recording = FALSE /\ hw.capture = "none"
      /\ hw.live = "none" /\ hw.retro = FALSE /\ hw.prep = FALSE /\ hw.dead = FALSE
      /\ hw.evts = <<>> /\ hw.results = <<>> /\ apiQ = <<>>
      /\ app.todo = <<>> /\ app.waiting = FALSE /\ app.woken = FALSE /\ app.wants = FALSE
      /\ note.pc = "idle"
  BY DEF Init
<1>4. TypeOK
  <2>1. hw \in Hw
    <3>1. "STOPPED" \in States /\ 0 \in 0 .. config.pictures /\ 0 \in Nat
      BY <1>1 DEF States, ConfigTyped
    <3>2. <<>> \in Seq(Evts) /\ <<>> \in Seq(Result) /\ <<>> \in Seq(Commands)
      BY EmptySeq
    <3>3. "none" \in {"none", "prepared", "started"} /\ "none" \in {"none", "still", "live"}
          /\ "none" \in {"none", "take", "cancel"} /\ FALSE \in BOOLEAN
      OBVIOUS
    <3> QED BY <3>1, <3>2, <3>3, ZenonT(40) DEF Init, Hw
  <2>2. apiQ \in Seq(Apis) /\ app \in App
    BY BoundsAssumption DEF Init, App
  <2>3. note \in Note
    BY <1>1 DEF Init, Note, ConfigTyped
  <2> QED BY <1>1, <2>1, <2>2, <2>3, TypeIs
<1>5. Planned /\ Wanted /\ Announced /\ Known /\ Measuring /\ LongshotLeft
  BY <1>2, <1>3 DEF Planned, Plans, Wanted, Announced, Known, Measuring, LongshotLeft
<1>6. QuickOne /\ SlowOne /\ DiedOnce
  <2>1. \A c \in Slow : ~Due(hw, c)
    BY <1>3 DEF Due, Slow
  <2> QED BY <1>2, <1>3, <2>1 DEF QuickOne, SlowOne, OneStage, DiedOnce
<1>7. Sound(hw) /\ RetroOK
  BY <1>2, <1>3 DEF Sound, RetroOK
<1>8. Refreshed
  BY <1>3 DEF Refreshed, Halted
<1> QED BY <1>4, <1>5, <1>6, <1>7, <1>8 DEF Ind

LEMMA CallsFacts ==
  ASSUME NEW op \in Operations
  PROVE  /\ calls(op) \in Seq(Apis) /\ calls(op) \in Plans /\ calls(op) # <<>>
         /\ calls(op) \notin {<<"other", "setParamsRestart">>, <<"setParamsRestart">>}
         /\ Has(calls(op), "takePicture") => op = "take_picture"
         /\ \A c \in {"longshotOff", "disableMsg"} : calls(op) = <<c>> => op = c
         /\ op = "enableMsg" => calls(op) = <<"enableMsg">>
<1>1. calls(op) \in Plans
  BY CallsPlanned
<1>2. CASE op = "take_picture"
  <2> DEFINE take == <<"preTakePicture", "takePicture">>
             long == <<"preTakePicture", "takePicture", "prepareSnapshot">>
             first == <<"prepareSnapshot", "preTakePicture", "takePicture">>
  <2>1. prepare_snapshot = <<>> \/ prepare_snapshot = <<"prepareSnapshot">>
    BY DEF prepare_snapshot
  <2>2. \/ take_picture = take \o prepare_snapshot
        \/ take_picture = <<>> \o take
        \/ take_picture = prepare_snapshot \o take
    BY Zenon DEF take_picture
  <2>3. take_picture = take \/ take_picture = long \/ take_picture = first
    BY <2>1, <2>2, PicturePlans
  <2>4. calls(op) = take_picture
    BY <1>2 DEF calls
  <2>5. \A t \in {take, long, first} :
          /\ t # <<>> /\ Len(t) >= 2 /\ t[1] # "other"
    OBVIOUS
  <2>6. \A c : Len(<<c>>) = 1 /\ <<"other", "setParamsRestart">>[1] = "other"
    OBVIOUS
  <2>7. take_picture \in {take, long, first}
    BY <2>3
  <2> HIDE DEF take, long, first
  <2>8. calls(op) # <<>> /\ Len(calls(op)) >= 2 /\ calls(op)[1] # "other"
    BY <2>4, <2>5, <2>7
  <2>9. calls(op) \notin {<<"other", "setParamsRestart">>, <<"setParamsRestart">>}
        /\ \A c : calls(op) # <<c>>
    <3>1. ASSUME NEW c, calls(op) = <<c>> PROVE FALSE
      <4>1. Len(calls(op)) = 1
        BY <2>6, <3>1, Zenon
      <4> QED BY <2>8, <4>1
    <3>2. calls(op) # <<"other", "setParamsRestart">>
      BY <2>6, <2>8
    <3> QED BY <3>1, <3>2
  <2> QED BY <1>1, <1>2, <2>8, <2>9, PlanFacts
<1>3. CASE op = "set_parameters"
  <2>1. PICK t : t = calls(op)
    OBVIOUS
  <2>2. t = <<"setParams", "setParamsStop", "other", "setParamsRestart">>
    BY <1>3, <2>1 DEF calls, set_parameters
  <2>3. t # <<>> /\ Len(t) = 4 /\ ~Has(t, "takePicture")
    BY <2>2 DEF Has
  <2>4. (\A c : Len(<<c>>) = 1) /\ Len(<<"other", "setParamsRestart">>) = 2
    OBVIOUS
  <2>5. t \notin {<<"other", "setParamsRestart">>, <<"setParamsRestart">>} /\ \A c : t # <<c>>
    <3>1. \A c : t # <<c>>
      BY <2>3, <2>4
    <3>2. t # <<"other", "setParamsRestart">>
      BY <2>3, <2>4
    <3> QED BY <3>1, <3>2
  <2> QED BY <1>1, <1>3, <2>1, <2>3, <2>5, PlanFacts
<1>4. CASE op = "start_recording"
  <2>1. PICK t : t = calls(op)
    OBVIOUS
  <2>2. t = <<"preStartRecording", "startRecording">>
    BY <1>4, <2>1 DEF calls, start_recording
  <2>3. t # <<>> /\ Len(t) = 2 /\ ~Has(t, "takePicture") /\ t # <<"other", "setParamsRestart">>
    BY <2>2 DEF Has
  <2>4. \A c : Len(<<c>>) = 1
    OBVIOUS
  <2>5. t # <<"setParamsRestart">> /\ \A c : t # <<c>>
    BY <2>3, <2>4
  <2> QED BY <1>1, <1>4, <2>1, <2>3, <2>5, PlanFacts
<1>5. CASE op \notin {"take_picture", "set_parameters", "start_recording"}
  <2>1. calls(op) = <<op>>
    BY <1>5 DEF calls
  <2>2. op # "takePicture" /\ op # "setParamsRestart"
    BY DEF Operations
  <2>3. <<op>> # <<"other", "setParamsRestart">>
    <3>1. Len(<<op>>) = 1 /\ Len(<<"other", "setParamsRestart">>) = 2
      OBVIOUS
    <3> QED BY <3>1
  <2>4. <<op>> # <<>> /\ (\A x : <<x>> = <<op>> => x = op) /\ (\A x : Has(<<op>>, x) <=> x = op)
    BY OnlyTails
  <2>5. <<op>> \in Seq(Apis)
    BY <1>1, <2>1, <2>4, PlanFacts
  <2> QED BY <1>1, <2>1, <2>2, <2>3, <2>4, <2>5
<1> QED BY <1>2, <1>3, <1>4, <1>5

LEMMA NobodyAsked ==
  ASSUME Ind, ~app.waiting
  PROVE  /\ \A c \in Apis \ (OwnCalls \cup Slow) : ~Has(apiQ, c) /\ ~Answered(hw.results, c)
         /\ \A c \in Slow : Alive => /\ ~Has(apiQ, c) /\ ~Answered(hw.results, c)
                                     /\ ~Has(hw.evts, Ev(c)) /\ ~Due(hw, c)
BY DEF Ind, QuickOne, SlowOne, OneStage, Asked

LEMMA OperationInd ==
  ASSUME Ind, NEW op \in config.ops, Operation(op)
  PROVE  Ind'
<1>0. /\ config \in Configs /\ hw \in Hw /\ apiQ \in Seq(Apis) /\ app \in App /\ note \in Note
      /\ op \in Operations /\ Sound(hw) /\ ConfigTyped
      /\ config' = config /\ apiQ' = apiQ /\ note' = note
  BY Before DEF Operation
<1>1. ~app.waiting /\ ~app.woken /\ app.todo = <<>>
  BY DEF Ind, Planned, Operation
<1>2. /\ app'.todo = calls(op) /\ ~app'.waiting /\ ~app'.woken /\ app' \in App
      /\ app'.wants = CASE op = "enableMsg" -> TRUE [] op = "disableMsg" -> FALSE [] OTHER -> app.wants
  <2>1. app' = [app EXCEPT !.todo = calls(op), !.calls = @ + 1,
                           !.wants = CASE op = "enableMsg" -> TRUE
                                       [] op = "disableMsg" -> FALSE
                                       [] OTHER -> @]
    BY DEF Operation
  <2>2. app.calls + 1 \in 0 .. MaxOps
    BY <1>0, BoundsAssumption DEF Operation, App
  <2>3. calls(op) \in Seq(Apis)
    BY <1>0, CallsFacts
  <2>4. (CASE op = "enableMsg" -> TRUE [] op = "disableMsg" -> FALSE [] OTHER -> app.wants) \in BOOLEAN
    BY <1>0 DEF App
  <2>5. ASSUME NEW t \in Seq(Apis), NEW n \in 0 .. MaxOps, NEW b \in BOOLEAN,
               app' = [app EXCEPT !.todo = t, !.calls = n, !.wants = b]
        PROVE  /\ app'.todo = t /\ ~app'.waiting /\ ~app'.woken /\ app' \in App /\ app'.wants = b
    <3>1. app' \in App
      BY <1>0, <2>5 DEF App
    <3> QED BY <1>0, <1>1, <2>5, <3>1 DEF App
  <2> QED BY <2>1, <2>2, <2>3, <2>4, <2>5
<1>3. /\ hw' \in Hw /\ Keeps(hw, hw', {"retro"}) /\ (hw'.retro => hw.retro \/ isRetro)
      /\ op = "take_picture" => hw'.retro = isRetro
      /\ op # "take_picture" => hw'.retro = hw.retro
  <2>1. CASE op = "take_picture"
    <3>1. hw' = [hw EXCEPT !.retro = isRetro] /\ isRetro \in BOOLEAN
      BY <2>1 DEF Operation, isRetro
    <3>2. hw' \in Hw
      BY <1>0, <3>1, SetBoolean
    <3>3. Keeps(hw, hw', {"retro"}) /\ hw'.retro = isRetro
      BY <1>0, <3>1 DEF Keeps, Fields, Hw
    <3> QED BY <2>1, <3>2, <3>3
  <2>2. CASE op # "take_picture"
    <3>1. hw' = hw
      BY <2>2 DEF Operation
    <3> QED BY <1>0, <2>2, <3>1 DEF Keeps
  <2> QED BY <2>1, <2>2
<1>4. /\ hw'.state = hw.state /\ hw'.preview = hw.preview /\ hw'.live = hw.live
      /\ hw'.longshot = hw.longshot /\ hw'.recording = hw.recording
      /\ hw'.capture = hw.capture /\ hw'.ready = hw.ready /\ hw'.results = hw.results
      /\ hw'.dead = hw.dead /\ hw'.prep = hw.prep /\ hw'.evts = hw.evts
      /\ hw'.enabled = hw.enabled /\ hw'.delayed = hw.delayed /\ hw'.evtResult = hw.evtResult
  BY <1>3 DEF Keeps, Fields
<1>5. isRetro => Retro /\ ~hw.longshot /\ hw.state \notin Recording
  BY <1>0 DEF isRetro, Retro, Recording, ConfigTyped
<1>5a. Retro /\ ~isRetro => hw.longshot \/ hw.state \in Recording
  BY <1>0 DEF isRetro, Retro, Recording, ConfigTyped
<1>6. \A c : ~Asked(c) /\ ~Asked(c)'
  BY <1>1, <1>2 DEF Asked
<1>7. /\ calls(op) \in Plans /\ calls(op) # <<>>
      /\ calls(op) \notin {<<"other", "setParamsRestart">>, <<"setParamsRestart">>}
      /\ Has(calls(op), "takePicture") => op = "take_picture"
      /\ \A c \in {"longshotOff", "disableMsg"} : calls(op) = <<c>> => op = c
      /\ op = "enableMsg" => calls(op) = <<"enableMsg">>
  BY <1>0, CallsFacts
<1>8. /\ \A c \in Apis \ (OwnCalls \cup Slow) : ~Has(apiQ, c) /\ ~Answered(hw.results, c)
      /\ \A c \in Slow : Alive => /\ ~Has(apiQ, c) /\ ~Answered(hw.results, c)
                                  /\ ~Has(hw.evts, Ev(c)) /\ ~Due(hw, c)
  BY <1>1, NobodyAsked
<1>9. {"setParamsStop", "enableMsg", "longshotOff"} \subseteq Apis \ (OwnCalls \cup Slow)
  BY DEF Apis, OwnCalls, Slow
<1>10. TypeOK'
  BY <1>0, <1>2, <1>3, TypeStep
<1>11. Sound(hw)'
  <2>1. Sound(hw')
    BY <1>0, <1>3, <1>4, <1>5 DEF Sound
  <2> QED BY <1>0, <2>1, SoundStep
<1>12. Planned'
  BY <1>2, <1>7 DEF Planned
<1>13. QuickOne'
  BY <1>0, <1>4, <1>6, <1>8 DEF Ind, QuickOne
<1>14. SlowOne'
  <2>1. ASSUME Alive', NEW c \in Slow
        PROVE  OneStage(c)'
    <3>1. Alive
      BY <1>4, <2>1 DEF Alive
    <3>2. OneStage(c) /\ ~Has(apiQ, c) /\ ~Answered(hw.results, c) /\ ~Has(hw.evts, Ev(c)) /\ ~Due(hw, c)
      BY <1>8, <3>1 DEF Ind, SlowOne
    <3>3. ~Due(hw', c)
      <4>1. CASE c = "prepareSnapshot"
        BY <1>4, <3>2, <4>1 DEF Due
      <4>2. CASE c = "takePicture"
        <5>1. c # "prepareSnapshot"
          BY <4>2
        <5>2. ~hw'.retro \/ hw'.retro = hw.retro \/ (isRetro /\ ~hw.retro)
          BY <1>3
        <5>3. (isRetro /\ ~hw.retro) => hw.capture # "still"
          BY <1>5 DEF Ind, RetroOK
        <5> QED BY <1>4, <3>2, <5>1, <5>2, <5>3 DEF Due
      <4> QED BY <4>1, <4>2 DEF Slow
    <3> QED BY <1>0, <1>4, <3>2, <3>3 DEF OneStage
  <2> QED BY <2>1, Zenon DEF SlowOne
<1>15. RetroOK'
  <2>1. Retro' <=> Retro
    BY <1>0 DEF Retro
  <2>2. ASSUME Retro, ~hw'.retro
        PROVE  /\ hw.capture = "still" => hw.longshot
               /\ Has(calls(op), "takePicture") => hw.longshot \/ hw.state \in Recording
    <3>1. CASE op = "take_picture"
      <4>1. hw.longshot \/ hw.state \in Recording
        BY <1>3, <1>5a, <2>2, <3>1
      <4>2. hw.capture = "still" => hw.state \notin Recording
        BY <1>0 DEF Sound, Recording
      <4> QED BY <4>1, <4>2
    <3>2. CASE op # "take_picture"
      BY <1>3, <1>7, <2>2, <3>2 DEF Ind, RetroOK
    <3> QED BY <3>1, <3>2
  <2> QED BY <1>2, <1>4, <2>1, <2>2 DEF RetroOK
<1>16. Refreshed'
  BY <1>2, <1>4, <1>7, <1>8, <1>9 DEF Refreshed, ToRestart
<1>17. LongshotLeft'
  <2>1. op = "longshotOff" => hw.longshot
    BY DEF Operation
  <2> QED BY <1>2, <1>4, <1>7, <2>1 DEF LongshotLeft
<1>18. Wanted'
  <2>1. ~hw.dead /\ app.wants => hw.enabled \/ hw.delayed
    BY <1>1 DEF Ind, Wanted
  <2>2. CASE op = "enableMsg"
    <3>1. app'.todo = <<"enableMsg">> /\ ~Answered(hw'.results, "enableMsg")
      BY <1>2, <1>4, <1>7, <1>8, <1>9, <2>2
    <3>2. <<"enableMsg">> # <<"disableMsg">>
      BY OnlyTails
    <3> QED BY <3>1, <3>2 DEF Wanted
  <2>3. CASE op = "disableMsg"
    BY <1>2, <2>3 DEF Wanted
  <2>4. CASE op \notin {"enableMsg", "disableMsg"}
    <3>1. app'.wants = app.wants /\ app'.todo # <<"disableMsg">>
      BY <1>2, <1>7, <2>4
    <3> QED BY <1>4, <2>1, <3>1 DEF Wanted
  <2> QED BY <2>2, <2>3, <2>4
<1>19. DiedOnce' /\ Measuring' /\ Announced' /\ Known'
  BY <1>0, <1>4 DEF Ind, DiedOnce, Measuring, Announced, Known
<1> QED BY <1>10, <1>11, <1>12, <1>13, <1>14, <1>15, <1>16, <1>17, <1>18, <1>19 DEF Ind

LEMMA ProcessAPIInd ==
  ASSUME Ind, processAPI
  PROVE  Ind'
<1>0. /\ config \in Configs /\ hw \in Hw /\ apiQ \in Seq(Apis) /\ app \in App /\ note \in Note
      /\ config' = config /\ hw' = hw /\ note' = note
  BY Before DEF processAPI
<1>1. ~app.waiting /\ app.todo # <<>> /\ app.todo \in Plans
  BY DEF Ind, Planned, processAPI
<1>2. PICK c : c = Head(app.todo)
  OBVIOUS
<1>3. c \in Apis \ {"regFace", "stopCaptureChannel"}
  BY <1>1, <1>2, PlanFacts
<1>4. app'.todo = app.todo /\ app'.waiting /\ ~app'.woken /\ app' \in App /\ app'.wants = app.wants
  <2>1. app' = [app EXCEPT !.waiting = TRUE, !.woken = FALSE]
    BY DEF processAPI
  <2> QED BY <1>0, <2>1 DEF App
<1>5. apiQ' = Append(apiQ, c) /\ apiQ' \in Seq(Apis)
  BY <1>0, <1>2, <1>3, AppendProperties DEF processAPI
<1>6. \A d : Asked(d)' <=> d = c
  BY <1>1, <1>2, <1>4 DEF Asked
<1>7. \A d \in Apis : /\ Has(apiQ', d) <=> Has(apiQ, d) \/ d = c
                      /\ Once(apiQ', d) <=> Once(apiQ, d) /\ (d = c => ~Has(apiQ, d))
  BY <1>0, <1>3, <1>5, Appended
<1>8. /\ \A d \in Apis \ (OwnCalls \cup Slow) : ~Has(apiQ, d) /\ ~Answered(hw.results, d)
      /\ \A d \in Slow : Alive => /\ ~Has(apiQ, d) /\ ~Answered(hw.results, d)
                                  /\ ~Has(hw.evts, Ev(d)) /\ ~Due(hw, d)
  BY <1>1, NobodyAsked
<1>9. TypeOK'
  BY <1>0, <1>4, <1>5, TypeStep
<1>10. QuickOne'
  BY <1>0, <1>6, <1>7, <1>8 DEF Ind, QuickOne
<1>11. SlowOne'
  <2>1. ASSUME Alive', NEW d \in Slow
        PROVE  OneStage(d)'
    <3>1. Alive
      BY <1>0, <2>1 DEF Alive
    <3>2. OneStage(d) /\ ~Has(apiQ, d) /\ ~Answered(hw.results, d) /\ ~Has(hw.evts, Ev(d)) /\ ~Due(hw, d)
      BY <1>8, <3>1 DEF Ind, SlowOne
    <3>3. d \in Apis
      BY DEF Slow, Apis
    <3> QED BY <1>0, <1>6, <1>7, <3>2, <3>3 DEF OneStage
  <2> QED BY <2>1, Zenon DEF SlowOne
<1>12. Planned' /\ Refreshed' /\ LongshotLeft' /\ Wanted'
  BY <1>0, <1>1, <1>4 DEF Ind, Planned, Refreshed, ToRestart, LongshotLeft, Wanted
<1>13. RetroOK'
  <2>1. Retro' <=> Retro
    BY <1>0 DEF Retro
  <2> QED BY <1>0, <1>4, <2>1 DEF Ind, RetroOK
<1>14. DiedOnce' /\ Measuring' /\ Announced' /\ Known'
  BY <1>0 DEF Ind, DiedOnce, Measuring, Announced, Known
<1>15. Sound(hw)'
  BY <1>0, SoundStep DEF Ind
<1> QED BY <1>9, <1>10, <1>11, <1>12, <1>13, <1>14, <1>15 DEF Ind
\* The caller takes its answer.
LEMMA AnswerFound ==
  ASSUME Ind, waitAPIResult
  PROVE  \/ /\ hw' = hw /\ app' = [app EXCEPT !.woken = FALSE]
         \/ \E i \in 1 .. Len(hw.results) :
              /\ hw.results[i].api = Head(app.todo)
              /\ app'.todo \in {Tail(app.todo), <<>>} /\ ~app'.waiting /\ ~app'.woken
              /\ app'.todo = <<>> \/ hw.results[i].ok \/ Head(app.todo) \in Slow
              /\ app' \in App /\ app'.wants = app.wants
              /\ hw' \in Hw /\ Keeps(hw, hw', {"results", "prepRun"})
              /\ hw'.results = RemoveAt(hw.results, i)
<1> DEFINE c == Head(app.todo)
           mine == {i \in DOMAIN hw.results : hw.results[i].api = c}
           k == CHOOSE i \in mine : \A j \in mine : i <= j
           r == hw.results[k]
           run == \/ r.api = "prepareSnapshot"
                  \/ hw.prepRun /\ (r.api = "takePicture" => hw.retro \/ hw.longshot)
<1>0. hw \in Hw /\ app \in App /\ hw.results \in Seq(Result) /\ app.todo \in Plans /\ app.todo # <<>>
  BY Before DEF Hw, Ind, Planned, waitAPIResult
<1>1. CASE mine = {}
  BY <1>1 DEF waitAPIResult
<1>2. CASE mine # {}
  <2>1. k \in 1 .. Len(hw.results) /\ hw.results[k].api = c
    <3>1. mine \in SUBSET (1 .. Len(hw.results)) /\ Len(hw.results) \in Nat
      BY <1>0, LenProperties
    <3> HIDE DEF mine
    <3>2. k \in mine
      BY <1>2, <3>1, OldestIs, Zenon
    <3> HIDE DEF k
    <3> QED BY <3>1, <3>2 DEF mine
  <2>2. /\ app' = [app EXCEPT !.waiting = FALSE, !.woken = FALSE, !.todo = rest(r)]
        /\ hw' = [hw EXCEPT !.results = RemoveAt(@, k),
                            !.prepRun = \/ r.api = "prepareSnapshot"
                                        \/ @ /\ (r.api = "takePicture" => hw.retro \/ hw.longshot)]
    <3> HIDE DEF c
    <3> QED BY <1>2, Zenon DEF waitAPIResult, c
  <2> HIDE DEF k, mine, r, c
  <2>3. RemoveAt(hw.results, k) \in Seq(Result) /\ run \in BOOLEAN
    BY <1>0, <2>1, Removed
  <2>4. ASSUME NEW s \in Seq(Result), NEW b \in BOOLEAN
        PROVE  [hw EXCEPT !.results = s, !.prepRun = b] \in Hw
    BY <1>0, ZenonT(40) DEF Hw
  <2>5. hw' = [hw EXCEPT !.results = RemoveAt(hw.results, k), !.prepRun = run]
    BY <2>2
  <2> HIDE DEF run
  <2>6. hw' \in Hw
    BY <2>3, <2>4, <2>5
  <2>7. Keeps(hw, hw', {"results", "prepRun"}) /\ hw'.results = RemoveAt(hw.results, k)
    BY <1>0, <2>5 DEF Keeps, Fields, Hw
  <2>8. rest(r) \in {Tail(app.todo), <<>>} /\ Tail(app.todo) \in Seq(Apis) /\ <<>> \in Seq(Apis)
    <3>1. app.todo \in Seq(Apis)
      BY <1>0 DEF App
    <3>2. Tail(app.todo) \in Seq(Apis)
      BY <1>0, <3>1, HeadTailProperties
    <3> QED BY <3>2 DEF rest
  <2>9. ASSUME NEW t \in Seq(Apis), app' = [app EXCEPT !.waiting = FALSE, !.woken = FALSE, !.todo = t]
        PROVE  app' \in App /\ app'.todo = t /\ ~app'.waiting /\ ~app'.woken /\ app'.wants = app.wants
    BY <1>0, <2>9 DEF App
  <2>10. /\ app' \in App /\ app'.todo = rest(r) /\ ~app'.waiting /\ ~app'.woken /\ app'.wants = app.wants
    BY <2>2, <2>8, <2>9
  <2>11. app'.todo = <<>> \/ hw.results[k].ok \/ Head(app.todo) \in Slow
    BY <2>1, <2>10 DEF rest, r, c, Slow
  <2> QED BY <2>1, <2>6, <2>7, <2>8, <2>10, <2>11 DEF c
<1> QED BY <1>1, <1>2

LEMMA WaitInd ==
  ASSUME Ind, waitAPIResult
  PROVE  Ind'
<1>0. /\ config \in Configs /\ hw \in Hw /\ apiQ \in Seq(Apis) /\ app \in App /\ note \in Note
      /\ config' = config /\ apiQ' = apiQ /\ note' = note /\ Sound(hw)
  BY Before DEF waitAPIResult
<1>1. app.waiting /\ app.todo # <<>> /\ app.todo \in Plans
  BY DEF Ind, Planned, waitAPIResult
<1>2. CASE hw' = hw /\ app' = [app EXCEPT !.woken = FALSE]
  <2>1. app'.todo = app.todo /\ app'.waiting = app.waiting /\ ~app'.woken /\ app' \in App /\ app'.wants = app.wants
    BY <1>0, <1>2 DEF App
  <2>2. \A c : Asked(c)' <=> Asked(c)
    BY <2>1 DEF Asked
  <2>3. TypeOK' /\ Sound(hw)'
    BY <1>0, <1>2, <2>1, TypeStep, SoundStep
  <2>4. QuickOne'
    BY <1>0, <1>2, <2>2 DEF Ind, QuickOne
  <2>5. SlowOne'
    BY <1>0, <1>2, <2>2 DEF Ind, SlowOne, OneStage, Alive
  <2>6. Planned' /\ Refreshed' /\ LongshotLeft' /\ Wanted'
    BY <1>0, <1>1, <1>2, <2>1 DEF Ind, Planned, Refreshed, ToRestart, LongshotLeft, Wanted
  <2>7. RetroOK'
    <3>1. Retro' <=> Retro
      BY <1>0 DEF Retro
    <3> QED BY <1>2, <2>1, <3>1 DEF Ind, RetroOK
  <2>8. DiedOnce' /\ Measuring' /\ Announced' /\ Known'
    BY <1>0, <1>2 DEF Ind, DiedOnce, Measuring, Announced, Known
  <2> QED BY <2>3, <2>4, <2>5, <2>6, <2>7, <2>8 DEF Ind
<1>3. CASE \E i \in 1 .. Len(hw.results) :
              /\ hw.results[i].api = Head(app.todo)
              /\ app'.todo \in {Tail(app.todo), <<>>} /\ ~app'.waiting /\ ~app'.woken
              /\ app' \in App /\ app'.wants = app.wants
              /\ hw' \in Hw /\ Keeps(hw, hw', {"results", "prepRun"})
              /\ hw'.results = RemoveAt(hw.results, i)
  <2>1. PICK i \in 1 .. Len(hw.results) :
              /\ hw.results[i].api = Head(app.todo)
              /\ app'.todo \in {Tail(app.todo), <<>>} /\ ~app'.waiting /\ ~app'.woken
              /\ app' \in App /\ app'.wants = app.wants
              /\ hw' \in Hw /\ Keeps(hw, hw', {"results", "prepRun"})
              /\ hw'.results = RemoveAt(hw.results, i)
    BY <1>3
  <2>2. PICK c : c = Head(app.todo)
    OBVIOUS
  <2>3. hw.results \in Seq(Result)
    BY <1>0 DEF Hw
  <2>4. /\ \A x : Answered(hw'.results, x) => Answered(hw.results, x)
        /\ \A x : AnsweredOnce(hw.results, x) => AnsweredOnce(hw'.results, x) /\ (x = c => ~Answered(hw'.results, x))
        /\ \A k \in 1 .. Len(hw'.results) : \E j \in 1 .. Len(hw.results) : hw'.results[k] = hw.results[j]
    <3>1. PICK s \in Seq(Result) : s = hw.results
      BY <2>3
    <3>2. PICK r : r = hw'.results
      OBVIOUS
    <3>3. i \in 1 .. Len(s) /\ r = RemoveAt(s, i) /\ s[i].api = c
      BY <2>1, <2>2, <3>1, <3>2
    <3>4. ASSUME NEW x
          PROVE  /\ Answered(r, x) => Answered(s, x)
                 /\ AnsweredOnce(s, x) => AnsweredOnce(r, x) /\ (x = s[i].api => ~Answered(r, x))
                 /\ \A k \in 1 .. Len(r) : \E j \in 1 .. Len(s) : r[k] = s[j]
      <4>1. Answered(r, x) => Answered(s, x)
        BY <3>1, <3>3, AnswerTaken
      <4>2. AnsweredOnce(s, x) => AnsweredOnce(r, x)
        BY <3>1, <3>3, AnswerTaken
      <4>3. AnsweredOnce(s, x) => (x = s[i].api => ~Answered(r, x))
        BY <3>1, <3>3, AnswerTaken
      <4>4. \A k \in 1 .. Len(r) : \E j \in 1 .. Len(s) : r[k] = s[j]
        BY <3>1, <3>3, AnswersLeft
      <4> QED BY <4>1, <4>2, <4>3, <4>4
    <3> QED BY <3>1, <3>2, <3>3, <3>4
  <2>5. Answered(hw.results, c) /\ Asked(c) /\ \A x : Asked(x) <=> x = c
    BY <1>1, <2>1, <2>2 DEF Answered, Asked
  <2>6. \A x : ~Asked(x)'
    BY <2>1 DEF Asked
  <2>7. /\ hw'.state = hw.state /\ hw'.preview = hw.preview /\ hw'.live = hw.live
        /\ hw'.longshot = hw.longshot /\ hw'.recording = hw.recording /\ hw'.retro = hw.retro
        /\ hw'.capture = hw.capture /\ hw'.ready = hw.ready
        /\ hw'.dead = hw.dead /\ hw'.prep = hw.prep /\ hw'.evts = hw.evts
        /\ hw'.enabled = hw.enabled /\ hw'.delayed = hw.delayed /\ hw'.evtResult = hw.evtResult
    BY <2>1 DEF Keeps, Fields
  <2>8. /\ Tail(app.todo) \in Plans /\ <<>> \in Plans
        /\ \A d \in {"longshotOff", "enableMsg", "disableMsg"} : app'.todo # <<d>>
        /\ app'.todo = <<"other", "setParamsRestart">> => c = "setParamsStop"
        /\ app'.todo = <<"setParamsRestart">> => app.todo = <<"other", "setParamsRestart">>
        /\ c \in Apis
    <3>1. /\ \A d \in {"longshotOff", "enableMsg", "disableMsg"} : <<>> # <<d>>
          /\ <<>> # <<"other", "setParamsRestart">> /\ <<>> # <<"setParamsRestart">> /\ <<>> \in Plans
      BY DEF Plans
    <3>2. /\ Tail(app.todo) \in Plans /\ Head(app.todo) \in Apis
          /\ \A d \in {"longshotOff", "enableMsg", "disableMsg"} : Tail(app.todo) # <<d>>
          /\ Tail(app.todo) = <<"other", "setParamsRestart">> => Head(app.todo) = "setParamsStop"
          /\ Tail(app.todo) = <<"setParamsRestart">> => app.todo = <<"other", "setParamsRestart">>
      <4>1. {"longshotOff", "enableMsg", "disableMsg"} \subseteq
              Apis \ {"preTakePicture", "takePicture", "prepareSnapshot", "setParams",
                      "setParamsStop", "other", "preStartRecording"}
        BY DEF Apis
      <4> QED BY <1>1, <4>1, PlanFacts
    <3> QED BY <2>1, <2>2, <3>1, <3>2
  <2>9. TypeOK'
    BY <1>0, <2>1, TypeStep
  <2>10. Sound(hw)'
    <3>1. Sound(hw')
      BY <1>0, <2>7, Zenon DEF Sound
    <3> QED BY <1>0, <3>1, SoundStep
  <2>11. Planned'
    BY <2>1, <2>8 DEF Planned
  <2>12. QuickOne'
    <3>1. ASSUME NEW d \in Apis \ (OwnCalls \cup Slow)
          PROVE  ~Has(apiQ', d) /\ ~Answered(hw'.results, d) /\ Once(apiQ', d) /\ AnsweredOnce(hw'.results, d)
      BY <1>0, <2>4, <2>5 DEF Ind, QuickOne
    <3> QED BY <3>1 DEF QuickOne
  <2>13. SlowOne'
    <3>1. ASSUME Alive', NEW d \in Slow
          PROVE  OneStage(d)'
      <4>1. Alive
        BY <2>7, <3>1 DEF Alive
      <4>2. OneStage(d)
        BY <4>1 DEF Ind, SlowOne
      <4>3. Due(hw', d) <=> Due(hw, d)
        BY <2>7 DEF Due
      <4>4. ~Has(apiQ', d) /\ ~Answered(hw'.results, d) /\ ~Has(hw'.evts, Ev(d)) /\ ~Due(hw', d)
        <5>1. CASE d = c
          BY <1>0, <2>4, <2>5, <2>7, <4>2, <4>3, <5>1 DEF OneStage
        <5>2. CASE d # c
          BY <1>0, <2>4, <2>5, <2>7, <4>2, <4>3, <5>2 DEF OneStage
        <5> QED BY <5>1, <5>2
      <4>5. Once(apiQ', d) /\ AnsweredOnce(hw'.results, d) /\ Once(hw'.evts, Ev(d))
        BY <1>0, <2>4, <2>7, <4>2 DEF OneStage
      <4> QED BY <4>4, <4>5 DEF OneStage
    <3> QED BY <3>1, Zenon DEF SlowOne
  <2>14. RetroOK'
    <3>1. Retro' <=> Retro
      BY <1>0 DEF Retro
    <3>2. Has(app'.todo, "takePicture") => Has(app.todo, "takePicture")
      <4>1. app.todo \in Seq(Apis)
        BY <1>0 DEF App
      <4>2. Has(Tail(app.todo), "takePicture") => Has(app.todo, "takePicture")
        BY <1>1, <4>1, Taken
      <4>3. ~Has(<<>>, "takePicture")
        BY DEF Has
      <4> QED BY <2>1, <4>2, <4>3
    <3> QED BY <2>7, <3>1, <3>2 DEF Ind, RetroOK
  <2>15. Refreshed'
    <3>1. ToRestart' => ToRestart
      <4>1. Answered(hw'.results, "setParamsStop") => ToRestart
        BY <2>4 DEF ToRestart
      <4>2. app'.todo = <<"other", "setParamsRestart">> => ToRestart
        BY <2>5, <2>8 DEF ToRestart
      <4>3. app'.todo = <<"setParamsRestart">> => ToRestart
        BY <2>8 DEF ToRestart
      <4> QED BY <4>1, <4>2, <4>3 DEF ToRestart
    <3> QED BY <2>7, <3>1 DEF Ind, Refreshed, Halted
  <2>16. LongshotLeft'
    BY <2>8 DEF LongshotLeft
  <2>17. Wanted'
    <3>1. ~hw.dead /\ app.wants => hw.enabled \/ hw.delayed
      <4>1. app.todo = <<"enableMsg">> => c = "enableMsg"
        BY <2>2, OnlyTails
      <4> QED BY <2>5, <4>1 DEF Ind, Wanted
    <3> QED BY <2>1, <2>7, <2>8, <3>1 DEF Wanted
  <2>18. Known'
    BY <2>4 DEF Ind, Known
  <2>19. DiedOnce' /\ Measuring' /\ Announced'
    BY <1>0, <2>7 DEF Ind, DiedOnce, Measuring, Announced
  <2> QED BY <2>9, <2>10, <2>11, <2>12, <2>13, <2>14, <2>15, <2>16, <2>17, <2>18, <2>19 DEF Ind
<1> QED BY <1>2, <1>3, AnswerFound

-----------------------------------------------------------------------------
(* The state machine's steps.                                               *)

LEMMA AnswersDiffer ==
  ASSUME NEW h \in Hw, NEW e, NEW g, Answers(h, e, g)
  PROVE  g.results # h.results
<1>1. PICK ok \in BOOLEAN : g.results = Append(h.results, [api |-> e, ok |-> ok])
  BY DEF Answers
<1>2. h.results \in Seq(Result)
  BY DEF Hw
<1>3. PICK r : r = [api |-> e, ok |-> ok]
  OBVIOUS
<1>4. PICK S : S = Result \cup {r}
  OBVIOUS
<1>5. h.results \in Seq(S) /\ r \in S
  <2>1. Len(h.results) \in Nat /\ \A i \in 1 .. Len(h.results) : h.results[i] \in Result
    BY <1>2, LenProperties, ElementOfSeq
  <2>2. h.results \in Seq(S)
    BY <1>2, <1>4, SMT
  <2> QED BY <1>4, <2>2
<1>6. Len(Append(h.results, r)) = Len(h.results) + 1 /\ Len(h.results) \in Nat
  BY <1>5, AppendProperties, LenProperties
<1> QED BY <1>1, <1>3, <1>6

\* What the steps that a call may cause have in common.
Summary(h, e, g) ==
  /\ g.results = h.results \/ Answers(h, e, g)
  /\ g.results = h.results => e \in {"regFace", "stopCaptureChannel"} \cup Slow
  /\ g.dead = h.dead /\ g.retro = h.retro /\ g.evtResult = h.evtResult
  /\ g.evts = h.evts \/ (e = "longshotOff" /\ g.evts = Append(h.evts, "snapshotDone"))
  /\ h.prep => g.prep
  /\ g.prep => h.prep \/ (e = "prepareSnapshot" /\ g.results = h.results)
  /\ Due(g, "takePicture") => Due(h, "takePicture") \/ (e = "takePicture" /\ g.results = h.results)
  /\ h.longshot => g.longshot \/ (e = "longshotOff" /\ g.capture # "still")
  /\ g.capture = "still" => h.capture = "still" \/ (e = "takePicture" /\ h.state = "PREVIEWING" /\ ~h.dead)

LEMMA CallSummary ==
  ASSUME NEW h \in Hw, NEW e, NEW g \in Hw, Kinds(h, e, g)
  PROVE  Summary(h, e, g)
<1>1. CASE Settles(h, e, g)
  <2>1. /\ g.dead = h.dead /\ g.retro = h.retro /\ g.evtResult = h.evtResult /\ g.evts = h.evts
        /\ g.prep = h.prep /\ g.capture = h.capture /\ g.ready = h.ready /\ g.longshot = h.longshot
    BY <1>1 DEF Settles, Keeps, Fields, Settings
  <2>2. Answers(h, e, g) /\ g.results # h.results
    BY <1>1, AnswersDiffer DEF Settles
  <2> QED BY <2>1, <2>2 DEF Summary, Due
<1>2. CASE Ignores(h, e, g)
  <2>1. /\ g.dead = h.dead /\ g.retro = h.retro /\ g.evtResult = h.evtResult /\ g.evts = h.evts
        /\ g.prep = h.prep /\ g.capture = h.capture /\ g.ready = h.ready /\ g.longshot = h.longshot
        /\ g.results = h.results
    BY <1>2 DEF Ignores, Keeps, Fields
  <2> QED BY <1>2, <2>1 DEF Summary, Due, Ignores
<1>3. CASE Measures(h, e, g)
  <2>1. /\ g.dead = h.dead /\ g.retro = h.retro /\ g.evtResult = h.evtResult /\ g.evts = h.evts
        /\ g.capture = h.capture /\ g.ready = h.ready /\ g.longshot = h.longshot
        /\ g.results = h.results
    BY <1>3 DEF Measures, Keeps, Fields, Settings
  <2> QED BY <1>3, <2>1 DEF Summary, Due, Measures, Slow
<1>4. CASE Starts(h, e, g)
  <2>1. /\ g.dead = h.dead /\ g.retro = h.retro /\ g.evtResult = h.evtResult /\ g.evts = h.evts
        /\ g.prep = h.prep /\ g.longshot = h.longshot
    BY <1>4 DEF Starts, Keeps, Fields, Settings, Start
  <2>2. /\ e = "takePicture" /\ ~h.dead /\ h.state = "PREVIEWING"
        /\ IF h.retro THEN g.results = h.results ELSE Answers(h, e, g)
    BY <1>4 DEF Starts
  <2> QED BY <2>1, <2>2, AnswersDiffer DEF Summary, Due, Slow
<1>5. CASE StartFails(h, e, g)
  <2>1. /\ g.dead = h.dead /\ g.retro = h.retro /\ g.evtResult = h.evtResult /\ g.evts = h.evts
        /\ g.prep = h.prep /\ g.capture = h.capture /\ g.ready = h.ready /\ g.longshot = h.longshot
    BY <1>5 DEF StartFails, Keeps, Fields, Settings
  <2>2. Answers(h, e, g) /\ g.results # h.results
    BY <1>5, AnswersDiffer DEF StartFails
  <2> QED BY <2>1, <2>2 DEF Summary, Due
<1>6. CASE Ends(h, e, g)
  <2>1. /\ g.dead = h.dead /\ g.retro = h.retro /\ g.evtResult = h.evtResult
        /\ g.prep = h.prep /\ g.ready = h.ready
    BY <1>6 DEF Ends, Keeps, Fields, Settings
  <2>2. Answers(h, e, g) /\ g.results # h.results
    BY <1>6, AnswersDiffer DEF Ends
  <2>3. /\ g.capture = IF h.capture = "still" THEN "none" ELSE h.capture
        /\ IF e = "longshotOff" THEN g.evts = Append(h.evts, "snapshotDone")
           ELSE g.evts = h.evts /\ g.longshot = h.longshot
    BY <1>6 DEF Ends
  <2> QED BY <2>1, <2>2, <2>3 DEF Summary, Due
<1>7. CASE Releases(h, e, g)
  <2>1. /\ g.dead = h.dead /\ g.retro = h.retro /\ g.evtResult = h.evtResult /\ g.evts = h.evts
        /\ g.prep = h.prep /\ g.ready = h.ready /\ g.longshot = h.longshot
    BY <1>7 DEF Releases, Keeps, Fields, Settings
  <2>2. Answers(h, e, g) /\ g.results # h.results /\ g.capture = "none"
    BY <1>7, AnswersDiffer DEF Releases
  <2> QED BY <2>1, <2>2 DEF Summary, Due
<1>8. CASE Lives(h, e, g)
  <2>1. /\ g.dead = h.dead /\ g.retro = h.retro /\ g.evtResult = h.evtResult /\ g.evts = h.evts
        /\ g.prep = h.prep /\ g.capture = h.capture /\ g.ready = h.ready /\ g.longshot = h.longshot
    BY <1>8 DEF Lives, Keeps, Fields, Settings
  <2>2. Answers(h, e, g) /\ g.results # h.results
    BY <1>8, AnswersDiffer DEF Lives
  <2> QED BY <2>1, <2>2 DEF Summary, Due
<1>9. CASE Longs(h, e, g)
  <2>1. /\ g.dead = h.dead /\ g.retro = h.retro /\ g.evtResult = h.evtResult /\ g.evts = h.evts
        /\ g.prep = h.prep /\ g.capture = h.capture /\ g.ready = h.ready
    BY <1>9 DEF Longs, Keeps, Fields, Settings
  <2>2. Answers(h, e, g) /\ g.results # h.results
    BY <1>9, AnswersDiffer DEF Longs
  <2>3. /\ e \in {"longshotOn", "longshotOff"}
        /\ e = "longshotOn" => (h.longshot => g.longshot)
        /\ e = "longshotOff" => h.capture # "still"
    BY <1>9 DEF Longs
  <2> QED BY <2>1, <2>2, <2>3 DEF Summary, Due
<1>10. CASE Repeats(h, e, g)
  <2>1. /\ g.dead = h.dead /\ g.retro = h.retro /\ g.evtResult = h.evtResult /\ g.evts = h.evts
        /\ g.prep = h.prep /\ g.capture = h.capture /\ g.ready = h.ready /\ g.longshot = h.longshot
    BY <1>10 DEF Repeats, Keeps, Fields, Settings
  <2>2. Answers(h, e, g) /\ g.results # h.results
    BY <1>10, AnswersDiffer DEF Repeats
  <2> QED BY <2>1, <2>2 DEF Summary, Due
<1> QED BY <1>1, <1>2, <1>3, <1>4, <1>5, <1>6, <1>7, <1>8, <1>9, <1>10 DEF Kinds

\* A call that waits for its caller only.
LEMMA QuickCall ==
  ASSUME Ind, NEW e \in Apis \ (OwnCalls \cup Slow), Has(apiQ, e)
  PROVE  /\ Asked(e) /\ ~Answered(hw.results, e) /\ app.waiting /\ app.todo # <<>> /\ app.todo \in Plans
         /\ e \notin {"preTakePicture", "setParams", "setParamsStop", "other", "preStartRecording"}
              => app.todo = <<e>>
         /\ \A c : Asked(c) => c = e
<1>1. Asked(e) /\ ~Answered(hw.results, e)
  BY DEF Ind, QuickOne
<1>2. app.waiting /\ app.todo # <<>> /\ app.todo \in Plans /\ Head(app.todo) = e
  BY <1>1 DEF Ind, Planned, Asked
<1>3. e \notin {"preTakePicture", "setParams", "setParamsStop", "other", "preStartRecording"} => app.todo = <<e>>
  BY <1>2, PlanFacts DEF Slow
<1> QED BY <1>1, <1>2, <1>3 DEF Asked

LEMMA CallExpected ==
  ASSUME Ind, NEW e \in Apis, Has(apiQ, e)
  PROVE  Expects(hw, e)
<1>1. hw \in Hw /\ Sound(hw) /\ ConfigTyped
  BY Before
<1>2. ASSUME e = "setParamsRestart" PROVE Halted(hw)
  <2>1. e \in Apis \ (OwnCalls \cup Slow)
    BY <1>2 DEF Apis, OwnCalls, Slow
  <2>2. app.todo = <<"setParamsRestart">> /\ ~Answered(hw.results, "setParamsRestart")
    BY <1>2, <2>1, QuickCall
  <2> QED BY <2>2 DEF Ind, Refreshed, ToRestart
<1>3. ASSUME e = "longshotOff" PROVE hw.longshot
  <2>1. e \in Apis \ (OwnCalls \cup Slow)
    BY <1>3 DEF Apis, OwnCalls, Slow
  <2>2. app.todo = <<"longshotOff">> /\ ~Answered(hw.results, "longshotOff")
    BY <1>3, <2>1, QuickCall
  <2> QED BY <2>2 DEF Ind, LongshotLeft
<1> QED BY <1>1, <1>2, <1>3 DEF Expects

\* A step that handles call e.
CallStep(e) ==
  /\ config' = config /\ note' = note
  /\ app'.todo = app.todo /\ app'.waiting = app.waiting /\ app'.wants = app.wants
  /\ (app'.woken => app'.waiting) /\ app' \in App
  /\ app'.woken <=> app.woken \/ (app.waiting /\ hw'.results # hw.results)
  /\ e \in Apis /\ Has(apiQ, e) /\ apiQ' \in Seq(Apis)
  /\ \A d \in Apis : /\ Has(apiQ, d) <=> Has(apiQ', d) \/ d = e
                     /\ Once(apiQ, d) => Once(apiQ', d) /\ (d = e => ~Has(apiQ', d))
  /\ hw' \in Hw /\ Sound(hw') /\ Kinds(hw, e, hw') /\ Summary(hw, e, hw') /\ Moves(hw, e, hw')
  /\ \A c : /\ Answered(hw'.results, c) <=> Answered(hw.results, c) \/ (c = e /\ hw'.results # hw.results)
            /\ AnsweredOnce(hw.results, c) /\ ((c = e /\ hw'.results # hw.results) => ~Answered(hw.results, c))
                 => AnsweredOnce(hw'.results, c)
  /\ \A d \in Evts : /\ Has(hw.evts, d) => Has(hw'.evts, d)
                     /\ d # "snapshotDone" => /\ Has(hw'.evts, d) <=> Has(hw.evts, d)
                                              /\ Once(hw'.evts, d) <=> Once(hw.evts, d)
  /\ Alive' <=> Alive

LEMMA CallStepIs ==
  ASSUME Ind, smEvtProcApi
  PROVE  CallStep(Head(apiQ))
<1>0. /\ config \in Configs /\ hw \in Hw /\ apiQ \in Seq(Apis) /\ app \in App /\ apiQ # <<>>
      /\ config' = config /\ apiQ' = Tail(apiQ) /\ note' = note
      /\ hw.results \in Seq(Result) /\ hw.evts \in Seq(Evts)
  BY Before DEF smEvtProcApi, Hw
<1>1. PICK e : e = Head(apiQ)
  OBVIOUS
<1>2. apiQ' \in Seq(Apis) /\ e \in Apis /\ Has(apiQ, e)
  BY <1>0, <1>1, Taken
<1>3. \A d \in Apis : /\ Has(apiQ, d) <=> Has(apiQ', d) \/ d = e
                      /\ Once(apiQ, d) => Once(apiQ', d) /\ (d = e => ~Has(apiQ', d))
  BY <1>0, <1>1, Taken
<1>4. hw' \in stateMachine(hw, e)
  BY <1>1 DEF smEvtProcApi, handled
<1>5. Call(hw, e, hw')
  BY <1>2, <1>4, CallExpected, StateMachineCall
<1>6. hw' \in Hw /\ Sound(hw') /\ Kinds(hw, e, hw') /\ Moves(hw, e, hw')
  BY <1>5 DEF Call
<1>7. Summary(hw, e, hw')
  BY <1>0, <1>6, CallSummary
<1>8. /\ app'.todo = app.todo /\ app'.waiting = app.waiting /\ app'.wants = app.wants
      /\ (app'.woken => app'.waiting) /\ app' \in App
      /\ app'.woken <=> app.woken \/ (app.waiting /\ hw'.results # hw.results)
  <2>1. app' = [app EXCEPT !.woken = @ \/ (app.waiting /\ hw'.results # hw.results)]
    BY DEF smEvtProcApi, handled
  <2>2. app.woken => app.waiting
    BY DEF Ind, Planned
  <2>3. PICK w : w = (app.waiting /\ hw'.results # hw.results)
    OBVIOUS
  <2>4. w \in BOOLEAN /\ app' = [app EXCEPT !.woken = @ \/ w] /\ (w => app.waiting)
    BY <1>0, <2>1, <2>3 DEF App
  <2>5. app' \in App
    BY <1>0, <2>4 DEF App
  <2>6. app'.woken <=> app.woken \/ w
    BY <1>0, <2>4 DEF App
  <2> QED BY <1>0, <2>2, <2>3, <2>4, <2>5, <2>6 DEF App
<1>9. \A c : /\ Answered(hw'.results, c) <=> Answered(hw.results, c) \/ (c = e /\ hw'.results # hw.results)
             /\ AnsweredOnce(hw.results, c) /\ ((c = e /\ hw'.results # hw.results) => ~Answered(hw.results, c))
                  => AnsweredOnce(hw'.results, c)
  <2>1. CASE hw'.results = hw.results
    BY <2>1
  <2>2. CASE Answers(hw, e, hw')
    <3>1. PICK ok \in BOOLEAN : hw'.results = Append(hw.results, [api |-> e, ok |-> ok])
      BY <2>2 DEF Answers
    <3>2. PICK r : r = [api |-> e, ok |-> ok]
      OBVIOUS
    <3>3. r \in Result /\ r.api = e
      BY <1>2, <3>1, <3>2 DEF Result
    <3>4. hw'.results # hw.results
      BY <1>0, <2>2, AnswersDiffer
    <3> QED BY <1>0, <3>1, <3>2, <3>3, <3>4, AnswerAppended
  <2> QED BY <1>7, <2>1, <2>2 DEF Summary
<1>10. \A d \in Evts : /\ Has(hw.evts, d) => Has(hw'.evts, d)
                       /\ d # "snapshotDone" => /\ Has(hw'.evts, d) <=> Has(hw.evts, d)
                                                /\ Once(hw'.evts, d) <=> Once(hw.evts, d)
  <2>1. "snapshotDone" \in Evts
    BY DEF Evts
  <2>2. CASE hw'.evts = hw.evts
    BY <2>2
  <2>3. CASE hw'.evts = Append(hw.evts, "snapshotDone")
    BY <1>0, <2>1, <2>3, Appended
  <2> QED BY <1>7, <2>2, <2>3 DEF Summary
<1>11. Alive' <=> Alive
  <2>1. "daemonDied" \in Evts
    BY DEF Evts
  <2>2. hw'.dead = hw.dead
    BY <1>7 DEF Summary
  <2> QED BY <1>10, <2>1, <2>2 DEF Alive
<1>12. CallStep(e)
  BY <1>0, <1>2, <1>3, <1>6, <1>7, <1>8, <1>9, <1>10, <1>11 DEF CallStep
<1> QED BY <1>1, <1>12

LEMMA CallOrder ==
  ASSUME Ind, NEW e, CallStep(e)
  PROVE  QuickOne' /\ SlowOne' /\ DiedOnce' /\ Planned' /\ Known' /\ Announced'
<1>0. e \in Apis /\ Has(apiQ, e)
  BY DEF CallStep
<1>1. \A c : Asked(c)' <=> Asked(c)
  BY DEF CallStep, Asked
<1>2. /\ \A d \in Apis : /\ Has(apiQ, d) <=> Has(apiQ', d) \/ d = e
                         /\ Once(apiQ, d) => Once(apiQ', d) /\ (d = e => ~Has(apiQ', d))
      /\ \A c : /\ Answered(hw'.results, c) <=> Answered(hw.results, c) \/ (c = e /\ hw'.results # hw.results)
                /\ AnsweredOnce(hw.results, c) /\ ((c = e /\ hw'.results # hw.results) => ~Answered(hw.results, c))
                     => AnsweredOnce(hw'.results, c)
      /\ \A d \in Evts : /\ Has(hw.evts, d) => Has(hw'.evts, d)
                         /\ d # "snapshotDone" => /\ Has(hw'.evts, d) <=> Has(hw.evts, d)
                                                  /\ Once(hw'.evts, d) <=> Once(hw.evts, d)
  BY DEF CallStep
<1>3. QuickOne'
  <2>1. ASSUME NEW c \in Apis \ (OwnCalls \cup Slow)
        PROVE  /\ Has(apiQ', c) \/ Answered(hw'.results, c) => Asked(c)'
               /\ ~(Has(apiQ', c) /\ Answered(hw'.results, c))
               /\ Once(apiQ', c) /\ AnsweredOnce(hw'.results, c)
    <3>1. /\ Has(apiQ, c) \/ Answered(hw.results, c) => Asked(c)
          /\ ~(Has(apiQ, c) /\ Answered(hw.results, c))
          /\ Once(apiQ, c) /\ AnsweredOnce(hw.results, c)
      BY DEF Ind, QuickOne
    <3>2. CASE c = e
      BY <1>0, <1>1, <1>2, <3>1, <3>2
    <3>3. CASE c # e
      BY <1>0, <1>1, <1>2, <3>1, <3>3
    <3> QED BY <3>2, <3>3
  <2> QED BY <2>1 DEF QuickOne
<1>4. SlowOne'
  <2>1. ASSUME Alive', NEW c \in Slow
        PROVE  OneStage(c)'
    <3>1. OneStage(c)
      BY <2>1 DEF Ind, SlowOne, CallStep
    <3>2. c \in Apis /\ Ev(c) \in Evts /\ Ev(c) # "snapshotDone"
      BY DEF Slow, Apis, Ev, Evts
    <3>3. Due(hw', c) => Due(hw, c) \/ (c = e /\ hw'.results = hw.results)
      <4>1. Summary(hw, e, hw')
        BY DEF CallStep
      <4>2. CASE c = "prepareSnapshot"
        BY <4>1, <4>2 DEF Summary, Due
      <4>3. CASE c = "takePicture"
        BY <4>1, <4>3 DEF Summary
      <4> QED BY <4>2, <4>3 DEF Slow
    <3>4. /\ Has(apiQ, c) <=> Has(apiQ', c) \/ c = e
          /\ Once(apiQ, c) => Once(apiQ', c) /\ (c = e => ~Has(apiQ', c))
          /\ Answered(hw'.results, c) <=> Answered(hw.results, c) \/ (c = e /\ hw'.results # hw.results)
          /\ AnsweredOnce(hw.results, c) /\ ((c = e /\ hw'.results # hw.results) => ~Answered(hw.results, c))
               => AnsweredOnce(hw'.results, c)
          /\ Has(hw'.evts, Ev(c)) <=> Has(hw.evts, Ev(c))
          /\ Once(hw'.evts, Ev(c)) <=> Once(hw.evts, Ev(c))
      BY <1>2, <3>2
    <3>5. Asked(c)' <=> Asked(c)
      BY <1>1
    <3>6. CASE c = e
      BY <3>1, <3>3, <3>4, <3>5, <3>6, Zenon DEF OneStage
    <3>7. CASE c # e
      BY <3>1, <3>3, <3>4, <3>5, <3>7, Zenon DEF OneStage
    <3> QED BY <3>6, <3>7
  <2> QED BY <2>1, Zenon DEF SlowOne
<1>5. DiedOnce'
  <2>1. "daemonDied" \in Evts
    BY DEF Evts
  <2>2. hw'.dead = hw.dead
    BY DEF CallStep, Summary
  <2> QED BY <1>2, <2>1, <2>2 DEF Ind, DiedOnce
<1>6. Planned'
  BY DEF CallStep, Ind, Planned
<1>7. Known'
  <2>1. CASE hw'.results = hw.results
    BY <2>1 DEF Ind, Known
  <2>2. CASE Answers(hw, e, hw')
    <3>1. PICK ok \in BOOLEAN : hw'.results = Append(hw.results, [api |-> e, ok |-> ok])
      BY <2>2 DEF Answers
    <3>2. PICK r : r = [api |-> e, ok |-> ok]
      OBVIOUS
    <3>3. r \in Result /\ r.api = e
      BY <1>0, <3>1, <3>2 DEF Result
    <3>4. hw.results \in Seq(Result)
      BY Before DEF Hw
    <3>5. \A i \in 1 .. Len(hw'.results) : (\E j \in 1 .. Len(hw.results) : hw'.results[i] = hw.results[j]) \/ hw'.results[i] = r
      BY <3>1, <3>2, <3>3, <3>4, AnswerAppended
    <3> QED BY <1>0, <3>3, <3>5 DEF Ind, Known
  <2> QED BY <2>1, <2>2 DEF CallStep, Summary
<1>8. Announced'
  <2>1. hw'.evtResult = hw.evtResult /\ note' = note /\ "snapshotDone" \in Evts
    BY DEF CallStep, Summary, Evts
  <2> QED BY <1>2, <2>1 DEF Ind, Announced
<1> QED BY <1>3, <1>4, <1>5, <1>6, <1>7, <1>8

LEMMA CallHalts ==
  ASSUME Ind, NEW e, CallStep(e), Halted(hw), ToRestart,
         e \notin {"setParamsStop", "other", "setParamsRestart"}
  PROVE  Halted(hw')
<1>1. Moves(hw, e, hw') /\ e \in Apis /\ Has(apiQ, e)
  BY DEF CallStep
<1>2. CASE e \in OwnCalls \cup {"prepareSnapshot"}
  BY <1>1, <1>2 DEF Moves, OwnCalls
<1>3. \E c \in {"setParamsStop", "other", "setParamsRestart"} : app.waiting => Asked(c)
  <2>1. CASE Answered(hw.results, "setParamsStop")
    <3>1. "setParamsStop" \in Apis \ (OwnCalls \cup Slow)
      BY DEF Apis, OwnCalls, Slow
    <3>2. Asked("setParamsStop")
      BY <2>1, <3>1 DEF Ind, QuickOne
    <3> QED BY <3>2
  <2>2. CASE app.todo = <<"other", "setParamsRestart">>
    <3>1. app.todo # <<>> /\ Head(app.todo) = "other"
      BY <2>2
    <3> QED BY <3>1 DEF Asked
  <2>3. CASE app.todo = <<"setParamsRestart">>
    <3>1. app.todo # <<>> /\ Head(app.todo) = "setParamsRestart"
      BY <2>3, OnlyTails
    <3> QED BY <3>1 DEF Asked
  <2> QED BY <2>1, <2>2, <2>3 DEF ToRestart
<1>4. CASE e = "takePicture"
  <2>1. ~Asked("takePicture")
    BY <1>3 DEF Asked
  <2>2. ~Alive
    BY <1>1, <1>4, <2>1 DEF Ind, SlowOne, OneStage, Slow
  <2> QED BY <1>1, <1>4, <2>2 DEF Moves, Alive
<1>5. CASE e \notin OwnCalls \cup Slow
  <2>1. Asked(e) /\ app.waiting
    BY <1>1, <1>5, QuickCall
  <2> QED BY <1>3, <2>1 DEF Asked
<1> QED BY <1>2, <1>4, <1>5 DEF Slow

LEMMA CallRestarts ==
  ASSUME Ind, NEW e, CallStep(e)
  PROVE  Refreshed' /\ LongshotLeft'
<1>0. /\ e \in Apis /\ Has(apiQ, e) /\ app'.todo = app.todo
      /\ Summary(hw, e, hw') /\ Moves(hw, e, hw')
  BY DEF CallStep
<1>1. \A c : Answered(hw'.results, c) <=> Answered(hw.results, c) \/ (c = e /\ hw'.results # hw.results)
  BY DEF CallStep
<1>2. ASSUME ToRestart'
      PROVE  Halted(hw')
  <2>1. CASE e = "setParamsStop"
    BY <1>0, <2>1 DEF Moves
  <2>2. CASE e # "setParamsStop"
    <3>1. ToRestart
      BY <1>0, <1>1, <1>2, <2>2 DEF ToRestart
    <3>2. Halted(hw)
      BY <3>1 DEF Ind, Refreshed
    <3>3. CASE e = "other"
      BY <1>0, <3>2, <3>3 DEF Moves
    <3>4. CASE e = "setParamsRestart"
      <4>1. e \in Apis \ (OwnCalls \cup Slow) /\ e \notin {"regFace", "stopCaptureChannel"} \cup Slow
        BY <1>0, <3>4 DEF OwnCalls, Slow
      <4>2. app.todo = <<e>> /\ \A c : Asked(c) => c = e
        BY <1>0, <3>4, <4>1, QuickCall
      <4>3. Answered(hw'.results, e)
        BY <1>0, <1>1, <4>1 DEF Summary
      <4>4. ~Answered(hw'.results, "setParamsStop")
        <5>1. "setParamsStop" \in Apis \ (OwnCalls \cup Slow)
          BY DEF Apis, OwnCalls, Slow
        <5>2. Answered(hw.results, "setParamsStop") => Asked("setParamsStop")
          BY <5>1 DEF Ind, QuickOne
        <5> QED BY <1>1, <2>2, <4>2, <5>2
      <4>5. app'.todo # <<"other", "setParamsRestart">>
        <5>1. <<"other", "setParamsRestart">>[1] = "other" /\ <<e>>[1] = e
          OBVIOUS
        <5> QED BY <1>0, <3>4, <4>2, <5>1
      <4> QED BY <1>2, <3>4, <4>3, <4>4, <4>5 DEF ToRestart
    <3>5. CASE e \notin {"setParamsStop", "other", "setParamsRestart"}
      BY <3>1, <3>2, <3>5, CallHalts
    <3> QED BY <2>2, <3>3, <3>4, <3>5
  <2> QED BY <2>1, <2>2
<1>3. LongshotLeft'
  <2>1. ASSUME app.todo = <<"longshotOff">>, ~Answered(hw'.results, "longshotOff")
        PROVE  hw'.longshot
    <3>1. hw.longshot
      BY <1>1, <2>1 DEF Ind, LongshotLeft
    <3>2. e = "longshotOff" => hw'.results # hw.results
      BY <1>0 DEF Summary, Slow
    <3>3. e # "longshotOff"
      BY <1>1, <2>1, <3>2
    <3> QED BY <1>0, <3>1, <3>3 DEF Summary
  <2> QED BY <1>0, <2>1 DEF LongshotLeft
<1> QED BY <1>2, <1>3 DEF Refreshed

LEMMA CallRetro ==
  ASSUME Ind, NEW e, CallStep(e)
  PROVE  RetroOK'
<1>0. /\ e \in Apis /\ Has(apiQ, e) /\ app'.todo = app.todo /\ config' = config
      /\ Summary(hw, e, hw') /\ Moves(hw, e, hw')
  BY DEF CallStep
<1>1. Retro' <=> Retro
  BY <1>0 DEF Retro
<1>2. ASSUME e \in {"longshotOff", "stopRecording", "stopPreview"}
      PROVE  ~Has(app.todo, "takePicture")
  <2>1. e \in Apis \ (OwnCalls \cup Slow) /\ e \notin {"preTakePicture", "setParams", "setParamsStop", "other", "preStartRecording"}
    BY <1>0, <1>2 DEF OwnCalls, Slow
  <2>2. app.todo = <<e>>
    BY <1>0, <2>1, QuickCall
  <2> QED BY <1>2, <2>2, OnlyTails
<1>3. ASSUME Retro, ~hw'.retro
      PROVE  /\ hw'.capture = "still" => hw'.longshot
             /\ Has(app.todo, "takePicture") => hw'.longshot \/ hw'.state \in Recording
  <2>1. /\ hw.capture = "still" => hw.longshot
        /\ Has(app.todo, "takePicture") => hw.longshot \/ hw.state \in Recording
    BY <1>0, <1>3 DEF Ind, RetroOK, Summary
  <2>2. ASSUME hw'.capture = "still" PROVE hw'.longshot
    <3>1. CASE hw.capture = "still"
      BY <1>0, <2>1, <2>2, <3>1 DEF Summary
    <3>2. CASE e = "takePicture" /\ hw.state = "PREVIEWING" /\ ~hw.dead
      <4>1. Asked("takePicture")
        BY <1>0, <3>2 DEF Ind, SlowOne, OneStage, Slow, Alive
      <4>2. Has(app.todo, "takePicture")
        <5>1. app.todo \in Seq(Apis) /\ app.todo # <<>>
          BY <4>1, Before DEF App, Asked
        <5> QED BY <4>1, <5>1, Taken DEF Asked
      <4>3. hw.longshot
        BY <2>1, <3>2, <4>2 DEF Recording
      <4> QED BY <1>0, <3>2, <4>3 DEF Summary
    <3> QED BY <1>0, <2>2, <3>1, <3>2 DEF Summary
  <2>3. ASSUME Has(app.todo, "takePicture") PROVE hw'.longshot \/ hw'.state \in Recording
    <3>1. e \notin {"longshotOff", "stopRecording", "stopPreview"}
      BY <1>2, <2>3
    <3> QED BY <1>0, <2>1, <2>3, <3>1 DEF Summary, Moves
  <2> QED BY <2>2, <2>3
<1> QED BY <1>0, <1>1, <1>3 DEF RetroOK

LEMMA CallMessages ==
  ASSUME Ind, NEW e, CallStep(e)
  PROVE  Measuring' /\ Wanted'
<1>0. /\ e \in Apis /\ Has(apiQ, e) /\ app'.todo = app.todo /\ app'.wants = app.wants
      /\ Summary(hw, e, hw') /\ Moves(hw, e, hw') /\ hw'.dead = hw.dead
  BY DEF CallStep, Summary
<1>1. \A c : Answered(hw'.results, c) <=> Answered(hw.results, c) \/ (c = e /\ hw'.results # hw.results)
  BY DEF CallStep
<1>2. Measuring'
  <2>1. "prepDone" \in Evts /\ "prepDone" # "snapshotDone"
    BY DEF Evts
  <2>2. Has(hw'.evts, "prepDone") <=> Has(hw.evts, "prepDone")
    BY <2>1 DEF CallStep
  <2> QED BY <1>0, <2>2 DEF Ind, Measuring, Moves, Summary
<1>3. ASSUME e = "disableMsg" PROVE app.todo = <<"disableMsg">>
  <2>1. e \in Apis \ (OwnCalls \cup Slow)
    BY <1>0, <1>3 DEF OwnCalls, Slow
  <2> QED BY <1>0, <1>3, <2>1, QuickCall
<1>4. app.todo = <<"disableMsg">> => ~app.wants
  BY DEF Ind, Wanted
<1>5. ASSUME ~hw.dead, app.wants, ~(app.todo = <<"enableMsg">> /\ ~Answered(hw'.results, "enableMsg"))
      PROVE  hw'.enabled \/ hw'.delayed
  <2>1. e # "disableMsg"
    BY <1>3, <1>4, <1>5
  <2>2. CASE ~(app.todo = <<"enableMsg">> /\ ~Answered(hw.results, "enableMsg"))
    <3>1. hw.enabled \/ hw.delayed
      BY <1>5, <2>2 DEF Ind, Wanted
    <3> QED BY <1>0, <2>1, <3>1 DEF Moves
  <2>3. CASE app.todo = <<"enableMsg">> /\ ~Answered(hw.results, "enableMsg")
    <3>1. e = "enableMsg"
      BY <1>1, <1>5, <2>3
    <3>2. hw.state # "PREPARE"
      <4>1. e \in Apis \ (OwnCalls \cup Slow)
        BY <1>0, <3>1 DEF OwnCalls, Slow
      <4>2. \A c : Asked(c) => c = e
        BY <1>0, <4>1, QuickCall
      <4>3. OneStage("prepareSnapshot")
        BY <1>5 DEF Ind, SlowOne, Slow, Alive
      <4>4. ~hw.prep /\ ~Has(hw.evts, "prepDone")
        BY <3>1, <4>2, <4>3 DEF OneStage, Due, Ev
      <4> QED BY <1>5, <4>4 DEF Ind, Measuring
    <3> QED BY <1>0, <3>1, <3>2 DEF Moves
  <2> QED BY <2>2, <2>3
<1> QED BY <1>0, <1>2, <1>4, <1>5 DEF Wanted

LEMMA CallInd ==
  ASSUME Ind, smEvtProcApi
  PROVE  Ind'
<1>1. PICK e : CallStep(e)
  BY CallStepIs
<1>2. TypeOK'
  <2>1. note' \in Note
    BY <1>1, Before DEF CallStep
  <2> QED BY <1>1, <2>1, Before, TypeStep DEF CallStep
<1>3. Sound(hw)'
  BY <1>1, SoundStep DEF CallStep
<1> QED BY <1>1, <1>2, <1>3, CallOrder, CallRestarts, CallRetro, CallMessages DEF Ind

\* What the steps that an event may cause have in common: what they answer,
\* and what they leave alone.
EventSummary(h, e, g) ==
  /\ \/ g.results = h.results
     \/ e = "prepDone" /\ g.results = Append(h.results, Yes("prepareSnapshot"))
     \/ e = "ready" /\ g.results = Append(h.results, Yes("takePicture"))
     \/ e = "snapshotDone" /\ g.results = Append(h.results, Yes("snapshotDone"))
     \/ e = "daemonDied" /\ g.results = Append(Append(h.results, Yes("prepareSnapshot")), Yes("takePicture"))
  /\ Keeps(h, g, {"state", "capture", "live", "pproc", "cmds", "results", "evtResult", "data"})
  /\ g.state = h.state \/ g.state \in {"STOPPED", "PREVIEWING", "RECORDING"}
  /\ h.state \in Recording => g.state \in Recording
  /\ g.state = "PREPARE" => e # "prepDone"
  /\ g.capture = "still" => h.capture = "still"
  /\ IF e = "snapshotDone" THEN g.evtResult ELSE g.evtResult = h.evtResult

LEMMA EventSummaryIs ==
  ASSUME NEW h \in Hw, NEW e, NEW g, EventStep(h, e, g)
  PROVE  EventSummary(h, e, g)
<1>1. CASE Announces(h, e, g)
  <2>1. Keeps(h, g, {"state", "capture", "live", "pproc", "cmds", "results", "evtResult", "data"})
    BY <1>1 DEF Announces, Keeps
  <2>2. /\ e = "snapshotDone" /\ g.evtResult
        /\ g.results = h.results \/ g.results = Append(h.results, Yes("snapshotDone"))
    BY <1>1 DEF Announces
  <2>3. CASE h.state \in {"PIC", "PREVIEW_PIC"}
    <3>1. g.state \in {"STOPPED", "PREVIEWING"} /\ g.capture = IF h.capture = "still" THEN "none" ELSE h.capture
      BY <1>1, <2>3 DEF Announces
    <3> QED BY <2>1, <2>2, <2>3, <3>1 DEF EventSummary, Recording
  <2>4. CASE h.state \notin {"PIC", "PREVIEW_PIC"}
    <3>1. g.capture = h.capture /\ IF h.state = "VIDEO_PIC" THEN g.state = "RECORDING" ELSE g.state = h.state
      BY <1>1, <2>4 DEF Announces
    <3> QED BY <2>1, <2>2, <2>4, <3>1 DEF EventSummary, Recording
  <2> QED BY <2>3, <2>4
<1>2. CASE Pictures(h, e, g)
  <2>1. /\ Keeps(h, g, {"state", "capture", "live", "pproc", "cmds", "results", "evtResult", "data"})
        /\ g.state = h.state /\ g.results = h.results /\ g.capture = h.capture /\ g.evtResult = h.evtResult
    BY <1>2 DEF Pictures, Keeps, Fields
  <2> QED BY <1>2, <2>1 DEF EventSummary, Pictures
<1>3. CASE Measured(h, e, g)
  <2>1. /\ Keeps(h, g, {"state", "capture", "live", "pproc", "cmds", "results", "evtResult", "data"})
        /\ g.capture = h.capture /\ g.evtResult = h.evtResult
    BY <1>3 DEF Measured, Keeps, Fields
  <2>2. /\ e = "prepDone"
        /\ IF h.state = "PREPARE" THEN g.state = "PREVIEWING" ELSE g.state = h.state
        /\ g.results = Append(h.results, Yes("prepareSnapshot")) \/ g.results = h.results
    BY <1>3 DEF Measured
  <2> QED BY <2>1, <2>2 DEF EventSummary, Recording
<1>4. CASE Queued(h, e, g)
  <2>1. /\ Keeps(h, g, {"state", "capture", "live", "pproc", "cmds", "results", "evtResult", "data"})
        /\ g.state = h.state /\ g.capture = h.capture /\ g.evtResult = h.evtResult
    BY <1>4 DEF Queued, Keeps, Fields
  <2>2. e = "ready" /\ (g.results = Append(h.results, Yes("takePicture")) \/ g.results = h.results)
    BY <1>4 DEF Queued
  <2> QED BY <2>1, <2>2 DEF EventSummary
<1>5. CASE Died(h, e, g)
  <2>1. /\ Keeps(h, g, {"state", "capture", "live", "pproc", "cmds", "results", "evtResult", "data"})
        /\ g.state = h.state /\ g.capture = h.capture /\ g.evtResult = h.evtResult
    BY <1>5 DEF Died, Keeps, Fields
  <2>2. /\ e = "daemonDied"
        /\ \/ g.results = h.results
           \/ g.results = Append(Append(h.results, Yes("prepareSnapshot")), Yes("takePicture"))
    BY <1>5 DEF Died
  <2> QED BY <2>1, <2>2 DEF EventSummary
<1> QED BY <1>1, <1>2, <1>3, <1>4, <1>5 DEF EventStep

\* The answers an event may cause.
EventAnswers(e, c) ==
  \/ e = "prepDone" /\ c = "prepareSnapshot"
  \/ e = "ready" /\ c = "takePicture"
  \/ e = "snapshotDone" /\ c = "snapshotDone"
  \/ e = "daemonDied" /\ c \in Slow

\* A step that handles event e.
EvtStep(h, e) ==
  /\ config' = config /\ note' = note /\ apiQ' = apiQ /\ apiQ = <<>>
  /\ app'.todo = app.todo /\ app'.waiting = app.waiting /\ app'.wants = app.wants
  /\ (app'.woken => app'.waiting) /\ app' \in App
  /\ app'.woken <=> app.woken \/ (app.waiting /\ hw'.results # hw.results)
  /\ h \in Hw /\ Keeps(hw, h, {"evts"})
  /\ e \in Evts /\ Has(hw.evts, e)
  /\ \A d \in Evts : /\ Has(hw.evts, d) <=> Has(hw'.evts, d) \/ d = e
                     /\ Once(hw.evts, d) => Once(hw'.evts, d) /\ (d = e => ~Has(hw'.evts, d))
  /\ EventStep(h, e, hw') /\ Sound(hw') /\ hw' \in Hw /\ EventSummary(h, e, hw')
  /\ \A c : /\ Answered(hw'.results, c) => Answered(hw.results, c) \/ EventAnswers(e, c)
            /\ Answered(hw.results, c) => Answered(hw'.results, c)
            /\ AnsweredOnce(hw.results, c) /\ (EventAnswers(e, c) => ~Answered(hw.results, c))
                 => AnsweredOnce(hw'.results, c)
  /\ \A i \in 1 .. Len(hw'.results) :
       \/ \E j \in 1 .. Len(hw.results) : hw'.results[i] = hw.results[j]
       \/ hw'.results[i].api \in Slow \cup {"snapshotDone"}

LEMMA EventAnswered ==
  ASSUME NEW s \in Seq(Result), NEW e, NEW r, NEW c,
         \/ r = s
         \/ e = "prepDone" /\ r = Append(s, Yes("prepareSnapshot"))
         \/ e = "ready" /\ r = Append(s, Yes("takePicture"))
         \/ e = "snapshotDone" /\ r = Append(s, Yes("snapshotDone"))
         \/ e = "daemonDied" /\ r = Append(Append(s, Yes("prepareSnapshot")), Yes("takePicture"))
  PROVE  /\ Answered(r, c) => Answered(s, c) \/ EventAnswers(e, c)
         /\ Answered(s, c) => Answered(r, c)
         /\ AnsweredOnce(s, c) /\ (EventAnswers(e, c) => ~Answered(s, c)) => AnsweredOnce(r, c)
         /\ \A i \in 1 .. Len(r) : (\E j \in 1 .. Len(s) : r[i] = s[j]) \/ r[i].api \in Slow \cup {"snapshotDone"}
<1>1. \A x \in {"prepareSnapshot", "takePicture", "snapshotDone"} : Yes(x) \in Result /\ Yes(x).api = x
  BY DEF Yes, Result, Apis, Evts
<1>2. CASE r = s
  BY <1>2
<1>3. ASSUME NEW x \in {"prepareSnapshot", "takePicture", "snapshotDone"}, r = Append(s, Yes(x))
      PROVE  /\ Answered(r, c) <=> Answered(s, c) \/ c = x
             /\ AnsweredOnce(r, c) <=> AnsweredOnce(s, c) /\ (c = x => ~Answered(s, c))
             /\ \A i \in 1 .. Len(r) : (\E j \in 1 .. Len(s) : r[i] = s[j]) \/ r[i].api \in Slow \cup {"snapshotDone"}
  <2>1. PICK y \in Result : y = Yes(x) /\ y.api = x
    BY <1>1
  <2>2. r = Append(s, y) /\ y \in Result
    BY <1>3, <2>1
  <2>3. /\ Answered(r, c) <=> Answered(s, c) \/ c = y.api
        /\ AnsweredOnce(r, c) <=> AnsweredOnce(s, c) /\ (c = y.api => ~Answered(s, c))
        /\ \A i \in 1 .. Len(r) : (\E j \in 1 .. Len(s) : r[i] = s[j]) \/ r[i] = y
    BY <2>2, AnswerAppended
  <2> QED BY <2>1, <2>3 DEF Slow
<1>4. CASE e = "daemonDied" /\ r = Append(Append(s, Yes("prepareSnapshot")), Yes("takePicture"))
  <2>1. PICK y \in Result, z \in Result : /\ y = Yes("prepareSnapshot") /\ y.api = "prepareSnapshot"
                                         /\ z = Yes("takePicture") /\ z.api = "takePicture"
    BY <1>1
  <2>2. PICK t : t = Append(s, y)
    OBVIOUS
  <2>3. t \in Seq(Result) /\ y \in Result /\ z \in Result /\ r = Append(t, z)
    BY <1>4, <2>1, <2>2, AppendProperties
  <2>4. /\ Answered(t, c) <=> Answered(s, c) \/ c = y.api
        /\ AnsweredOnce(t, c) <=> AnsweredOnce(s, c) /\ (c = y.api => ~Answered(s, c))
        /\ \A i \in 1 .. Len(t) : (\E j \in 1 .. Len(s) : t[i] = s[j]) \/ t[i] = y
    BY <2>2, <2>3, AnswerAppended
  <2>5. /\ Answered(r, c) <=> Answered(t, c) \/ c = z.api
        /\ AnsweredOnce(r, c) <=> AnsweredOnce(t, c) /\ (c = z.api => ~Answered(t, c))
        /\ \A i \in 1 .. Len(r) : (\E j \in 1 .. Len(t) : r[i] = t[j]) \/ r[i] = z
    BY <2>3, AnswerAppended
  <2>6. \A i \in 1 .. Len(r) : (\E j \in 1 .. Len(s) : r[i] = s[j]) \/ r[i] = y \/ r[i] = z
    BY <2>4, <2>5
  <2>7. Answered(r, c) <=> Answered(s, c) \/ c \in Slow
    BY <2>1, <2>4, <2>5 DEF Slow
  <2>8. AnsweredOnce(s, c) /\ (c \in Slow => ~Answered(s, c)) => AnsweredOnce(r, c)
    BY <2>1, <2>4, <2>5 DEF Slow
  <2>9. \A i \in 1 .. Len(r) : (\E j \in 1 .. Len(s) : r[i] = s[j]) \/ r[i].api \in Slow \cup {"snapshotDone"}
    BY <2>1, <2>6 DEF Slow
  <2> QED BY <1>4, <2>7, <2>8, <2>9 DEF EventAnswers
<1>5. CASE e = "prepDone" /\ r = Append(s, Yes("prepareSnapshot"))
  BY <1>3, <1>5 DEF EventAnswers
<1>6. CASE e = "ready" /\ r = Append(s, Yes("takePicture"))
  BY <1>3, <1>6 DEF EventAnswers
<1>7. CASE e = "snapshotDone" /\ r = Append(s, Yes("snapshotDone"))
  BY <1>3, <1>7 DEF EventAnswers
<1> QED BY <1>2, <1>4, <1>5, <1>6, <1>7

LEMMA EvtStepIs ==
  ASSUME Ind, smEvtProcEvt
  PROVE  \E h, e : EvtStep(h, e) /\ e = Head(hw.evts) /\ hw'.evts = Tail(hw.evts)
<1>0. /\ config \in Configs /\ hw \in Hw /\ apiQ = <<>> /\ app \in App /\ hw.evts # <<>>
      /\ config' = config /\ apiQ' = apiQ /\ note' = note
      /\ hw.results \in Seq(Result) /\ hw.evts \in Seq(Evts) /\ Sound(hw)
  BY Before DEF smEvtProcEvt, Hw
<1>1. PICK e : e = Head(hw.evts)
  OBVIOUS
<1>2. PICK h : h = [hw EXCEPT !.evts = Tail(@)]
  OBVIOUS
<1>3. /\ e \in Evts /\ Has(hw.evts, e) /\ Tail(hw.evts) \in Seq(Evts)
      /\ \A d \in Evts : /\ Has(hw.evts, d) <=> Has(Tail(hw.evts), d) \/ d = e
                         /\ Once(hw.evts, d) => Once(Tail(hw.evts), d) /\ (d = e => ~Has(Tail(hw.evts), d))
  BY <1>0, <1>1, Taken
<1>4. h \in Hw /\ Keeps(hw, h, {"evts"}) /\ h.evts = Tail(hw.evts)
  <2>1. \A t \in Seq(Evts) : [hw EXCEPT !.evts = t] \in Hw
    BY <1>0, Zenon DEF Hw
  <2>2. h = [hw EXCEPT !.evts = Tail(hw.evts)]
    BY <1>2
  <2>3. h \in Hw
    BY <1>3, <2>1, <2>2
  <2>4. Keeps(hw, h, {"evts"}) /\ h.evts = Tail(hw.evts)
    BY <1>0, <2>2 DEF Keeps, Fields, Hw
  <2> QED BY <2>3, <2>4
<1>5. Sound(h)
  BY <1>0, <1>4, SoundKept DEF Keeps
<1>6. hw' \in stateMachine(h, e)
  BY <1>1, <1>2 DEF smEvtProcEvt, handled
<1>7. EventStep(h, e, hw')
  BY <1>3, <1>4, <1>5, <1>6, StateMachineEvent
<1>8. hw' \in Hw /\ Sound(hw')
  BY <1>7 DEF EventStep
<1>9. EventSummary(h, e, hw')
  BY <1>4, <1>7, EventSummaryIs
<1>10. h.results = hw.results /\ hw'.evts = Tail(hw.evts)
  <2>1. h.results = hw.results
    BY <1>4 DEF Keeps, Fields
  <2>2. hw'.evts = h.evts
    BY <1>9 DEF EventSummary, Keeps, Fields
  <2> QED BY <1>4, <2>1, <2>2
<1>11. /\ app'.todo = app.todo /\ app'.waiting = app.waiting /\ app'.wants = app.wants
       /\ (app'.woken => app'.waiting) /\ app' \in App
       /\ app'.woken <=> app.woken \/ (app.waiting /\ hw'.results # hw.results)
  <2>1. app' = [app EXCEPT !.woken = @ \/ (app.waiting /\ hw'.results # h.results)]
    BY <1>2 DEF smEvtProcEvt, handled
  <2>2. app.woken => app.waiting
    BY DEF Ind, Planned
  <2>3. PICK w : w = (app.waiting /\ hw'.results # h.results)
    OBVIOUS
  <2>4. w \in BOOLEAN /\ app' = [app EXCEPT !.woken = @ \/ w] /\ (w => app.waiting)
    BY <1>0, <2>1, <2>3 DEF App
  <2>5. app' \in App
    BY <1>0, <2>4 DEF App
  <2>6. app'.woken <=> app.woken \/ w
    BY <1>0, <2>4 DEF App
  <2> QED BY <1>0, <1>10, <2>2, <2>3, <2>4, <2>5, <2>6 DEF App
<1>16. \/ hw'.results = hw.results
       \/ e = "prepDone" /\ hw'.results = Append(hw.results, Yes("prepareSnapshot"))
       \/ e = "ready" /\ hw'.results = Append(hw.results, Yes("takePicture"))
       \/ e = "snapshotDone" /\ hw'.results = Append(hw.results, Yes("snapshotDone"))
       \/ e = "daemonDied" /\ hw'.results = Append(Append(hw.results, Yes("prepareSnapshot")), Yes("takePicture"))
  BY <1>9, <1>10, Zenon DEF EventSummary
<1>12. \A c : /\ Answered(hw'.results, c) => Answered(hw.results, c) \/ EventAnswers(e, c)
              /\ Answered(hw.results, c) => Answered(hw'.results, c)
              /\ AnsweredOnce(hw.results, c) /\ (EventAnswers(e, c) => ~Answered(hw.results, c))
                   => AnsweredOnce(hw'.results, c)
  BY <1>0, <1>16, EventAnswered, Zenon
<1>13. \A i \in 1 .. Len(hw'.results) :
         \/ \E j \in 1 .. Len(hw.results) : hw'.results[i] = hw.results[j]
         \/ hw'.results[i].api \in Slow \cup {"snapshotDone"}
  BY <1>0, <1>16, EventAnswered, Zenon
<1>14. \A d \in Evts : /\ Has(hw.evts, d) <=> Has(hw'.evts, d) \/ d = e
                       /\ Once(hw.evts, d) => Once(hw'.evts, d) /\ (d = e => ~Has(hw'.evts, d))
  BY <1>3, <1>10
<1>15. EvtStep(h, e)
  BY <1>0, <1>3, <1>4, <1>7, <1>8, <1>9, <1>11, <1>12, <1>13, <1>14 DEF EvtStep
<1> QED BY <1>1, <1>10, <1>15

\* What an event leaves alone.
LEMMA EvtKeeps ==
  ASSUME Ind, NEW h, NEW e, EvtStep(h, e)
  PROVE  /\ hw'.dead = hw.dead /\ hw'.retro = hw.retro /\ hw'.prep = hw.prep /\ hw'.ready = hw.ready
         /\ hw'.longshot = hw.longshot /\ hw'.enabled = hw.enabled /\ hw'.delayed = hw.delayed
         /\ hw'.preview = hw.preview /\ hw'.recording = hw.recording
         /\ hw'.state = hw.state \/ hw'.state \in {"STOPPED", "PREVIEWING", "RECORDING"}
         /\ hw.state \in Recording => hw'.state \in Recording
         /\ hw'.state = "PREPARE" => e # "prepDone"
         /\ hw'.capture = "still" => hw.capture = "still"
         /\ IF e = "snapshotDone" THEN hw'.evtResult ELSE hw'.evtResult = hw.evtResult
<1>1. Keeps(hw, h, {"evts"}) /\ EventSummary(h, e, hw')
  BY DEF EvtStep
<1>2. Keeps(h, hw', {"state", "capture", "live", "pproc", "cmds", "results", "evtResult", "data"})
  BY <1>1 DEF EventSummary
<1>3. h.state = hw.state /\ h.capture = hw.capture /\ h.evtResult = hw.evtResult
  BY <1>1 DEF Keeps, Fields
<1>4. /\ hw'.dead = hw.dead /\ hw'.retro = hw.retro /\ hw'.prep = hw.prep /\ hw'.ready = hw.ready
      /\ hw'.longshot = hw.longshot /\ hw'.enabled = hw.enabled /\ hw'.delayed = hw.delayed
      /\ hw'.preview = hw.preview /\ hw'.recording = hw.recording
  BY <1>1, <1>2 DEF Keeps, Fields
<1> QED BY <1>1, <1>3, <1>4 DEF EventSummary

LEMMA EvtAlive ==
  ASSUME Ind, NEW h, NEW e, EvtStep(h, e)
  PROVE  Alive' => Alive /\ e # "daemonDied"
<1>1. "daemonDied" \in Evts
  BY DEF Evts
<1>2. /\ Has(hw.evts, "daemonDied") <=> Has(hw'.evts, "daemonDied") \/ "daemonDied" = e
      /\ Once(hw.evts, "daemonDied") => ("daemonDied" = e => ~Has(hw'.evts, "daemonDied"))
  BY <1>1 DEF EvtStep
<1>3. hw'.dead = hw.dead
  BY EvtKeeps
<1>4. Once(hw.evts, "daemonDied") /\ (~hw.dead => ~Has(hw.evts, "daemonDied"))
  BY DEF Ind, DiedOnce
<1> QED BY <1>2, <1>3, <1>4 DEF Alive

LEMMA EvtOrder ==
  ASSUME Ind, NEW h, NEW e, EvtStep(h, e)
  PROVE  QuickOne' /\ SlowOne' /\ DiedOnce' /\ Planned' /\ Known' /\ Announced'
<1>0. /\ e \in Evts /\ Has(hw.evts, e) /\ apiQ' = apiQ /\ apiQ = <<>>
      /\ \A d \in Evts : /\ Has(hw.evts, d) <=> Has(hw'.evts, d) \/ d = e
                         /\ Once(hw.evts, d) => Once(hw'.evts, d) /\ (d = e => ~Has(hw'.evts, d))
      /\ \A c : /\ Answered(hw'.results, c) => Answered(hw.results, c) \/ EventAnswers(e, c)
                /\ Answered(hw.results, c) => Answered(hw'.results, c)
                /\ AnsweredOnce(hw.results, c) /\ (EventAnswers(e, c) => ~Answered(hw.results, c))
                     => AnsweredOnce(hw'.results, c)
  BY DEF EvtStep
<1>1. \A c : Asked(c)' <=> Asked(c)
  BY DEF EvtStep, Asked
<1>2. QuickOne'
  <2>1. ASSUME NEW c \in Apis \ (OwnCalls \cup Slow)
        PROVE  /\ Has(apiQ', c) \/ Answered(hw'.results, c) => Asked(c)'
               /\ ~(Has(apiQ', c) /\ Answered(hw'.results, c))
               /\ Once(apiQ', c) /\ AnsweredOnce(hw'.results, c)
    <3>1. /\ Has(apiQ, c) \/ Answered(hw.results, c) => Asked(c)
          /\ ~(Has(apiQ, c) /\ Answered(hw.results, c))
          /\ Once(apiQ, c) /\ AnsweredOnce(hw.results, c)
      BY DEF Ind, QuickOne
    <3>2. ~EventAnswers(e, c)
      BY DEF EventAnswers, Slow, Apis
    <3>3. /\ Answered(hw'.results, c) <=> Answered(hw.results, c)
          /\ AnsweredOnce(hw'.results, c)
      BY <1>0, <3>1, <3>2
    <3>4. Asked(c)' <=> Asked(c)
      BY <1>1
    <3> QED BY <1>0, <3>1, <3>3, <3>4
  <2> QED BY <2>1 DEF QuickOne
<1>3. SlowOne'
  <2>1. ASSUME Alive', NEW c \in Slow
        PROVE  OneStage(c)'
    <3>1. OneStage(c) /\ e # "daemonDied"
      BY <2>1, EvtAlive DEF Ind, SlowOne
    <3>2. Ev(c) \in Evts
      BY DEF Ev, Evts
    <3>3. EventAnswers(e, c) => e = Ev(c)
      BY <3>1 DEF EventAnswers, Ev, Slow
    <3>4. Due(hw', c) => Due(hw, c)
      <4>1. hw'.prep = hw.prep /\ hw'.ready = hw.ready /\ hw'.retro = hw.retro
            /\ (hw'.capture = "still" => hw.capture = "still")
        BY EvtKeeps
      <4> QED BY <4>1 DEF Due
    <3>5. /\ Has(hw.evts, Ev(c)) <=> Has(hw'.evts, Ev(c)) \/ Ev(c) = e
          /\ Once(hw.evts, Ev(c)) => Once(hw'.evts, Ev(c)) /\ (Ev(c) = e => ~Has(hw'.evts, Ev(c)))
          /\ Answered(hw'.results, c) => Answered(hw.results, c) \/ EventAnswers(e, c)
          /\ Answered(hw.results, c) => Answered(hw'.results, c)
          /\ AnsweredOnce(hw.results, c) /\ (EventAnswers(e, c) => ~Answered(hw.results, c))
               => AnsweredOnce(hw'.results, c)
      BY <1>0, <3>2
    <3>6. (Asked(c)' <=> Asked(c)) /\ apiQ' = apiQ
      BY <1>0, <1>1
    <3>7. Has(apiQ', c) = Has(apiQ, c) /\ Once(apiQ', c) = Once(apiQ, c)
      BY <3>6
    <3>8. CASE Ev(c) = e
      BY <3>1, <3>3, <3>4, <3>5, <3>6, <3>7, <3>8, Zenon DEF OneStage
    <3>9. CASE Ev(c) # e
      BY <3>1, <3>3, <3>4, <3>5, <3>6, <3>7, <3>9, Zenon DEF OneStage
    <3> QED BY <3>8, <3>9
  <2> QED BY <2>1, Zenon DEF SlowOne
<1>4. DiedOnce'
  <2>1. "daemonDied" \in Evts
    BY DEF Evts
  <2>2. hw'.dead = hw.dead
    BY EvtKeeps
  <2>3. /\ Has(hw'.evts, "daemonDied") => Has(hw.evts, "daemonDied")
        /\ Once(hw.evts, "daemonDied") => Once(hw'.evts, "daemonDied")
    BY <1>0, <2>1
  <2> QED BY <2>2, <2>3 DEF Ind, DiedOnce
<1>5. Planned'
  BY DEF EvtStep, Ind, Planned
<1>6. Known'
  <2>1. \A i \in 1 .. Len(hw'.results) :
          \/ \E j \in 1 .. Len(hw.results) : hw'.results[i] = hw.results[j]
          \/ hw'.results[i].api \in Slow \cup {"snapshotDone"}
    BY DEF EvtStep
  <2>2. Slow \subseteq Apis
    BY DEF Slow, Apis
  <2> QED BY <2>1, <2>2 DEF Ind, Known
<1>7. Announced'
  <2>1. "snapshotDone" \in Evts
    BY DEF Evts
  <2>2. Has(hw.evts, "snapshotDone") <=> Has(hw'.evts, "snapshotDone") \/ "snapshotDone" = e
    BY <1>0, <2>1
  <2>3. IF e = "snapshotDone" THEN hw'.evtResult ELSE hw'.evtResult = hw.evtResult
    BY EvtKeeps
  <2>4. note' = note
    BY DEF EvtStep
  <2> QED BY <2>2, <2>3, <2>4 DEF Ind, Announced
<1> QED BY <1>2, <1>3, <1>4, <1>5, <1>6, <1>7

LEMMA EventInd ==
  ASSUME Ind, smEvtProcEvt
  PROVE  Ind'
<1>1. PICK h, e : EvtStep(h, e)
  BY EvtStepIs
<1>2. QuickOne' /\ SlowOne' /\ DiedOnce' /\ Planned' /\ Known' /\ Announced'
  BY <1>1, EvtOrder
<1>3. /\ hw'.dead = hw.dead /\ hw'.retro = hw.retro /\ hw'.prep = hw.prep /\ hw'.ready = hw.ready
      /\ hw'.longshot = hw.longshot /\ hw'.enabled = hw.enabled /\ hw'.delayed = hw.delayed
      /\ hw'.preview = hw.preview /\ hw'.recording = hw.recording
      /\ hw'.state = hw.state \/ hw'.state \in {"STOPPED", "PREVIEWING", "RECORDING"}
      /\ hw.state \in Recording => hw'.state \in Recording
      /\ hw'.state = "PREPARE" => e # "prepDone"
      /\ hw'.capture = "still" => hw.capture = "still"
  BY <1>1, EvtKeeps
<1>4. /\ config' = config /\ note' = note /\ apiQ' = apiQ /\ apiQ = <<>>
      /\ app'.todo = app.todo /\ app'.waiting = app.waiting /\ app'.wants = app.wants
      /\ app' \in App /\ hw' \in Hw /\ Sound(hw') /\ e \in Evts
  BY <1>1 DEF EvtStep
<1>5. TypeOK'
  <2>1. config \in Configs /\ apiQ' \in Seq(Apis) /\ note' \in Note
    BY <1>4, TypeIs DEF Ind
  <2> QED BY <1>4, <2>1, TypeStep
<1>6. Sound(hw)'
  BY <1>4, SoundStep
<1>7. RetroOK'
  <2>1. Retro' <=> Retro
    BY <1>4 DEF Retro
  <2>2. Retro /\ ~hw.retro =>
          /\ hw.capture = "still" => hw.longshot
          /\ Has(app.todo, "takePicture") => hw.longshot \/ hw.state \in Recording
    BY DEF Ind, RetroOK
  <2> QED BY <1>3, <1>4, <2>1, <2>2 DEF RetroOK
<1>8. \A c \in Apis \ Slow : Answered(hw'.results, c) <=> Answered(hw.results, c)
  <2>1. ASSUME NEW c \in Apis \ Slow
        PROVE  Answered(hw'.results, c) <=> Answered(hw.results, c)
    <3>1. ~EventAnswers(e, c)
      BY DEF EventAnswers, Slow, Apis
    <3> QED BY <1>1, <3>1 DEF EvtStep
  <2> QED BY <2>1
<1>9. /\ Answered(hw'.results, "setParamsStop") <=> Answered(hw.results, "setParamsStop")
      /\ Answered(hw'.results, "setParamsRestart") <=> Answered(hw.results, "setParamsRestart")
      /\ Answered(hw'.results, "longshotOff") <=> Answered(hw.results, "longshotOff")
      /\ Answered(hw'.results, "enableMsg") <=> Answered(hw.results, "enableMsg")
  BY <1>8 DEF Apis, Slow
<1>10. Refreshed'
  <2>1. ToRestart' <=> ToRestart
    BY <1>4, <1>9 DEF ToRestart
  <2>2. Halted(hw) => Halted(hw')
    BY <1>3 DEF Halted
  <2>3. Refreshed' <=> (ToRestart' => Halted(hw'))
    BY Zenon DEF Refreshed, Halted
  <2> QED BY <2>1, <2>2, <2>3 DEF Ind, Refreshed
<1>11. LongshotLeft'
  BY <1>3, <1>4, <1>9 DEF Ind, LongshotLeft
<1>12. Measuring'
  <2>1. "prepDone" \in Evts
    BY DEF Evts
  <2>2. Has(hw.evts, "prepDone") <=> Has(hw'.evts, "prepDone") \/ "prepDone" = e
    BY <1>1, <2>1 DEF EvtStep
  <2> QED BY <1>3, <2>2 DEF Ind, Measuring
<1>13. Wanted'
  BY <1>3, <1>4, <1>9 DEF Ind, Wanted
<1> QED BY <1>2, <1>5, <1>6, <1>7, <1>10, <1>11, <1>12, <1>13 DEF Ind

-----------------------------------------------------------------------------
(* The theorems.                                                            *)

LEMMA StutterQuiet ==
  ASSUME Ind, UNCHANGED vars
  PROVE  Ind'
<1>1. config' = config /\ hw' = hw /\ apiQ' = apiQ /\ app' = app /\ note' = note
  BY DEF vars
<1>2. TypeOK' /\ Sound(hw)'
  <2>1. config \in Configs /\ hw \in Hw /\ apiQ \in Seq(Apis) /\ app \in App /\ note \in Note /\ Sound(hw)
    BY Before
  <2> QED BY <1>1, <2>1, TypeStep, SoundStep
<1>3. Planned' /\ QuickOne' /\ LongshotLeft' /\ Measuring' /\ Wanted' /\ Announced' /\ Known' /\ DiedOnce'
  BY <1>1 DEF Ind, Planned, QuickOne, Asked, LongshotLeft, Measuring, Wanted, Announced, Known, DiedOnce
<1>4. SlowOne'
  <2>1. Alive' <=> Alive
    BY <1>1 DEF Alive
  <2>2. \A c : OneStage(c)' <=> OneStage(c)
    BY <1>1 DEF OneStage, Asked
  <2> QED BY <2>1, <2>2, Zenon DEF Ind, SlowOne
<1>5. RetroOK'
  <2>1. Retro' <=> Retro
    BY <1>1 DEF Retro
  <2> QED BY <1>1, <2>1 DEF Ind, RetroOK
<1>6. Refreshed'
  <2>1. ToRestart' <=> ToRestart
    BY <1>1 DEF ToRestart
  <2> QED BY <1>1, <2>1 DEF Ind, Refreshed, Halted
<1> QED BY <1>2, <1>3, <1>4, <1>5, <1>6 DEF Ind

LEMMA NextInd ==
  ASSUME Ind, [Next]_vars
  PROVE  Ind'
<1>1. ASSUME NEW op \in config.ops, Operation(op) PROVE Ind'
  BY <1>1, OperationInd
<1>2. CASE processAPI
  BY <1>2, ProcessAPIInd
<1>3. CASE waitAPIResult
  BY <1>3, WaitInd
<1>4. CASE smEvtProcApi
  BY <1>4, CallInd
<1>5. CASE smEvtProcEvt
  BY <1>5, EventInd
<1>6. CASE startSnapshots
  BY <1>6, SnapshotsQuiet, QuietInd
<1>7. CASE takeLiveSnapshot_internal
  BY <1>7, TakeLiveQuiet, QuietInd
<1>8. CASE cancelLiveSnapshot_internal
  BY <1>8, CancelLiveQuiet, QuietInd
<1>9. CASE stopCapture
  BY <1>9, StopCaptureQuiet, QuietInd
<1>10. CASE jpegEvtHandle \/ readyForSnapshot \/ prepSnapshotDone \/ daemonDied
  BY <1>10, CameraQuiet, QuietInd
<1>11. CASE cbNotifyRoutine \/ processSyncEvtReturns \/ mDataCb
  BY <1>11, NotifierQuiet, QuietInd
<1>12. CASE UNCHANGED vars
  BY <1>12, StutterQuiet
<1> QED BY <1>1, <1>2, <1>3, <1>4, <1>5, <1>6, <1>7, <1>8, <1>9, <1>10, <1>11, <1>12 DEF Next

\* Ind holds in every state the program can reach.
THEOREM Invariance == Spec => []Ind
<1>1. Init => Ind
  BY InitInd
<1>2. Ind /\ [Next]_vars => Ind'
  BY NextInd
<1> QED BY <1>1, <1>2, PTL DEF Spec

\* Every handler, the callers, the deferred job, the live snapshot thread and
\* the notifier keep the types of what they share (QCameraStateMachine.cpp).
THEOREM Typed == Spec => []TypeOK
<1>1. Ind => TypeOK
  BY DEF Ind
<1> QED BY <1>1, Invariance, PTL

\* Whatever fails and whatever event is late, a running capture is left in a
\* state that can end it, or to the thread that cancels it; and in
\* PREVIEW_STOPPED nothing runs (procEvtPreviewStoppedState to
\* procEvtPreviewPicTakingState).
THEOREM CaptureHasStateAlways == Spec => []CaptureHasState
<1>1. Ind => CaptureHasState
  <2>1. ASSUME Ind PROVE CaptureHasState
    <3>1. Sound(hw) /\ hw \in Hw
      BY <2>1, Before
    <3>2. hw.capture \in {"none", "still", "live"}
      BY <3>1 DEF Hw
    <3> QED BY <3>1, <3>2 DEF Sound, CaptureHasState, Capturing, Recording
  <2> QED BY <2>1
<1> QED BY <1>1, Invariance, PTL

\* The messages that the application enabled last stay enabled or delayed,
\* through every state and every failure (applyDelayedMsgs).
THEOREM WantedMessagesAlways == Spec => []WantedMessages
<1>1. Ind => WantedMessages
  <2>1. ASSUME Ind, app.todo = <<>>, app.wants, ~hw.dead PROVE hw.enabled \/ hw.delayed
    <3>1. app.todo # <<"enableMsg">>
      BY <2>1, OnlyTails
    <3> QED BY <2>1, <3>1 DEF Ind, Wanted
  <2> QED BY <2>1 DEF WantedMessages
<1> QED BY <1>1, Invariance, PTL

\* While the daemon lives a result in the list is the only one of the call
\* that waits, or of a call the HAL made itself (waitAPIResult takes the first
\* one with the number of its call); and processSyncEvt is always answered.
THEOREM NoStrayAnswerAlways == Spec => []NoStrayAnswer
<1>1. ASSUME Ind, ~hw.dead, NEW i \in DOMAIN hw.results,
             hw.results[i].api \notin {"stopCaptureChannel", "snapshotDone", "cancelPicture"}
      PROVE  app.waiting /\ answers(Head(app.todo)) = {i}
  <2>1. hw.results \in Seq(Result)
    BY <1>1, Before DEF Hw
  <2>2. DOMAIN hw.results = 1 .. Len(hw.results)
    BY <2>1, LenProperties
  <2>3. PICK c \in Apis \ OwnCalls : c = hw.results[i].api
    BY <1>1, <2>2 DEF Ind, Known, OwnCalls
  <2>4. Answered(hw.results, c)
    BY <1>1, <2>2, <2>3 DEF Answered
  <2>5. Asked(c) /\ AnsweredOnce(hw.results, c)
    <3>1. CASE c \in Slow
      BY <1>1, <2>4, <3>1 DEF Ind, SlowOne, OneStage, Alive
    <3>2. CASE c \notin Slow
      BY <1>1, <2>3, <2>4, <3>2 DEF Ind, QuickOne
    <3> QED BY <3>1, <3>2
  <2>6. Head(app.todo) = c /\ app.waiting
    BY <2>5 DEF Asked
  <2>7. \A j \in 1 .. Len(hw.results) : hw.results[j].api = c => j = i
    BY <1>1, <2>2, <2>3, <2>5 DEF AnsweredOnce
  <2>8. answers(c) = {i}
    BY <1>1, <2>2, <2>3, <2>7 DEF answers
  <2> QED BY <2>6, <2>8
<1>2. ASSUME Ind, note.pc = "sync", ~hw.evtResult PROVE sent("snapshotDone")
  <2>1. Has(hw.evts, "snapshotDone") /\ hw.evts \in Seq(Evts)
    BY <1>2, Before DEF Ind, Announced, Hw
  <2>2. DOMAIN hw.evts = 1 .. Len(hw.evts)
    BY <2>1, LenProperties
  <2> QED BY <2>1, <2>2 DEF sent, Range, Has
<1>3. Ind => NoStrayAnswer
  BY <1>1, <1>2 DEF NoStrayAnswer
<1> QED BY <1>3, Invariance, PTL

-----------------------------------------------------------------------------
(* Nobody is forgotten.                                                     *)

\* A thread that waits is answered, or its call is queued, or the camera is
\* to answer it in the state that it is in.
Waits ==
  app.waiting =>
    LET c == Head(app.todo)
    IN \/ app.woken /\ Answered(hw.results, c)
       \/ Has(apiQ, c)
       \/ c \in Slow /\ Alive /\ Waiter(hw, c) /\ (Has(hw.evts, Ev(c)) \/ Due(hw, c))

Others ==
  \/ startSnapshots \/ takeLiveSnapshot_internal \/ cancelLiveSnapshot_internal \/ stopCapture
  \/ jpegEvtHandle \/ readyForSnapshot \/ prepSnapshotDone \/ daemonDied
  \/ cbNotifyRoutine \/ processSyncEvtReturns \/ mDataCb

LEMMA OthersQuiet ==
  ASSUME Ind, Others
  PROVE  Quiet
BY SnapshotsQuiet, TakeLiveQuiet, CancelLiveQuiet, StopCaptureQuiet, CameraQuiet, NotifierQuiet DEF Others

\* The camera does not forget a picture that it owes.
LEMMA DueStays ==
  ASSUME Ind, Others, NEW c \in Slow, Due(hw, c)
  PROVE  Due(hw', c) \/ Adds(Ev(c))
<1>0. hw \in Hw /\ Sound(hw)
  BY Before
<1>1. Quiet
  BY OthersQuiet
<1>2. CASE c = "prepareSnapshot"
  BY <1>0, <1>1, <1>2 DEF Quiet, Due, Ev
<1>3. CASE c = "takePicture"
  <2>0. hw.capture = "still" /\ hw.retro /\ ~hw.ready
    BY <1>3 DEF Due
  <2>1. hw'.retro = hw.retro
    BY <1>1 DEF Quiet, Keeps, Fields
  <2>2. ASSUME hw'.capture = hw.capture, hw'.ready = hw.ready PROVE Due(hw', c)
    BY <1>3, <2>0, <2>1, <2>2 DEF Due
  <2>3. CASE startSnapshots \/ stopCapture \/ processSyncEvtReturns \/ mDataCb
    <3>1. CASE startSnapshots
      BY <1>0, <2>2, <3>1 DEF startSnapshots, Hw
    <3>2. CASE stopCapture
      BY <1>0, <2>2, <3>2 DEF stopCapture, Hw
    <3>3. CASE processSyncEvtReturns \/ mDataCb
      BY <2>2, <3>3 DEF processSyncEvtReturns, mDataCb
    <3> QED BY <2>3, <3>1, <3>2, <3>3
  <2>4. CASE takeLiveSnapshot_internal
    BY <1>0, <2>0, <2>4 DEF takeLiveSnapshot_internal, Sound
  <2>5. CASE cancelLiveSnapshot_internal
    BY <1>0, <2>0, <2>2, <2>5 DEF cancelLiveSnapshot_internal, stopPostproc, ended, Hw
  <2>6. CASE readyForSnapshot
    BY <1>0, <1>3, <2>6 DEF readyForSnapshot, event, Adds, Ev, Hw
  <2>7. CASE jpegEvtHandle \/ prepSnapshotDone \/ daemonDied
    <3>1. CASE jpegEvtHandle
      BY <1>0, <2>2, <3>1 DEF jpegEvtHandle, event, Hw
    <3>2. CASE prepSnapshotDone
      BY <1>0, <2>2, <3>2 DEF prepSnapshotDone, event, Hw
    <3>3. CASE daemonDied
      BY <1>0, <2>2, <3>3 DEF daemonDied, event, Hw
    <3> QED BY <2>7, <3>1, <3>2, <3>3
  <2>8. CASE cbNotifyRoutine
    <3>1. hw'.capture = hw.capture /\ hw'.ready = hw.ready
      <4> DEFINE next == [hw EXCEPT !.cmds = Tail(@)]
      <4>1. \/ hw' = next
            \/ hw' = [next EXCEPT !.data = 0]
            \/ hw' = [next EXCEPT !.data = dequeued(@)]
            \/ hw' = [next EXCEPT !.data = dequeued(@), !.evtResult = FALSE, !.evts = Append(@, "snapshotDone")]
        <5>1. CASE Head(hw.cmds) = "START"
          BY <2>8, <5>1 DEF cbNotifyRoutine
        <5>2. CASE Head(hw.cmds) = "STOP"
          BY <2>8, <5>2 DEF cbNotifyRoutine
        <5>3. CASE Head(hw.cmds) \notin {"START", "STOP"}
          BY <2>8, <5>3 DEF cbNotifyRoutine
        <5> QED BY <5>1, <5>2, <5>3
      <4> QED BY <1>0, <4>1 DEF Hw
    <3> QED BY <2>2, <3>1
  <2> QED BY <2>3, <2>4, <2>5, <2>6, <2>7, <2>8 DEF Others
<1> QED BY <1>2, <1>3 DEF Slow

LEMMA QuietWaits ==
  ASSUME Ind, Waits, Others
  PROVE  Waits'
<1>0. /\ app' = app /\ hw.evts \in Seq(Evts) /\ hw \in Hw /\ app.todo \in Plans /\ Quiet
  BY Before, OthersQuiet DEF Quiet, Hw, Ind, Planned
<1>1. ASSUME app.waiting, NEW c, c = Head(app.todo)
      PROVE  \/ app'.woken /\ Answered(hw'.results, c)
             \/ Has(apiQ', c)
             \/ c \in Slow /\ Alive' /\ Waiter(hw', c) /\ (Has(hw'.evts, Ev(c)) \/ Due(hw', c))
  <2>1. \/ app.woken /\ Answered(hw.results, c)
        \/ Has(apiQ, c)
        \/ c \in Slow /\ Alive /\ Waiter(hw, c) /\ (Has(hw.evts, Ev(c)) \/ Due(hw, c))
    BY <1>1 DEF Waits
  <2>2. CASE app.woken /\ Answered(hw.results, c)
    <3>1. hw'.results = hw.results
      BY <1>0 DEF Quiet, Keeps, Fields
    <3> QED BY <1>0, <2>2, <3>1
  <2>3. CASE Has(apiQ, c)
    <3>1. apiQ \in Seq(Apis) /\ OwnCalls \subseteq Apis
      BY Before DEF OwnCalls, Apis
    <3>2. apiQ' = apiQ \/ \E d \in OwnCalls : apiQ' = Append(apiQ, d)
      BY <1>0 DEF Quiet
    <3>3. ASSUME NEW d \in OwnCalls, apiQ' = Append(apiQ, d) PROVE Has(apiQ', c)
      BY <2>3, <3>1, <3>3, Appended
    <3>4. Has(apiQ', c)
      BY <2>3, <3>2, <3>3
    <3> QED BY <3>4
  <2>4. CASE c \in Slow /\ Alive /\ Waiter(hw, c) /\ (Has(hw.evts, Ev(c)) \/ Due(hw, c))
    <3>1. Waiter(hw', c)
      <4>1. hw'.state = hw.state /\ hw'.retro = hw.retro
        BY <1>0 DEF Quiet, Keeps, Fields
      <4> QED BY <2>4, <4>1 DEF Waiter, Awaiting
    <3>2. \A e \in Evts : Has(hw'.evts, e) <=> Has(hw.evts, e) \/ Adds(e)
      BY <1>0, QuietQueues
    <3>3. Has(hw'.evts, Ev(c)) \/ Due(hw', c)
      <4>1. Ev(c) \in Evts
        BY DEF Ev, Evts
      <4>2. Due(hw, c) => Due(hw', c) \/ Adds(Ev(c))
        BY <2>4, DueStays
      <4> QED BY <2>4, <3>2, <4>1, <4>2
    <3>4. Alive'
      <4>1. "daemonDied" \in Evts
        BY DEF Evts
      <4>2. Has(hw'.evts, "daemonDied") <=> Has(hw.evts, "daemonDied") \/ Adds("daemonDied")
        BY <3>2, <4>1
      <4>3. hw'.dead = hw.dead \/ Adds("daemonDied") \/ ~hw'.dead
        BY <1>0 DEF Quiet
      <4> QED BY <2>4, <4>2, <4>3 DEF Alive
    <3> QED BY <2>4, <3>1, <3>3, <3>4
  <2> QED BY <2>1, <2>2, <2>3, <2>4
<1> QED BY <1>0, <1>1 DEF Waits

LEMMA AskingWaits ==
  ASSUME Ind, Waits, (\E op \in config.ops : Operation(op)) \/ processAPI \/ waitAPIResult \/ UNCHANGED vars
  PROVE  Waits'
<1>0. app \in App /\ hw \in Hw /\ apiQ \in Seq(Apis) /\ app.todo \in Plans
  BY Before DEF Ind, Planned
<1>1. CASE \E op \in config.ops : Operation(op)
  <2>1. PICK op : op \in config.ops /\ Operation(op)
    BY <1>1, Zenon
  <2>2. app.todo = <<>>
    BY <2>1, Zenon DEF Operation
  <2>3. ~app.waiting
    BY <2>2 DEF Ind, Planned
  <2>4. app'.waiting = app.waiting
    <3>1. \E w : app' = [app EXCEPT !.todo = calls(op), !.calls = @ + 1, !.wants = w]
      BY <2>1, Zenon DEF Operation
    <3>2. PICK w : app' = [app EXCEPT !.todo = calls(op), !.calls = @ + 1, !.wants = w]
      BY <3>1, Zenon
    <3> QED BY <1>0, <3>2, Zenon DEF App
  <2> QED BY <2>3, <2>4 DEF Waits
<1>2. CASE processAPI
  <2>1. PICK c : c = Head(app.todo)
    OBVIOUS
  <2>2. c \in Apis
    BY <1>0, <1>2, <2>1, PlanFacts DEF processAPI
  <2>3. app'.todo = app.todo /\ apiQ' = Append(apiQ, c)
    BY <1>0, <1>2, <2>1 DEF processAPI, App
  <2>4. Has(apiQ', c)
    BY <1>0, <2>2, <2>3, Appended
  <2> QED BY <2>1, <2>3, <2>4 DEF Waits
<1>3. CASE waitAPIResult
  <2>1. CASE \E i \in DOMAIN hw.results : hw.results[i].api = Head(app.todo)
    <3>1. {i \in DOMAIN hw.results : hw.results[i].api = Head(app.todo)} # {}
      BY <2>1
    <3>2. \E t : app' = [app EXCEPT !.waiting = FALSE, !.woken = FALSE, !.todo = t]
      BY <1>3, <3>1 DEF waitAPIResult
    <3>3. ~app'.waiting
      BY <1>0, <3>2 DEF App
    <3> QED BY <3>3 DEF Waits
  <2>2. CASE ~ \E i \in DOMAIN hw.results : hw.results[i].api = Head(app.todo)
    <3>1. {i \in DOMAIN hw.results : hw.results[i].api = Head(app.todo)} = {}
      BY <2>2
    <3>2. app' = [app EXCEPT !.woken = FALSE] /\ hw' = hw /\ apiQ' = apiQ
      BY <1>3, <3>1 DEF waitAPIResult
    <3>3. app'.todo = app.todo /\ app'.waiting = app.waiting
      BY <1>0, <3>2 DEF App
    <3>4. ~Answered(hw.results, Head(app.todo))
      <4>1. hw.results \in Seq(Result)
        BY <1>0 DEF Hw
      <4>2. DOMAIN hw.results = 1 .. Len(hw.results)
        BY <4>1, LenProperties
      <4> QED BY <2>2, <4>2 DEF Answered
    <3> QED BY <3>2, <3>3, <3>4 DEF Waits, Alive
  <2> QED BY <2>1, <2>2
<1>4. CASE UNCHANGED vars
  BY <1>4 DEF vars, Waits, Alive
<1> QED BY <1>1, <1>2, <1>3, <1>4

\* While the light is measured the calls that are known are refused.
LEMMA PrepareStays ==
  ASSUME Ind, smEvtProcApi, hw.state = "PREPARE"
  PROVE  hw'.state = "PREPARE"
<1>0. hw \in Hw /\ apiQ \in Seq(Apis) /\ apiQ # <<>>
  BY Before DEF smEvtProcApi
<1>1. PICK e : e = Head(apiQ)
  OBVIOUS
<1>2. e \in Apis
  BY <1>0, <1>1, Taken
<1>3. hw' \in procEvtPrepareSnapshotState(hw, e)
  <2>1. hw' \in stateMachine(hw, e)
    BY <1>1 DEF smEvtProcApi, handled
  <2> QED BY <2>1, StateMachineIs DEF States
<1>4. hw' \in plain(hw, e)
  <2>1. e \notin {"prepDone", "daemonDied"}
    BY <1>2 DEF Apis
  <2> QED BY <1>3, <2>1 DEF procEvtPrepareSnapshotState
<1>5. hw' = hw \/ hw' = signalAPIResult(hw, e, FALSE)
  <2>1. e \in Unanswered[hw.state] \/ e \in Refused[hw.state]
    BY <1>2 DEF Unanswered, Refused, States
  <2>2. hw.state \in States
    BY DEF States
  <2>3. plain(hw, e) = {hw} \/ plain(hw, e) = {signalAPIResult(hw, e, FALSE)}
    BY <1>2, <2>1, <2>2, PlainIs, Zenon
  <2> QED BY <1>4, <2>3
<1> QED BY <1>0, <1>5 DEF signalAPIResult, Hw

\* A caller that waits for the camera in a capture from the queue.
Forgettable == hw.retro /\ app.waiting /\ Head(app.todo) \in Slow

Attended == Waits \/ Forgettable

\* Only a call of the HAL's own makes the camera forget what it owes.
LEMMA CallWaits ==
  ASSUME Ind, Waits, smEvtProcApi, Forgettable' => Head(apiQ) \notin OwnCalls
  PROVE  Waits'
<1>1. PICK e : e = Head(apiQ) /\ CallStep(e)
  BY CallStepIs
<1>2. /\ app'.todo = app.todo /\ app'.waiting = app.waiting /\ e \in Apis
      /\ app'.woken <=> app.woken \/ (app.waiting /\ hw'.results # hw.results)
      /\ \A d \in Apis : Has(apiQ, d) <=> Has(apiQ', d) \/ d = e
      /\ \A c : Answered(hw'.results, c) <=> Answered(hw.results, c) \/ (c = e /\ hw'.results # hw.results)
      /\ \A d \in Evts : Has(hw.evts, d) => Has(hw'.evts, d)
      /\ Alive' <=> Alive
  BY <1>1 DEF CallStep
<1>3. /\ hw'.results = hw.results \/ Answers(hw, e, hw')
      /\ hw'.results = hw.results => e \in {"regFace", "stopCaptureChannel"} \cup Slow
      /\ hw'.dead = hw.dead /\ hw'.retro = hw.retro /\ (hw.prep => hw'.prep)
  BY <1>1 DEF CallStep, Summary
<1>4. hw \in Hw /\ hw' \in Hw /\ app.todo \in Plans
  BY <1>1, Before DEF CallStep, Ind, Planned
<1>5. ASSUME app.waiting, NEW c, c = Head(app.todo)
      PROVE  \/ app'.woken /\ Answered(hw'.results, c)
             \/ Has(apiQ', c)
             \/ c \in Slow /\ Alive' /\ Waiter(hw', c) /\ (Has(hw'.evts, Ev(c)) \/ Due(hw', c))
  <2>0. c \in Apis \ {"regFace", "stopCaptureChannel"}
    BY <1>4, <1>5, PlanFacts DEF Ind, Planned
  <2>1. \/ app.woken /\ Answered(hw.results, c)
        \/ Has(apiQ, c)
        \/ c \in Slow /\ Alive /\ Waiter(hw, c) /\ (Has(hw.evts, Ev(c)) \/ Due(hw, c))
    BY <1>5 DEF Waits
  <2>2. CASE app.woken /\ Answered(hw.results, c)
    BY <1>2, <2>2
  <2>3. CASE Has(apiQ, c) /\ c # e
    BY <1>2, <2>0, <2>3
  <2>4. CASE c = e /\ hw'.results # hw.results
    BY <1>2, <1>5, <2>4
  <2>5. CASE c = e /\ hw'.results = hw.results
    <3>1. c \in Slow
      BY <1>3, <2>0, <2>5
    <3>2. ~Answers(hw, e, hw')
      BY <1>4, <2>5, AnswersDiffer
    <3>3. Measures(hw, e, hw') \/ Starts(hw, e, hw')
      <4>1. e \notin {"regFace", "stopCaptureChannel"}
        BY <2>0, <2>5
      <4> QED BY <1>1, <3>2, <4>1
        DEF CallStep, Kinds, Settles, Ignores, StartFails, Ends, Releases, Lives, Longs, Repeats
    <3>4. CASE Measures(hw, e, hw')
      <4>1. c = "prepareSnapshot" /\ ~hw.dead /\ hw'.prep /\ Awaiting(hw')
        BY <2>5, <3>4 DEF Measures
      <4> QED BY <1>2, <3>1, <4>1 DEF Waiter, Due, Alive
    <3>5. CASE Starts(hw, e, hw')
      <4>1. c = "takePicture" /\ ~hw.dead /\ hw.retro /\ hw'.state = "PREVIEW_PIC"
            /\ hw'.capture = "still" /\ ~hw'.ready
        BY <2>5, <3>2, <3>5 DEF Starts
      <4> QED BY <1>2, <1>3, <3>1, <4>1 DEF Waiter, Due, Alive
    <3> QED BY <3>3, <3>4, <3>5
  <2>6. CASE c \in Slow /\ Alive /\ Waiter(hw, c) /\ (Has(hw.evts, Ev(c)) \/ Due(hw, c))
    <3>1. ~hw.retro
      <4>1. ASSUME hw.retro PROVE FALSE
        <5>1. e \notin OwnCalls /\ Has(apiQ, e)
          BY <1>1, <1>2, <1>3, <1>5, <2>6, <4>1 DEF Forgettable, CallStep
        <5>2. Asked(e)
          <6>1. CASE e \in Slow
            BY <2>6, <5>1, <6>1 DEF Ind, SlowOne, OneStage
          <6>2. CASE e \notin Slow
            BY <1>2, <5>1, <6>2 DEF Ind, QuickOne
          <6> QED BY <6>1, <6>2
        <5>3. e = c
          BY <1>5, <5>2 DEF Asked
        <5> QED BY <2>6, <5>1, <5>3 DEF Ind, SlowOne, OneStage
      <4> QED BY <4>1
    <3>2. c = "prepareSnapshot" /\ hw.state = "PREPARE"
      BY <2>6, <3>1 DEF Waiter, Awaiting
    <3>3. hw'.state = "PREPARE"
      BY <3>2, PrepareStays
    <3>4. Waiter(hw', c)
      BY <3>2, <3>3 DEF Waiter, Awaiting
    <3>5. Has(hw'.evts, Ev(c)) \/ Due(hw', c)
      BY <1>2, <1>3, <2>6, <3>2 DEF Ev, Evts, Due
    <3> QED BY <1>2, <2>6, <3>4, <3>5
  <2> QED BY <2>1, <2>2, <2>3, <2>4, <2>5, <2>6
<1> QED BY <1>2, <1>5 DEF Waits

\* Only the end of a capture from the queue makes the camera forget what it
\* owes.
LEMMA EvtWaits ==
  ASSUME Ind, Waits, NEW h, NEW e, EvtStep(h, e),
         Forgettable' /\ e = "snapshotDone" =>
           ~Has(hw.evts, Ev(Head(app.todo))) /\ ~Due(hw, Head(app.todo))
  PROVE  Waits'
<1>1. /\ app'.todo = app.todo /\ app'.waiting = app.waiting /\ apiQ = <<>>
      /\ app'.woken <=> app.woken \/ (app.waiting /\ hw'.results # hw.results)
      /\ e \in Evts /\ EventStep(h, e, hw') /\ h \in Hw /\ Keeps(hw, h, {"evts"})
      /\ \A c : Answered(hw.results, c) => Answered(hw'.results, c)
      /\ \A d \in Evts : Has(hw.evts, d) <=> Has(hw'.evts, d) \/ d = e
  BY DEF EvtStep
<1>2. hw'.dead = hw.dead /\ hw'.retro = hw.retro /\ hw'.prep = hw.prep /\ hw'.ready = hw.ready
  BY EvtKeeps
<1>3. h.state = hw.state /\ h.results = hw.results /\ h.retro = hw.retro /\ h.capture = hw.capture
  BY <1>1 DEF Keeps, Fields
<1>4. ASSUME app.waiting, NEW c, c = Head(app.todo)
      PROVE  \/ app'.woken /\ Answered(hw'.results, c)
             \/ Has(apiQ', c)
             \/ c \in Slow /\ Alive' /\ Waiter(hw', c) /\ (Has(hw'.evts, Ev(c)) \/ Due(hw', c))
  <2>1. \/ app.woken /\ Answered(hw.results, c)
        \/ c \in Slow /\ Alive /\ Waiter(hw, c) /\ (Has(hw.evts, Ev(c)) \/ Due(hw, c))
    BY <1>1, <1>4 DEF Waits, Has
  <2>2. CASE app.woken /\ Answered(hw.results, c)
    BY <1>1, <2>2
  <2>3. CASE c \in Slow /\ Alive /\ Waiter(hw, c) /\ (Has(hw.evts, Ev(c)) \/ Due(hw, c))
    <3>1. /\ h.results \in Seq(Result)
          /\ \A d \in Slow : Yes(d) \in Result /\ Yes(d).api = d
      BY <1>1 DEF Hw, Yes, Result, Apis, Slow
    <3>2. hw.state = "PREPARE" \/ (hw.state = "PREVIEW_PIC" /\ hw.retro)
      BY <2>3 DEF Waiter, Awaiting
    <3>4. CASE e = Ev(c)
      <4>1. hw'.results = Append(h.results, Yes(c))
        <5>1. CASE c = "prepareSnapshot"
          <6>1. Measured(h, e, hw') /\ Awaiting(h)
            BY <1>1, <1>3, <3>2, <3>4, <5>1 DEF EventStep, Announces, Pictures, Queued, Died, Ev, Awaiting
          <6> QED BY <5>1, <6>1 DEF Measured
        <5>2. CASE c = "takePicture"
          <6>1. Queued(h, e, hw') /\ h.state = "PREVIEW_PIC" /\ h.retro
            BY <1>1, <1>3, <2>3, <3>4, <5>2
              DEF EventStep, Announces, Pictures, Measured, Died, Ev, Waiter
          <6> QED BY <5>2, <6>1 DEF Queued
        <5> QED BY <2>3, <5>1, <5>2 DEF Slow
      <4>2. hw'.results # hw.results /\ Answered(hw'.results, c)
        <5>1. Yes(c) \in Result /\ Yes(c).api = c
          BY <2>3, <3>1
        <5>2. Append(h.results, Yes(c)) # h.results /\ Answered(Append(h.results, Yes(c)), c)
          BY <3>1, <5>1, AnswerAppended
        <5> QED BY <1>3, <4>1, <5>2
      <4> QED BY <1>1, <1>4, <4>2
    <3>5. CASE e = "daemonDied"
      <4>1. hw'.results = Append(Append(h.results, Yes("prepareSnapshot")), Yes("takePicture"))
        <5>1. Died(h, e, hw')
          BY <1>1, <3>5 DEF EventStep, Announces, Pictures, Measured, Queued
        <5> QED BY <1>3, <3>2, <5>1 DEF Died
      <4>2. hw'.results # hw.results /\ Answered(hw'.results, c)
        <5>0. Yes("prepareSnapshot") \in Result /\ Yes("takePicture") \in Result
          BY <3>1 DEF Slow
        <5>1. PICK s \in Seq(Result) : s = Append(h.results, Yes("prepareSnapshot"))
          BY <3>1, <5>0, AppendProperties
        <5>2. Answered(s, "prepareSnapshot")
          <6>1. Yes("prepareSnapshot").api = "prepareSnapshot"
            BY <3>1 DEF Slow
          <6> QED BY <3>1, <5>0, <5>1, <6>1, AnswerAppended
        <5>3. Answered(Append(s, Yes("takePicture")), c)
          <6>1. Yes("takePicture").api = "takePicture"
            BY <3>1 DEF Slow
          <6>2. Answered(Append(s, Yes("takePicture")), c) <=> Answered(s, c) \/ c = "takePicture"
            BY <5>0, <6>1, AnswerAppended
          <6> QED BY <2>3, <5>2, <6>2 DEF Slow
        <5>4. Append(s, Yes("takePicture")) # h.results
          <6>1. Len(s) = Len(h.results) + 1 /\ Len(h.results) \in Nat
            BY <3>1, <5>0, <5>1, AppendProperties, LenProperties
          <6>2. Len(Append(s, Yes("takePicture"))) = Len(s) + 1
            BY <5>0, AppendProperties
          <6> QED BY <6>1, <6>2
        <5> QED BY <1>3, <4>1, <5>1, <5>3, <5>4
      <4> QED BY <1>1, <1>4, <4>2
    <3>6. CASE e \notin {Ev(c), "daemonDied"}
      <4>1. e = "snapshotDone" => hw.state = "PREPARE"
        BY <1>1, <1>2, <1>4, <2>3, <3>2 DEF Forgettable
      <4>2. /\ hw'.capture = hw.capture
            /\ hw'.state = hw.state \/ (c = "takePicture" /\ hw.state = "PREPARE")
        <5>1. CASE Announces(h, e, hw')
          BY <1>3, <3>2, <4>1, <5>1 DEF Announces
        <5>2. CASE Pictures(h, e, hw')
          BY <1>3, <5>2 DEF Pictures, Keeps, Fields
        <5>3. CASE Queued(h, e, hw')
          BY <1>3, <5>3 DEF Queued, Keeps, Fields
        <5>4. CASE Measured(h, e, hw')
          <6>1. c = "takePicture"
            BY <2>3, <3>6, <5>4 DEF Measured, Ev, Slow
          <6>2. hw'.capture = h.capture
            BY <5>4 DEF Measured, Keeps, Fields
          <6> QED BY <1>3, <5>4, <6>1, <6>2 DEF Measured
        <5> QED BY <1>1, <3>6, <5>1, <5>2, <5>3, <5>4 DEF EventStep, Died
      <4>3. Waiter(hw', c)
        BY <1>2, <2>3, <4>2 DEF Waiter, Awaiting
      <4>4. Has(hw'.evts, Ev(c)) \/ Due(hw', c)
        <5>1. Ev(c) \in Evts
          BY DEF Ev, Evts
        <5> QED BY <1>1, <1>2, <2>3, <3>6, <4>2, <5>1 DEF Due
      <4>5. Alive'
        BY <1>1, <1>2, <2>3, <3>6 DEF Alive, Evts
      <4> QED BY <2>3, <4>3, <4>4, <4>5
    <3> QED BY <3>4, <3>5, <3>6
  <2> QED BY <2>1, <2>2, <2>3
<1> QED BY <1>1, <1>4 DEF Waits

LEMMA NextAttends ==
  ASSUME Ind, Attended, [Next]_vars
  PROVE  Attended'
<1>0. CASE Waits
  <2>1. CASE smEvtProcApi
    BY <1>0, <2>1, CallWaits DEF Attended
  <2>2. CASE smEvtProcEvt
    BY <1>0, <2>2, EvtStepIs, EvtWaits DEF Attended
  <2>3. CASE Others
    BY <1>0, <2>3, QuietWaits DEF Attended
  <2>4. CASE (\E op \in config.ops : Operation(op)) \/ processAPI \/ waitAPIResult \/ UNCHANGED vars
    BY <1>0, <2>4, AskingWaits DEF Attended
  <2> QED BY <2>1, <2>2, <2>3, <2>4 DEF Next, Others
<1>1. CASE Forgettable
  <2>0. app \in App /\ hw \in Hw /\ app.waiting /\ app.todo # <<>>
    BY <1>1, Before DEF Forgettable, Ind, Planned
  <2>1. ASSUME app'.todo = app.todo, app'.waiting = app.waiting, hw'.retro = hw.retro
        PROVE  Attended'
    BY <1>1, <2>1 DEF Forgettable, Attended
  <2>2. CASE smEvtProcApi
    BY <2>1, <2>2, CallStepIs DEF CallStep, Summary
  <2>3. CASE smEvtProcEvt
    <3>1. PICK h, e : EvtStep(h, e)
      BY <2>3, EvtStepIs
    <3>2. hw'.retro = hw.retro
      BY <3>1, EvtKeeps
    <3> QED BY <2>1, <3>1, <3>2 DEF EvtStep
  <2>4. CASE Others
    <3>1. Quiet
      BY <2>4, OthersQuiet
    <3>2. hw'.retro = hw.retro /\ app' = app
      BY <3>1 DEF Quiet, Keeps, Fields
    <3> QED BY <2>1, <3>2
  <2>5. ~ \E op \in config.ops : Operation(op)
    BY <2>0 DEF Operation
  <2>6. ~ processAPI
    BY <2>0 DEF processAPI
  <2>7. CASE waitAPIResult
    <3>1. CASE {i \in DOMAIN hw.results : hw.results[i].api = Head(app.todo)} = {}
      <4>1. app' = [app EXCEPT !.woken = FALSE] /\ hw' = hw
        BY <2>7, <3>1 DEF waitAPIResult
      <4> QED BY <2>0, <2>1, <4>1 DEF App
    <3>2. CASE {i \in DOMAIN hw.results : hw.results[i].api = Head(app.todo)} # {}
      <4>1. \E t : app' = [app EXCEPT !.waiting = FALSE, !.woken = FALSE, !.todo = t]
        BY <2>7, <3>2 DEF waitAPIResult
      <4>2. ~app'.waiting
        BY <2>0, <4>1 DEF App
      <4> QED BY <4>2 DEF Attended, Waits
    <3> QED BY <3>1, <3>2 DEF Attended
  <2>8. CASE UNCHANGED vars
    BY <2>1, <2>8 DEF vars
  <2> QED BY <2>2, <2>3, <2>4, <2>5, <2>6, <2>7, <2>8 DEF Next, Others, Attended
<1> QED BY <1>0, <1>1 DEF Attended

\* Waits says no less than NobodyForgotten.
LEMMA WaitsEnough ==
  ASSUME Ind, Waits
  PROVE  NobodyForgotten
<1>1. /\ hw.results \in Seq(Result) /\ hw.evts \in Seq(Evts) /\ apiQ \in Seq(Apis)
  BY Before DEF Hw
<1>2. /\ DOMAIN hw.results = 1 .. Len(hw.results) /\ DOMAIN hw.evts = 1 .. Len(hw.evts)
      /\ DOMAIN apiQ = 1 .. Len(apiQ)
  BY <1>1, LenProperties
<1>3. \A e : Has(hw.evts, e) => sent(e)
  BY <1>2 DEF Has, sent, Range
<1>4. ASSUME app.waiting, NEW c, c = Head(app.todo)
      PROVE  (app.woken /\ answers(c) # {}) \/ c \in Range(apiQ) \/ Owed(c)
  <2>1. \/ app.woken /\ Answered(hw.results, c)
        \/ Has(apiQ, c)
        \/ c \in Slow /\ Alive /\ Waiter(hw, c) /\ (Has(hw.evts, Ev(c)) \/ Due(hw, c))
    BY <1>4 DEF Waits
  <2>2. CASE app.woken /\ Answered(hw.results, c)
    BY <1>2, <2>2 DEF Answered, answers
  <2>3. CASE Has(apiQ, c)
    BY <1>2, <2>3 DEF Has, Range
  <2>4. CASE c \in Slow /\ Alive /\ Waiter(hw, c) /\ (Has(hw.evts, Ev(c)) \/ Due(hw, c))
    <3>1. ~hw.dead \/ sent("daemonDied")
      BY <1>3, <2>4 DEF Alive
    <3>2. Has(hw.evts, Ev(c)) => sent(Ev(c))
      BY <1>3
    <3> QED BY <2>4, <3>1, <3>2 DEF Slow, Waiter, Awaiting, Ev, Due, Owed
  <2> QED BY <2>1, <2>2, <2>3, <2>4
<1> QED BY <1>4 DEF NobodyForgotten

LEMMA AttendedAlways == Spec => [](Ind /\ Attended)
<1>1. Init => Ind /\ Attended
  BY InitInd DEF Init, Attended, Waits
<1>2. (Ind /\ Attended) /\ [Next]_vars => (Ind /\ Attended)'
  BY NextInd, NextAttends
<1> QED BY <1>1, <1>2, PTL DEF Spec

\* Whatever the client calls and whatever fails, a thread in waitAPIResult is
\* woken to its result, or its call is queued, or an event is to come that the
\* state answers it at.  Only a thread that waits for the pictures of the
\* queue or for their light may be left alone: in PREVIEW_PIC_TAKING another
\* thread's CANCEL_PICTURE or the end of the capture takes its state away.
THEOREM OnlyRetroForgotten ==
  Spec => [](NobodyForgotten \/ (hw.retro /\ Head(app.todo) \in {"prepareSnapshot", "takePicture"}))
<1>1. Ind /\ Attended => NobodyForgotten \/ (hw.retro /\ Head(app.todo) \in {"prepareSnapshot", "takePicture"})
  BY WaitsEnough DEF Attended, Forgettable, Slow
<1> QED BY <1>1, AttendedAlways, PTL

-----------------------------------------------------------------------------
(* A client that lets its captures end, on a camera with pictures from the  *)
(* queue.                                                                   *)

Interrupts ==
  {"stopPreview", "cancelPicture", "longshotOn", "longshotOff", "start_recording", "stopRecording"}

\* The client interrupts no capture, and a picture that needs the light is
\* taken after those of the queue.
LetsEnd(c) ==
  /\ c.ops \cap Interrupts = {}
  /\ c.flash => c.retro < c.pictures

\* The calls of those operations, and the HAL's own CANCEL_PICTURE.
Disturbing ==
  {"stopPreview", "cancelPicture", "longshotOn", "longshotOff", "preStartRecording",
   "startRecording", "stopRecording"}

Undisturbed ==
  /\ hw.state \notin Recording /\ hw.live = "none" /\ ~hw.longshot /\ ~note.longshot
  /\ \A c \in Disturbing : ~Has(apiQ, c) /\ ~Has(app.todo, c)
  /\ ~Has(apiQ, "stopCaptureChannel")
  /\ note.expected \in {0, config.pictures}

LightAfter ==
  Has(app.todo, "prepareSnapshot") =>
    /\ config.flash
    /\ app.todo \in {<<"preTakePicture", "takePicture", "prepareSnapshot">>,
                     <<"takePicture", "prepareSnapshot">>, <<"prepareSnapshot">>}

ToMeasure ==
  \/ app.todo = <<"takePicture", "prepareSnapshot">>
  \/ app.todo = <<"prepareSnapshot">> /\ (~app.waiting \/ Has(apiQ, "prepareSnapshot") \/ hw.prep)

\* The light is measured after the capture has started, and a capture starts
\* when none is running.
Unlit ==
  hw.capture = "still" =>
    /\ \A i \in 1 .. Len(hw.results) : hw.results[i].api = "preTakePicture" => ~hw.results[i].ok
    /\ ToMeasure => ~hw.lit

Num(s, x) == Cardinality({i \in 1 .. Len(s) : s[i] = x})

\* The pictures between the postprocessor and the notifier.
Load(h) == Num(h.evts, "jpeg") + Num(h.cmds, "JOB")

JobsLast(s) == \A i, j \in 1 .. Len(s) : i < j /\ s[i] = "JOB" => s[j] = "JOB"

Processing(h) ==
  /\ h.job \/ h.pproc => h.capture = "still"
  /\ h.capture = "still" /\ h.shots > 0 => h.pproc

\* n pictures were handed over.
Pictured(h, n) ==
  /\ Load(h) <= IF h.capture = "still" THEN h.shots ELSE 0
  /\ h.pproc /\ ~Has(h.cmds, "START") => n + Load(h) <= h.shots

\* The last picture is announced when no other is under way.
AllHere(h) ==
  /\ Has(h.evts, "snapshotDone") => h.capture = "still" /\ h.shots = config.pictures /\ Load(h) = 0
  /\ Once(h.evts, "snapshotDone")

\* The pictures of the queue are there first, then the light is measured.
InTurn(h) ==
  h.capture = "still" =>
    /\ h.shots >= config.retro => h.ready
    /\ h.shots > config.retro /\ config.flash => h.lit

NewsFirst(s) ==
  \A i, j \in 1 .. Len(s) : s[i] = "snapshotDone" /\ s[j] \in {"ready", "prepDone"} => j < i

Order(h, n) ==
  /\ JobsLast(h.cmds) /\ NewsFirst(h.evts)
  /\ Processing(h) /\ Pictured(h, n) /\ AllHere(h) /\ InTurn(h)

Ending == Undisturbed /\ LightAfter /\ Unlit /\ Order(hw, note.rcvd)

LEMMA NumOf ==
  ASSUME NEW S, NEW s \in Seq(S), NEW x
  PROVE  Num(s, x) \in Nat /\ (Num(s, x) = 0 <=> ~Has(s, x))
<1> DEFINE A == {i \in 1 .. Len(s) : s[i] = x}
<1>1. IsFiniteSet(A)
  <2>1. IsFiniteSet(1 .. Len(s))
    BY LenProperties, FS_Interval
  <2> QED BY <2>1, FS_Subset
<1>2. Cardinality(A) \in Nat /\ (Cardinality(A) = 0 <=> A = {})
  BY <1>1, FS_CardinalityType, FS_EmptySet
<1> QED BY <1>2 DEF Num, Has

LEMMA NumConcat ==
  ASSUME NEW S, NEW p \in Seq(S), NEW q \in Seq(S), NEW x
  PROVE  Num(p \o q, x) = Num(p, x) + Num(q, x)
<1> DEFINE n == Len(p)
           A == {i \in 1 .. Len(p) : p[i] = x}
           B == {i \in 1 .. Len(q) : q[i] = x}
           C == {i \in 1 .. Len(p \o q) : (p \o q)[i] = x}
           f == [i \in B |-> i + n]
           E == C \ A
<1>1. /\ n \in Nat /\ Len(q) \in Nat /\ Len(p \o q) = n + Len(q)
      /\ \A i \in 1 .. n + Len(q) : (p \o q)[i] = IF i <= n THEN p[i] ELSE q[i - n]
  BY LenProperties, ConcatProperties
<1>2. IsFiniteSet(A) /\ IsFiniteSet(B) /\ IsFiniteSet(C)
  <2>1. IsFiniteSet(1 .. Len(p)) /\ IsFiniteSet(1 .. Len(q)) /\ IsFiniteSet(1 .. Len(p \o q))
    BY <1>1, FS_Interval
  <2> QED BY <2>1, FS_Subset
<1>3. A \subseteq C /\ E = {i \in n + 1 .. n + Len(q) : q[i - n] = x}
  BY <1>1
<1>4. f \in Bijection(B, E)
  <2>1. \A i \in B : i + n \in E
    BY <1>1, <1>3
  <2>2. f \in [B -> E]
    BY <2>1
  <2>3. \A i, j \in B : f[i] = f[j] => i = j
    BY <1>1
  <2>4. \A e \in E : e - n \in B /\ f[e - n] = e
    BY <1>1, <1>3
  <2> HIDE DEF f, B, E
  <2>5. f \in Injection(B, E)
    BY <2>2, <2>3 DEF Injection, IsInjective
  <2>6. f \in Surjection(B, E)
    BY <2>2, <2>4, Zenon DEF Surjection
  <2> QED BY <2>5, <2>6, Zenon DEF Bijection
<1>5. Cardinality(E) = Cardinality(B) /\ IsFiniteSet(E)
  <2>1. ExistsBijection(B, E)
    BY <1>4, Zenon DEF ExistsBijection
  <2> HIDE DEF B, E
  <2> QED BY <1>2, <2>1, FS_Bijection, Zenon
<1>6. Cardinality(A \cup E) = Cardinality(A) + Cardinality(E) - Cardinality(A \cap E)
  BY <1>2, <1>5, FS_Union, Zenon
<1>7. A \cup E = C /\ A \cap E = {}
  BY <1>3
<1>8. Cardinality(C) = Cardinality(A) + Cardinality(B)
  <2>1. Cardinality(A) \in Nat /\ Cardinality(B) \in Nat /\ Cardinality({}) = 0
    BY <1>2, FS_CardinalityType, FS_EmptySet
  <2>2. Cardinality(A \cup E) = Cardinality(C) /\ Cardinality(A \cap E) = 0
    BY <1>7, <2>1, Zenon
  <2> HIDE DEF A, B, C, E
  <2> QED BY <1>5, <1>6, <2>1, <2>2
<1> QED BY <1>8 DEF Num

LEMMA NumOne ==
  ASSUME NEW x, NEW y
  PROVE  Num(<<>>, x) = 0 /\ Num(<<y>>, x) = IF y = x THEN 1 ELSE 0
<1>1. {i \in 1 .. Len(<<>>) : <<>>[i] = x} = {}
  OBVIOUS
<1>2. {i \in 1 .. Len(<<y>>) : <<y>>[i] = x} = IF y = x THEN {1} ELSE {}
  OBVIOUS
<1>3. Cardinality({1}) = 1 /\ Cardinality({}) = 0
  BY FS_Singleton, FS_EmptySet
<1> QED BY <1>1, <1>2, <1>3 DEF Num

LEMMA NumAppend ==
  ASSUME NEW S, NEW s \in Seq(S), NEW y \in S, NEW x
  PROVE  Num(Append(s, y), x) = Num(s, x) + IF y = x THEN 1 ELSE 0
<1>0. <<y>> \in Seq(S)
  OBVIOUS
<1>1. PICK t \in Seq(S) : t = <<y>>
  BY <1>0
<1>2. Append(s, y) = s \o t
  BY <1>1, AppendIsConcat
<1>3. Num(s \o t, x) = Num(s, x) + Num(t, x)
  BY NumConcat
<1> QED BY <1>1, <1>2, <1>3, NumOne

LEMMA NumTail ==
  ASSUME NEW S, NEW s \in Seq(S), s # <<>>, NEW x
  PROVE  Num(s, x) = Num(Tail(s), x) + IF Head(s) = x THEN 1 ELSE 0
<1>1. Tail(s) \in Seq(S) /\ Head(s) \in S /\ Len(s) \in Nat \ {0}
  BY HeadTailProperties, EmptySeq, LenProperties
<1>0. <<Head(s)>> \in Seq(S)
  BY <1>1
<1>2. PICK h \in Seq(S), t \in Seq(S) : h = <<Head(s)>> /\ t = Tail(s)
  BY <1>0, <1>1
<1>3. s = h \o t
  <2>1. h \o t \in Seq(S) /\ Len(h \o t) = Len(s)
    BY <1>1, <1>2, ConcatProperties, HeadTailProperties
  <2>2. \A i \in 1 .. Len(s) : (h \o t)[i] = s[i]
    BY <1>1, <1>2, ConcatProperties, HeadTailProperties
  <2> QED BY <2>1, <2>2, SeqEqual
<1>4. Num(h \o t, x) = Num(h, x) + Num(t, x)
  BY NumConcat
<1>5. Num(t, x) \in Nat
  BY NumOf
<1>6. Num(h, x) = IF Head(s) = x THEN 1 ELSE 0
  BY <1>2, NumOne
<1>7. Num(s, x) = Num(h, x) + Num(t, x)
  BY <1>3, <1>4, Zenon
<1>8. Num(Tail(s), x) = Num(t, x)
  BY <1>2, Zenon
<1> QED BY <1>5, <1>6, <1>7, <1>8

LEMMA JobsAppended ==
  ASSUME NEW S, NEW s \in Seq(S), "JOB" \in S, JobsLast(s)
  PROVE  JobsLast(Append(s, "JOB"))
<1> DEFINE t == Append(s, "JOB")
<1>1. /\ Len(t) = Len(s) + 1 /\ \A i \in 1 .. Len(s) : t[i] = s[i]
      /\ t[Len(s) + 1] = "JOB" /\ Len(s) \in Nat
  BY AppendProperties, LenProperties
<1> HIDE DEF t
<1>2. JobsLast(t)
  BY <1>1 DEF JobsLast
<1> QED BY <1>2 DEF t

LEMMA JobsBehind ==
  ASSUME NEW S, NEW s \in Seq(S), NEW t \in Seq(S), JobsLast(s), ~Has(t, "JOB")
  PROVE  /\ JobsLast(t \o s) /\ Num(t \o s, "JOB") = Num(s, "JOB")
         /\ \A x : Has(t \o s, x) <=> Has(t, x) \/ Has(s, x)
<1>1. Num(t \o s, "JOB") = Num(t, "JOB") + Num(s, "JOB")
  BY NumConcat
<1>2. Num(t, "JOB") = 0 /\ Num(s, "JOB") \in Nat
  BY NumOf
<1> DEFINE u == t \o s
<1>3. /\ Len(s) \in Nat /\ Len(t) \in Nat /\ Len(u) = Len(t) + Len(s)
      /\ \A k \in 1 .. Len(t) + Len(s) : u[k] = IF k <= Len(t) THEN t[k] ELSE s[k - Len(t)]
  BY LenProperties, ConcatProperties
<1> HIDE DEF u
<1>4. \A i \in 1 .. Len(u) : u[i] = "JOB" => i > Len(t)
  BY <1>3 DEF Has
<1>5. JobsLast(u)
  <2>1. ASSUME NEW i \in 1 .. Len(u), NEW j \in 1 .. Len(u), i < j, u[i] = "JOB"
        PROVE  u[j] = "JOB"
    <3>1. i > Len(t) /\ j > Len(t)
      BY <1>3, <1>4, <2>1
    <3>2. i - Len(t) \in 1 .. Len(s) /\ j - Len(t) \in 1 .. Len(s) /\ i - Len(t) < j - Len(t)
      BY <1>3, <2>1, <3>1
    <3>3. u[i] = s[i - Len(t)] /\ u[j] = s[j - Len(t)]
      BY <1>3, <3>1
    <3> QED BY <2>1, <3>2, <3>3 DEF JobsLast
  <2> QED BY <2>1 DEF JobsLast
<1>6. ASSUME NEW x PROVE Has(u, x) <=> Has(t, x) \/ Has(s, x)
  <2>1. ASSUME NEW k \in 1 .. Len(s) PROVE k + Len(t) \in 1 .. Len(u) /\ u[k + Len(t)] = s[k]
    <3>1. k + Len(t) \in 1 .. Len(t) + Len(s) /\ ~(k + Len(t) <= Len(t)) /\ k + Len(t) - Len(t) = k
      BY <1>3
    <3> QED BY <1>3, <3>1
  <2>2. ASSUME NEW k \in 1 .. Len(t) PROVE k \in 1 .. Len(u) /\ u[k] = t[k]
    BY <1>3
  <2>3. ASSUME NEW k \in 1 .. Len(u) PROVE Has(t, u[k]) \/ Has(s, u[k])
    <3>1. CASE k <= Len(t)
      BY <1>3, <3>1 DEF Has
    <3>2. CASE ~(k <= Len(t))
      <4>1. k - Len(t) \in 1 .. Len(s) /\ u[k] = s[k - Len(t)]
        BY <1>3, <3>2
      <4> QED BY <4>1 DEF Has
    <3> QED BY <3>1, <3>2
  <2> QED BY <2>1, <2>2, <2>3, Zenon DEF Has
<1> QED BY <1>1, <1>2, <1>5, <1>6 DEF u

LEMMA JobsTaken ==
  ASSUME NEW S, NEW s \in Seq(S), s # <<>>, JobsLast(s)
  PROVE  JobsLast(Tail(s)) /\ (Head(s) = "JOB" => \A x : Has(s, x) => x = "JOB")
<1> DEFINE t == Tail(s)
<1>1. /\ Len(t) = Len(s) - 1 /\ \A i \in 1 .. Len(t) : t[i] = s[i + 1]
      /\ Len(s) \in Nat \ {0} /\ Head(s) = s[1]
  BY HeadTailProperties, EmptySeq, LenProperties
<1> HIDE DEF t
<1>2. JobsLast(t)
  <2>1. ASSUME NEW i \in 1 .. Len(t), NEW j \in 1 .. Len(t), i < j, t[i] = "JOB"
        PROVE  t[j] = "JOB"
    <3>1. i + 1 \in 1 .. Len(s) /\ j + 1 \in 1 .. Len(s) /\ i + 1 < j + 1
      BY <1>1, <2>1
    <3> QED BY <1>1, <2>1, <3>1 DEF JobsLast
  <2> QED BY <2>1 DEF JobsLast
<1>3. ASSUME Head(s) = "JOB", NEW i \in 1 .. Len(s) PROVE s[i] = "JOB"
  <2>1. i = 1 \/ 1 < i
    BY <1>1
  <2> QED BY <1>1, <1>3, <2>1 DEF JobsLast
<1> QED BY <1>2, <1>3 DEF t, Has

LEMMA NewsAppended ==
  ASSUME NEW S, NEW s \in Seq(S), NEW y \in S, NewsFirst(s),
         y \in {"ready", "prepDone"} => ~Has(s, "snapshotDone")
  PROVE  NewsFirst(Append(s, y))
<1> DEFINE t == Append(s, y)
<1>1. /\ Len(t) = Len(s) + 1 /\ \A i \in 1 .. Len(s) : t[i] = s[i]
      /\ t[Len(s) + 1] = y /\ Len(s) \in Nat
  BY AppendProperties, LenProperties
<1> HIDE DEF t
<1>2. ASSUME NEW i \in 1 .. Len(t), NEW j \in 1 .. Len(t),
             t[i] = "snapshotDone", t[j] \in {"ready", "prepDone"}
      PROVE  j < i
  <2>1. j # Len(s) + 1 \/ i = Len(s) + 1
    BY <1>1, <1>2 DEF Has
  <2>2. i # j
    BY <1>2
  <2>3. CASE i \in 1 .. Len(s) /\ j \in 1 .. Len(s)
    BY <1>1, <1>2, <2>3 DEF NewsFirst
  <2> QED BY <1>1, <2>1, <2>2, <2>3
<1>3. NewsFirst(t)
  BY <1>2 DEF NewsFirst
<1> QED BY <1>3 DEF t

LEMMA NewsTaken ==
  ASSUME NEW S, NEW s \in Seq(S), s # <<>>, NewsFirst(s)
  PROVE  NewsFirst(Tail(s)) /\ (Head(s) = "snapshotDone" => ~Has(s, "ready") /\ ~Has(s, "prepDone"))
<1> DEFINE t == Tail(s)
<1>1. /\ Len(t) = Len(s) - 1 /\ \A i \in 1 .. Len(t) : t[i] = s[i + 1]
      /\ Len(s) \in Nat \ {0} /\ Head(s) = s[1]
  BY HeadTailProperties, EmptySeq, LenProperties
<1> HIDE DEF t
<1>2. NewsFirst(t)
  <2>1. ASSUME NEW i \in 1 .. Len(t), NEW j \in 1 .. Len(t),
               t[i] = "snapshotDone", t[j] \in {"ready", "prepDone"}
        PROVE  j < i
    <3>1. i + 1 \in 1 .. Len(s) /\ j + 1 \in 1 .. Len(s)
      BY <1>1
    <3>2. j + 1 < i + 1
      BY <1>1, <2>1, <3>1 DEF NewsFirst
    <3> QED BY <3>2
  <2> QED BY <2>1 DEF NewsFirst
<1>3. ASSUME Head(s) = "snapshotDone", NEW j \in 1 .. Len(s) PROVE s[j] \notin {"ready", "prepDone"}
  <2>1. 1 \in 1 .. Len(s) /\ ~(j < 1)
    BY <1>1
  <2> QED BY <1>1, <1>3, <2>1 DEF NewsFirst
<1> QED BY <1>2, <1>3 DEF t, Has

Lean == Ind /\ Retro /\ LetsEnd(config) /\ Ending

LEMMA LeanFacts ==
  ASSUME Lean
  PROVE  /\ hw \in Hw /\ note \in Note /\ app \in App /\ apiQ \in Seq(Apis) /\ app.todo \in Plans
         /\ config \in Configs /\ config.zsl /\ config.retro \in Nat \ {0} /\ config.pictures \in Nat \ {0}
         /\ config.retro <= config.pictures /\ (config.flash => config.retro < config.pictures)
         /\ hw.capture \in {"none", "still"} /\ (hw.capture = "still" => hw.retro)
         /\ hw.cmds \in Seq(Commands) /\ hw.evts \in Seq(Evts) /\ hw.results \in Seq(Result)
         /\ hw.shots \in 0 .. config.pictures /\ note.rcvd \in Nat
         /\ Num(hw.evts, "jpeg") \in Nat /\ Num(hw.cmds, "JOB") \in Nat /\ Load(hw) \in Nat
         /\ Load(hw) = 0 <=> Num(hw.evts, "jpeg") = 0 /\ Num(hw.cmds, "JOB") = 0
         /\ (hw.capture = "none" => Load(hw) = 0 /\ ~hw.job /\ ~hw.pproc)
<1>1. /\ hw \in Hw /\ note \in Note /\ app \in App /\ apiQ \in Seq(Apis) /\ app.todo \in Plans
      /\ config \in Configs /\ ConfigTyped /\ Sound(hw)
  BY Before DEF Lean, Ind, Planned
<1>2. config.zsl /\ config.retro > 0 /\ (config.flash => config.retro < config.pictures)
  BY DEF Lean, Retro, LetsEnd
<1>3. /\ config.retro \in Nat \ {0} /\ config.pictures \in Nat \ {0} /\ config.retro <= config.pictures
  BY <1>1, <1>2 DEF ConfigTyped
<1>4. /\ hw.cmds \in Seq(Commands) /\ hw.evts \in Seq(Evts) /\ hw.results \in Seq(Result)
      /\ hw.shots \in 0 .. config.pictures /\ note.rcvd \in Nat /\ hw.capture \in {"none", "still", "live"}
      /\ hw.job \in BOOLEAN /\ hw.pproc \in BOOLEAN
  BY <1>1 DEF Hw, Note
<1>5. hw.capture # "live"
  BY <1>1 DEF Lean, Ending, Undisturbed, Sound, Recording
<1>6. hw.capture = "still" => hw.retro
  BY DEF Lean, Ending, Undisturbed, Ind, RetroOK
<1>7. Num(hw.evts, "jpeg") \in Nat /\ Num(hw.cmds, "JOB") \in Nat
  BY <1>4, NumOf
<1>8. /\ Load(hw) \in Nat
      /\ Load(hw) = 0 <=> Num(hw.evts, "jpeg") = 0 /\ Num(hw.cmds, "JOB") = 0
  BY <1>7 DEF Load
<1>9. hw.capture = "none" => Load(hw) = 0 /\ ~hw.job /\ ~hw.pproc
  BY <1>8 DEF Lean, Ending, Order, Processing, Pictured
<1> QED BY <1>1, <1>2, <1>3, <1>4, <1>5, <1>6, <1>7, <1>8, <1>9

Ordering == {"capture", "job", "pproc", "shots", "ready", "lit", "evts", "cmds"}

LEMMA OrderKept ==
  ASSUME NEW h, NEW g, NEW n, NEW F, Keeps(h, g, F), F \cap Ordering = {}, Order(h, n)
  PROVE  Order(g, n)
<1>1. /\ g.capture = h.capture /\ g.job = h.job /\ g.pproc = h.pproc /\ g.shots = h.shots
      /\ g.ready = h.ready /\ g.lit = h.lit /\ g.evts = h.evts /\ g.cmds = h.cmds
  BY DEF Keeps, Fields, Ordering
<1>2. Load(g) = Load(h)
  BY <1>1 DEF Load
<1> QED BY <1>1, <1>2, Zenon DEF Order, Processing, Pictured, AllHere, InTurn

LEMMA EndingStep ==
  ASSUME config' = config, Undisturbed', LightAfter', Unlit', Order(hw', note'.rcvd)
  PROVE  Ending'
<1>1. Order(hw, note.rcvd)'
  BY Zenon DEF Order, Processing, Pictured, AllHere, InTurn, Load, JobsLast, NewsFirst, Num, Has, Once
<1> QED BY <1>1 DEF Ending

LEMMA LightTails ==
  /\ Head(<<"preTakePicture", "takePicture", "prepareSnapshot">>) = "preTakePicture"
  /\ Tail(<<"preTakePicture", "takePicture", "prepareSnapshot">>) = <<"takePicture", "prepareSnapshot">>
  /\ Head(<<"takePicture", "prepareSnapshot">>) = "takePicture"
  /\ Tail(<<"takePicture", "prepareSnapshot">>) = <<"prepareSnapshot">>
  /\ Head(<<"prepareSnapshot">>) = "prepareSnapshot" /\ Tail(<<"prepareSnapshot">>) = <<>>
  /\ <<"takePicture", "prepareSnapshot">> # <<"prepareSnapshot">>
<1> QED OBVIOUS

\* Only one thread calls, so what is queued is its call, or the HAL's own.
LEMMA LeanAsks ==
  ASSUME Lean, NEW c \in Apis, Has(apiQ, c), Alive \/ c \notin Slow
  PROVE  Asked(c) /\ c \notin Disturbing /\ c # "stopCaptureChannel"
<1>1. c \notin Disturbing /\ c # "stopCaptureChannel"
  BY DEF Lean, Ending, Undisturbed
<1>2. c \notin OwnCalls
  BY <1>1 DEF OwnCalls, Disturbing
<1>3. CASE c \in Slow
  BY <1>1, <1>3 DEF Lean, Ind, SlowOne, OneStage
<1>4. CASE c \notin Slow
  BY <1>1, <1>2, <1>4 DEF Lean, Ind, QuickOne
<1> QED BY <1>1, <1>3, <1>4

LEMMA LeanOperation ==
  ASSUME Lean, NEW op \in config.ops, Operation(op)
  PROVE  Ending'
<1>0. /\ hw \in Hw /\ app \in App /\ config' = config /\ apiQ' = apiQ /\ note' = note
      /\ op \in Operations /\ op \notin Interrupts /\ app.todo = <<>> /\ config.retro > 0 /\ config.zsl
  BY LeanFacts, Before DEF Lean, LetsEnd, Operation
<1>1. app'.todo = calls(op) /\ app'.waiting = app.waiting
  <2>1. \E w : app' = [app EXCEPT !.todo = calls(op), !.calls = @ + 1, !.wants = w]
    BY Zenon DEF Operation
  <2>2. PICK w : app' = [app EXCEPT !.todo = calls(op), !.calls = @ + 1, !.wants = w]
    BY <2>1, Zenon
  <2> QED BY <1>0, <2>2, Zenon DEF App
<1>2. Keeps(hw, hw', {"retro"})
  BY <1>0 DEF Operation, Keeps, Fields, Hw
<1>3. /\ hw'.state = hw.state /\ hw'.live = hw.live /\ hw'.longshot = hw.longshot
      /\ hw'.capture = hw.capture /\ hw'.lit = hw.lit /\ hw'.results = hw.results
      /\ hw'.prep = hw.prep
  BY <1>2 DEF Keeps, Fields
<1>4. /\ \A c \in Disturbing : ~Has(calls(op), c)
      /\ Has(calls(op), "prepareSnapshot") =>
           /\ config.flash
           /\ \/ calls(op) = <<"preTakePicture", "takePicture", "prepareSnapshot">>
              \/ calls(op) = <<"prepareSnapshot">> /\ op = "prepareSnapshot"
      /\ calls(op) # <<"takePicture", "prepareSnapshot">>
  <2>1. CASE op = "take_picture"
    <3>1. isRetro
      BY <1>0 DEF Lean, Ending, Undisturbed, isRetro, Recording
    <3>2. calls(op) = <<"preTakePicture", "takePicture">> \o prepare_snapshot
      BY <2>1, <3>1 DEF calls, take_picture
    <3>3. \/ config.flash /\ calls(op) = <<"preTakePicture", "takePicture", "prepareSnapshot">>
          \/ calls(op) = <<"preTakePicture", "takePicture">>
      BY <3>2, PicturePlans DEF prepare_snapshot
    <3>4. /\ \A c : Has(<<"preTakePicture", "takePicture">>, c) => c \in {"preTakePicture", "takePicture"}
          /\ \A c : Has(<<"preTakePicture", "takePicture", "prepareSnapshot">>, c)
                      => c \in {"preTakePicture", "takePicture", "prepareSnapshot"}
          /\ <<"preTakePicture", "takePicture">> # <<"takePicture", "prepareSnapshot">>
          /\ <<"preTakePicture", "takePicture", "prepareSnapshot">> # <<"takePicture", "prepareSnapshot">>
      BY DEF Has
    <3> QED BY <3>3, <3>4 DEF Disturbing
  <2>2. CASE op = "set_parameters"
    <3>1. calls(op) = set_parameters
      BY <2>2 DEF calls
    <3>2. /\ \A c : Has(set_parameters, c) => c \in {"setParams", "setParamsStop", "other", "setParamsRestart"}
          /\ set_parameters # <<"takePicture", "prepareSnapshot">>
      BY DEF Has, set_parameters
    <3> QED BY <3>1, <3>2 DEF Disturbing
  <2>3. CASE op \notin {"take_picture", "set_parameters", "start_recording"}
    <3>1. calls(op) = <<op>>
      BY <2>3 DEF calls
    <3>2. op \notin Disturbing /\ op # "prepareSnapshot"
      BY <1>0, <2>3 DEF Interrupts, Disturbing, Operations
    <3>3. <<op>> # <<"takePicture", "prepareSnapshot">>
      <4>1. Len(<<op>>) = 1 /\ Len(<<"takePicture", "prepareSnapshot">>) = 2
        OBVIOUS
      <4> QED BY <4>1
    <3> QED BY <3>1, <3>2, <3>3, OnlyTails
  <2> QED BY <1>0, <2>1, <2>2, <2>3 DEF Interrupts
<1>5. Undisturbed'
  BY <1>0, <1>1, <1>3, <1>4 DEF Lean, Ending, Undisturbed
<1>6. LightAfter'
  BY <1>0, <1>1, <1>4 DEF LightAfter
<1>7. calls(op) # <<"prepareSnapshot">>
  <2>1. ASSUME calls(op) = <<"prepareSnapshot">> PROVE FALSE
    <3>1. Has(calls(op), "prepareSnapshot")
      BY <2>1, OnlyTails
    <3>2. <<"prepareSnapshot">> # <<"preTakePicture", "takePicture", "prepareSnapshot">>
      <4>1. Len(<<"prepareSnapshot">>) = 1 /\ Len(<<"preTakePicture", "takePicture", "prepareSnapshot">>) = 3
        OBVIOUS
      <4> QED BY <4>1
    <3>3. op = "prepareSnapshot"
      BY <1>4, <2>1, <3>1, <3>2
    <3> QED BY <1>0, <3>3 DEF Operations
  <2> QED BY <2>1
<1>8. Unlit'
  BY <1>1, <1>3, <1>4, <1>7 DEF Lean, Ending, Unlit, ToMeasure
<1>9. Order(hw', note'.rcvd)
  BY <1>0, <1>2, OrderKept DEF Lean, Ending, Ordering
<1> QED BY <1>0, <1>5, <1>6, <1>8, <1>9, EndingStep

LEMMA LeanProcessAPI ==
  ASSUME Lean, processAPI
  PROVE  Ending'
<1>0. /\ hw' = hw /\ note' = note /\ config' = config /\ app.todo # <<>> /\ ~app.waiting
      /\ apiQ' = Append(apiQ, Head(app.todo)) /\ app' = [app EXCEPT !.waiting = TRUE, !.woken = FALSE]
  BY DEF processAPI
<1>1. app'.todo = app.todo /\ app'.waiting
  BY <1>0, LeanFacts DEF App
<1>2. /\ app.todo \in Seq(Apis) /\ Head(app.todo) \in Apis \ {"stopCaptureChannel"}
      /\ Has(app.todo, Head(app.todo))
  <2>1. app.todo \in Seq(Apis) /\ Head(app.todo) \in Apis \ {"stopCaptureChannel"}
    BY <1>0, LeanFacts, PlanFacts
  <2> QED BY <1>0, <2>1, Taken
<1>3. \A c : Has(apiQ', c) <=> Has(apiQ, c) \/ c = Head(app.todo)
  <2>1. apiQ \in Seq(Apis)
    BY LeanFacts
  <2> QED BY <1>0, <1>2, <2>1, Appended
<1>4. Undisturbed'
  BY <1>0, <1>1, <1>2, <1>3 DEF Lean, Ending, Undisturbed
<1>5. LightAfter'
  BY <1>0, <1>1 DEF Lean, Ending, LightAfter
<1>6. Unlit'
  BY <1>0, <1>1, <1>3 DEF Lean, Ending, Unlit, ToMeasure
<1>7. Order(hw', note'.rcvd)
  BY <1>0 DEF Lean, Ending
<1> QED BY <1>0, <1>4, <1>5, <1>6, <1>7, EndingStep

LEMMA LeanAnswered ==
  ASSUME Lean, waitAPIResult
  PROVE  Ending'
<1>0. /\ note' = note /\ config' = config /\ apiQ' = apiQ /\ app.waiting /\ hw \in Hw /\ app \in App
      /\ app.todo # <<>> /\ app.todo \in Seq(Apis) /\ hw.results \in Seq(Result)
  BY LeanFacts, PlanFacts DEF waitAPIResult, Lean, Ind, Planned
<1>1. CASE hw' = hw /\ app' = [app EXCEPT !.woken = FALSE]
  <2>1. app'.todo = app.todo /\ app'.waiting = app.waiting
    BY <1>0, <1>1 DEF App
  <2>2. Undisturbed' /\ LightAfter' /\ Unlit' /\ Order(hw', note'.rcvd)
    BY <1>0, <1>1, <2>1 DEF Lean, Ending, Undisturbed, LightAfter, Unlit, ToMeasure
  <2> QED BY <1>0, <2>2, EndingStep
<1>2. CASE \E i \in 1 .. Len(hw.results) :
              /\ hw.results[i].api = Head(app.todo)
              /\ app'.todo \in {Tail(app.todo), <<>>} /\ ~app'.waiting /\ ~app'.woken
              /\ app'.todo = <<>> \/ hw.results[i].ok \/ Head(app.todo) \in Slow
              /\ app' \in App /\ app'.wants = app.wants
              /\ hw' \in Hw /\ Keeps(hw, hw', {"results", "prepRun"})
              /\ hw'.results = RemoveAt(hw.results, i)
  <2>1. PICK i \in 1 .. Len(hw.results) :
              /\ hw.results[i].api = Head(app.todo)
              /\ app'.todo \in {Tail(app.todo), <<>>} /\ ~app'.waiting
              /\ app'.todo = <<>> \/ hw.results[i].ok \/ Head(app.todo) \in Slow
              /\ Keeps(hw, hw', {"results", "prepRun"})
              /\ hw'.results = RemoveAt(hw.results, i)
    BY <1>2
  <2>2. /\ hw'.state = hw.state /\ hw'.live = hw.live /\ hw'.longshot = hw.longshot
        /\ hw'.capture = hw.capture /\ hw'.lit = hw.lit /\ hw'.prep = hw.prep
    BY <2>1 DEF Keeps, Fields
  <2>3. \A c : Has(app'.todo, c) => app'.todo = Tail(app.todo) /\ Has(app.todo, c)
    <3>1. \A c : Has(Tail(app.todo), c) => Has(app.todo, c)
      BY <1>0, Taken
    <3>2. \A c : ~Has(<<>>, c)
      BY DEF Has
    <3> QED BY <2>1, <3>1, <3>2
  <2>4. Undisturbed'
    BY <1>0, <2>2, <2>3 DEF Lean, Ending, Undisturbed
  <2>5. LightAfter'
    <3>1. ASSUME Has(app'.todo, "prepareSnapshot")
          PROVE  /\ config.flash
                 /\ app'.todo \in {<<"takePicture", "prepareSnapshot">>, <<"prepareSnapshot">>}
      <4>1. Has(app.todo, "prepareSnapshot") /\ app'.todo = Tail(app.todo) /\ app'.todo # <<>>
        BY <2>3, <3>1 DEF Has
      <4>2. /\ config.flash
            /\ app.todo \in {<<"preTakePicture", "takePicture", "prepareSnapshot">>,
                            <<"takePicture", "prepareSnapshot">>, <<"prepareSnapshot">>}
        BY <4>1 DEF Lean, Ending, LightAfter
      <4> QED BY <4>1, <4>2, LightTails
    <3> QED BY <1>0, <3>1 DEF LightAfter
  <2>6. Unlit'
    <3>1. ASSUME hw.capture = "still", NEW k \in 1 .. Len(hw'.results), hw'.results[k].api = "preTakePicture"
          PROVE  ~hw'.results[k].ok
      <4>1. \E j \in 1 .. Len(hw.results) : hw'.results[k] = hw.results[j]
        BY <1>0, <2>1, AnswersLeft
      <4> QED BY <3>1, <4>1 DEF Lean, Ending, Unlit
    <3>2. ASSUME hw.capture = "still",
                 app'.todo \in {<<"takePicture", "prepareSnapshot">>, <<"prepareSnapshot">>}
          PROVE  ~hw.lit
      <4>1. Has(app'.todo, "prepareSnapshot")
        <5>1. Has(<<"prepareSnapshot">>, "prepareSnapshot")
          BY OnlyTails
        <5>2. Has(<<"takePicture", "prepareSnapshot">>, "prepareSnapshot")
          BY DEF Has
        <5> QED BY <3>2, <5>1, <5>2
      <4>2. /\ app'.todo = Tail(app.todo)
            /\ app.todo \in {<<"preTakePicture", "takePicture", "prepareSnapshot">>,
                             <<"takePicture", "prepareSnapshot">>, <<"prepareSnapshot">>}
        BY <2>3, <4>1 DEF Lean, Ending, LightAfter
      <4>3. app'.todo # <<>>
        BY <4>1 DEF Has
      <4>4. CASE app.todo = <<"preTakePicture", "takePicture", "prepareSnapshot">>
        <5>1. hw.results[i].ok
          BY <2>1, <4>3, <4>4, LightTails DEF Slow
        <5>2. hw.results[i].api = "preTakePicture"
          BY <2>1, <4>4, LightTails
        <5> QED BY <3>2, <5>1, <5>2 DEF Lean, Ending, Unlit
      <4>5. CASE app.todo = <<"takePicture", "prepareSnapshot">>
        BY <3>2, <4>5 DEF Lean, Ending, Unlit, ToMeasure
      <4>6. CASE app.todo = <<"prepareSnapshot">>
        BY <4>2, <4>3, <4>6, LightTails
      <4> QED BY <4>2, <4>4, <4>5, <4>6
    <3> QED BY <2>2, <3>1, <3>2 DEF Unlit, ToMeasure
  <2>7. Order(hw', note'.rcvd)
    BY <1>0, <2>1, OrderKept DEF Lean, Ending, Ordering
  <2> QED BY <1>0, <2>4, <2>5, <2>6, <2>7, EndingStep
<1> QED BY <1>1, <1>2, AnswerFound DEF Lean

\* A call changes the settings, starts a capture, or fails to start one.
LEMMA LeanKinds ==
  ASSUME Lean, NEW e, CallStep(e)
  PROVE  /\ e \notin Disturbing
         /\ \/ Keeps(hw, hw', Settings \cup {"prep"})
            \/ Releases(hw, e, hw') /\ hw.capture = "none"
            \/ Starts(hw, e, hw') /\ hw.capture = "none" /\ Asked("takePicture")
            \/ StartFails(hw, e, hw') /\ hw.capture = "none"
<1>1. /\ e \in Apis /\ Has(apiQ, e) /\ Kinds(hw, e, hw') /\ Sound(hw)
      /\ hw.capture \in {"none", "still"}
  BY LeanFacts, Before DEF CallStep, Lean
<1>2. e \notin Disturbing /\ hw.state \notin Recording /\ ~hw.longshot
  BY <1>1 DEF Lean, Ending, Undisturbed
<1>3. CASE Settles(hw, e, hw') \/ Ignores(hw, e, hw') \/ Measures(hw, e, hw')
  <2>1. Keeps(hw, hw', Settings \cup {"prep"})
    BY <1>3 DEF Settles, Ignores, Measures, Keeps
  <2> QED BY <1>2, <2>1
<1>4. CASE Releases(hw, e, hw')
  BY <1>1, <1>2, <1>4 DEF Releases
<1>5. CASE Starts(hw, e, hw')
  <2>1. e = "takePicture" /\ ~hw.dead /\ hw.state = "PREVIEWING"
    BY <1>5 DEF Starts
  <2>2. hw.capture = "none"
    BY <1>1, <2>1 DEF Sound
  <2>3. Asked("takePicture")
    BY <1>1, <2>1, LeanAsks DEF Alive
  <2> QED BY <1>2, <1>5, <2>2, <2>3
<1>6. CASE StartFails(hw, e, hw')
  <2>1. hw.state = "PREVIEWING"
    BY <1>6 DEF StartFails
  <2>2. hw.capture = "none"
    BY <1>1, <2>1 DEF Sound
  <2> QED BY <1>2, <1>6, <2>2
<1>7. ~Ends(hw, e, hw') /\ ~Lives(hw, e, hw') /\ ~Longs(hw, e, hw') /\ ~Repeats(hw, e, hw')
  BY <1>2 DEF Ends, Lives, Longs, Repeats, Disturbing
<1> QED BY <1>1, <1>3, <1>4, <1>5, <1>6, <1>7 DEF Kinds

LEMMA CallOrdered ==
  ASSUME Lean, NEW e, CallStep(e)
  PROVE  Order(hw', note'.rcvd)
<1>0. Order(hw, note.rcvd) /\ note' = note
  BY DEF Lean, Ending, CallStep
<1>1. CASE Keeps(hw, hw', Settings \cup {"prep"})
  BY <1>0, <1>1, OrderKept DEF Settings, Ordering
<1>2. CASE hw.capture = "none" /\ (Releases(hw, e, hw') \/ Starts(hw, e, hw') \/ StartFails(hw, e, hw'))
  <2>0. /\ Load(hw) = 0 /\ ~hw.job /\ ~hw.pproc /\ hw.cmds \in Seq(Commands) /\ config.zsl
        /\ config.retro \in Nat \ {0} /\ Num(hw.evts, "jpeg") \in Nat /\ Num(hw.cmds, "JOB") \in Nat
        /\ JobsLast(hw.cmds) /\ NewsFirst(hw.evts) /\ ~Has(hw.evts, "snapshotDone")
        /\ Num(hw.evts, "jpeg") = 0 /\ Num(hw.cmds, "JOB") = 0
    BY <1>0, <1>2, LeanFacts DEF Order, AllHere
  <2>1. hw'.evts = hw.evts /\ (hw'.job => hw'.capture = "still")
        /\ (hw'.capture = "still" => hw'.shots = 0)
    BY <1>2, <2>0 DEF Releases, Starts, StartFails, Keeps, Fields, Settings, Start
  <2>2. ~hw'.pproc /\ JobsLast(hw'.cmds) /\ Num(hw'.cmds, "JOB") = 0
    <3>1. CASE hw'.pproc = hw.pproc /\ hw'.cmds = hw.cmds
      BY <2>0, <3>1
    <3>2. CASE ~hw'.pproc /\ \E t \in Told : hw'.cmds = t \o hw.cmds
      <4>1. PICK t \in Told : hw'.cmds = t \o hw.cmds
        BY <3>2
      <4>2. t \in Seq(Commands) /\ ~Has(t, "JOB")
        BY <4>1 DEF Told, Commands, Has
      <4> QED BY <2>0, <3>2, <4>1, <4>2, JobsBehind
    <3>3. CASE Releases(hw, e, hw') \/ Starts(hw, e, hw')
      <4>1. hw'.pproc = hw.pproc /\ hw'.cmds = hw.cmds
        BY <3>3 DEF Releases, Starts, Keeps, Fields, Settings, Start
      <4> QED BY <3>1, <4>1
    <3>4. CASE StartFails(hw, e, hw')
      BY <2>0, <3>1, <3>2, <3>4 DEF StartFails
    <3> QED BY <1>2, <3>3, <3>4
  <2>3. Load(hw') = 0
    BY <2>0, <2>1, <2>2 DEF Load
  <2>4. Processing(hw') /\ Pictured(hw', note'.rcvd) /\ AllHere(hw') /\ InTurn(hw')
    <3>1. Processing(hw')
      BY <2>1, <2>2 DEF Processing
    <3>2. Pictured(hw', note'.rcvd)
      BY <2>1, <2>2, <2>3 DEF Pictured
    <3>3. AllHere(hw')
      BY <2>0, <2>1 DEF AllHere, Once, Has
    <3>4. InTurn(hw')
      BY <2>0, <2>1 DEF InTurn
    <3> QED BY <3>1, <3>2, <3>3, <3>4
  <2> QED BY <2>0, <2>1, <2>2, <2>4 DEF Order
<1> QED BY <1>1, <1>2, LeanKinds

\* A picture is not taken during another, except in longshot.
LEMMA NotTwice ==
  ASSUME Lean, hw.capture = "still", NEW g \in stateMachine(hw, "preTakePicture")
  PROVE  g = signalAPIResult(hw, "preTakePicture", FALSE)
<1>1. hw.state \in {"PIC", "PREVIEW_PIC"} /\ ~hw.longshot
  BY Before DEF Lean, Ending, Undisturbed, Sound
<1>2. CASE hw.state = "PIC"
  <2>1. g \in procEvtPicTakingState(hw, "preTakePicture")
    BY <1>2, StateMachineIs DEF States
  <2>2. g \in takeAnother(hw, "preTakePicture")
    BY <2>1 DEF procEvtPicTakingState
  <2> QED BY <1>1, <2>2 DEF takeAnother
<1>3. CASE hw.state = "PREVIEW_PIC"
  <2>1. g \in procEvtPreviewPicTakingState(hw, "preTakePicture")
    BY <1>3, StateMachineIs DEF States
  <2>2. g \in takeAnother(hw, "preTakePicture")
    BY <2>1 DEF procEvtPreviewPicTakingState
  <2> QED BY <1>1, <2>2 DEF takeAnother
<1> QED BY <1>1, <1>2, <1>3

LEMMA LeanCall ==
  ASSUME Lean, smEvtProcApi
  PROVE  Ending'
<1>1. PICK e : e = Head(apiQ) /\ CallStep(e)
  BY CallStepIs DEF Lean
<1>2. /\ config' = config /\ note' = note /\ app'.todo = app.todo /\ app'.waiting = app.waiting
      /\ e \in Apis /\ \A d \in Apis : Has(apiQ', d) => Has(apiQ, d)
      /\ Has(apiQ, e) /\ Moves(hw, e, hw') /\ Summary(hw, e, hw') /\ hw.results \in Seq(Result)
  BY <1>1, LeanFacts DEF CallStep
<1>3. /\ e \notin Disturbing
      /\ \/ Keeps(hw, hw', Settings \cup {"prep"})
         \/ Releases(hw, e, hw') /\ hw.capture = "none"
         \/ Starts(hw, e, hw') /\ hw.capture = "none" /\ Asked("takePicture")
         \/ StartFails(hw, e, hw') /\ hw.capture = "none"
  BY <1>1, LeanKinds
<1>4. hw'.live = hw.live /\ hw'.longshot = hw.longshot
  BY <1>3 DEF Releases, Starts, StartFails, Keeps, Fields, Settings, Start
<1>5. Undisturbed'
  <2>1. Disturbing \subseteq Apis /\ "stopCaptureChannel" \in Apis
    BY DEF Disturbing, Apis
  <2>2. hw'.state \notin Recording
    BY <1>2, <1>3 DEF Lean, Ending, Undisturbed, Moves, Disturbing
  <2> QED BY <1>2, <1>4, <2>1, <2>2 DEF Lean, Ending, Undisturbed
<1>6. LightAfter'
  BY <1>2 DEF Lean, Ending, LightAfter
<1>7. Unlit'
  <2>1. CASE hw'.capture = "still" /\ hw.capture = "still"
    <3>0. Keeps(hw, hw', Settings \cup {"prep"})
      BY <1>3, <2>1
    <3>1. hw'.lit = hw.lit /\ (hw'.prep => hw.prep \/ Has(apiQ, "prepareSnapshot"))
      <4>1. hw'.lit = hw.lit
        BY <3>0 DEF Keeps, Fields, Settings
      <4> QED BY <1>2, <4>1 DEF Summary
    <3>2. ToMeasure' => ToMeasure
      <4>1. "prepareSnapshot" \in Apis
        BY DEF Apis
      <4> QED BY <1>2, <3>1, <4>1 DEF ToMeasure
    <3>3. ASSUME NEW i \in 1 .. Len(hw'.results), hw'.results[i].api = "preTakePicture"
          PROVE  ~hw'.results[i].ok
      <4>1. CASE hw'.results = hw.results
        BY <2>1, <3>3, <4>1 DEF Lean, Ending, Unlit
      <4>2. CASE Answers(hw, e, hw')
        <5>0. PICK ok \in BOOLEAN : hw'.results = Append(hw.results, [api |-> e, ok |-> ok])
          BY <4>2 DEF Answers
        <5>1. PICK r : r = [api |-> e, ok |-> ok] /\ hw'.results = Append(hw.results, r)
          BY <5>0
        <5>2. r \in Result
          BY <1>2, <5>1 DEF Result
        <5>3. (\E j \in 1 .. Len(hw.results) : hw'.results[i] = hw.results[j]) \/ hw'.results[i] = r
          BY <1>2, <3>3, <5>1, <5>2, AnswerAppended
        <5>4. CASE \E j \in 1 .. Len(hw.results) : hw'.results[i] = hw.results[j]
          BY <2>1, <3>3, <5>4 DEF Lean, Ending, Unlit
        <5>5. CASE hw'.results[i] = r
          <6>1. e = "preTakePicture"
            BY <3>3, <5>1, <5>5
          <6>2. hw' \in stateMachine(hw, "preTakePicture")
            BY <1>1, <6>1 DEF smEvtProcApi, handled
          <6>3. hw' = signalAPIResult(hw, "preTakePicture", FALSE)
            BY <2>1, <6>2, NotTwice
          <6>4. hw'.results = Append(hw.results, [api |-> "preTakePicture", ok |-> FALSE])
            <7>1. hw \in Hw
              BY LeanFacts
            <7> QED BY <6>3, <7>1 DEF signalAPIResult, Hw
          <6>5. r = [api |-> "preTakePicture", ok |-> FALSE]
            <7>1. PICK q : q = [api |-> "preTakePicture", ok |-> FALSE]
              OBVIOUS
            <7>2. q \in Result
              BY <7>1 DEF Result, Apis
            <7>3. Append(hw.results, r) = Append(hw.results, q)
              BY <5>1, <6>4, <7>1
            <7>4. Append(hw.results, r)[Len(hw.results) + 1] = r /\ Append(hw.results, q)[Len(hw.results) + 1] = q
              BY <1>2, <5>2, <7>2, AppendProperties
            <7> QED BY <7>1, <7>3, <7>4
          <6> QED BY <5>5, <6>5
        <5> QED BY <5>3, <5>4, <5>5
      <4> QED BY <1>2, <4>1, <4>2 DEF Summary
    <3> QED BY <2>1, <3>1, <3>2, <3>3 DEF Lean, Ending, Unlit
  <2>2. CASE hw'.capture = "still" /\ hw.capture = "none"
    <3>1. Starts(hw, e, hw') /\ Asked("takePicture")
      BY <1>3, <2>2 DEF Keeps, Fields, Settings, Releases, StartFails
    <3>2. ~hw'.lit /\ e = "takePicture"
      BY <3>1 DEF Starts
    <3>3. ~Answered(hw.results, "preTakePicture")
      <4>1. "preTakePicture" \in Apis \ (OwnCalls \cup Slow)
        BY DEF Apis, OwnCalls, Slow
      <4>2. ~Asked("preTakePicture")
        BY <3>1 DEF Asked
      <4> QED BY <4>1, <4>2 DEF Lean, Ind, QuickOne
    <3>4. ~Answered(hw'.results, "preTakePicture")
      BY <1>1, <3>2, <3>3 DEF CallStep
    <3> QED BY <3>2, <3>4 DEF Unlit, Answered
  <2>3. hw'.capture # "still" \/ hw.capture \in {"still", "none"}
    BY LeanFacts
  <2>4. CASE hw'.capture # "still"
    BY <2>4 DEF Unlit
  <2> QED BY <2>1, <2>2, <2>3, <2>4
<1>8. Order(hw', note'.rcvd)
  BY <1>1, CallOrdered
<1> QED BY <1>2, <1>5, <1>6, <1>7, <1>8, EndingStep

\* Another event than that of a picture is taken from the queue.
LEMMA OrderTail ==
  ASSUME NEW h \in Hw, NEW g, NEW n, NEW F, Order(h, n), h.evts # <<>>, Head(h.evts) # "jpeg",
         Keeps(h, g, F), F \cap Ordering = {"evts"}, g.evts = Tail(h.evts)
  PROVE  Order(g, n)
<1>1. /\ g.capture = h.capture /\ g.job = h.job /\ g.pproc = h.pproc /\ g.shots = h.shots
      /\ g.ready = h.ready /\ g.lit = h.lit /\ g.cmds = h.cmds
  BY DEF Keeps, Fields, Ordering
<1>2. h.evts \in Seq(Evts)
  BY DEF Hw
<1>3. Num(g.evts, "jpeg") = Num(h.evts, "jpeg")
  <2>1. Num(h.evts, "jpeg") = Num(Tail(h.evts), "jpeg") + 0
    BY <1>2, NumTail
  <2>2. Tail(h.evts) \in Seq(Evts)
    BY <1>2, Taken
  <2>3. Num(Tail(h.evts), "jpeg") \in Nat
    BY <2>2, NumOf
  <2> QED BY <2>1, <2>3
<1>4. Load(g) = Load(h)
  BY <1>1, <1>3 DEF Load
<1>5. /\ Has(g.evts, "snapshotDone") => Has(h.evts, "snapshotDone")
      /\ Once(h.evts, "snapshotDone") => Once(g.evts, "snapshotDone")
  BY <1>2, Taken
<1>6. NewsFirst(h.evts) => NewsFirst(g.evts)
  BY <1>2, NewsTaken
<1> QED BY <1>1, <1>4, <1>5, <1>6, Zenon DEF Order, Processing, Pictured, AllHere, InTurn

LEMMA LeanEvent ==
  ASSUME Lean, smEvtProcEvt
  PROVE  Ending'
<1>1. PICK h, e : EvtStep(h, e) /\ e = Head(hw.evts) /\ hw'.evts = Tail(hw.evts)
  BY EvtStepIs DEF Lean
<1>2. /\ config' = config /\ note' = note /\ app'.todo = app.todo /\ app'.waiting = app.waiting
      /\ apiQ' = apiQ /\ h \in Hw /\ hw \in Hw /\ Keeps(hw, h, {"evts"}) /\ EventStep(h, e, hw')
      /\ EventSummary(h, e, hw') /\ e \in Evts /\ Has(hw.evts, e) /\ hw.evts # <<>> /\ Order(hw, note.rcvd)
      /\ hw.evts \in Seq(Evts) /\ Tail(hw.evts) \in Seq(Evts)
      /\ hw.cmds \in Seq(Commands)
  <2>1. hw.evts # <<>> /\ hw.evts \in Seq(Evts) /\ hw.cmds \in Seq(Commands)
    BY LeanFacts DEF smEvtProcEvt
  <2>2. Tail(hw.evts) \in Seq(Evts)
    BY <2>1, Taken
  <2> QED BY <1>1, <2>1, <2>2, LeanFacts DEF EvtStep, Lean, Ending
<1>3. /\ hw'.dead = hw.dead /\ hw'.retro = hw.retro /\ hw'.prep = hw.prep /\ hw'.ready = hw.ready
      /\ hw'.longshot = hw.longshot /\ (hw'.capture = "still" => hw.capture = "still")
      /\ hw'.lit = hw.lit /\ hw'.job = hw.job /\ hw'.shots = hw.shots
  <2>1. hw'.lit = hw.lit /\ hw'.job = hw.job /\ hw'.shots = hw.shots
    BY <1>2 DEF EventSummary, Keeps, Fields
  <2> QED BY <1>1, <2>1, EvtKeeps DEF Lean
<1>4. /\ h.state = hw.state /\ h.live = hw.live /\ h.capture = hw.capture /\ h.cmds = hw.cmds
      /\ h.job = hw.job /\ h.pproc = hw.pproc
  BY <1>2 DEF Keeps, Fields
<1>5. e = "snapshotDone" => hw.capture = "still" /\ hw.state \in {"PIC", "PREVIEW_PIC"} /\ Load(hw) = 0
  BY <1>2, Before DEF Order, AllHere, Lean, Sound
<1>6. /\ hw'.live = hw.live /\ hw'.state \notin Recording
      /\ e \notin {"snapshotDone", "jpeg"} => Keeps(hw, hw', {"state", "results", "evts"})
  <2>0. hw.state \notin Recording
    BY DEF Lean, Ending, Undisturbed
  <2>1. CASE Announces(h, e, hw')
    <3>1. e = "snapshotDone"
      BY <2>1 DEF Announces
    <3>2. hw'.state \in {"STOPPED", "PREVIEWING"} /\ hw'.live = h.live
      BY <1>4, <1>5, <2>1, <3>1 DEF Announces, Keeps, Fields
    <3> QED BY <1>4, <3>1, <3>2 DEF Recording
  <2>2. CASE Pictures(h, e, hw')
    BY <1>4, <2>0, <2>2 DEF Pictures, Keeps, Fields
  <2>3. CASE Measured(h, e, hw') \/ Queued(h, e, hw') \/ Died(h, e, hw')
    <3>1. Keeps(h, hw', {"state", "results"})
      BY <2>3 DEF Measured, Queued, Died, Keeps
    <3>2. hw'.state \in {hw.state, "PREVIEWING"} /\ hw'.live = hw.live
      BY <1>4, <2>3, <3>1 DEF Measured, Queued, Died, Keeps, Fields
    <3>3. Keeps(hw, hw', {"state", "results", "evts"})
      BY <1>2, <3>1 DEF Keeps
    <3> QED BY <2>0, <3>2, <3>3 DEF Recording
  <2> QED BY <1>2, <2>1, <2>2, <2>3 DEF EventStep
<1>7. Undisturbed'
  BY <1>2, <1>3, <1>6 DEF Lean, Ending, Undisturbed
<1>8. LightAfter'
  BY <1>2 DEF Lean, Ending, LightAfter
<1>9. Unlit'
  <2>1. ASSUME hw.capture = "still", NEW i \in 1 .. Len(hw'.results), hw'.results[i].api = "preTakePicture"
        PROVE  ~hw'.results[i].ok
    <3>1. \/ \E j \in 1 .. Len(hw.results) : hw'.results[i] = hw.results[j]
          \/ hw'.results[i].api \in Slow \cup {"snapshotDone"}
      BY <1>1 DEF EvtStep
    <3> QED BY <2>1, <3>1 DEF Lean, Ending, Unlit, Slow
  <2>2. ToMeasure' => ToMeasure
    BY <1>2, <1>3 DEF ToMeasure
  <2> QED BY <1>3, <2>1, <2>2 DEF Lean, Ending, Unlit
<1>10. Order(hw', note'.rcvd)
  <2>1. CASE e \notin {"snapshotDone", "jpeg"}
    BY <1>1, <1>2, <1>6, <2>1, OrderTail DEF Ordering
  <2>2. CASE e = "snapshotDone"
    <3>1. Announces(h, e, hw')
      BY <1>2, <2>2 DEF EventStep, Pictures, Measured, Queued, Died
    <3>2. /\ ~hw.job /\ ~hw'.pproc /\ hw'.cmds = <<"STOP">> \o hw.cmds /\ hw'.capture = "none"
      BY <1>4, <1>5, <2>2, <3>1 DEF Announces
    <3>3. Num(hw.evts, "jpeg") = 0 /\ Num(hw.cmds, "JOB") = 0
      BY <1>5, <2>2, LeanFacts
    <3>4. Num(hw'.evts, "jpeg") = 0
      <4>1. Num(hw.evts, "jpeg") = Num(Tail(hw.evts), "jpeg") + 0
        BY <1>1, <1>2, <2>2, NumTail
      <4>2. Num(Tail(hw.evts), "jpeg") \in Nat
        BY <1>2, NumOf
      <4> QED BY <1>1, <3>3, <4>1, <4>2
    <3>5. JobsLast(hw'.cmds) /\ Num(hw'.cmds, "JOB") = 0
      <4>1. <<"STOP">> \in Seq(Commands) /\ ~Has(<<"STOP">>, "JOB")
        BY DEF Commands, Has
      <4>2. PICK t \in Seq(Commands) : t = <<"STOP">>
        BY <4>1
      <4>3. hw'.cmds = t \o hw.cmds /\ JobsLast(hw.cmds) /\ ~Has(t, "JOB")
        BY <1>2, <3>2, <4>1, <4>2 DEF Order
      <4> QED BY <1>2, <3>3, <4>3, JobsBehind
    <3>6. Load(hw') = 0
      BY <3>4, <3>5 DEF Load
    <3>7. NewsFirst(hw'.evts) /\ ~Has(hw'.evts, "snapshotDone")
      <4>1. NewsFirst(hw.evts) /\ Once(hw.evts, "snapshotDone")
        BY <1>2 DEF Order, AllHere
      <4> QED BY <1>1, <1>2, <2>2, <4>1, Taken, NewsTaken
    <3>8. AllHere(hw')
      BY <3>7 DEF AllHere, Once, Has
    <3>9. Processing(hw') /\ Pictured(hw', note'.rcvd) /\ InTurn(hw')
      BY <1>3, <3>2, <3>6 DEF Processing, Pictured, InTurn
    <3> QED BY <3>5, <3>7, <3>8, <3>9 DEF Order
  <2>3. CASE e = "jpeg"
    <3>1. Pictures(h, e, hw')
      BY <1>2, <2>3 DEF EventStep, Announces, Measured, Queued, Died
    <3>2. /\ hw'.capture = hw.capture /\ hw'.pproc = hw.pproc
          /\ hw'.cmds = hw.cmds \/ hw'.cmds = Append(hw.cmds, "JOB")
      BY <1>4, <3>1 DEF Pictures, Keeps, Fields
    <3>3. Num(hw.evts, "jpeg") = Num(hw'.evts, "jpeg") + 1 /\ Num(hw'.evts, "jpeg") \in Nat
      <4>1. Num(hw.evts, "jpeg") = Num(Tail(hw.evts), "jpeg") + 1
        BY <1>1, <1>2, <2>3, NumTail
      <4>2. Num(Tail(hw.evts), "jpeg") \in Nat
        BY <1>2, NumOf
      <4> QED BY <1>1, <4>1, <4>2
    <3>4. Num(hw.cmds, "JOB") \in Nat /\ "JOB" \in Commands
      BY LeanFacts DEF Commands
    <3>5. /\ Num(hw'.cmds, "JOB") \in {Num(hw.cmds, "JOB"), Num(hw.cmds, "JOB") + 1}
          /\ JobsLast(hw'.cmds) /\ (Has(hw'.cmds, "START") <=> Has(hw.cmds, "START"))
      <4>1. JobsLast(hw.cmds)
        BY <1>2 DEF Order
      <4>2. CASE hw'.cmds = hw.cmds
        BY <4>1, <4>2
      <4>3. CASE hw'.cmds = Append(hw.cmds, "JOB")
        <5>1. Num(Append(hw.cmds, "JOB"), "JOB") = Num(hw.cmds, "JOB") + 1
          BY <1>2, <3>4, NumAppend
        <5>2. Has(Append(hw.cmds, "JOB"), "START") <=> Has(hw.cmds, "START")
          BY <1>2, <3>4, Appended
        <5>3. JobsLast(Append(hw.cmds, "JOB"))
          BY <1>2, <3>4, <4>1, JobsAppended
        <5> QED BY <4>3, <5>1, <5>2, <5>3
      <4> QED BY <3>2, <4>2, <4>3
    <3>6. Load(hw') <= Load(hw) /\ Load(hw') \in Nat /\ Load(hw) \in Nat /\ Load(hw) # 0
      BY <3>3, <3>4, <3>5 DEF Load
    <3>7. ~Has(hw.evts, "snapshotDone")
      BY <1>2, <3>6 DEF Order, AllHere
    <3>8. ~Has(hw'.evts, "snapshotDone") /\ NewsFirst(hw'.evts)
      <4>1. NewsFirst(hw.evts)
        BY <1>2 DEF Order
      <4> QED BY <1>1, <1>2, <3>7, <4>1, Taken, NewsTaken
    <3>9. AllHere(hw')
      BY <3>8 DEF AllHere, Once, Has
    <3>10. Processing(hw') /\ InTurn(hw')
      BY <1>2, <1>3, <3>2 DEF Order, Processing, InTurn
    <3>11. Pictured(hw', note'.rcvd)
      <4>1. note.rcvd \in Nat /\ hw.shots \in Nat
        BY LeanFacts
      <4> QED BY <1>2, <1>3, <3>2, <3>5, <3>6, <4>1 DEF Order, Pictured
    <3> QED BY <3>5, <3>8, <3>9, <3>10, <3>11 DEF Order
  <2> QED BY <2>1, <2>2, <2>3
<1> QED BY <1>2, <1>7, <1>8, <1>9, <1>10, EndingStep

\* A step of another thread.
LEMMA LeanQuiet ==
  ASSUME Lean, config' = config, app' = app, apiQ' = apiQ,
         hw'.state = hw.state, hw'.live = hw.live, hw'.longshot = hw.longshot,
         hw'.capture = hw.capture, hw'.results = hw.results,
         ~note'.longshot, note'.expected \in {0, config.pictures},
         hw'.prep => hw.prep,
         hw.capture = "still" /\ hw'.lit => hw.lit \/ ~ToMeasure',
         Order(hw', note'.rcvd)
  PROVE  Ending'
<1>1. Undisturbed'
  BY DEF Lean, Ending, Undisturbed
<1>2. LightAfter'
  BY DEF Lean, Ending, LightAfter
<1>3. Unlit'
  <2>1. ToMeasure' => ToMeasure
    BY DEF ToMeasure
  <2> QED BY <2>1 DEF Lean, Ending, Unlit
<1> QED BY <1>1, <1>2, <1>3, EndingStep

\* An event of the camera is announced.
LEMMA EventAdded ==
  ASSUME Lean, NEW h, NEW e \in Evts, event(h, e), h.evts = hw.evts, h.cmds = hw.cmds, h \in Hw,
         e \in {"ready", "prepDone"} => ~Has(hw.evts, "snapshotDone")
  PROVE  /\ hw'.evts = Append(hw.evts, e) /\ Keeps(h, hw', {"evts"})
         /\ NewsFirst(hw'.evts) /\ JobsLast(hw'.cmds)
         /\ Load(hw') = Load(hw) + IF e = "jpeg" THEN 1 ELSE 0
         /\ e # "snapshotDone" => /\ Has(hw'.evts, "snapshotDone") => Has(hw.evts, "snapshotDone")
                                  /\ Once(hw'.evts, "snapshotDone")
<1>0. /\ hw' = [h EXCEPT !.evts = Append(h.evts, e)]
      /\ hw.evts \in Seq(Evts) /\ NewsFirst(hw.evts) /\ JobsLast(hw.cmds) /\ Once(hw.evts, "snapshotDone")
      /\ Num(hw.evts, "jpeg") \in Nat /\ Num(hw.cmds, "JOB") \in Nat
  BY LeanFacts DEF event, Lean, Ending, Order, AllHere
<1>1. hw'.evts = Append(hw.evts, e) /\ Keeps(h, hw', {"evts"})
  BY <1>0 DEF Keeps, Fields, Hw
<1>2. hw'.cmds = hw.cmds
  BY <1>1 DEF Keeps, Fields
<1>3. Num(hw'.evts, "jpeg") = Num(hw.evts, "jpeg") + IF e = "jpeg" THEN 1 ELSE 0
  BY <1>0, <1>1, NumAppend
<1>4. NewsFirst(hw'.evts)
  BY <1>0, <1>1, NewsAppended
<1>5. /\ Has(hw'.evts, "snapshotDone") <=> Has(hw.evts, "snapshotDone") \/ e = "snapshotDone"
      /\ Once(hw'.evts, "snapshotDone") <=>
           Once(hw.evts, "snapshotDone") /\ (e = "snapshotDone" => ~Has(hw.evts, "snapshotDone"))
  BY <1>0, <1>1, Appended
<1> QED BY <1>0, <1>1, <1>2, <1>3, <1>4, <1>5 DEF Load

LEMMA LeanSnapshots ==
  ASSUME Lean, startSnapshots
  PROVE  Ending'
<1>0. /\ hw \in Hw /\ config' = config /\ app' = app /\ apiQ' = apiQ /\ note' = note /\ hw.job
      /\ Order(hw, note.rcvd) /\ hw.cmds \in Seq(Commands) /\ Num(hw.cmds, "JOB") \in Nat
  BY LeanFacts DEF startSnapshots, Lean, Ending
<1>1. /\ ~note.longshot /\ note.expected \in {0, config.pictures}
  BY DEF Lean, Ending, Undisturbed
<1>2. CASE hw' = [hw EXCEPT !.job = FALSE]
  <2>1. /\ Keeps(hw, hw', {"job"}) /\ ~hw'.job
    BY <1>0, <1>2 DEF Keeps, Fields, Hw
  <2>2. /\ hw'.state = hw.state /\ hw'.live = hw.live /\ hw'.longshot = hw.longshot
        /\ hw'.capture = hw.capture /\ hw'.results = hw.results /\ hw'.prep = hw.prep /\ hw'.lit = hw.lit
        /\ hw'.evts = hw.evts /\ hw'.cmds = hw.cmds /\ hw'.pproc = hw.pproc
        /\ hw'.shots = hw.shots /\ hw'.ready = hw.ready
    BY <2>1 DEF Keeps, Fields
  <2>3. Load(hw') = Load(hw)
    BY <2>2 DEF Load
  <2>4. Order(hw', note'.rcvd)
    BY <1>0, <2>1, <2>2, <2>3, Zenon DEF Order, Processing, Pictured, AllHere, InTurn
  <2> QED BY <1>0, <1>1, <2>2, <2>4, LeanQuiet
<1>3. CASE hw' = [hw EXCEPT !.job = FALSE, !.pproc = TRUE, !.cmds = <<"START">> \o @]
  <2>1. /\ Keeps(hw, hw', {"job", "pproc", "cmds"}) /\ ~hw'.job /\ hw'.pproc
        /\ hw'.cmds = <<"START">> \o hw.cmds
    BY <1>0, <1>3 DEF Keeps, Fields, Hw
  <2>2. /\ hw'.state = hw.state /\ hw'.live = hw.live /\ hw'.longshot = hw.longshot
        /\ hw'.capture = hw.capture /\ hw'.results = hw.results /\ hw'.prep = hw.prep /\ hw'.lit = hw.lit
        /\ hw'.evts = hw.evts /\ hw'.shots = hw.shots /\ hw'.ready = hw.ready
    BY <2>1 DEF Keeps, Fields
  <2>3. JobsLast(hw'.cmds) /\ Num(hw'.cmds, "JOB") = Num(hw.cmds, "JOB") /\ Has(hw'.cmds, "START")
    <3>1. <<"START">> \in Seq(Commands) /\ ~Has(<<"START">>, "JOB") /\ Has(<<"START">>, "START")
      BY DEF Commands, Has
    <3>2. PICK t \in Seq(Commands) : t = <<"START">>
      BY <3>1
    <3>3. hw'.cmds = t \o hw.cmds /\ JobsLast(hw.cmds) /\ ~Has(t, "JOB") /\ Has(t, "START")
      BY <1>0, <2>1, <3>1, <3>2 DEF Order
    <3> QED BY <1>0, <3>3, JobsBehind
  <2>4. Load(hw') = Load(hw)
    BY <2>2, <2>3 DEF Load
  <2>5. hw.capture = "still"
    BY <1>0 DEF Order, Processing
  <2>6. Processing(hw') /\ Pictured(hw', note'.rcvd)
    BY <1>0, <2>1, <2>2, <2>3, <2>4, <2>5 DEF Order, Processing, Pictured
  <2>7. AllHere(hw') /\ InTurn(hw') /\ NewsFirst(hw'.evts)
    BY <1>0, <2>2, <2>4 DEF Order, AllHere, InTurn
  <2>8. Order(hw', note'.rcvd)
    BY <2>3, <2>6, <2>7 DEF Order
  <2> QED BY <1>0, <1>1, <2>2, <2>8, LeanQuiet
<1> QED BY <1>2, <1>3 DEF startSnapshots

LEMMA LeanPicture ==
  ASSUME Lean, jpegEvtHandle
  PROVE  Ending'
<1>0. /\ hw \in Hw /\ hw.capture = "still" /\ hw.pproc /\ hw.shots < config.pictures /\ hw.retro
      /\ hw.shots + 1 < config.retro \/ hw.ready
      /\ hw.shots + 1 > config.retro /\ config.flash => hw.lit
      /\ Order(hw, note.rcvd) /\ hw.shots \in 0 .. config.pictures /\ config.retro \in Nat /\ config.pictures \in Nat
      /\ note.rcvd \in Nat /\ Load(hw) \in Nat
  BY LeanFacts DEF jpegEvtHandle, Lean, Ending
<1>1. PICK h : h = [hw EXCEPT !.shots = hw.shots + 1] /\ event(h, "jpeg")
  BY Zenon DEF jpegEvtHandle
<1>2. h \in Hw /\ Keeps(hw, h, {"shots"}) /\ h.shots = hw.shots + 1
  <2>1. hw.shots + 1 \in 0 .. config.pictures
    BY <1>0
  <2>2. h \in Hw
    BY <1>0, <1>1, <2>1, SetField
  <2>3. h.shots = hw.shots + 1
    BY <1>0, <1>1 DEF Hw
  <2>4. Keeps(hw, h, {"shots"})
    BY <1>0, <1>1 DEF Keeps, Fields, Hw
  <2> QED BY <2>2, <2>3, <2>4
<1>3. h.evts = hw.evts /\ h.cmds = hw.cmds /\ "jpeg" \in Evts
  BY <1>2 DEF Keeps, Fields, Evts
<1>4. /\ Keeps(h, hw', {"evts"}) /\ NewsFirst(hw'.evts) /\ JobsLast(hw'.cmds) /\ Load(hw') = Load(hw) + 1
      /\ Has(hw'.evts, "snapshotDone") => Has(hw.evts, "snapshotDone")
      /\ Once(hw'.evts, "snapshotDone")
  BY <1>1, <1>2, <1>3, EventAdded
<1>5. /\ Keeps(hw, hw', {"shots", "evts"}) /\ hw'.shots = hw.shots + 1
  BY <1>2, <1>4 DEF Keeps, Fields
<1>6. /\ hw'.state = hw.state /\ hw'.live = hw.live /\ hw'.longshot = hw.longshot
      /\ hw'.capture = hw.capture /\ hw'.results = hw.results /\ hw'.prep = hw.prep /\ hw'.lit = hw.lit
      /\ hw'.cmds = hw.cmds /\ hw'.ready = hw.ready /\ hw'.pproc = hw.pproc /\ hw'.job = hw.job
  BY <1>5 DEF Keeps, Fields
<1>7. ~Has(hw'.evts, "snapshotDone")
  BY <1>0, <1>4 DEF Order, AllHere
<1>8. config' = config /\ app' = app /\ apiQ' = apiQ /\ note' = note
  BY <1>1 DEF event
<1>9. Processing(hw') /\ InTurn(hw') /\ AllHere(hw')
  BY <1>0, <1>4, <1>5, <1>6, <1>7 DEF Processing, InTurn, AllHere
<1>10. Pictured(hw', note'.rcvd)
  BY <1>0, <1>4, <1>5, <1>6, <1>8 DEF Order, Pictured
<1>11. Order(hw', note'.rcvd)
  BY <1>4, <1>9, <1>10 DEF Order
<1> QED BY <1>6, <1>8, <1>11, LeanQuiet DEF Lean, Ending, Undisturbed

LEMMA LeanReady ==
  ASSUME Lean, readyForSnapshot
  PROVE  Ending'
<1>0. /\ hw \in Hw /\ hw.capture = "still" /\ ~hw.ready
      /\ Order(hw, note.rcvd) /\ config.retro <= config.pictures
  BY LeanFacts DEF readyForSnapshot, Lean, Ending
<1>1. PICK h : h = [hw EXCEPT !.ready = TRUE] /\ event(h, "ready")
  BY Zenon DEF readyForSnapshot
<1>2. h \in Hw /\ Keeps(hw, h, {"ready"}) /\ h.ready
  <2>1. h \in Hw
    BY <1>0, <1>1, SetBoolean
  <2> QED BY <1>0, <1>1, <2>1 DEF Keeps, Fields, Hw
<1>3. h.evts = hw.evts /\ h.cmds = hw.cmds /\ "ready" \in Evts
  BY <1>2 DEF Keeps, Fields, Evts
<1>4. ~Has(hw.evts, "snapshotDone")
  BY <1>0 DEF Order, AllHere, InTurn
<1>5. /\ Keeps(h, hw', {"evts"}) /\ NewsFirst(hw'.evts) /\ JobsLast(hw'.cmds) /\ Load(hw') = Load(hw) + 0
      /\ Has(hw'.evts, "snapshotDone") => Has(hw.evts, "snapshotDone")
      /\ Once(hw'.evts, "snapshotDone")
  BY <1>1, <1>2, <1>3, <1>4, EventAdded
<1>6. /\ Keeps(hw, hw', {"ready", "evts"}) /\ hw'.ready
  BY <1>2, <1>5 DEF Keeps, Fields
<1>7. /\ hw'.state = hw.state /\ hw'.live = hw.live /\ hw'.longshot = hw.longshot
      /\ hw'.capture = hw.capture /\ hw'.results = hw.results /\ hw'.prep = hw.prep /\ hw'.lit = hw.lit
      /\ hw'.cmds = hw.cmds /\ hw'.shots = hw.shots /\ hw'.pproc = hw.pproc /\ hw'.job = hw.job
  BY <1>6 DEF Keeps, Fields
<1>8. config' = config /\ app' = app /\ apiQ' = apiQ /\ note' = note
  BY <1>1 DEF event
<1>9. Load(hw') = Load(hw)
  BY <1>5, LeanFacts
<1>10. /\ Processing(hw') /\ InTurn(hw') /\ AllHere(hw') /\ Pictured(hw', note'.rcvd)
  BY <1>0, <1>4, <1>5, <1>6, <1>7, <1>8, <1>9, Zenon DEF Order, Processing, InTurn, AllHere, Pictured
<1>11. Order(hw', note'.rcvd)
  BY <1>5, <1>10 DEF Order
<1> QED BY <1>7, <1>8, <1>11, LeanQuiet DEF Lean, Ending, Undisturbed

\* The light is measured after a picture that needs it was asked for.
LEMMA LeanMeasured ==
  ASSUME Lean, prepSnapshotDone
  PROVE  Ending'
<1>0. /\ hw \in Hw /\ hw.prep /\ ~hw.dead
      /\ Order(hw, note.rcvd) /\ config.retro <= config.pictures
      /\ config.retro \in Nat /\ config.pictures \in Nat /\ (config.flash => config.retro < config.pictures)
  BY LeanFacts DEF prepSnapshotDone, Lean, Ending
<1>1. PICK h : h = [hw EXCEPT !.prep = FALSE, !.lit = TRUE] /\ event(h, "prepDone")
  BY Zenon DEF prepSnapshotDone
<1>2. h \in Hw /\ Keeps(hw, h, {"prep", "lit"}) /\ h.lit /\ ~h.prep
  <2>1. ASSUME NEW b \in BOOLEAN, NEW c \in BOOLEAN
        PROVE  [hw EXCEPT !.prep = b, !.lit = c] \in Hw
    BY <1>0, ZenonT(40) DEF Hw
  <2>2. h \in Hw
    BY <1>1, <2>1
  <2> QED BY <1>0, <1>1, <2>2 DEF Keeps, Fields, Hw
<1>3. h.evts = hw.evts /\ h.cmds = hw.cmds /\ "prepDone" \in Evts
  BY <1>2 DEF Keeps, Fields, Evts
<1>4. Asked("prepareSnapshot") /\ ~Has(apiQ, "prepareSnapshot")
  BY <1>0 DEF Lean, Ind, SlowOne, OneStage, Slow, Alive, Due
<1>5. app.todo = <<"prepareSnapshot">> /\ config.flash /\ app.waiting
  <2>1. Has(app.todo, "prepareSnapshot") /\ Head(app.todo) = "prepareSnapshot" /\ app.waiting
    <3>1. app.todo \in Seq(Apis)
      <4>1. app.todo # <<>> /\ app.todo \in Plans
        BY <1>4, LeanFacts DEF Asked
      <4> QED BY <4>1, PlanFacts
    <3> QED BY <1>4, <3>1, Taken DEF Asked
  <2> QED BY <2>1, LightTails DEF Lean, Ending, LightAfter
<1>6. ~Has(hw.evts, "snapshotDone")
  <2>1. ASSUME Has(hw.evts, "snapshotDone") PROVE FALSE
    <3>1. hw.capture = "still" /\ hw.shots = config.pictures
      BY <1>0, <2>1 DEF Order, AllHere
    <3>2. hw.lit
      BY <1>0, <1>5, <3>1 DEF Order, InTurn
    <3>3. ~hw.lit
      BY <1>0, <1>5, <3>1 DEF Lean, Ending, Unlit, ToMeasure
    <3> QED BY <3>2, <3>3
  <2> QED BY <2>1
<1>7. /\ Keeps(h, hw', {"evts"}) /\ NewsFirst(hw'.evts) /\ JobsLast(hw'.cmds) /\ Load(hw') = Load(hw) + 0
      /\ Has(hw'.evts, "snapshotDone") => Has(hw.evts, "snapshotDone")
      /\ Once(hw'.evts, "snapshotDone")
  BY <1>1, <1>2, <1>3, <1>6, EventAdded
<1>8. /\ Keeps(hw, hw', {"prep", "lit", "evts"}) /\ hw'.lit /\ ~hw'.prep
  BY <1>2, <1>7 DEF Keeps, Fields
<1>9. /\ hw'.state = hw.state /\ hw'.live = hw.live /\ hw'.longshot = hw.longshot
      /\ hw'.capture = hw.capture /\ hw'.results = hw.results /\ hw'.ready = hw.ready
      /\ hw'.cmds = hw.cmds /\ hw'.shots = hw.shots /\ hw'.pproc = hw.pproc /\ hw'.job = hw.job
  BY <1>8 DEF Keeps, Fields
<1>10. config' = config /\ app' = app /\ apiQ' = apiQ /\ note' = note
  BY <1>1 DEF event
<1>11. ~ToMeasure'
  BY <1>4, <1>5, <1>8, <1>10, LightTails DEF ToMeasure
<1>12. Load(hw') = Load(hw)
  BY <1>7, LeanFacts
<1>13. InTurn(hw')
  BY <1>0, <1>8, <1>9 DEF Order, InTurn
<1>14. /\ Processing(hw') /\ AllHere(hw') /\ Pictured(hw', note'.rcvd)
  BY <1>0, <1>6, <1>7, <1>9, <1>10, <1>12, Zenon DEF Order, Processing, AllHere, Pictured
<1>15. Order(hw', note'.rcvd)
  BY <1>7, <1>13, <1>14 DEF Order
<1> QED BY <1>8, <1>9, <1>10, <1>11, <1>15, LeanQuiet DEF Lean, Ending, Undisturbed

LEMMA LeanDied ==
  ASSUME Lean, daemonDied
  PROVE  Ending'
<1>0. /\ hw \in Hw /\ Order(hw, note.rcvd)
  BY LeanFacts DEF Lean, Ending
<1>1. PICK h : h = [hw EXCEPT !.dead = TRUE] /\ event(h, "daemonDied")
  BY Zenon DEF daemonDied
<1>2. h \in Hw /\ Keeps(hw, h, {"dead"})
  <2>1. h \in Hw
    BY <1>0, <1>1, SetBoolean
  <2> QED BY <1>0, <1>1, <2>1 DEF Keeps, Fields, Hw
<1>3. h.evts = hw.evts /\ h.cmds = hw.cmds /\ "daemonDied" \in Evts
  BY <1>2 DEF Keeps, Fields, Evts
<1>5. /\ Keeps(h, hw', {"evts"}) /\ NewsFirst(hw'.evts) /\ JobsLast(hw'.cmds) /\ Load(hw') = Load(hw) + 0
      /\ Has(hw'.evts, "snapshotDone") => Has(hw.evts, "snapshotDone")
      /\ Once(hw'.evts, "snapshotDone")
  BY <1>1, <1>2, <1>3, EventAdded
<1>6. Keeps(hw, hw', {"dead", "evts"})
  BY <1>2, <1>5 DEF Keeps
<1>7. /\ hw'.state = hw.state /\ hw'.live = hw.live /\ hw'.longshot = hw.longshot /\ hw'.ready = hw.ready
      /\ hw'.capture = hw.capture /\ hw'.results = hw.results /\ hw'.prep = hw.prep /\ hw'.lit = hw.lit
      /\ hw'.cmds = hw.cmds /\ hw'.shots = hw.shots /\ hw'.pproc = hw.pproc /\ hw'.job = hw.job
  BY <1>6 DEF Keeps, Fields
<1>8. config' = config /\ app' = app /\ apiQ' = apiQ /\ note' = note
  BY <1>1 DEF event
<1>9. Load(hw') = Load(hw)
  BY <1>5, LeanFacts
<1>10. /\ Processing(hw') /\ InTurn(hw') /\ AllHere(hw') /\ Pictured(hw', note'.rcvd)
  BY <1>0, <1>5, <1>7, <1>8, <1>9, Zenon DEF Order, Processing, InTurn, AllHere, Pictured
<1>11. Order(hw', note'.rcvd)
  BY <1>5, <1>10 DEF Order
<1> QED BY <1>7, <1>8, <1>11, LeanQuiet DEF Lean, Ending, Undisturbed

\* The last picture is the last that is under way.
LEMMA LeanNotified ==
  ASSUME Lean, cbNotifyRoutine
  PROVE  Ending'
<1> DEFINE cmd == Head(hw.cmds)
           next == [hw EXCEPT !.cmds = Tail(@)]
<1>0. /\ hw \in Hw /\ note \in Note /\ hw.cmds # <<>> /\ config' = config /\ app' = app /\ apiQ' = apiQ
      /\ hw.cmds \in Seq(Commands) /\ cmd \in Commands /\ Order(hw, note.rcvd)
      /\ ~note.longshot /\ ~hw.longshot /\ note.expected \in {0, config.pictures} /\ note.rcvd \in Nat
      /\ config.pictures \in Nat \ {0}
      /\ hw.shots \in 0 .. config.pictures /\ hw.evts \in Seq(Evts)
  BY LeanFacts, Taken DEF cbNotifyRoutine, Lean, Ending, Undisturbed
<1>1. /\ Num(hw.cmds, "JOB") = Num(Tail(hw.cmds), "JOB") + IF cmd = "JOB" THEN 1 ELSE 0
      /\ Num(Tail(hw.cmds), "JOB") \in Nat /\ Num(hw.cmds, "JOB") \in Nat
      /\ Num(hw.evts, "jpeg") \in Nat
      /\ JobsLast(Tail(hw.cmds)) /\ (Has(Tail(hw.cmds), "START") => Has(hw.cmds, "START"))
      /\ cmd = "JOB" => ~Has(hw.cmds, "START")
  <2>1. Tail(hw.cmds) \in Seq(Commands) /\ (Has(Tail(hw.cmds), "START") => Has(hw.cmds, "START"))
    BY <1>0, Taken
  <2>2. JobsLast(hw.cmds)
    BY <1>0 DEF Order
  <2>3. /\ JobsLast(Tail(hw.cmds)) /\ (Head(hw.cmds) = "JOB" => \A x : Has(hw.cmds, x) => x = "JOB")
    BY <1>0, <2>2, JobsTaken
  <2>4. Num(hw.cmds, "JOB") = Num(Tail(hw.cmds), "JOB") + IF cmd = "JOB" THEN 1 ELSE 0
    BY <1>0, NumTail
  <2> QED BY <2>1, <2>3, <2>4, NumOf, LeanFacts
<1>2. CASE cmd \in {"START", "STOP"}
  <2>1. /\ hw' = next \/ hw' = [next EXCEPT !.data = 0]
        /\ ~note'.longshot /\ note'.expected \in {0, config.pictures} /\ note'.rcvd = 0
    <3>1. CASE cmd = "START"
      <4>1. /\ note' = [note EXCEPT !.active = TRUE, !.expected = config.pictures,
                                    !.longshot = hw.longshot, !.rcvd = 0]
            /\ hw' = next
        BY <3>1 DEF cbNotifyRoutine
      <4> QED BY <1>0, <4>1 DEF Note
    <3>2. CASE cmd = "STOP"
      <4>1. /\ note' = [note EXCEPT !.active = FALSE, !.expected = 0, !.rcvd = 0]
            /\ hw' = [next EXCEPT !.data = 0]
        BY <3>2 DEF cbNotifyRoutine
      <4> QED BY <1>0, <4>1 DEF Note
    <3> QED BY <1>2, <3>1, <3>2
  <2>2. Keeps(hw, hw', {"cmds", "data"}) /\ hw'.cmds = Tail(hw.cmds)
    BY <1>0, <2>1 DEF Keeps, Fields, Hw
  <2>3. /\ hw'.state = hw.state /\ hw'.live = hw.live /\ hw'.longshot = hw.longshot /\ hw'.ready = hw.ready
        /\ hw'.capture = hw.capture /\ hw'.results = hw.results /\ hw'.prep = hw.prep /\ hw'.lit = hw.lit
        /\ hw'.evts = hw.evts /\ hw'.shots = hw.shots /\ hw'.pproc = hw.pproc /\ hw'.job = hw.job
    BY <2>2 DEF Keeps, Fields
  <2>4. Load(hw') = Load(hw) /\ Load(hw) \in Nat
    BY <1>1, <1>2, <2>2, <2>3 DEF Load
  <2>5. Load(hw) <= IF hw.capture = "still" THEN hw.shots ELSE 0
    BY <1>0 DEF Order, Pictured
  <2>6. 0 + Load(hw') <= hw'.shots
    BY <1>0, <2>3, <2>4, <2>5
  <2>7. Pictured(hw', note'.rcvd)
    BY <2>1, <2>3, <2>4, <2>5, <2>6 DEF Pictured
  <2>8. Processing(hw') /\ InTurn(hw') /\ AllHere(hw') /\ NewsFirst(hw'.evts)
    BY <1>0, <2>3, <2>4, Zenon DEF Order, Processing, InTurn, AllHere
  <2>9. Order(hw', note'.rcvd)
    BY <1>1, <2>2, <2>7, <2>8 DEF Order
  <2> QED BY <1>0, <2>1, <2>3, <2>9, LeanQuiet
<1>3. CASE cmd = "JOB" /\ hw' = [next EXCEPT !.data = dequeued(@)] /\ note' = note
  <2>1. hw' = [next EXCEPT !.data = dequeued(@)] /\ note' = note
    BY <1>3
  <2>2. Keeps(hw, hw', {"cmds", "data"}) /\ hw'.cmds = Tail(hw.cmds)
    BY <1>0, <2>1 DEF Keeps, Fields, Hw
  <2>3. /\ hw'.state = hw.state /\ hw'.live = hw.live /\ hw'.longshot = hw.longshot /\ hw'.ready = hw.ready
        /\ hw'.capture = hw.capture /\ hw'.results = hw.results /\ hw'.prep = hw.prep /\ hw'.lit = hw.lit
        /\ hw'.evts = hw.evts /\ hw'.shots = hw.shots /\ hw'.pproc = hw.pproc /\ hw'.job = hw.job
    BY <2>2 DEF Keeps, Fields
  <2>4. Load(hw) = Load(hw') + 1 /\ Load(hw') \in Nat
    BY <1>1, <1>3, <2>2, <2>3 DEF Load
  <2>5. ~Has(hw.evts, "snapshotDone")
    BY <1>0, <2>4 DEF Order, AllHere
  <2>6. Pictured(hw', note'.rcvd)
    BY <1>0, <1>1, <1>3, <2>1, <2>2, <2>3, <2>4 DEF Order, Pictured
  <2>7. Processing(hw') /\ InTurn(hw') /\ AllHere(hw') /\ NewsFirst(hw'.evts)
    BY <1>0, <2>3, <2>5, Zenon DEF Order, Processing, InTurn, AllHere
  <2>8. Order(hw', note'.rcvd)
    BY <1>1, <2>2, <2>6, <2>7 DEF Order
  <2> QED BY <1>0, <2>1, <2>3, <2>8, LeanQuiet
<1>4. CASE cmd = "JOB" /\ ~(hw' = [next EXCEPT !.data = dequeued(@)] /\ note' = note)
  <2>1. PICK last \in BOOLEAN :
          /\ last = (note.expected > 0 /\ note.rcvd + 1 = note.expected)
          /\ note' = [note EXCEPT !.rcvd = note.rcvd + 1, !.pc = IF last THEN "sync" ELSE "deliver"]
          /\ hw' = IF last
                   THEN [next EXCEPT !.data = dequeued(@), !.evtResult = FALSE,
                                     !.evts = Append(@, "snapshotDone")]
                   ELSE [next EXCEPT !.data = dequeued(@)]
    BY <1>0, <1>4 DEF cbNotifyRoutine
  <2>2. /\ ~note'.longshot /\ note'.expected = note.expected /\ note'.rcvd = note.rcvd + 1
    BY <1>0, <2>1 DEF Note
  <2>3. /\ Keeps(hw, hw', {"cmds", "data", "evtResult", "evts"}) /\ hw'.cmds = Tail(hw.cmds)
        /\ hw'.evts = IF last THEN Append(hw.evts, "snapshotDone") ELSE hw.evts
    <3>1. CASE last
      BY <1>0, <2>1, <3>1 DEF Keeps, Fields, Hw
    <3>2. CASE ~last
      BY <1>0, <2>1, <3>2 DEF Keeps, Fields, Hw
    <3> QED BY <3>1, <3>2
  <2>4. /\ hw'.state = hw.state /\ hw'.live = hw.live /\ hw'.longshot = hw.longshot /\ hw'.ready = hw.ready
        /\ hw'.capture = hw.capture /\ hw'.results = hw.results /\ hw'.prep = hw.prep /\ hw'.lit = hw.lit
        /\ hw'.shots = hw.shots /\ hw'.pproc = hw.pproc /\ hw'.job = hw.job
    BY <2>3 DEF Keeps, Fields
  <2>5. Num(hw'.evts, "jpeg") = Num(hw.evts, "jpeg")
    <3>1. "snapshotDone" \in Evts
      BY DEF Evts
    <3>2. Num(Append(hw.evts, "snapshotDone"), "jpeg") = Num(hw.evts, "jpeg") + 0
      BY <1>0, <3>1, NumAppend
    <3> QED BY <1>1, <2>3, <3>2
  <2>6. Load(hw) = Load(hw') + 1 /\ Load(hw') \in Nat
    BY <1>1, <1>4, <2>3, <2>5 DEF Load
  <2>7. hw.capture = "still" /\ hw.pproc /\ note.rcvd + Load(hw) <= hw.shots
    <3>1. Load(hw) <= IF hw.capture = "still" THEN hw.shots ELSE 0
      BY <1>0 DEF Order, Pictured
    <3>2. hw.capture = "still" /\ hw.shots > 0
      BY <1>0, <2>6, <3>1
    <3>3. hw.pproc
      BY <1>0, <3>2 DEF Order, Processing
    <3> QED BY <1>0, <1>1, <1>4, <3>2, <3>3 DEF Order, Pictured
  <2>8. ~Has(hw.evts, "snapshotDone")
    BY <1>0, <2>6 DEF Order, AllHere
  <2>9. Pictured(hw', note'.rcvd)
    BY <1>0, <2>2, <2>4, <2>6, <2>7 DEF Pictured
  <2>10. AllHere(hw') /\ NewsFirst(hw'.evts)
    <3>0. "snapshotDone" \in Evts /\ NewsFirst(hw.evts) /\ Once(hw.evts, "snapshotDone")
      BY <1>0 DEF Evts, Order, AllHere
    <3>1. CASE last
      <4>0. note.expected > 0 /\ note.rcvd + 1 = note.expected
        BY <2>1, <3>1, Zenon
      <4>1. note.rcvd + 1 = config.pictures
        BY <1>0, <4>0
      <4>2. hw.shots = config.pictures /\ Load(hw') = 0
        BY <1>0, <2>6, <2>7, <4>1
      <4>3. Once(hw'.evts, "snapshotDone")
        BY <1>0, <2>3, <2>8, <3>0, <3>1, Appended
      <4>4. NewsFirst(hw'.evts)
        BY <1>0, <2>3, <3>0, <3>1, NewsAppended
      <4> QED BY <1>0, <2>4, <2>7, <4>2, <4>3, <4>4 DEF AllHere
    <3>2. CASE ~last
      BY <2>3, <2>8, <3>0, <3>2 DEF AllHere
    <3> QED BY <3>1, <3>2
  <2>11. Processing(hw') /\ InTurn(hw')
    BY <1>0, <2>4, Zenon DEF Order, Processing, InTurn
  <2>12. Order(hw', note'.rcvd)
    BY <1>1, <2>3, <2>9, <2>10, <2>11 DEF Order
  <2> QED BY <1>0, <2>2, <2>4, <2>12, LeanQuiet
<1> QED BY <1>0, <1>2, <1>3, <1>4 DEF Commands

LEMMA LeanOthers ==
  ASSUME Lean, Others
  PROVE  Ending'
<1>0. hw.live = "none" /\ config.zsl /\ note \in Note
  BY LeanFacts DEF Lean, Ending, Undisturbed
<1>1. CASE takeLiveSnapshot_internal \/ cancelLiveSnapshot_internal \/ stopCapture
  BY <1>0, <1>1 DEF takeLiveSnapshot_internal, cancelLiveSnapshot_internal, stopCapture, isRegularCapture
<1>2. CASE processSyncEvtReturns \/ mDataCb
  <2>1. /\ hw' = hw /\ config' = config /\ app' = app /\ apiQ' = apiQ
        /\ note' = [note EXCEPT !.pc = "deliver"] \/ note' = [note EXCEPT !.pc = "idle"]
    BY <1>2 DEF processSyncEvtReturns, mDataCb
  <2>2. note'.rcvd = note.rcvd /\ note'.longshot = note.longshot /\ note'.expected = note.expected
    BY <1>0, <2>1 DEF Note
  <2> QED BY <2>1, <2>2, LeanQuiet DEF Lean, Ending, Undisturbed
<1> QED BY <1>1, <1>2, LeanSnapshots, LeanPicture, LeanReady, LeanMeasured, LeanDied, LeanNotified DEF Others

LEMMA LeanNext ==
  ASSUME Lean, [Next]_vars
  PROVE  Lean'
<1>1. Ending' /\ config' = config
  <2>1. ASSUME NEW op \in config.ops, Operation(op) PROVE Ending' /\ config' = config
    BY <2>1, LeanOperation DEF Operation
  <2>2. CASE processAPI
    BY <2>2, LeanProcessAPI DEF processAPI
  <2>3. CASE waitAPIResult
    BY <2>3, LeanAnswered DEF waitAPIResult
  <2>4. CASE smEvtProcApi
    BY <2>4, LeanCall DEF smEvtProcApi
  <2>5. CASE smEvtProcEvt
    BY <2>5, LeanEvent DEF smEvtProcEvt
  <2>6. CASE Others
    <3>1. config' = config
      BY <2>6, OthersQuiet DEF Lean, Quiet
    <3> QED BY <2>6, <3>1, LeanOthers
  <2>7. CASE UNCHANGED vars
    <3>1. Undisturbed' /\ LightAfter' /\ Unlit' /\ Order(hw', note'.rcvd) /\ config' = config
      BY <2>7 DEF vars, Lean, Ending, Undisturbed, LightAfter, Unlit, ToMeasure
    <3> QED BY <3>1, EndingStep
  <2> QED BY <2>1, <2>2, <2>3, <2>4, <2>5, <2>6, <2>7 DEF Next, Others
<1>2. Ind'
  BY NextInd DEF Lean
<1>3. Retro' /\ LetsEnd(config)'
  BY <1>1 DEF Lean, Retro, LetsEnd
<1> QED BY <1>1, <1>2, <1>3 DEF Lean

LEMMA InitLean ==
  ASSUME Init, Retro, LetsEnd(config)
  PROVE  Lean
<1>1. /\ hw.state = "STOPPED" /\ hw.live = "none" /\ ~hw.longshot /\ hw.capture = "none" /\ ~hw.job /\ ~hw.pproc
      /\ hw.evts = <<>> /\ hw.cmds = <<>> /\ hw.results = <<>> /\ ~note.longshot /\ note.expected = 0
      /\ app.todo = <<>> /\ apiQ = <<>> /\ ~app.waiting /\ ~hw.prep
  BY DEF Init
<1>2. \A x : ~Has(<<>>, x) /\ Num(<<>>, x) = 0
  <2>1. \A x : Num(<<>>, x) = 0
    BY NumOne
  <2>2. \A x : ~Has(<<>>, x)
    BY DEF Has
  <2> QED BY <2>1, <2>2
<1>3. Load(hw) = 0
  BY <1>1, <1>2 DEF Load
<1>4. Order(hw, note.rcvd)
  BY <1>1, <1>2, <1>3 DEF Order, JobsLast, NewsFirst, Processing, Pictured, AllHere, InTurn, Once
<1>5. Undisturbed /\ LightAfter /\ Unlit
  BY <1>1, <1>2 DEF Undisturbed, LightAfter, Unlit, Recording
<1> QED BY <1>4, <1>5, InitInd DEF Lean, Ending

\* While captures are let end the camera remembers what it owes.
LEMMA LeanWaits ==
  ASSUME Lean, Waits, [Next]_vars
  PROVE  Waits'
<1>0. Ind
  BY DEF Lean
<1>1. CASE smEvtProcApi
  <2>1. apiQ # <<>> /\ apiQ \in Seq(Apis)
    BY <1>1, LeanFacts DEF smEvtProcApi
  <2>2. Has(apiQ, Head(apiQ))
    BY <2>1, Taken
  <2>3. ~Has(apiQ, "cancelPicture") /\ ~Has(apiQ, "stopCaptureChannel")
    BY DEF Lean, Ending, Undisturbed, Disturbing
  <2>4. Head(apiQ) \notin OwnCalls
    BY <2>2, <2>3 DEF OwnCalls
  <2> QED BY <1>0, <1>1, <2>4, CallWaits
<1>2. CASE smEvtProcEvt
  <2>1. PICK h, e : EvtStep(h, e) /\ e = Head(hw.evts) /\ hw'.evts = Tail(hw.evts)
    BY <1>0, <1>2, EvtStepIs
  <2>2. ASSUME Forgettable', e = "snapshotDone"
        PROVE  ~Has(hw.evts, Ev(Head(app.todo))) /\ ~Due(hw, Head(app.todo))
    <3>1. /\ app.waiting /\ Head(app.todo) \in Slow /\ Has(hw.evts, "snapshotDone")
      BY <2>1, <2>2 DEF EvtStep, Forgettable
    <3>2. app.todo \in Seq(Apis) /\ app.todo # <<>>
      BY <1>0, <3>1, LeanFacts, PlanFacts DEF Ind, Planned
    <3>3. Order(hw, note.rcvd) /\ LightAfter /\ Unlit
      BY DEF Lean, Ending
    <3>4. /\ hw.evts \in Seq(Evts) /\ config.retro <= config.pictures
          /\ config.retro \in Nat /\ config.pictures \in Nat
          /\ (config.flash => config.retro < config.pictures)
      BY LeanFacts
    <3>5. ~Has(hw.evts, "ready") /\ ~Has(hw.evts, "prepDone")
      <4>1. hw.evts # <<>>
        BY <3>1, <3>4 DEF Has
      <4> QED BY <2>1, <2>2, <3>3, <3>4, <4>1, NewsTaken DEF Order
    <3>6. hw.capture = "still" /\ hw.shots = config.pictures
      BY <3>1, <3>3 DEF Order, AllHere
    <3>7. hw.ready /\ (config.flash /\ config.retro < config.pictures => hw.lit)
      BY <3>3, <3>4, <3>6 DEF Order, InTurn
    <3>8. CASE Head(app.todo) = "takePicture"
      BY <3>5, <3>7, <3>8 DEF Ev, Due
    <3>9. CASE Head(app.todo) = "prepareSnapshot"
      <4>1. Has(app.todo, "prepareSnapshot")
        BY <3>2, <3>9, Taken
      <4>2. config.flash /\ app.todo = <<"prepareSnapshot">>
        BY <3>3, <3>9, <4>1, LightTails DEF LightAfter
      <4>3. ~hw.prep
        BY <3>3, <3>4, <3>6, <3>7, <4>2 DEF Unlit, ToMeasure
      <4> QED BY <3>5, <3>9, <4>3 DEF Ev, Due
    <3> QED BY <3>1, <3>8, <3>9 DEF Slow
  <2> QED BY <1>0, <2>1, <2>2, EvtWaits
<1>3. CASE Others
  BY <1>0, <1>3, QuietWaits
<1>4. CASE (\E op \in config.ops : Operation(op)) \/ processAPI \/ waitAPIResult \/ UNCHANGED vars
  BY <1>0, <1>4, AskingWaits
<1> QED BY <1>1, <1>2, <1>3, <1>4 DEF Next, Others

\* The camera that forgets nobody, of either kind.
Minded == Ind /\ Attended /\ (Retro => Lean /\ Waits)

LEMMA MindedNext ==
  ASSUME Minded, [Next]_vars
  PROVE  Minded'
<1>1. Ind' /\ Attended'
  BY NextInd, NextAttends DEF Minded
<1>2. Retro' => Retro
  <2>1. config' = config
    <3>0. Ind
      BY DEF Minded
    <3>1. CASE Others
      BY <3>0, <3>1, OthersQuiet DEF Quiet
    <3>2. CASE smEvtProcApi \/ smEvtProcEvt
      BY <3>2 DEF smEvtProcApi, smEvtProcEvt
    <3>3. CASE (\E op \in config.ops : Operation(op)) \/ processAPI \/ waitAPIResult \/ UNCHANGED vars
      BY <3>3 DEF Operation, processAPI, waitAPIResult, vars
    <3> QED BY <3>1, <3>2, <3>3 DEF Next, Others
  <2> QED BY <2>1 DEF Retro
<1>3. Retro => Lean' /\ Waits'
  BY LeanNext, LeanWaits DEF Minded
<1> QED BY <1>1, <1>2, <1>3 DEF Minded

LEMMA MindedEnough ==
  ASSUME Minded
  PROVE  NobodyForgotten
<1>1. Ind /\ Attended /\ Sound(hw)
  BY Before DEF Minded
<1>2. CASE Retro
  BY <1>2, WaitsEnough DEF Minded
<1>3. CASE ~Retro
  <2>1. ~hw.retro
    BY <1>1, <1>3 DEF Sound
  <2> QED BY <1>1, <2>1, WaitsEnough DEF Attended, Forgettable
<1> QED BY <1>2, <1>3

\* Of a camera that takes no pictures from the queue nobody is forgotten, nor
\* of one that does while its client lets every capture end: a thread in
\* waitAPIResult is woken to its result, or its call is queued, or an event is
\* to come that answers it in the state the camera is in.
THEOREM NobodyForgottenAlways ==
  ASSUME \A c \in Configs : c.zsl /\ c.retro > 0 => LetsEnd(c)
  PROVE  Spec => []NobodyForgotten
<1>1. Init => Minded
  <2>1. ASSUME Init PROVE Minded
    <3>1. Ind /\ ~app.waiting
      BY <2>1, InitInd DEF Init
    <3>2. Attended /\ Waits
      BY <3>1 DEF Attended, Waits
    <3>3. Retro => LetsEnd(config)
      BY <2>1 DEF Init, Retro
    <3> QED BY <2>1, <3>1, <3>2, <3>3, InitLean DEF Minded
  <2> QED BY <2>1
<1>2. Minded /\ [Next]_vars => Minded'
  BY MindedNext
<1>3. Minded => NobodyForgotten
  BY MindedEnough
<1> QED BY <1>1, <1>2, <1>3, PTL DEF Spec
==============================================================================
