---------------------------- MODULE Hal3PostProc ----------------------------
(***************************************************************************)
(* The postprocessor of a HAL3 picture channel, QCamera3PostProc.cpp with  *)
(* the picture, processing and reprocess channels of QCamera3Channel.cpp:  *)
(* the queues between the request thread, the camera's callbacks, the data *)
(* thread, the reprocess hardware and the JPEG encoder, and the stop that  *)
(* flushes them.                                                           *)
(*                                                                         *)
(* A job carries the numbers of the requests its parts come from: img the  *)
(* image, meta the metadata, set the JPEG settings (0: none).  The settings*)
(* name the output buffer, so set is also the request that is answered.    *)
(***************************************************************************)
EXTENDS Naturals, Sequences, SequencesExt

CONSTANTS MaxFrame,   \* bound: requests
          MaxStops,   \* bound: flushes
          MaxFaults   \* bound: refusals of the hardware and the encoder

ASSUME PostProcAssumption ==
    MaxFrame \in Nat \ {0} /\ MaxStops \in Nat /\ MaxFaults \in Nat

VARIABLES
    reproc,       \* the channel has a reprocess channel (m_pReprocChannel)
    asked,        \* what each request is: "live" or "input"
    hwi,          \* where the request thread is
    started,      \* mPostProcStarted
    cmds,         \* commands of the data thread
    active,       \* is_active, and m_active of the queues that stop flushes
    dp,           \* where the data thread is in a DO_NEXT_JOB
    settings,     \* m_jpegSettingsQ
    inputPP, inputMeta, inputFWK, ongoingPP, inputJpeg, ongoingJpeg,
    image, metadata,  \* external: frames the camera still delivers
    hw,           \* external: frames in the reprocess hardware
    event,        \* jobs whose encoder event is being handled
    done,         \* the answers that the channel sent
    ended,        \* history: requests that a flush or a fault ended
    muddled,      \* history: settings met another request's image
    stops, faults

queues == <<settings, inputPP, inputMeta, inputFWK, ongoingPP, inputJpeg>>
vars == <<reproc, asked, hwi, started, cmds, active, dp, queues, ongoingJpeg,
          image, metadata, hw, event, done, ended, muddled, stops, faults>>

Frames == 1 .. MaxFrame
HeadOr0(q) == IF q = <<>> THEN 0 ELSE Head(q)
Rest(q) == IF q = <<>> THEN q ELSE Tail(q)
First(S) == CHOOSE f \in S : \A g \in S : f <= g
Answered == {done[i].set : i \in DOMAIN done}
Current == CHOOSE f \in Frames : asked[f] # "no" /\ \A g \in Frames : asked[g] # "no" => g <= f

Init ==
    /\ reproc \in BOOLEAN
    /\ asked = [f \in Frames |-> "no"]
    /\ hwi = "idle" /\ dp = "idle"
    /\ started = FALSE /\ active = FALSE
    /\ cmds = <<>> /\ settings = <<>>
    /\ inputPP = <<>> /\ inputMeta = <<>> /\ inputFWK = <<>>
    /\ ongoingPP = <<>> /\ inputJpeg = <<>> /\ ongoingJpeg = <<>>
    /\ image = {} /\ metadata = {} /\ hw = <<>> /\ event = {}
    /\ done = <<>> /\ ended = {} /\ muddled = FALSE
    /\ stops = 0 /\ faults = 0

\* QCameraQueue::enqueue: a flushed queue takes nothing, and nobody looks.
enqueue(q, x) == IF active THEN Append(q, x) ELSE q

DoNext == cmds' = Append(cmds, "next")

Fault == faults < MaxFaults /\ faults' = faults + 1
NoFault == UNCHANGED faults

-----------------------------------------------------------------------------
(* The request thread.                                                     *)

\* request: the first request after a stop starts the postprocessor and waits.
Request(f, kind) ==
    /\ hwi = "idle" /\ asked[f] = "no"
    /\ \A g \in Frames : g < f => asked[g] # "no"
    /\ asked' = [asked EXCEPT ![f] = kind]
    /\ started' = TRUE
    /\ IF started THEN hwi' = "queue" /\ UNCHANGED cmds
                  ELSE hwi' = "start" /\ cmds' = Append(cmds, "start")
    /\ UNCHANGED <<reproc, active, dp, queues, ongoingJpeg, image, metadata, hw, event,
                   done, ended, muddled, stops, faults>>

\* A live request queues its settings and gives the camera a buffer.
QueueLive ==
    /\ hwi = "queue" /\ asked[Current] = "live"
    /\ settings' = Append(settings, Current)
    /\ muddled' = (muddled \/ inputFWK # <<>>)
    /\ image' = image \cup {Current} /\ metadata' = metadata \cup {Current}
    /\ hwi' = "idle"
    /\ UNCHANGED <<reproc, asked, started, cmds, active, dp, inputPP, inputMeta, inputFWK,
                   ongoingPP, inputJpeg, ongoingJpeg, hw, event, done, ended, stops, faults>>

\* processData of an input image: to the reprocess queue, if the channel
\* reprocesses and the image's metadata does not say that nothing is left to do
\* (needsReprocess).
ToReprocess ==
    /\ reproc
    /\ settings' = Append(settings, Current)
    /\ inputFWK' = enqueue(inputFWK, Current)
    /\ muddled' = (muddled \/ \E i \in DOMAIN settings : asked[settings[i]] = "live")
    /\ UNCHANGED inputJpeg

\* Or straight to the encoder, with the settings at the head of their queue.
ToEncoder ==
    LET all == Append(settings, Current) IN
    /\ settings' = Tail(all)
    /\ inputJpeg' = enqueue(inputJpeg, [img |-> Current, meta |-> Current, set |-> Head(all)])
    /\ muddled' = (muddled \/ settings # <<>>)
    /\ UNCHANGED inputFWK

QueueInput ==
    /\ hwi = "queue" /\ asked[Current] = "input"
    /\ ToReprocess \/ ToEncoder
    /\ DoNext
    /\ hwi' = "idle"
    /\ UNCHANGED <<reproc, asked, started, active, dp, inputPP, inputMeta, ongoingPP,
                   ongoingJpeg, image, metadata, hw, event, done, ended, stops, faults>>

\* stop, in a flush: the command overtakes all others.
Stop ==
    /\ hwi = "idle" /\ started /\ stops < MaxStops
    /\ stops' = stops + 1
    /\ hwi' = "stop" /\ cmds' = <<"stop">> \o cmds
    /\ UNCHANGED <<reproc, asked, started, active, dp, queues, ongoingJpeg, image, metadata,
                   hw, event, done, ended, muddled, faults>>

\* The reprocess channel and the camera's stream end after the data thread.
StreamsStop ==
    /\ hwi = "stopped"
    /\ image' = {} /\ metadata' = {} /\ hw' = <<>>
    /\ started' = FALSE /\ hwi' = "idle"
    /\ ended' = ended \cup {f \in Frames : asked[f] # "no"}
    /\ UNCHANGED <<reproc, asked, cmds, active, dp, queues, ongoingJpeg, event, done, muddled,
                   stops, faults>>

-----------------------------------------------------------------------------
(* The camera, the hardware and the encoder call back.                     *)

\* Mutant: an image never wakes the data thread.
quiet_frame(q) == UNCHANGED cmds

\* processData and processPPMetadata wake the data thread for the second of a pair.
wake_for_pair(q) == IF q # <<>> THEN DoNext ELSE UNCHANGED cmds

\* streamCbRoutine: the image of a live request.
ImageArrives ==
    /\ image # {}
    /\ image' = image \ {First(image)}
    /\ inputPP' = enqueue(inputPP, First(image))
    /\ wake_for_pair(inputMeta)
    /\ UNCHANGED <<reproc, asked, hwi, started, active, dp, settings, inputMeta, inputFWK,
                   ongoingPP, inputJpeg, ongoingJpeg, metadata, hw, event, done, ended, muddled,
                   stops, faults>>

\* queueReprocMetadata: the metadata of a live request.
MetadataArrives ==
    /\ metadata # {}
    /\ metadata' = metadata \ {First(metadata)}
    /\ inputMeta' = enqueue(inputMeta, First(metadata))
    /\ wake_for_pair(inputPP)
    /\ UNCHANGED <<reproc, asked, hwi, started, active, dp, settings, inputPP, inputFWK,
                   ongoingPP, inputJpeg, ongoingJpeg, image, hw, event, done, ended, muddled,
                   stops, faults>>

\* Mutant: the last job that was begun takes the reprocessed image.
newest_job(img, q) == [q[Len(q)] EXCEPT !.img = img]

\* processPPData: the reprocessed image goes on with the oldest ongoing job.
job_of(img, q) == [Head(q) EXCEPT !.img = img]

processPPData(img, q) ==
    IF q = <<>> \/ Head(q).set = 0
    THEN UNCHANGED <<inputJpeg, cmds>>
    ELSE inputJpeg' = enqueue(inputJpeg, job_of(img, q)) /\ DoNext

\* The hardware returns a frame.
Reprocessed ==
    /\ hw # <<>>
    /\ hw' = Tail(hw)
    /\ processPPData(Head(hw), ongoingPP)
    /\ ongoingPP' = Rest(ongoingPP)
    /\ UNCHANGED <<reproc, asked, hwi, started, active, dp, settings, inputPP, inputMeta,
                   inputFWK, ongoingJpeg, image, metadata, event, done, ended, muddled, stops, faults>>

\* jpegEvtHandle finds the job: the head of the ongoing ones, whatever its id.
EncoderDone ==
    /\ ongoingJpeg # <<>>
    /\ event' = event \cup {Head(ongoingJpeg)}
    /\ ongoingJpeg' = Tail(ongoingJpeg)
    /\ UNCHANGED <<reproc, asked, hwi, started, cmds, active, dp, queues, image, metadata, hw,
                   done, ended, muddled, stops, faults>>

\* Mutant: the next job is not asked for when one is finished.
release_quietly == UNCHANGED cmds

\* releaseJpegJobData
releaseJpegJobData == DoNext

\* It answers the request and releases the job.
Answer(job) ==
    /\ job \in event
    /\ event' = event \ {job}
    /\ done' = Append(done, job)
    /\ releaseJpegJobData
    /\ UNCHANGED <<reproc, asked, hwi, started, active, dp, queues, ongoingJpeg, image, metadata,
                   hw, ended, muddled, stops, faults>>

-----------------------------------------------------------------------------
(* The data thread.                                                        *)

StartDone ==
    /\ dp = "idle" /\ cmds # <<>> /\ Head(cmds) = "start"
    /\ cmds' = Tail(cmds)
    /\ active' = TRUE
    /\ hwi' = "queue"
    /\ UNCHANGED <<reproc, asked, started, dp, queues, ongoingJpeg, image, metadata, hw, event,
                   done, ended, muddled, stops, faults>>

\* What stop empties, which is every queue but that of the settings.
FlushQueues ==
    /\ inputPP' = <<>> /\ inputMeta' = <<>> /\ inputFWK' = <<>>
    /\ ongoingPP' = <<>> /\ inputJpeg' = <<>>
    /\ UNCHANGED settings

\* Ongoing jobs are aborted, and each job that is released asks for the next.
StopDone ==
    /\ dp = "idle" /\ cmds # <<>> /\ Head(cmds) = "stop"
    /\ active' = FALSE
    /\ ongoingJpeg' = <<>>
    /\ cmds' = Tail(cmds) \o
                [i \in 1 .. Len(ongoingJpeg) + Len(ongoingPP) + Len(inputJpeg) |-> "next"]
    /\ FlushQueues
    /\ muddled' = (muddled \/ settings # <<>>)
    /\ hwi' = "stopped"
    /\ UNCHANGED <<reproc, asked, started, dp, image, metadata, hw, event, done, ended, stops, faults>>

\* A command that finds the thread inactive has nothing to return.
NextInactive ==
    /\ dp = "idle" /\ cmds # <<>> /\ Head(cmds) = "next" /\ ~active
    /\ cmds' = Tail(cmds)
    /\ UNCHANGED <<reproc, asked, hwi, started, active, dp, queues, ongoingJpeg, image, metadata,
                   hw, event, done, ended, muddled, stops, faults>>

\* One job at a time is with the encoder.
encode_one == ongoingJpeg = <<>>

\* DO_NEXT_JOB begins with a job for the encoder, one at a time.
NextJpeg ==
    /\ dp = "idle" /\ cmds # <<>> /\ Head(cmds) = "next" /\ active
    /\ dp' = "fwk"
    /\ \/ /\ encode_one /\ inputJpeg # <<>>
          /\ inputJpeg' = Tail(inputJpeg)
          /\ \/ /\ ongoingJpeg' = Append(ongoingJpeg, Head(inputJpeg))
                /\ cmds' = Tail(cmds)
                /\ NoFault /\ UNCHANGED ended
             \/ /\ Fault     \* encodeData fails: the job is released, nobody is told
                /\ ended' = ended \cup {Head(inputJpeg).set}
                /\ cmds' = Append(Tail(cmds), "next")
                /\ UNCHANGED ongoingJpeg
       \/ /\ ~encode_one \/ inputJpeg = <<>>
          /\ cmds' = Tail(cmds)
          /\ UNCHANGED <<inputJpeg, ongoingJpeg, ended, faults>>
    /\ UNCHANGED <<reproc, asked, hwi, started, active, settings, inputPP, inputMeta, inputFWK,
                   ongoingPP, image, metadata, hw, event, done, muddled, stops>>

\* A job goes to the hardware; one that is refused leaves the queue again.
doReprocessOffline(job) ==
    \/ /\ ongoingPP' = Append(ongoingPP, job)
       /\ hw' = Append(hw, job.img)
       /\ NoFault /\ UNCHANGED ended
    \/ /\ Fault
       /\ ended' = ended \cup {job.set}
       /\ UNCHANGED <<ongoingPP, hw>>

\* Then a reprocess job of an input image.
NextInput ==
    /\ dp = "fwk"
    /\ dp' = "pp"
    /\ IF inputFWK # <<>>
       THEN /\ inputFWK' = Tail(inputFWK)
            /\ settings' = Rest(settings)
            /\ doReprocessOffline([img |-> Head(inputFWK), meta |-> Head(inputFWK), set |-> HeadOr0(settings)])
       ELSE UNCHANGED <<inputFWK, settings, ongoingPP, hw, ended, faults>>
    /\ UNCHANGED <<reproc, asked, hwi, started, cmds, active, inputPP, inputMeta, inputJpeg,
                   ongoingJpeg, image, metadata, event, done, muddled, stops>>

\* Then the head image, the head metadata and the head settings are a job.
NextPair ==
    LET job == [img |-> Head(inputPP), meta |-> Head(inputMeta), set |-> HeadOr0(settings)]
    IN /\ dp = "pp"
       /\ dp' = "idle"
       /\ IF inputPP # <<>> /\ inputMeta # <<>>
          THEN /\ inputPP' = Tail(inputPP) /\ inputMeta' = Tail(inputMeta)
               /\ settings' = Rest(settings)
               /\ IF reproc
                  THEN doReprocessOffline(job) /\ UNCHANGED <<inputJpeg, cmds>>
                  ELSE /\ processPPData(job.img, Append(ongoingPP, job))
                       /\ UNCHANGED <<ongoingPP, hw, ended, faults>>
          ELSE UNCHANGED <<inputPP, inputMeta, settings, ongoingPP, hw, inputJpeg, cmds, ended, faults>>
       /\ UNCHANGED <<reproc, asked, hwi, started, active, inputFWK, ongoingJpeg, image, metadata,
                      event, done, muddled, stops>>

-----------------------------------------------------------------------------
RequestThread == QueueLive \/ QueueInput \/ StreamsStop
DataThread == StartDone \/ StopDone \/ NextInactive \/ NextJpeg \/ NextInput \/ NextPair
Encoder == EncoderDone \/ \E job \in event : Answer(job)

Next ==
    \/ \E f \in Frames, kind \in {"live", "input"} : Request(f, kind)
    \/ Stop
    \/ QueueLive
    \/ QueueInput
    \/ StreamsStop
    \/ ImageArrives
    \/ MetadataArrives
    \/ Reprocessed
    \/ EncoderDone
    \/ \E job \in event : Answer(job)
    \/ StartDone
    \/ StopDone
    \/ NextInactive
    \/ NextJpeg
    \/ NextInput
    \/ NextPair

\* Every thread, the camera, the hardware and the encoder go on; nobody has to
\* make a request or to flush.
Spec ==
    /\ Init /\ [][Next]_vars
    /\ WF_vars(RequestThread) /\ WF_vars(DataThread)
    /\ WF_vars(ImageArrives) /\ WF_vars(MetadataArrives)
    /\ WF_vars(Reprocessed) /\ WF_vars(Encoder)

-----------------------------------------------------------------------------
\* Four queues are paired by nothing but their order, by the data thread and by
\* the hardware's callback: a picture still has the settings, the metadata and
\* the answer of its own request, and each request one answer, unless settings
\* were left behind by a stop, a live and an input request both wait for theirs,
\* or an input request that goes straight to the encoder finds others waiting.
\* And the encoder has one job at a time, on which findJpegJobByJobId relies.
OwnPicture ==
    /\ Len(ongoingJpeg) <= 1
    /\ ~muddled =>
          /\ \A i \in DOMAIN done : done[i].img = done[i].set /\ done[i].meta = done[i].set
          /\ \A i, j \in DOMAIN done : done[i].set = done[j].set => i = j

\* A thread that posts no command relies on one that others posted: while the
\* data thread waits, every job it could do has a command under way.
WorkIsSignalled ==
    active /\ dp = "idle" /\
    (\/ inputFWK # <<>>
     \/ inputPP # <<>> /\ inputMeta # <<>>
     \/ inputJpeg # <<>> /\ ongoingJpeg = <<>> /\ event = {})
    => \E i \in DOMAIN cmds : cmds[i] # "start"

\* Every request is answered, unless a flush or a fault ends it, or settings
\* went to another request: so no wakeup is lost between the queues.
EveryPictureEnds ==
    \A f \in Frames : asked[f] # "no" ~> f \in Answered \cup ended \/ muddled
=============================================================================
