------------------------- MODULE MCQCameraStateMachine -------------------------
(* Small instances of QCameraStateMachine: cameras and what is called. *)
EXTENDS QCameraStateMachine

Camera(z, r, p, n, f, b, o) ==
  [zsl |-> z, restart |-> r, pictures |-> p, retro |-> n, flash |-> f,
   faulty |-> b, ops |-> o]

Picture == {"startNoDisplay", "take_picture"}
Capture == Picture \cup {"start_recording", "stopRecording"}
Interrupt == {"stopPreview", "cancelPicture", "longshotOn", "longshotOff"}
Message == {"enableMsg", "disableMsg", "previewEnabled"}
Setup == {"setWindow", "startPreview", "set_parameters", "release", "other"}

\* With zero shutter lag; without it; with the restarted preview; and with
\* pictures from the queue, for a client that lets its captures end.
MCConfigs ==
  {Camera(TRUE, FALSE, 1, 0, TRUE, TRUE, Capture \cup Interrupt \cup {"enableMsg"}),
   Camera(FALSE, FALSE, 1, 0, FALSE, TRUE, Capture \cup Interrupt \cup Setup),
   Camera(FALSE, TRUE, 1, 0, FALSE, FALSE, Capture \cup Interrupt),
   Camera(TRUE, FALSE, 2, 1, TRUE, FALSE, Picture \cup Message)}
=============================================================================
