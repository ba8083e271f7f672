--------------------------- MODULE CaptureContract ---------------------------
(***************************************************************************)
(* What the camera framework may rely on when it submits capture requests. *)
(* The framework's own view is fw: fw[f] is what it has heard of request   *)
(* f. Each request gets at most one shutter and at most one final result,  *)
(* the result never before the shutter; each of its buffers comes back at  *)
(* most once, in error when it was announced lost; a request that was      *)
(* given up says nothing more; and the sensor's shutter does not come      *)
(* before an earlier request had its own or was given up. Once the         *)
(* contract is void nothing is promised.                                   *)
(***************************************************************************)
EXTENDS Integers

CONSTANTS Frames,   \* the numbers of the requests: an interval from 1
          Streams   \* the output streams

VARIABLES fw, void

\* live: served by the sensor, not reprocessed; told: buffers announced lost.
NotAsked == [asked |-> FALSE, live |-> FALSE, shutter |-> FALSE, result |-> FALSE,
             failed |-> FALSE, told |-> {}, buffers |-> [s \in Streams |-> "none"]]

Asked(live, out) ==
    [NotAsked EXCEPT !.asked = TRUE, !.live = live,
                     !.buffers = [s \in Streams |-> IF s \in out THEN "out" ELSE "none"]]

Init == fw = [f \in Frames |-> NotAsked]

\* The framework submits its next request, with some of the streams.
Submit(f) ==
    /\ ~fw[f].asked
    /\ \A g \in Frames : g < f => fw[g].asked
    /\ \E live \in BOOLEAN, out \in SUBSET Streams :
           fw' = [fw EXCEPT ![f] = Asked(live, out)]

\* What one step may add to the framework's view of one request.
MayHear(old, new) ==
    /\ new.asked = old.asked /\ new.live = old.live
    /\ old.shutter => new.shutter
    /\ old.result => new.result
    /\ (new.result /\ ~old.result) => new.shutter
    /\ old.failed => new = old
    /\ old.told \subseteq new.told
    /\ \A s \in Streams :
          \/ new.buffers[s] = old.buffers[s]
          \/ /\ old.buffers[s] = "out"
             /\ new.buffers[s] = (IF s \in new.told \/ new.failed THEN "error" ELSE "ok")

\* The sensor's shutters come in the order of the requests.
InOrder(old, new) ==
    \A f, g \in Frames :
        (/\ g < f /\ old[g].live /\ old[f].live
         /\ new[f].shutter /\ ~old[f].shutter)
             => new[g].shutter \/ new[g].failed

\* Callbacks, of one or of several requests.
Hear ==
    /\ \A f \in Frames : fw'[f] # fw[f] => fw[f].asked /\ MayHear(fw[f], fw'[f])
    /\ InOrder(fw, fw')
    /\ fw' = [f \in Frames |-> fw'[f]]

Next == (\E f \in Frames : Submit(f)) \/ Hear

Spec == Init /\ [][void \/ Next]_fw
==============================================================================
