--------------------------- MODULE MCHal3Requests ---------------------------
(***************************************************************************)
(* Instances of Hal3Requests for TLC.                                      *)
(***************************************************************************)
EXTENDS Hal3Requests

\* A preview, a snapshot beside the preview, and both kinds of reprocessing.
MCRequests ==
    {[kind |-> "live", out |-> {"yuv"}], [kind |-> "live", out |-> {"yuv", "jpeg"}],
     [kind |-> "pproc", out |-> {"yuv"}], [kind |-> "direct", out |-> {"jpeg"}]}
=============================================================================
