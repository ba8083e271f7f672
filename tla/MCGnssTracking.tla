--------------------------- MODULE MCGnssTracking ---------------------------
(***************************************************************************)
(* Instances of GnssTracking for TLC.                                      *)
(***************************************************************************)
EXTENDS GnssTracking

MCClientOf == (1 :> "c1") @@ (2 :> "c2")
MCOptions ==
    {[ivl |-> 1, pwr |-> 2, dist |-> FALSE], [ivl |-> 2, pwr |-> 1, dist |-> FALSE],
     [ivl |-> 2, pwr |-> 0, dist |-> FALSE], [ivl |-> 1, pwr |-> 1, dist |-> TRUE]}
=============================================================================
