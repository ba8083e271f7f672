------------------------------ MODULE MCAgps ------------------------------
(***************************************************************************)
(* Instances of Agps for TLC.                                              *)
(***************************************************************************)
EXTENDS Agps
===========================================================================
