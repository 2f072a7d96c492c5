----------------------------- MODULE MCController -----------------------------
(***************************************************************************)
(* 30 and 60 are further apart than the upward threshold.  The blocking    *)
(* call of 11 is longer than four windows of the filter.                   *)
(***************************************************************************)
EXTENDS Controller

MCMeasurable == {30, 60}
MCSources == {"VideoOut", "DceFixed"}
MCBlocking == {0, 11}
MCScanning == {0, 1}
==============================================================================
