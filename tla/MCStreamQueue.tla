--------------------------- MODULE MCStreamQueue ----------------------------
(***************************************************************************)
(* Instances of StreamQueue for TLC.                                       *)
(***************************************************************************)
EXTENDS StreamQueue

CONSTANTS w1, w2

TwoWorkers == {w1, w2}
=============================================================================
