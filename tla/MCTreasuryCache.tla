-------------------------- MODULE MCTreasuryCache ---------------------------
(***************************************************************************)
(* An instance of TreasuryCache for TLC.                                   *)
(***************************************************************************)
EXTENDS TreasuryCache, TLC

CONSTANTS r1, r2, h1

TwoRequests == {r1, r2}
OneHost == {h1}
SameHost == [r \in TwoRequests |-> h1]
=============================================================================
