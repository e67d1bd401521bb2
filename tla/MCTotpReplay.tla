---------------------------- MODULE MCTotpReplay ----------------------------
(* Instances of TotpReplay for TLC.                                        *)
EXTENDS TotpReplay, TLC

TwoPeriods == {1, 2}
Interchangeable == Permutations(Slot)
=============================================================================
