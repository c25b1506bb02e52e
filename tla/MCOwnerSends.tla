----------------------------- MODULE MCOwnerSends -----------------------------
(* Small instances of OwnerSends for TLC.                                   *)
EXTENDS OwnerSends

CONSTANTS a, b

OneSend == {a}
TwoSends == {a, b}
None == {}
OnlyB == {b}
TwoSeqs == 1..2
ThreeSeqs == 1..3
=============================================================================
