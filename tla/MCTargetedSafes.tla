--------------------------- MODULE MCTargetedSafes ---------------------------
(* Model-checking instance of TargetedSafes: two addresses, two concurrent *)
(* readers and one creator.                                                *)
EXTENDS TargetedSafes, TLC

CONSTANTS s1, s2, g1, g2, c1

MCSafes == {s1, s2}
MCReaders == {g1, g2}
MCCreators == {c1}
=============================================================================
