-------------------------- MODULE MCBalancesHooks --------------------------
(* Model-checking instance of BalancesHooks: one Safe, two balance changes, *)
(* two concurrent getBalances calls.                                       *)
EXTENDS BalancesHooks, TLC

CONSTANTS s1, g1, g2

MCSafes == {s1}
MCReaders == {g1, g2}
=============================================================================
