---------------------------- MODULE MCRelayLimit ----------------------------
(* Model-checking instance of RelayLimit: two rate-limit keys, three       *)
(* concurrent request slots, a limit of 2 per window.                      *)
EXTENDS RelayLimit, TLC

CONSTANTS k1, k2, r1, r2, r3

MCKeys == {k1, k2}
MCReq == {r1, r2, r3}

MCSymmetry == Permutations(MCKeys) \cup Permutations(MCReq)
=============================================================================
