---------------------------- MODULE MCAuthNonce ----------------------------
(* Model-checking instance of AuthNonce: two nonces, three concurrent      *)
(* verify requests, nonces and requests as symmetric model values.         *)
EXTENDS AuthNonce, TLC

CONSTANTS n1, n2, r1, r2, r3

MCNonces == {n1, n2}
MCReq == {r1, r2, r3}

MCSymmetry == Permutations(MCNonces) \cup Permutations(MCReq)
=============================================================================
