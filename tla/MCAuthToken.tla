---------------------------- MODULE MCAuthToken ----------------------------
EXTENDS AuthToken

CONSTANTS r1, r2

MCRequests == {r1, r2}

(* Expiries on and off a whole second, reached while requests wait.       *)
MCExpirations == {1000, 1750}
==============================================================================
