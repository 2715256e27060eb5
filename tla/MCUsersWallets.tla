--------------------------- MODULE MCUsersWallets ---------------------------
(* Model-checking instance of UsersWallets: three concurrent sign-ups.     *)
EXTENDS UsersWallets, TLC

CONSTANTS c1, c2, c3, a1, a2

MCCalls == {c1, c2, c3}
MCAddresses == {a1, a2}
=============================================================================
