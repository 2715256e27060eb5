------------------------ MODULE MCEmailRegistration ------------------------
(* Model-checking instance of EmailRegistration: two Safes, one with two   *)
(* owners and one with a single owner, three addresses, two calls.         *)
EXTENDS EmailRegistration, TLC

CONSTANTS sa, sb, a1, a2, a3, c1, c2

MCSafes == {sa, sb}
MCAddresses == {a1, a2, a3}
MCOwners == (sa :> <<a1, a2>>) @@ (sb :> <<a3>>)
MCCalls == {c1, c2}
=============================================================================
