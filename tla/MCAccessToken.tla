--------------------------- MODULE MCAccessToken ---------------------------
EXTENDS AccessToken

(* Headers of up to four characters over a one-letter scheme "B", a token  *)
(* letter "x" and the space: empty pieces, missing pieces and extra pieces *)
(* all occur.                                                              *)
MCHeaders == UNION {[1 .. n -> {"B", "x", " "}] : n \in 0 .. 4}

MCTokenTypes == {<<"B">>}
==============================================================================
