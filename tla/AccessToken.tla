------------------------------ MODULE AccessToken ------------------------------
(***************************************************************************)
(* AuthRepository.getAccessToken (src/domain/auth/auth.repository.ts): the *)
(* access token of a request, read from its Authorization header, of the   *)
(* form "<tokenType> <token>".  Strings are sequences of characters; the   *)
(* header is split on every single space, as String.prototype.split(' ')   *)
(* does, and the first two pieces are destructured.                        *)
(***************************************************************************)
EXTENDS Naturals, Sequences, SequencesExt

CONSTANTS
    Headers,        \* Authorization headers a request may carry
    TokenTypes,     \* the tokenType the caller asks for
    Undefined       \* JavaScript undefined (no header, no piece)

VARIABLES
    header,         \* request.headers.authorization
    tokenType,      \* the tokenType argument
    result          \* whether getAccessToken has returned, and what

vars == <<header, tokenType, result>>

(* The pieces of s split on " ": the text between consecutive separators,  *)
(* empty pieces included (split(' ') of "a  b" is ["a", "", "b"]).         *)
Split(s) ==
    LET cuts == <<0>> \o SetToSortSeq({i \in DOMAIN s : s[i] = " "}, <)
                      \o <<Len(s) + 1>>
    IN [k \in 1 .. Len(cuts) - 1 |-> SubSeq(s, cuts[k] + 1, cuts[k + 1] - 1)]

(* The k-th element of a destructured array: undefined past its end.      *)
Piece(pieces, k) == IF k <= Len(pieces) THEN pieces[k] ELSE Undefined

(* !value for a string or undefined: undefined and "" are falsy.           *)
Falsy(v) == v = Undefined \/ v = <<>>

(* Mutant: the token piece is not checked, so "Bearer " gives "".          *)
GetAccessTokenNoTokenCheck(h, type) ==
    IF Falsy(h) THEN Undefined
    ELSE IF Piece(Split(h), 1) # type THEN Undefined
    ELSE Piece(Split(h), 2)

(* getAccessToken: null for a missing or empty header, for another type or *)
(* a missing or empty second piece; the second piece otherwise.  null is   *)
(* Undefined here: callers treat both as no token.                         *)
GetAccessToken(h, type) ==
    IF Falsy(h) THEN Undefined
    ELSE LET pieces == Split(h) IN
         IF Piece(pieces, 1) # type \/ Falsy(Piece(pieces, 2)) THEN Undefined
         ELSE pieces[2]

Init ==
    /\ header \in Headers \cup {Undefined}
    /\ tokenType \in TokenTypes
    /\ result = [done |-> FALSE, token |-> Undefined]

(* One call of getAccessToken on the request.                              *)
Extract ==
    /\ ~result.done
    /\ result' = [done |-> TRUE, token |-> GetAccessToken(header, tokenType)]
    /\ UNCHANGED <<header, tokenType>>

Next == Extract

Spec == Init /\ [][Next]_vars

-----------------------------------------------------------------------------
(* PROPERTIES                                                              *)

(* A token is only taken from a header of the requested scheme: whenever   *)
(* getAccessToken returns a token, it is non-empty, holds no space, and    *)
(* the header starts with the token type, one space and that token,        *)
(* followed by nothing or by a space.                                      *)
TokenFromScheme ==
    (result.done /\ result.token # Undefined) =>
        LET t == result.token
            prefix == tokenType \o <<" ">> \o t
        IN /\ t # <<>>
           /\ \A i \in DOMAIN t : t[i] # " "
           /\ IsPrefix(prefix, header)
           /\ Len(header) = Len(prefix) \/ header[Len(prefix) + 1] = " "

=============================================================================
