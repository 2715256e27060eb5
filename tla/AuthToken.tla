------------------------------- MODULE AuthToken -------------------------------
(***************************************************************************)
(* The lifetime of the access token AuthRepository.verify issues           *)
(* (src/domain/auth/auth.repository.ts).                                   *)
(*                                                                         *)
(* isValid decides whether the SiWe message has expired against the clock  *)
(* when the request starts, then awaits the signature check, the nonce     *)
(* read and the nonce delete.  verify then computes the token's expiresIn  *)
(* with getSecondsUntil(expirationTime), which reads the clock again and   *)
(* floors to whole seconds, and signs the JWT with it.  The nonce itself   *)
(* is the subject of AuthNonce; here isValid's awaited outcome is a        *)
(* nondeterministic choice.  Time is in milliseconds and advances in       *)
(* steps of Step while requests wait.                                      *)
(***************************************************************************)
EXTENDS Integers

CONSTANTS
    Requests,       \* concurrent verify requests
    Expirations,    \* expirationTime values of messages, in ms
    NoExpiry,       \* a message without expirationTime
    Step,           \* granularity of the clock, in ms
    MaxTime         \* bound on the clock

ASSUME ClockAssumption ==
    /\ Step \in Nat \ {0}
    /\ MaxTime \in Nat
    /\ Expirations \subseteq Nat
    /\ NoExpiry \notin Int

VARIABLES
    clock,          \* Date.now()
    pc,             \* where each request is
    expiration,     \* the message's expirationTime
    expiresIn,      \* the expiresIn verify signed the token with
    issuedAt        \* the clock when the token was signed

vars == <<clock, pc, expiration, expiresIn, issuedAt>>

TypeOK ==
    /\ clock \in 0 .. MaxTime
    /\ pc \in [Requests -> {"idle", "checking", "refused", "issued"}]
    /\ expiration \in [Requests -> Expirations \cup {NoExpiry}]
    /\ expiresIn \in [Requests -> Int \cup {NoExpiry}]
    /\ issuedAt \in [Requests -> 0 .. MaxTime]

Init ==
    /\ clock = 0
    /\ pc = [r \in Requests |-> "idle"]
    /\ expiration = [r \in Requests |-> NoExpiry]
    /\ expiresIn = [r \in Requests |-> NoExpiry]
    /\ issuedAt = [r \in Requests |-> 0]

(* isExpired: !!expirationTime && new Date(expirationTime) < new Date().   *)
IsExpired(e, now) == e # NoExpiry /\ e < now

(* getSecondsUntil: Math.floor((date.getTime() - Date.now()) / 1_000).     *)
GetSecondsUntil(date, now) == (date - now) \div 1000

(* The JWT's exp claim, in seconds, as jwt sign computes it: the issue     *)
(* time floored to seconds plus expiresIn.                                 *)
JwtExp(now, seconds) == now \div 1000 + seconds

(* verify calls isValid: an expired message returns false at once (the     *)
(* finally still deletes the nonce) and verify throws Unauthorized;        *)
(* otherwise the signature check and nonce read are awaited.               *)
VerifyStart(r, e) ==
    /\ pc[r] = "idle"
    /\ expiration' = [expiration EXCEPT ![r] = e]
    /\ pc' = [pc EXCEPT ![r] = IF IsExpired(e, clock) THEN "refused" ELSE "checking"]
    /\ UNCHANGED <<clock, expiresIn, issuedAt>>

(* Mutant: expiresIn is rounded up.                                        *)
VerifyIssueCeil(r, valid) ==
    /\ pc[r] = "checking"
    /\ pc' = [pc EXCEPT ![r] = IF valid THEN "issued" ELSE "refused"]
    /\ expiresIn' = [expiresIn EXCEPT ![r] =
           IF valid /\ expiration[r] # NoExpiry
           THEN (expiration[r] - clock + 999) \div 1000 ELSE NoExpiry]
    /\ issuedAt' = [issuedAt EXCEPT ![r] = clock]
    /\ UNCHANGED <<clock, expiration>>

(* isValid resolves (after its finally): false, or a caught error, makes   *)
(* verify throw Unauthorized; true makes it compute secondsUntilToken-     *)
(* Expires now, sign the token with it when the message has an expiry,     *)
(* and return it as expiresIn.                                             *)
VerifyIssue(r, valid) ==
    /\ pc[r] = "checking"
    /\ pc' = [pc EXCEPT ![r] = IF valid THEN "issued" ELSE "refused"]
    /\ expiresIn' = [expiresIn EXCEPT ![r] =
           IF valid /\ expiration[r] # NoExpiry
           THEN GetSecondsUntil(expiration[r], clock) ELSE NoExpiry]
    /\ issuedAt' = [issuedAt EXCEPT ![r] = clock]
    /\ UNCHANGED <<clock, expiration>>

(* Time passes while requests are in flight.                               *)
Tick ==
    /\ clock + Step <= MaxTime
    /\ clock' = clock + Step
    /\ UNCHANGED <<pc, expiration, expiresIn, issuedAt>>

Next ==
    \/ \E r \in Requests :
        \/ \E e \in Expirations \cup {NoExpiry} : VerifyStart(r, e)
        \/ \E valid \in BOOLEAN : VerifyIssue(r, valid)
    \/ Tick

Spec == Init /\ [][Next]_vars

-----------------------------------------------------------------------------
(* PROPERTIES                                                              *)

(* The token never outlives the message: the exp of a token issued for a  *)
(* message with expirationTime is no later than that expirationTime (the   *)
(* floor in getSecondsUntil rounds towards it).                            *)
TokenNotBeyondMessage ==
    \A r \in Requests :
        (pc[r] = "issued" /\ expiresIn[r] # NoExpiry) =>
            JwtExp(issuedAt[r], expiresIn[r]) * 1000 <= expiration[r]

(* A signed-in user gets a usable token: verify rejected expired messages, *)
(* so the token it issues is not already expired (its exp lies after the   *)
(* second it was issued in).                                               *)
TokenLiveAtIssue ==
    \A r \in Requests :
        (pc[r] = "issued" /\ expiresIn[r] # NoExpiry) =>
            JwtExp(issuedAt[r], expiresIn[r]) > issuedAt[r] \div 1000

=============================================================================
