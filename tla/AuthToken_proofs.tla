--------------------------- MODULE AuthToken_proofs ---------------------------
(***************************************************************************)
(* Proofs about the lifetime of the access tokens AuthRepository.verify    *)
(* issues (AuthToken), for every set of requests, every set of message     *)
(* expiries, every clock step and every clock bound.                       *)
(***************************************************************************)
EXTENDS AuthToken, TLAPS

USE ClockAssumption

(* Each step preserves the type invariant.                                 *)
LEMMA TypeStep == TypeOK /\ [Next]_vars => TypeOK'
<1> SUFFICES ASSUME TypeOK, [Next]_vars PROVE TypeOK'
  OBVIOUS
<1>1. ASSUME NEW r \in Requests, NEW e \in Expirations \cup {NoExpiry},
             VerifyStart(r, e)
      PROVE TypeOK'
  BY <1>1 DEF VerifyStart, TypeOK
<1>2. ASSUME NEW r \in Requests, NEW valid \in BOOLEAN, VerifyIssue(r, valid)
      PROVE TypeOK'
  <2>1. (IF valid /\ expiration[r] # NoExpiry
         THEN GetSecondsUntil(expiration[r], clock) ELSE NoExpiry) \in Int \cup {NoExpiry}
    <3>1. CASE valid /\ expiration[r] # NoExpiry
      <4>1. expiration[r] \in Expirations
        BY <3>1, Zenon DEF TypeOK
      <4>2. expiration[r] \in Nat /\ clock \in Nat
        <5>1. expiration[r] \in Nat
          BY <4>1, ClockAssumption, Zenon
        <5>2. clock \in Nat
          BY SMT DEF TypeOK
        <5>3. QED
          BY <5>1, <5>2
      <4>3. QED
        BY <3>1, <4>2 DEF GetSecondsUntil
    <3>2. CASE ~(valid /\ expiration[r] # NoExpiry)
      BY <3>2
    <3>3. QED
      BY <3>1, <3>2
  <2>2. QED
    BY <1>2, <2>1 DEF VerifyIssue, TypeOK
<1>3. CASE Tick
  BY <1>3 DEF Tick, TypeOK
<1>4. CASE UNCHANGED vars
  BY <1>4 DEF vars, TypeOK
<1>5. QED
  BY <1>1, <1>2, <1>3, <1>4 DEF Next

(* Type correctness of the token model: the clock stays within its bound  *)
(* and every request has a stage, a message expiry and a token lifetime.   *)
THEOREM TypeCorrect == Spec => []TypeOK
<1>1. Init => TypeOK
  BY DEF Init, TypeOK
<1>2. QED
  BY <1>1, TypeStep, PTL DEF Spec

(***************************************************************************)
(* The arithmetic behind TokenNotBeyondMessage: flooring the issue time    *)
(* and flooring the time left never adds up to more than the expiry.       *)
(***************************************************************************)
LEMMA FloorSum ==
    ASSUME NEW e \in Nat, NEW c \in Nat
    PROVE  (c \div 1000 + (e - c) \div 1000) * 1000 <= e
<1> DEFINE q1 == c \div 1000
           q2 == (e - c) \div 1000
<1>1. q1 * 1000 <= c
  BY SMT
<1>2. q2 * 1000 <= e - c
  BY SMT
<1>3. QED
  BY <1>1, <1>2, SMT

(***************************************************************************)
(* TokenNotBeyondMessage is not inductive: it speaks of expiresIn and      *)
(* issuedAt but not of how they were computed.  The strengthening records  *)
(* that an issued token with a lifetime had a message with an expiry, and  *)
(* that its lifetime is getSecondsUntil of that expiry at the issue time.  *)
(***************************************************************************)
IInv ==
    /\ TypeOK
    /\ \A r \in Requests :
          (pc[r] = "issued" /\ expiresIn[r] # NoExpiry) =>
              /\ expiration[r] \in Expirations
              /\ expiresIn[r] = GetSecondsUntil(expiration[r], issuedAt[r])

LEMMA InitIInv == Init => IInv
BY DEF Init, IInv, TypeOK

LEMMA NextIInv == IInv /\ [Next]_vars => IInv'
<1> SUFFICES ASSUME IInv, [Next]_vars PROVE IInv'
  OBVIOUS
<1>0. TypeOK'
  BY TypeStep DEF IInv
<1>1. ASSUME NEW r \in Requests, NEW e \in Expirations \cup {NoExpiry},
             VerifyStart(r, e)
      PROVE IInv'
  BY <1>0, <1>1 DEF VerifyStart, IInv, TypeOK
<1>2. ASSUME NEW r \in Requests, NEW valid \in BOOLEAN, VerifyIssue(r, valid)
      PROVE IInv'
  BY <1>0, <1>2 DEF VerifyIssue, IInv, TypeOK
<1>3. CASE Tick
  BY <1>0, <1>3 DEF Tick, IInv
<1>4. CASE UNCHANGED vars
  BY <1>4 DEF vars, IInv, TypeOK
<1>5. QED
  BY <1>1, <1>2, <1>3, <1>4 DEF Next

LEMMA IInvSafe == IInv => TokenNotBeyondMessage
<1> SUFFICES ASSUME IInv, NEW r \in Requests,
                    pc[r] = "issued", expiresIn[r] # NoExpiry
             PROVE  JwtExp(issuedAt[r], expiresIn[r]) * 1000 <= expiration[r]
  BY DEF TokenNotBeyondMessage
<1>1. expiration[r] \in Expirations /\ issuedAt[r] \in 0 .. MaxTime
  BY Zenon DEF IInv, TypeOK
<1>5. expiration[r] \in Nat /\ issuedAt[r] \in Nat
  <2>1. expiration[r] \in Nat
    BY <1>1, ClockAssumption, Zenon
  <2>2. issuedAt[r] \in Nat
    BY <1>1, SMT
  <2>3. QED
    BY <2>1, <2>2
<1>2. expiresIn[r] = (expiration[r] - issuedAt[r]) \div 1000
  BY DEF IInv, GetSecondsUntil
<1>3. (issuedAt[r] \div 1000 + (expiration[r] - issuedAt[r]) \div 1000) * 1000 <= expiration[r]
  BY <1>5, FloorSum
<1>4. QED
  BY <1>2, <1>3 DEF JwtExp

(* The token verify issues never outlives the signed message: its exp     *)
(* claim is at or before the message's expirationTime, for every clock     *)
(* step and every interleaving of the requests' awaits.                    *)
THEOREM TokenNotBeyondMessageThm == Spec => []TokenNotBeyondMessage
<1>1. Init => IInv
  BY InitIInv
<1>2. IInv /\ [Next]_vars => IInv'
  BY NextIInv
<1>3. IInv => TokenNotBeyondMessage
  BY IInvSafe
<1>4. QED
  BY <1>1, <1>2, <1>3, PTL DEF Spec

=============================================================================
