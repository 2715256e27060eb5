-------------------------- MODULE AuthNonce_proofs --------------------------
(***************************************************************************)
(* Proofs about the SiWe nonce store (AuthNonce), for every set of nonces *)
(* and every number of concurrent verify requests.                         *)
(***************************************************************************)
EXTENDS AuthNonce, TLAPS

(* Each step preserves the type invariant.                                 *)
LEMMA TypeStep == TypeOK /\ [Next]_vars => TypeOK'
<1> SUFFICES ASSUME TypeOK, [Next]_vars PROVE TypeOK'
  OBVIOUS
<1>1. ASSUME NEW n \in Nonces, GenerateNonce(n) PROVE TypeOK'
  BY <1>1 DEF GenerateNonce, TypeOK
<1>2. ASSUME NEW n \in Nonces, NonceTtlExpires(n) PROVE TypeOK'
  BY <1>2 DEF NonceTtlExpires, TypeOK
<1>3. ASSUME NEW r \in Req, NEW m \in Message, VerifyStart(r, m)
      PROVE TypeOK'
  BY <1>3 DEF VerifyStart, TypeOK, PC
<1>4. ASSUME NEW r \in Req, VerifyRead(r) PROVE TypeOK'
  BY <1>4 DEF VerifyRead, TypeOK, PC
<1>5. ASSUME NEW r \in Req, VerifyReadError(r) PROVE TypeOK'
  BY <1>5 DEF VerifyReadError, TypeOK, PC
<1>6. ASSUME NEW r \in Req, VerifyFinally(r) PROVE TypeOK'
  BY <1>6 DEF VerifyFinally, IssueToken, TypeOK, PC, Message
<1>7. ASSUME NEW r \in Req, VerifyFinallyError(r) PROVE TypeOK'
  BY <1>7 DEF VerifyFinallyError, TypeOK, PC
<1>8. CASE UNCHANGED vars
  BY <1>8 DEF vars, TypeOK
<1>9. QED
  BY <1>1, <1>2, <1>3, <1>4, <1>5, <1>6, <1>7, <1>8 DEF Next

(* Type correctness of the nonce store: every reachable state satisfies   *)
(* TypeOK (the cache holds nonces, each request a message and a result).  *)
THEOREM TypeCorrect == Spec => []TypeOK
<1>1. Init => TypeOK
  BY NoNonceAssumption DEF Init, TypeOK, NoMessage, PC
<1>2. QED
  BY <1>1, TypeStep, PTL DEF Spec

(***************************************************************************)
(* NoSequentialReplay is not inductive: a request could hold ok = TRUE for *)
(* a burned nonce.  The strengthening says why that cannot happen:         *)
(*   - the cache only ever holds generated nonces, and a burned nonce is   *)
(*     never in the cache again (nonces are fresh, so generateNonce cannot *)
(*     re-insert one);                                                     *)
(*   - a request flagged as a replay presents a burned nonce;              *)
(*   - a request whose isValid result is true is not a replay (its read    *)
(*     found the nonce in the cache, so it was not burned when it started) *)
(*   - every request holding a token is done and its result was true.     *)
(***************************************************************************)
Started(r) == pc[r] # "idle"

IInv ==
    /\ TypeOK
    /\ cache \subseteq generated
    /\ burned \subseteq generated \ cache
    /\ \A r \in Req : Started(r) => msg[r].nonce \in generated
    /\ \A r \in Req : Started(r) /\ replay[r] => msg[r].nonce \in burned
    /\ \A r \in Req : ok[r] => Started(r) /\ ~replay[r]
    /\ \A r \in issued : pc[r] = "done" /\ ok[r]

LEMMA InitIInv == Init => IInv
BY NoNonceAssumption DEF Init, IInv, TypeOK, NoMessage, PC, Started

LEMMA NextIInv == IInv /\ [Next]_vars => IInv'
<1> SUFFICES ASSUME IInv, [Next]_vars PROVE IInv'
  OBVIOUS
<1> USE DEF IInv, Started
<1>0. TypeOK'
  BY TypeStep
<1>1. ASSUME NEW n \in Nonces, GenerateNonce(n) PROVE IInv'
  BY <1>0, <1>1 DEF GenerateNonce
<1>2. ASSUME NEW n \in Nonces, NonceTtlExpires(n) PROVE IInv'
  BY <1>0, <1>2 DEF NonceTtlExpires
<1>3. ASSUME NEW r \in Req, NEW m \in Message, VerifyStart(r, m)
      PROVE IInv'
  BY <1>0, <1>3 DEF VerifyStart, TypeOK
<1>4. ASSUME NEW r \in Req, VerifyRead(r) PROVE IInv'
  BY <1>0, <1>4 DEF VerifyRead, TypeOK
<1>5. ASSUME NEW r \in Req, VerifyReadError(r) PROVE IInv'
  BY <1>0, <1>5 DEF VerifyReadError, TypeOK
<1>6. ASSUME NEW r \in Req, VerifyFinally(r) PROVE IInv'
  BY <1>0, <1>6 DEF VerifyFinally, IssueToken, TypeOK
<1>7. ASSUME NEW r \in Req, VerifyFinallyError(r) PROVE IInv'
  BY <1>0, <1>7 DEF VerifyFinallyError, TypeOK
<1>8. CASE UNCHANGED vars
  BY <1>0, <1>8 DEF vars
<1>9. QED
  BY <1>1, <1>2, <1>3, <1>4, <1>5, <1>6, <1>7, <1>8 DEF Next

(* No sequential replay of a SiWe nonce (isValid's finally-block delete):  *)
(* for any nonces and any number of concurrent verify requests, a request  *)
(* that starts after a verify of its nonce has finished never obtains an   *)
(* access token.                                                           *)
THEOREM NoSequentialReplayThm == Spec => []NoSequentialReplay
<1>1. IInv => NoSequentialReplay
  BY DEF IInv, TypeOK, NoSequentialReplay
<1>2. QED
  BY <1>1, InitIInv, NextIInv, PTL DEF Spec

-----------------------------------------------------------------------------
(* REFINEMENT OF THE ABSTRACT NONCE STORE                                  *)

(* A step that changes pc and ok of request r only moves r's stage.        *)
LEMMA StageFrame ==
    ASSUME TypeOK, NEW r \in Req,
           pc' = [pc EXCEPT ![r] = pc'[r]], ok' = [ok EXCEPT ![r] = ok'[r]]
    PROVE  StoreStage' = [StoreStage EXCEPT ![r] = StoreStage'[r]]
<1>1. \A q \in Req \ {r} : StoreStage'[q] = StoreStage[q]
  BY DEF StoreStage, TypeOK
<1>2. QED
  BY <1>1 DEF StoreStage

(* The initial state is the abstract store's initial state.                *)
LEMMA InitRefines == Init => Store!Init
BY DEF Init, Store!Init, StoreStage, StoreNonce, NoMessage

(* verify's start presents a generated nonce: the store's Start.           *)
LEMMA StartRefines ==
    ASSUME TypeOK, NEW r \in Req, NEW m \in Message, VerifyStart(r, m)
    PROVE  Store!Start(r, m.nonce)
<1>1. StoreStage[r] = "idle"
  BY DEF VerifyStart, StoreStage
<1>2. StoreStage'[r] = "pending"
  BY DEF VerifyStart, StoreStage, TypeOK
<1>3. StoreStage' = [StoreStage EXCEPT ![r] = "pending"]
  BY <1>2, StageFrame DEF VerifyStart, TypeOK
<1>4. StoreNonce' = [StoreNonce EXCEPT ![r] = m.nonce]
  BY DEF VerifyStart, StoreNonce, TypeOK
<1>5. QED
  BY <1>1, <1>3, <1>4 DEF VerifyStart, Store!Start, StoreNonce

(* A read that finds the nonce in the cache with a valid signature is the  *)
(* store's Grant; a read that does not leaves the store alone.             *)
LEMMA ReadRefines ==
    ASSUME TypeOK, NEW r \in Req, VerifyRead(r)
    PROVE  Store!Grant(r) \/ UNCHANGED Store!vars
<1>1. StoreStage[r] = "pending"
  BY DEF VerifyRead, StoreStage
<1>2. CASE ok'[r]
  <2>1. StoreStage' = [StoreStage EXCEPT ![r] = "granted"]
    <3>1. StoreStage'[r] = "granted"
      BY <1>2 DEF VerifyRead, StoreStage, TypeOK
    <3>2. QED
      BY <3>1, StageFrame DEF VerifyRead, TypeOK
  <2>2. msg[r].nonce \in cache
    BY <1>2 DEF VerifyRead, TypeOK
  <2>3. QED
    BY <1>1, <2>1, <2>2 DEF VerifyRead, Store!Grant, StoreNonce
<1>3. CASE ~ok'[r]
  <2>1. StoreStage' = StoreStage
    <3>1. StoreStage'[r] = "pending"
      BY <1>3 DEF VerifyRead, StoreStage, TypeOK
    <3>2. pc' = [pc EXCEPT ![r] = pc'[r]] /\ ok' = [ok EXCEPT ![r] = ok'[r]]
      BY DEF VerifyRead, TypeOK
    <3>3. StoreStage' = [StoreStage EXCEPT ![r] = "pending"]
      BY <3>1, <3>2, StageFrame
    <3>4. QED
      BY <3>3, <1>1 DEF StoreStage
  <2>2. QED
    BY <2>1 DEF VerifyRead, Store!vars, StoreNonce
<1>4. QED
  BY <1>2, <1>3

(* A failing read leaves isValid's result false: the store does not move.  *)
LEMMA ReadErrorStutters ==
    ASSUME TypeOK, NEW r \in Req, VerifyReadError(r)
    PROVE  UNCHANGED Store!vars
<1>1. StoreStage' = StoreStage
  <2>1. StoreStage'[r] = StoreStage[r]
    BY DEF VerifyReadError, StoreStage, TypeOK
  <2>2. pc' = [pc EXCEPT ![r] = pc'[r]] /\ ok' = [ok EXCEPT ![r] = ok'[r]]
    BY DEF VerifyReadError, TypeOK
  <2>3. StoreStage' = [StoreStage EXCEPT ![r] = StoreStage[r]]
    BY <2>1, <2>2, StageFrame
  <2>4. QED
    BY <2>3 DEF StoreStage
<1>2. QED
  BY <1>1 DEF VerifyReadError, Store!vars, StoreNonce

(* The finally block's delete, and the token iff isValid returned true:    *)
(* the store's Finish.                                                     *)
LEMMA FinallyRefines ==
    ASSUME TypeOK, NEW r \in Req, VerifyFinally(r)
    PROVE  Store!Finish(r)
<1>1. StoreStage[r] \in {"pending", "granted"} /\ (StoreStage[r] = "granted" <=> ok[r])
  BY DEF VerifyFinally, StoreStage
<1>2. StoreStage' = [StoreStage EXCEPT ![r] = "done"]
  <2>1. StoreStage'[r] = "done"
    BY DEF VerifyFinally, StoreStage, TypeOK
  <2>2. QED
    BY <2>1, StageFrame DEF VerifyFinally, TypeOK
<1>3. QED
  BY <1>1, <1>2 DEF VerifyFinally, IssueToken, Store!Finish, StoreNonce

(* A throwing delete ends the request with no token and the nonce cached:  *)
(* the store's Abandon.                                                    *)
LEMMA FinallyErrorRefines ==
    ASSUME TypeOK, NEW r \in Req, VerifyFinallyError(r)
    PROVE  Store!Abandon(r)
<1>1. StoreStage[r] \in {"pending", "granted"}
  BY DEF VerifyFinallyError, StoreStage
<1>2. StoreStage' = [StoreStage EXCEPT ![r] = "done"]
  <2>1. StoreStage'[r] = "done"
    BY DEF VerifyFinallyError, StoreStage, TypeOK
  <2>2. QED
    BY <2>1, StageFrame DEF VerifyFinallyError, TypeOK
<1>3. QED
  BY <1>1, <1>2 DEF VerifyFinallyError, Store!Abandon, StoreNonce

(* Every step of the implementation is a step of the store or a stutter.   *)
LEMMA StepRefines == TypeOK /\ [Next]_vars => [Store!Next]_Store!vars
<1> SUFFICES ASSUME TypeOK, [Next]_vars PROVE [Store!Next]_Store!vars
  OBVIOUS
<1>1. ASSUME NEW n \in Nonces, GenerateNonce(n) PROVE Store!Next
  BY <1>1 DEF GenerateNonce, Store!Next, Store!Generate, StoreStage, StoreNonce
<1>2. ASSUME NEW n \in Nonces, NonceTtlExpires(n) PROVE Store!Next
  BY <1>2 DEF NonceTtlExpires, Store!Next, Store!Expire, StoreStage, StoreNonce
<1>3. ASSUME NEW r \in Req, NEW m \in Message, VerifyStart(r, m) PROVE Store!Next
  <2>1. m.nonce \in Nonces
    BY DEF Message
  <2>2. QED
    BY <1>3, <2>1, StartRefines DEF Store!Next
<1>4. ASSUME NEW r \in Req, VerifyRead(r) PROVE [Store!Next]_Store!vars
  BY <1>4, ReadRefines DEF Store!Next
<1>5. ASSUME NEW r \in Req, VerifyReadError(r) PROVE [Store!Next]_Store!vars
  BY <1>5, ReadErrorStutters
<1>6. ASSUME NEW r \in Req, VerifyFinally(r) PROVE Store!Next
  BY <1>6, FinallyRefines DEF Store!Next
<1>7. ASSUME NEW r \in Req, VerifyFinallyError(r) PROVE Store!Next
  BY <1>7, FinallyErrorRefines DEF Store!Next
<1>8. CASE UNCHANGED vars
  BY <1>8 DEF vars, Store!vars, StoreStage, StoreNonce
<1>9. QED
  BY <1>1, <1>2, <1>3, <1>4, <1>5, <1>6, <1>7, <1>8 DEF Next

(* isValid/verify implement the abstract nonce store, for any nonces and   *)
(* any number of concurrent requests: a token is issued only to a request  *)
(* whose nonce was in the cache when its Promise.all read it, and only by  *)
(* a finally block that deletes that nonce; a throwing delete issues none. *)
THEOREM ImplementsNonceStoreThm == Spec => ImplementsNonceStore
<1>1. Spec => []TypeOK
  BY TypeCorrect
<1>2. QED
  BY <1>1, InitRefines, StepRefines, PTL DEF Spec, ImplementsNonceStore, Store!Spec

=============================================================================
