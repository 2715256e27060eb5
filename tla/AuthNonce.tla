------------------------------ MODULE AuthNonce ------------------------------
(***************************************************************************)
(* The Sign-In-with-Ethereum nonce store of AuthRepository                 *)
(* (src/domain/auth/auth.repository.ts).                                   *)
(*                                                                         *)
(* generateNonce stores a fresh nonce in the cache with a TTL.  verify     *)
(* runs isValid, which is split here at its awaits:                        *)
(*   VerifyStart    isExpired is computed; an expired message skips the    *)
(*                  reads and goes straight to the finally block;          *)
(*   VerifyRead     Promise.all([verifyMessage, cacheService.get]) and the *)
(*                  comparison cachedNonce === message.nonce;              *)
(*   VerifyFinally  await cacheService.deleteByKey, then verify issues the *)
(*                  access token when isValid returned true.               *)
(* Several verify requests run concurrently (Node interleaves them at      *)
(* their awaits, and the cache is shared by every instance), so the        *)
(* steps of different requests interleave arbitrarily.                     *)
(***************************************************************************)
EXTENDS FiniteSets

CONSTANTS
    Nonces,     \* nonces authApi.generateNonce may return
    Req,        \* concurrent verify requests
    NoNonce     \* the nonce of a request that has not started

ASSUME NoNonceAssumption == NoNonce \notin Nonces

VARIABLES
    cache,      \* nonces held by the cache (key getAuthNonceCacheDir(nonce))
    generated,  \* nonces generateNonce has returned so far (history)
    pc,         \* where each verify request is
    msg,        \* the signed message each request presents
    ok,         \* the value isValid is about to return
    issued,     \* requests that obtained an access token
    burned,     \* history: generated nonces a finished verify deleted
    replay      \* history: msg[r].nonce was burned when r started

vars == <<cache, generated, pc, msg, ok, issued, burned, replay>>

(* A SiWe message reduced to what isValid tells apart: its nonce, whether  *)
(* authApi.verifyMessage accepts the signature, and whether its            *)
(* expirationTime lies in the past when isValid runs.                      *)
Message == [nonce: Nonces, signatureValid: BOOLEAN, expired: BOOLEAN]

NoMessage == [nonce |-> NoNonce, signatureValid |-> FALSE, expired |-> FALSE]

PC == {"idle", "reading", "finally", "done"}

TypeOK ==
    /\ cache \subseteq Nonces
    /\ generated \subseteq Nonces
    /\ pc \in [Req -> PC]
    /\ msg \in [Req -> Message \cup {NoMessage}]
    /\ \A r \in Req : pc[r] # "idle" => msg[r] \in Message
    /\ ok \in [Req -> BOOLEAN]
    /\ issued \subseteq Req
    /\ burned \subseteq Nonces
    /\ replay \in [Req -> BOOLEAN]

Init ==
    /\ cache = {}
    /\ generated = {}
    /\ pc = [r \in Req |-> "idle"]
    /\ msg = [r \in Req |-> NoMessage]
    /\ ok = [r \in Req |-> FALSE]
    /\ issued = {}
    /\ burned = {}
    /\ replay = [r \in Req |-> FALSE]

(* generateNonce: a fresh nonce is stored in the cache before it is        *)
(* returned, so no client can sign it before it is cached.                 *)
GenerateNonce(n) ==
    /\ n \notin generated
    /\ generated' = generated \cup {n}
    /\ cache' = cache \cup {n}
    /\ UNCHANGED <<pc, msg, ok, issued, burned, replay>>

(* The cache drops a nonce when nonceTtlInSeconds elapse.                  *)
NonceTtlExpires(n) ==
    /\ n \in cache
    /\ cache' = cache \ {n}
    /\ UNCHANGED <<generated, pc, msg, ok, issued, burned, replay>>

(* verify -> isValid up to its first await.  A message carries a nonce a  *)
(* client obtained from generateNonce (an unknown nonce behaves like one   *)
(* whose TTL elapsed).  When the message has expired isValid returns      *)
(* false at once, but the finally block still runs.                        *)
VerifyStart(r, m) ==
    /\ pc[r] = "idle"
    /\ m.nonce \in generated
    /\ msg' = [msg EXCEPT ![r] = m]
    /\ replay' = [replay EXCEPT ![r] = m.nonce \in burned]
    /\ pc' = [pc EXCEPT ![r] = IF m.expired THEN "finally" ELSE "reading"]
    /\ ok' = [ok EXCEPT ![r] = FALSE]
    /\ UNCHANGED <<cache, generated, issued, burned>>

(* Mutant: isValid checks the signature but not the cached nonce.        *)
VerifyReadNoNonceCheck(r) ==
    /\ pc[r] = "reading"
    /\ ok' = [ok EXCEPT ![r] = msg[r].signatureValid]
    /\ pc' = [pc EXCEPT ![r] = "finally"]
    /\ UNCHANGED <<cache, generated, msg, issued, burned, replay>>

(* Promise.all resolves: the signature check and the cached nonce.         *)
VerifyRead(r) ==
    /\ pc[r] = "reading"
    /\ ok' = [ok EXCEPT ![r] = msg[r].signatureValid /\ msg[r].nonce \in cache]
    /\ pc' = [pc EXCEPT ![r] = "finally"]
    /\ UNCHANGED <<cache, generated, msg, issued, burned, replay>>

(* Promise.all rejects (verifyMessage or cacheService.get throws): the     *)
(* catch block returns false.                                              *)
VerifyReadError(r) ==
    /\ pc[r] = "reading"
    /\ ok' = [ok EXCEPT ![r] = FALSE]
    /\ pc' = [pc EXCEPT ![r] = "finally"]
    /\ UNCHANGED <<cache, generated, msg, issued, burned, replay>>

(* verify after isValid has settled: a true result is signed into an      *)
(* access token (notBefore/expiresIn derived from the message), a false    *)
(* one is UnauthorizedException.                                           *)
IssueToken(r) == IF ok[r] THEN issued \cup {r} ELSE issued

(* Mutant: the delete moved into the try block after a successful check,  *)
(* so a failed or expired attempt leaves the nonce in the cache.           *)
VerifyFinallyOnSuccess(r) ==
    /\ pc[r] = "finally"
    /\ cache' = IF ok[r] THEN cache \ {msg[r].nonce} ELSE cache
    /\ burned' = burned \cup {msg[r].nonce}
    /\ issued' = IF ok[r] THEN issued \cup {r} ELSE issued
    /\ pc' = [pc EXCEPT ![r] = "done"]
    /\ UNCHANGED <<generated, msg, ok, replay>>

(* The finally block deletes the nonce; isValid then returns and verify    *)
(* signs an access token when the result is true.                          *)
VerifyFinally(r) ==
    /\ pc[r] = "finally"
    /\ cache' = cache \ {msg[r].nonce}
    /\ burned' = burned \cup {msg[r].nonce}
    /\ issued' = IssueToken(r)
    /\ pc' = [pc EXCEPT ![r] = "done"]
    /\ UNCHANGED <<generated, msg, ok, replay>>

(* deleteByKey throws: the exception replaces isValid's result and the     *)
(* .catch in verify turns it into false; the nonce stays in the cache.     *)
VerifyFinallyError(r) ==
    /\ pc[r] = "finally"
    /\ pc' = [pc EXCEPT ![r] = "done"]
    /\ UNCHANGED <<cache, generated, msg, ok, issued, burned, replay>>

Next ==
    \/ \E n \in Nonces : GenerateNonce(n) \/ NonceTtlExpires(n)
    \/ \E r \in Req :
        \/ \E m \in Message : VerifyStart(r, m)
        \/ VerifyRead(r)
        \/ VerifyReadError(r)
        \/ VerifyFinally(r)
        \/ VerifyFinallyError(r)

Spec == Init /\ [][Next]_vars

-----------------------------------------------------------------------------
(* PROPERTIES                                                              *)

(* No sequential replay: once a verify of a nonce has run its finally      *)
(* block, no verify request that starts afterwards obtains an access token *)
(* with that nonce -- whatever the first request's outcome (expired,       *)
(* bad signature or success).  This is what the deleteByKey in the         *)
(* finally block of isValid is for.                                        *)
NoSequentialReplay ==
    \A r \in issued : ~replay[r]

(* Single use (the comment of generateNonce: the nonce is stored "to       *)
(* verify/prevent replay attacks"): at most one access token is issued for *)
(* any nonce.  isValid reads the nonce before the finally block deletes    *)
(* it, so two overlapping verify requests can both read it.                *)
NonceSingleUse ==
    \A r1, r2 \in issued : msg[r1].nonce = msg[r2].nonce => r1 = r2

-----------------------------------------------------------------------------
(* REFINEMENT                                                              *)

(* Where each verify request is in the abstract store: idle and done are   *)
(* themselves, reading is pending, and at the finally block it is granted  *)
(* iff isValid is about to return true.                                    *)
StoreStage ==
    [r \in Req |-> IF pc[r] = "reading" THEN "pending"
                   ELSE IF pc[r] = "finally" THEN (IF ok[r] THEN "granted" ELSE "pending")
                   ELSE pc[r]]

(* The nonce each request presents (NoNonce before it starts).             *)
StoreNonce == [r \in Req |-> msg[r].nonce]

Store == INSTANCE NonceStore WITH live <- cache, stage <- StoreStage,
                                  nonce <- StoreNonce

(* verify implements the abstract nonce store: a request gets a token only *)
(* if its nonce was in the cache when its Promise.all read it, and only    *)
(* through a finally block that deletes the nonce.  The read and the       *)
(* delete stay two steps, which is what lets two requests share a nonce.   *)
ImplementsNonceStore == Store!Spec

=============================================================================
