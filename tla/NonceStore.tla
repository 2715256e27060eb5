------------------------------ MODULE NonceStore ------------------------------
(***************************************************************************)
(* What the SiWe nonce store of AuthRepository promises, abstractly.  A    *)
(* nonce is live from its generation until a verify of it finishes or its  *)
(* TTL elapses.  A verify request is granted only while its nonce is live, *)
(* and only a granted request gets an access token, when it finishes;      *)
(* finishing deletes the nonce.  The grant and the delete are two steps:  *)
(* other requests may be granted the same nonce in between.  Signatures,   *)
(* message expiry and failing reads only ever withhold a grant, and are    *)
(* not part of it.                                                         *)
(***************************************************************************)
CONSTANTS
    Nonces,     \* nonces the store may hand out
    Req,        \* verify requests
    NoNonce     \* the nonce of a request that has not started

VARIABLES
    live,       \* nonces that can still be granted
    generated,  \* nonces handed out so far
    stage,      \* where each request is
    nonce,      \* the nonce each request presents
    issued      \* requests that obtained an access token

vars == <<live, generated, stage, nonce, issued>>

Stage == {"idle", "pending", "granted", "done"}

TypeOK ==
    /\ live \subseteq Nonces
    /\ generated \subseteq Nonces
    /\ stage \in [Req -> Stage]
    /\ nonce \in [Req -> Nonces \cup {NoNonce}]
    /\ issued \subseteq Req

Init ==
    /\ live = {}
    /\ generated = {}
    /\ stage = [r \in Req |-> "idle"]
    /\ nonce = [r \in Req |-> NoNonce]
    /\ issued = {}

(* A fresh nonce is handed out and is live.                                *)
Generate(n) ==
    /\ n \notin generated
    /\ generated' = generated \cup {n}
    /\ live' = live \cup {n}
    /\ UNCHANGED <<stage, nonce, issued>>

(* A live nonce lapses.                                                    *)
Expire(n) ==
    /\ n \in live
    /\ live' = live \ {n}
    /\ UNCHANGED <<generated, stage, nonce, issued>>

(* A request presents a nonce that was handed out.                         *)
Start(r, n) ==
    /\ stage[r] = "idle"
    /\ n \in generated
    /\ stage' = [stage EXCEPT ![r] = "pending"]
    /\ nonce' = [nonce EXCEPT ![r] = n]
    /\ UNCHANGED <<live, generated, issued>>

(* The request is granted: its nonce is live at this moment.              *)
Grant(r) ==
    /\ stage[r] = "pending"
    /\ nonce[r] \in live
    /\ stage' = [stage EXCEPT ![r] = "granted"]
    /\ UNCHANGED <<live, generated, nonce, issued>>

(* The request finishes: its nonce is deleted, and it gets a token iff it  *)
(* was granted.                                                            *)
Finish(r) ==
    /\ stage[r] \in {"pending", "granted"}
    /\ live' = live \ {nonce[r]}
    /\ issued' = IF stage[r] = "granted" THEN issued \cup {r} ELSE issued
    /\ stage' = [stage EXCEPT ![r] = "done"]
    /\ UNCHANGED <<generated, nonce>>

(* The request ends without deleting its nonce and without a token.        *)
Abandon(r) ==
    /\ stage[r] \in {"pending", "granted"}
    /\ stage' = [stage EXCEPT ![r] = "done"]
    /\ UNCHANGED <<live, generated, nonce, issued>>

Next ==
    \/ \E n \in Nonces : Generate(n) \/ Expire(n)
    \/ \E r \in Req :
        \/ \E n \in Nonces : Start(r, n)
        \/ Grant(r) \/ Finish(r) \/ Abandon(r)

Spec == Init /\ [][Next]_vars
=============================================================================
