------------------------------ MODULE RelayLimit ------------------------------
(***************************************************************************)
(* The relay orchestrator and its rate limiter, modelled from spec.md      *)
(* (sections 2, 4.4, 5): the relay code itself is not under src/; its      *)
(* controller test (src/routes/relay/relay.controller.spec.ts) pins the    *)
(* observable behaviour.                                                   *)
(*                                                                         *)
(* A relay request is decoded and classified, which yields either a        *)
(* rejection (422/503) or the set of rate-limit keys it will be charged    *)
(* to: one (chainId, wallet) key for execTransaction and multiSend, one    *)
(* per owner for createProxyWithNonce.  Then, in this order:               *)
(*   CheckLimit  the counter of every key is read and compared with the    *)
(*               limit (429 when one is exhausted);                        *)
(*   Submit      the sponsored call is sent to the relay provider (503 on  *)
(*               failure);                                                 *)
(*   Record      usage is recorded, an atomic increment of every key's     *)
(*               counter, only after a successful submission.              *)
(* Requests are concurrent and share the counter store, so their steps     *)
(* interleave.  Each counter expires after its window and restarts at 0.   *)
(***************************************************************************)
EXTENDS Naturals, FiniteSets

CONSTANTS
    Keys,       \* rate-limit keys: (chainId, checksummed address) pairs
    Req,        \* request slots served concurrently
    Capacity    \* relay.limit: sponsored calls per key and window

ASSUME CapacityAssumption == Capacity \in Nat \ {0}
ASSUME ReqAssumption == IsFiniteSet(Req)

VARIABLES
    count,      \* the raw counter of each key in the shared store
    pc,         \* where each request slot is
    keys        \* the rate-limit keys of the request in each slot

vars == <<count, pc, keys>>

PC == {"idle", "checking", "submitting", "recording"}

(* The keys a classified request can be charged to: every request has at  *)
(* least one (an owner list of createProxyWithNonce is never empty).       *)
KeySets == SUBSET Keys \ {{}}

TypeOK ==
    /\ count \in [Keys -> Nat]
    /\ pc \in [Req -> PC]
    /\ keys \in [Req -> SUBSET Keys]

Init ==
    /\ count = [k \in Keys |-> 0]
    /\ pc = [r \in Req |-> "idle"]
    /\ keys = [r \in Req |-> {}]

(* GET /chains/{chainId}/relay/{address}: remaining, clamped at 0.         *)
Remaining(k) == IF count[k] < Capacity THEN Capacity - count[k] ELSE 0

(* A request arrives and passes decoding, classification and the          *)
(* mastercopy check with the rate-limit keys ks.  A request rejected       *)
(* there (422, or 503 from the mastercopy check) reads and writes no       *)
(* counter, so it is a stuttering step of this model.                      *)
Classify(r, ks) ==
    /\ pc[r] = "idle"
    /\ pc' = [pc EXCEPT ![r] = "checking"]
    /\ keys' = [keys EXCEPT ![r] = ks]
    /\ UNCHANGED count

(* Mutant: the limit check lets a key through at the limit (<=).          *)
CanRelayAtLimit(r) == \A k \in keys[r] : count[k] <= Capacity

(* The limit check reads the counters: every key must still have          *)
(* remaining capacity, otherwise the request ends with 429.               *)
CanRelay(r) == \A k \in keys[r] : count[k] < Capacity

CheckLimit(r) ==
    /\ pc[r] = "checking"
    /\ pc' = [pc EXCEPT ![r] = IF CanRelay(r) THEN "submitting" ELSE "idle"]
    /\ keys' = IF CanRelay(r) THEN keys ELSE [keys EXCEPT ![r] = {}]
    /\ UNCHANGED count

(* The relay provider accepts the sponsored call and returns a taskId.     *)
Submit(r) ==
    /\ pc[r] = "submitting"
    /\ pc' = [pc EXCEPT ![r] = "recording"]
    /\ UNCHANGED <<count, keys>>

(* Mutant: a failed submission "refunds" usage that was never recorded.  *)
SubmitFailRefund(r) ==
    /\ pc[r] = "submitting"
    /\ pc' = [pc EXCEPT ![r] = "idle"]
    /\ keys' = [keys EXCEPT ![r] = {}]
    /\ count' = [k \in Keys |-> IF k \in keys[r] THEN count[k] - 1 ELSE count[k]]

(* The relay provider fails or times out: 503, no usage is recorded.       *)
SubmitFail(r) ==
    /\ pc[r] = "submitting"
    /\ pc' = [pc EXCEPT ![r] = "idle"]
    /\ keys' = [keys EXCEPT ![r] = {}]
    /\ UNCHANGED count

(* Usage is recorded: each key's counter is incremented once.              *)
Record(r) ==
    /\ pc[r] = "recording"
    /\ count' = [k \in Keys |-> IF k \in keys[r] THEN count[k] + 1 ELSE count[k]]
    /\ pc' = [pc EXCEPT ![r] = "idle"]
    /\ keys' = [keys EXCEPT ![r] = {}]

(* A counter's window elapses and the store drops it.                      *)
WindowExpires(k) ==
    /\ count[k] > 0
    /\ count' = [count EXCEPT ![k] = 0]
    /\ UNCHANGED <<pc, keys>>

Next ==
    \/ \E r \in Req :
        \/ \E ks \in KeySets : Classify(r, ks)
        \/ CheckLimit(r)
        \/ Submit(r)
        \/ SubmitFail(r)
        \/ Record(r)
    \/ \E k \in Keys : WindowExpires(k)

Spec == Init /\ [][Next]_vars

-----------------------------------------------------------------------------
(* PROPERTIES                                                              *)

(* Requests of this slot that passed the limit check and are not recorded  *)
(* yet, and charge key k.                                                  *)
InFlight(k) == {r \in Req : pc[r] \in {"submitting", "recording"} /\ k \in keys[r]}

(* Bounded overshoot: the raw counter of a key exceeds the limit by less   *)
(* than the number of requests that can be in flight at once.  The check  *)
(* reads before the provider call and the increment happens after it, so  *)
(* every concurrent request may pass the check on the last unit of quota;  *)
(* no more than that gets through, which is what the clamp of the GET     *)
(* endpoint ("should not return negative limits") absorbs.                 *)
OvershootBound ==
    \A k \in Keys : count[k] <= Capacity - 1 + Cardinality(Req)

(* Quota (spec section 3): a key's consumed count never exceeds its        *)
(* capacity within a window.                                               *)
QuotaNeverExceeded ==
    \A k \in Keys : count[k] <= Capacity

=============================================================================
