----------------------------- MODULE BalancesHooks -----------------------------
(***************************************************************************)
(* Cache invalidation of Safe balances by webhook events: the composition  *)
(* of CacheHooksController.postEvent                                       *)
(* (src/routes/cache-hooks/cache-hooks.controller.ts) with                 *)
(* ValkBalancesApi.getBalances / clearBalances                             *)
(* (src/datasources/balances-api/valk-balances-api.service.ts).           *)
(*                                                                         *)
(* getBalances reads cache-first: a hit is served, a miss fetches the      *)
(* provider and stores the result under the Safe's key with the default    *)
(* TTL.  When a Safe's on-chain state changes, the transaction service     *)
(* POSTs an event; postEvent answers 202 and only schedules                *)
(* service.onEvent with setTimeout(webHookExecutionDelayMs).  For a        *)
(* balance-changing event onEvent clears the Safe's balances, which is     *)
(* clearBalances: deleteByKey of the Safe's key.  Timers live in the       *)
(* process, so a restart of the instance drops every scheduled event.      *)
(* Balances are abstracted to the on-chain version they reflect.           *)
(***************************************************************************)
EXTENDS Naturals, FiniteSets

CONSTANTS
    Safes,          \* Safe addresses on one configured chain
    Readers,        \* concurrent getBalances calls
    MaxVersion,     \* bound on balance changes per Safe
    MaxRestarts,    \* bound on restarts of the instance
    Miss            \* no cached balances

ASSUME BoundsAssumption ==
    /\ MaxVersion \in Nat \ {0}
    /\ MaxRestarts \in Nat
    /\ Miss \notin Nat

VARIABLES
    chain,      \* the balance version of each Safe at the provider
    cache,      \* the cached balances of each Safe (a version or Miss)
    ttlSet,     \* the Safe's key carries an expiry
    outbox,     \* events the transaction service has yet to deliver
    timers,     \* events scheduled by setTimeout in the running instance
    acked,      \* events postEvent answered 202 for (history)
    processed,  \* events whose onEvent ran (history)
    up,         \* the instance is running
    restarts,   \* restarts so far
    rpc,        \* where each getBalances call is
    rsafe,      \* the Safe each call reads
    rver        \* the version each call's fetch returned

vars == <<chain, cache, ttlSet, outbox, timers, acked, processed, up, restarts,
          rpc, rsafe, rver>>

Version == 0 .. MaxVersion

(* A webhook event: the Safe whose balances changed, and the change.       *)
Event == [safe: Safes, version: Version]

TypeOK ==
    /\ chain \in [Safes -> Version]
    /\ cache \in [Safes -> Version \cup {Miss}]
    /\ ttlSet \in [Safes -> BOOLEAN]
    /\ outbox \subseteq Event
    /\ timers \subseteq Event
    /\ acked \subseteq Event
    /\ processed \subseteq Event
    /\ up \in BOOLEAN
    /\ restarts \in 0 .. MaxRestarts
    /\ rpc \in [Readers -> {"idle", "fetching", "filling"}]
    /\ rsafe \in [Readers -> Safes]
    /\ rver \in [Readers -> Version]

Init ==
    /\ chain = [s \in Safes |-> 0]
    /\ cache = [s \in Safes |-> Miss]
    /\ ttlSet = [s \in Safes |-> FALSE]
    /\ outbox = {}
    /\ timers = {}
    /\ acked = {}
    /\ processed = {}
    /\ up = TRUE
    /\ restarts = 0
    /\ rpc = [g \in Readers |-> "idle"]
    /\ rsafe \in [Readers -> Safes]
    /\ rver = [g \in Readers |-> 0]

(* A transaction of the Safe changes its balances; the transaction service *)
(* will POST the corresponding event.                                      *)
BalanceChanges(s) ==
    /\ chain[s] < MaxVersion
    /\ chain' = [chain EXCEPT ![s] = @ + 1]
    /\ outbox' = outbox \cup {[safe |-> s, version |-> chain[s] + 1]}
    /\ UNCHANGED <<cache, ttlSet, timers, acked, processed, up, restarts, rpc, rsafe, rver>>

(* postEvent: the event passes the guard and the validation pipe,          *)
(* setTimeout schedules onEvent, and the controller answers 202.           *)
PostEvent(e) ==
    /\ up
    /\ e \in outbox
    /\ outbox' = outbox \ {e}
    /\ timers' = timers \cup {e}
    /\ acked' = acked \cup {e}
    /\ UNCHANGED <<chain, cache, ttlSet, processed, up, restarts, rpc, rsafe, rver>>

(* The timer fires: onEvent clears the Safe's balances (clearBalances:     *)
(* deleteByKey(getValkBalancesCacheKey)).                                  *)
TimerFires(e) ==
    /\ up
    /\ e \in timers
    /\ timers' = timers \ {e}
    /\ processed' = processed \cup {e}
    /\ cache' = [cache EXCEPT ![e.safe] = Miss]
    /\ ttlSet' = [ttlSet EXCEPT ![e.safe] = FALSE]
    /\ UNCHANGED <<chain, outbox, acked, up, restarts, rpc, rsafe, rver>>

(* The instance stops: scheduled timers and in-flight requests are lost;   *)
(* the shared cache survives.                                              *)
Crash ==
    /\ up
    /\ restarts < MaxRestarts
    /\ up' = FALSE
    /\ timers' = {}
    /\ rpc' = [g \in Readers |-> "idle"]
    /\ UNCHANGED <<chain, cache, ttlSet, outbox, acked, processed, restarts, rsafe, rver>>

Restart ==
    /\ ~up
    /\ up' = TRUE
    /\ restarts' = restarts + 1
    /\ UNCHANGED <<chain, cache, ttlSet, outbox, timers, acked, processed, rpc, rsafe, rver>>

(* getBalances on a cache miss: _getChainName succeeds (a chain that is    *)
(* not configured throws before any I/O) and the provider is called.       *)
(* A cache hit is served without a state change.                           *)
GetBalances(g, s) ==
    /\ up
    /\ rpc[g] = "idle"
    /\ cache[s] = Miss
    /\ rpc' = [rpc EXCEPT ![g] = "fetching"]
    /\ rsafe' = [rsafe EXCEPT ![g] = s]
    /\ UNCHANGED <<chain, cache, ttlSet, outbox, timers, acked, processed, up, restarts, rver>>

(* The provider answers with the Safe's current balances.                  *)
FetchBalances(g) ==
    /\ up
    /\ rpc[g] = "fetching"
    /\ rver' = [rver EXCEPT ![g] = chain[rsafe[g]]]
    /\ rpc' = [rpc EXCEPT ![g] = "filling"]
    /\ UNCHANGED <<chain, cache, ttlSet, outbox, timers, acked, processed, up, restarts, rsafe>>

(* The provider call fails: getBalances throws DataSourceError and nothing *)
(* is cached.                                                              *)
FetchFails(g) ==
    /\ up
    /\ rpc[g] = "fetching"
    /\ rpc' = [rpc EXCEPT ![g] = "idle"]
    /\ UNCHANGED <<chain, cache, ttlSet, outbox, timers, acked, processed, up, restarts, rsafe, rver>>

(* Mutant: the fetched balances are cached without an expiry.             *)
FillBalancesNoTtl(g) ==
    /\ up
    /\ rpc[g] = "filling"
    /\ cache' = [cache EXCEPT ![rsafe[g]] = rver[g]]
    /\ rpc' = [rpc EXCEPT ![g] = "idle"]
    /\ UNCHANGED <<chain, ttlSet, outbox, timers, acked, processed, up, restarts, rsafe, rver>>

(* The fetched balances are stored with expireTimeSeconds and mapped.      *)
FillBalances(g) ==
    /\ up
    /\ rpc[g] = "filling"
    /\ cache' = [cache EXCEPT ![rsafe[g]] = rver[g]]
    /\ ttlSet' = [ttlSet EXCEPT ![rsafe[g]] = TRUE]
    /\ rpc' = [rpc EXCEPT ![g] = "idle"]
    /\ UNCHANGED <<chain, outbox, timers, acked, processed, up, restarts, rsafe, rver>>

(* The Safe's key reaches its TTL in the shared cache.                     *)
CacheExpires(s) ==
    /\ ttlSet[s]
    /\ cache' = [cache EXCEPT ![s] = Miss]
    /\ ttlSet' = [ttlSet EXCEPT ![s] = FALSE]
    /\ UNCHANGED <<chain, outbox, timers, acked, processed, up, restarts, rpc, rsafe, rver>>

Next ==
    \/ \E s \in Safes : BalanceChanges(s) \/ CacheExpires(s)
    \/ \E e \in Event : PostEvent(e) \/ TimerFires(e)
    \/ Crash
    \/ Restart
    \/ \E g \in Readers :
        \/ \E s \in Safes : GetBalances(g, s)
        \/ FetchBalances(g)
        \/ FetchFails(g)
        \/ FillBalances(g)

(* Fairness: the transaction service retries a POST until it is accepted; *)
(* a due timer of a running process fires; a stopped instance is           *)
(* restarted; the cache drops a key once its TTL elapses.                  *)
Fairness ==
    /\ \A e \in Event : WF_vars(PostEvent(e)) /\ WF_vars(TimerFires(e))
    /\ WF_vars(Restart)
    /\ \A s \in Safes : WF_vars(CacheExpires(s))

Spec == Init /\ [][Next]_vars /\ Fairness

-----------------------------------------------------------------------------
(* PROPERTIES                                                              *)

(* Acknowledged events are processed: once postEvent has answered 202 for  *)
(* an event, its onEvent (and so the balance invalidation) eventually runs. *)
AckedEventProcessed ==
    \A e \in Event : e \in acked ~> e \in processed

(* Stale balances do not last: cached balances older than the Safe's       *)
(* current ones are eventually replaced, whatever events are lost.         *)
StaleBalanceReplaced ==
    \A s \in Safes, v \in Version :
        (cache[s] = v /\ v < chain[s]) ~> (cache[s] # v)

(* Invalidation is effective: once the event of a change has been         *)
(* processed, the cache does not serve balances from before that change.   *)
NoStaleAfterHook ==
    \A e \in processed : cache[e.safe] = Miss \/ cache[e.safe] >= e.version

=============================================================================
