----------------------------- MODULE TargetedSafes -----------------------------
(***************************************************************************)
(* Targeted Safes of an outreach and their cache                           *)
(* (src/datasources/targeted-messaging/targeted-messaging.datasource.ts). *)
(*                                                                         *)
(* createTargetedSafes inserts rows in one SQL transaction and, after it   *)
(* commits, deletes the outreach's cache key.  getTargetedSafe goes        *)
(* through the cached query resolver: on a cache miss it runs the SELECT   *)
(* and writes the result -- an empty one included -- into the field of    *)
(* the safe under the outreach's key, with the default TTL; an empty       *)
(* result is TargetedSafeNotFoundError.  The three steps of a miss (look   *)
(* up, query, fill) are separate awaits, so creators and readers           *)
(* interleave.  One outreach is modelled: the cache key, and so every      *)
(* invalidation, is per outreach and outreaches do not interact.           *)
(***************************************************************************)
EXTENDS FiniteSets

CONSTANTS
    Safes,      \* addresses that may be targeted by the outreach
    Readers,    \* concurrent getTargetedSafe calls
    Creators,   \* concurrent createTargetedSafes calls
    NoSafe      \* the address of an idle reader

ASSUME NoSafeAssumption == NoSafe \notin Safes

VARIABLES
    db,         \* committed rows of targeted_safes for the outreach
    fields,     \* the cache hash of the outreach: one field per safe
    ttlSet,     \* the hash carries an expiry (set by every fill)
    rpc,        \* where each reader is
    rsafe,      \* the safe each reader looks up
    rfound,     \* what each reader's SELECT returned (a row or none)
    cpc,        \* where each creator is
    cnew,       \* the addresses each creator inserted
    confirmed   \* safes some createTargetedSafes call returned

vars == <<db, fields, ttlSet, rpc, rsafe, rfound, cpc, cnew, confirmed>>

(* A cache field: absent, or the cached SELECT result (a row or none).     *)
Entry == {"miss", "found", "empty"}

NoFields == [s \in Safes |-> "miss"]

TypeOK ==
    /\ db \subseteq Safes
    /\ fields \in [Safes -> Entry]
    /\ ttlSet \in BOOLEAN
    /\ rpc \in [Readers -> {"idle", "querying", "filling"}]
    /\ rsafe \in [Readers -> Safes \cup {NoSafe}]
    /\ rfound \in [Readers -> BOOLEAN]
    /\ cpc \in [Creators -> {"idle", "invalidating"}]
    /\ cnew \in [Creators -> SUBSET Safes]
    /\ confirmed \subseteq Safes

Init ==
    /\ db = {}
    /\ fields = NoFields
    /\ ttlSet = FALSE
    /\ rpc = [g \in Readers |-> "idle"]
    /\ rsafe = [g \in Readers |-> NoSafe]
    /\ rfound = [g \in Readers |-> FALSE]
    /\ cpc = [c \in Creators |-> "idle"]
    /\ cnew = [c \in Creators |-> {}]
    /\ confirmed = {}

(* createTargetedSafes: the INSERT ... RETURNING and the SELECT run in     *)
(* sql.begin, so the rows become visible together when it commits.  A      *)
(* failing INSERT rolls back and throws 422 before the cache is touched,   *)
(* which changes nothing.                                                  *)
CreateTargetedSafes(c, addresses) ==
    /\ cpc[c] = "idle"
    /\ db' = db \cup addresses
    /\ cnew' = [cnew EXCEPT ![c] = addresses]
    /\ cpc' = [cpc EXCEPT ![c] = "invalidating"]
    /\ UNCHANGED <<fields, ttlSet, rpc, rsafe, rfound, confirmed>>

(* After the commit: deleteByKey(getTargetedSafeCacheKey(outreachId))      *)
(* drops every field of the outreach, and the call returns.                *)
InvalidateTargetedSafes(c) ==
    /\ cpc[c] = "invalidating"
    /\ fields' = NoFields
    /\ ttlSet' = FALSE
    /\ confirmed' = confirmed \cup cnew[c]
    /\ cpc' = [cpc EXCEPT ![c] = "idle"]
    /\ cnew' = [cnew EXCEPT ![c] = {}]
    /\ UNCHANGED <<db, rpc, rsafe, rfound>>

(* deleteByKey throws after the commit: the rows stay, the cache is not    *)
(* invalidated, and the caller gets an error.                              *)
InvalidateTargetedSafesFails(c) ==
    /\ cpc[c] = "invalidating"
    /\ cpc' = [cpc EXCEPT ![c] = "idle"]
    /\ cnew' = [cnew EXCEPT ![c] = {}]
    /\ UNCHANGED <<db, fields, ttlSet, rpc, rsafe, rfound, confirmed>>

(* getTargetedSafe looks the safe up in the cache.  A hit returns the      *)
(* cached result at once (no state changes); a miss goes to the database. *)
GetTargetedSafe(g, s) ==
    /\ rpc[g] = "idle"
    /\ fields[s] = "miss"
    /\ rpc' = [rpc EXCEPT ![g] = "querying"]
    /\ rsafe' = [rsafe EXCEPT ![g] = s]
    /\ UNCHANGED <<db, fields, ttlSet, rfound, cpc, cnew, confirmed>>

(* The SELECT of the cache miss reads the committed rows.                  *)
QueryTargetedSafe(g) ==
    /\ rpc[g] = "querying"
    /\ rfound' = [rfound EXCEPT ![g] = rsafe[g] \in db]
    /\ rpc' = [rpc EXCEPT ![g] = "filling"]
    /\ UNCHANGED <<db, fields, ttlSet, rsafe, cpc, cnew, confirmed>>

(* Mutant: the fill writes the field without an expiry.                   *)
FillTargetedSafeNoTtl(g) ==
    /\ rpc[g] = "filling"
    /\ fields' = [fields EXCEPT ![rsafe[g]] = IF rfound[g] THEN "found" ELSE "empty"]
    /\ ttlSet' = ttlSet
    /\ rpc' = [rpc EXCEPT ![g] = "idle"]
    /\ rsafe' = [rsafe EXCEPT ![g] = NoSafe]
    /\ rfound' = [rfound EXCEPT ![g] = FALSE]
    /\ UNCHANGED <<db, cpc, cnew, confirmed>>

(* The resolver stores what the SELECT returned, with the default TTL, and *)
(* getTargetedSafe returns the row or throws TargetedSafeNotFoundError.    *)
FillTargetedSafe(g) ==
    /\ rpc[g] = "filling"
    /\ fields' = [fields EXCEPT ![rsafe[g]] = IF rfound[g] THEN "found" ELSE "empty"]
    /\ ttlSet' = TRUE
    /\ rpc' = [rpc EXCEPT ![g] = "idle"]
    /\ rsafe' = [rsafe EXCEPT ![g] = NoSafe]
    /\ rfound' = [rfound EXCEPT ![g] = FALSE]
    /\ UNCHANGED <<db, cpc, cnew, confirmed>>

(* The outreach's hash reaches its TTL (expirationTimeInSeconds.default).  *)
CacheExpires ==
    /\ ttlSet
    /\ fields' = NoFields
    /\ ttlSet' = FALSE
    /\ UNCHANGED <<db, rpc, rsafe, rfound, cpc, cnew, confirmed>>

Next ==
    \/ \E c \in Creators :
        \/ \E addresses \in SUBSET Safes \ {{}} : CreateTargetedSafes(c, addresses)
        \/ InvalidateTargetedSafes(c)
        \/ InvalidateTargetedSafesFails(c)
    \/ \E g \in Readers :
        \/ \E s \in Safes : GetTargetedSafe(g, s)
        \/ QueryTargetedSafe(g)
        \/ FillTargetedSafe(g)
    \/ CacheExpires

(* The store expires a key once its TTL has elapsed.                       *)
Spec == Init /\ [][Next]_vars /\ WF_vars(CacheExpires)

-----------------------------------------------------------------------------
(* PROPERTIES                                                              *)

(* Read-your-writes: once createTargetedSafes has returned for a safe, the *)
(* cache never answers "not found" for it -- the deleteByKey after the     *)
(* commit is there to drop earlier negative results.                       *)
CreatedSafeNotHidden ==
    \A s \in confirmed : fields[s] # "empty"

(* A stale "not found" for a committed row does not last: the cached      *)
(* empty result of a safe that exists is eventually dropped.               *)
StaleNotFoundExpires ==
    \A s \in Safes : (s \in db /\ fields[s] = "empty") ~> (fields[s] # "empty")

=============================================================================
