------------------------ MODULE BalancesHooks_proofs ------------------------
(***************************************************************************)
(* Proofs about webhook invalidation of cached balances (BalancesHooks),   *)
(* for every number of Safes and readers and every bound on balance        *)
(* changes and restarts.                                                   *)
(***************************************************************************)
EXTENDS BalancesHooks, TLAPS

USE BoundsAssumption

(***************************************************************************)
(* TypeOK is not inductive: Restart increments the restart count without   *)
(* looking at the bound, which only Crash checks.  The strengthening says  *)
(* a stopped instance still has a restart left.                            *)
(***************************************************************************)
IInv ==
    /\ TypeOK
    /\ ~up => restarts < MaxRestarts

LEMMA InitIInv == Init => IInv
BY DEF Init, IInv, TypeOK, Version

(* Each step of the transaction service, the instance, its timers, its     *)
(* readers and the cache preserves IInv.                                   *)
LEMMA NextIInv == IInv /\ [Next]_vars => IInv'
<1> SUFFICES ASSUME IInv, [Next]_vars PROVE IInv'
  OBVIOUS
<1>1. ASSUME NEW s \in Safes, BalanceChanges(s) PROVE IInv'
  BY <1>1 DEF BalanceChanges, IInv, TypeOK, Version, Event
<1>2. ASSUME NEW s \in Safes, CacheExpires(s) PROVE IInv'
  BY <1>2 DEF CacheExpires, IInv, TypeOK
<1>3. ASSUME NEW e \in Event, PostEvent(e) PROVE IInv'
  BY <1>3 DEF PostEvent, IInv, TypeOK
<1>4. ASSUME NEW e \in Event, TimerFires(e) PROVE IInv'
  BY <1>4 DEF TimerFires, IInv, TypeOK, Event
<1>5. CASE Crash
  BY <1>5 DEF Crash, IInv, TypeOK
<1>6. CASE Restart
  BY <1>6 DEF Restart, IInv, TypeOK
<1>7. ASSUME NEW g \in Readers, NEW s \in Safes, GetBalances(g, s) PROVE IInv'
  BY <1>7 DEF GetBalances, IInv, TypeOK
<1>8. ASSUME NEW g \in Readers, FetchBalances(g) PROVE IInv'
  BY <1>8 DEF FetchBalances, IInv, TypeOK
<1>9. ASSUME NEW g \in Readers, FetchFails(g) PROVE IInv'
  BY <1>9 DEF FetchFails, IInv, TypeOK
<1>10. ASSUME NEW g \in Readers, FillBalances(g) PROVE IInv'
  BY <1>10 DEF FillBalances, IInv, TypeOK
<1>11. CASE UNCHANGED vars
  BY <1>11 DEF vars, IInv, TypeOK
<1>12. QED
  BY <1>1, <1>2, <1>3, <1>4, <1>5, <1>6, <1>7, <1>8, <1>9, <1>10, <1>11 DEF Next

(* The strengthened invariant holds in every reachable state.             *)
THEOREM IInvHolds == Spec => []IInv
<1>1. Init /\ [][Next]_vars => []IInv
  BY InitIInv, NextIInv, PTL
<1>2. QED
  BY <1>1, PTL DEF Spec

(* Type correctness of the provider, cache, events, instance and readers.  *)
THEOREM TypeCorrect == Spec => []TypeOK
BY IInvHolds, PTL DEF IInv

=============================================================================
