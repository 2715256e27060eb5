------------------------- MODULE RelayLimit_proofs -------------------------
(***************************************************************************)
(* Proofs about the relay rate limiter (RelayLimit), for every limit, key  *)
(* set and finite number of concurrent request slots.                      *)
(***************************************************************************)
EXTENDS RelayLimit, FiniteSetTheorems, TLAPS

(* Each step preserves the type invariant.                                 *)
LEMMA TypeStep == TypeOK /\ [Next]_vars => TypeOK'
<1> SUFFICES ASSUME TypeOK, [Next]_vars PROVE TypeOK'
  OBVIOUS
<1>1. ASSUME NEW r \in Req, NEW ks \in KeySets, Classify(r, ks) PROVE TypeOK'
  BY <1>1 DEF Classify, TypeOK, PC, KeySets
<1>2. ASSUME NEW r \in Req, CheckLimit(r) PROVE TypeOK'
  BY <1>2 DEF CheckLimit, TypeOK, PC
<1>3. ASSUME NEW r \in Req, Submit(r) PROVE TypeOK'
  BY <1>3 DEF Submit, TypeOK, PC
<1>4. ASSUME NEW r \in Req, SubmitFail(r) PROVE TypeOK'
  BY <1>4 DEF SubmitFail, TypeOK, PC
<1>5. ASSUME NEW r \in Req, Record(r) PROVE TypeOK'
  BY <1>5 DEF Record, TypeOK, PC
<1>6. ASSUME NEW k \in Keys, WindowExpires(k) PROVE TypeOK'
  BY <1>6 DEF WindowExpires, TypeOK
<1>7. CASE UNCHANGED vars
  BY <1>7 DEF vars, TypeOK
<1>8. QED
  BY <1>1, <1>2, <1>3, <1>4, <1>5, <1>6, <1>7 DEF Next

(* Type correctness of the rate limiter: counters are naturals, every slot *)
(* has a stage and a key set.                                              *)
THEOREM TypeCorrect == Spec => []TypeOK
<1>1. Init => TypeOK
  BY DEF Init, TypeOK, PC
<1>2. QED
  BY <1>1, TypeStep, PTL DEF Spec

(***************************************************************************)
(* OvershootBound is not inductive: a counter at Capacity - 1 + |Req| may  *)
(* still have requests in flight.  The strengthening counts them: the      *)
(* counter plus the requests that passed the check for the key and are not *)
(* recorded yet stays within Capacity - 1 + |Req|.  A request enters the   *)
(* in-flight set only when the counter is below Capacity, and it leaves    *)
(* it either by adding exactly one to the counter or by adding nothing.    *)
(***************************************************************************)
Budget(k) == count[k] + Cardinality(InFlight(k))

IInv ==
    /\ TypeOK
    /\ \A k \in Keys : Budget(k) <= Capacity - 1 + Cardinality(Req)

(* The in-flight set of a key is a finite subset of the request slots.     *)
LEMMA InFlightCard ==
    ASSUME NEW k
    PROVE  /\ IsFiniteSet(InFlight(k))
           /\ Cardinality(InFlight(k)) \in Nat
           /\ Cardinality(InFlight(k)) <= Cardinality(Req)
           /\ Cardinality(Req) \in Nat
<1>1. InFlight(k) \subseteq Req
  BY DEF InFlight
<1>. QED
  BY <1>1, ReqAssumption, FS_Subset, FS_CardinalityType

(* The same lemma for the next state.                                      *)
LEMMA InFlightCardPrime ==
    ASSUME NEW k
    PROVE  /\ IsFiniteSet(InFlight(k)')
           /\ Cardinality(InFlight(k)') \in Nat
           /\ Cardinality(InFlight(k)') <= Cardinality(Req)
<1>1. InFlight(k)' \subseteq Req
  BY DEF InFlight
<1>. QED
  BY <1>1, ReqAssumption, FS_Subset, FS_CardinalityType

LEMMA InitIInv == Init => IInv
<1> SUFFICES ASSUME Init PROVE IInv
  OBVIOUS
<1>1. TypeOK
  BY DEF Init, TypeOK, PC
<1>2. ASSUME NEW k \in Keys PROVE Budget(k) <= Capacity - 1 + Cardinality(Req)
  <2>1. InFlight(k) = {}
    BY DEF Init, InFlight
  <2>2. Cardinality(InFlight(k)) = 0
    BY <2>1, FS_EmptySet
  <2>. QED
    BY <2>2, InFlightCard, CapacityAssumption DEF Init, Budget
<1>. QED
  BY <1>1, <1>2 DEF IInv

LEMMA NextIInv == IInv /\ [Next]_vars => IInv'
<1> SUFFICES ASSUME IInv, [Next]_vars,
                    NEW k \in Keys
             PROVE  Budget(k)' <= Capacity - 1 + Cardinality(Req)
  BY TypeStep DEF IInv
<1> DEFINE bound == Capacity - 1 + Cardinality(Req)
<1>0. /\ TypeOK
      /\ Budget(k) <= bound
      /\ count[k] \in Nat
  BY DEF IInv, TypeOK
<1> USE InFlightCard, InFlightCardPrime, CapacityAssumption
(* Steps that leave both the counter and the in-flight set of k alone.     *)
<1>1. ASSUME count'[k] = count[k], InFlight(k)' = InFlight(k)
      PROVE  Budget(k)' <= bound
  BY <1>0, <1>1 DEF Budget
<1>2. ASSUME NEW r \in Req, NEW ks \in KeySets, Classify(r, ks)
      PROVE  Budget(k)' <= bound
  <2>1. InFlight(k)' = InFlight(k)
    BY <1>2, <1>0 DEF Classify, InFlight, TypeOK
  <2>. QED
    BY <1>1, <1>2, <2>1 DEF Classify
<1>3. ASSUME NEW r \in Req, CheckLimit(r)
      PROVE  Budget(k)' <= bound
  <2>1. CASE CanRelay(r) /\ k \in keys[r]
    <3>1. count[k] <= Capacity - 1
      BY <2>1, <1>0 DEF CanRelay
    <3>. QED
      BY <1>0, <1>3, <3>1 DEF CheckLimit, Budget
  <2>2. CASE ~(CanRelay(r) /\ k \in keys[r])
    <3>1. InFlight(k)' = InFlight(k)
      BY <1>3, <2>2, <1>0 DEF CheckLimit, InFlight, TypeOK
    <3>. QED
      BY <1>1, <1>3, <3>1 DEF CheckLimit
  <2>. QED
    BY <2>1, <2>2
<1>4. ASSUME NEW r \in Req, Submit(r)
      PROVE  Budget(k)' <= bound
  <2>1. InFlight(k)' = InFlight(k)
    BY <1>4, <1>0 DEF Submit, InFlight, TypeOK
  <2>. QED
    BY <1>1, <1>4, <2>1 DEF Submit
<1>5. ASSUME NEW r \in Req, SubmitFail(r)
      PROVE  Budget(k)' <= bound
  <2>1. InFlight(k)' = InFlight(k) \ {r}
    BY <1>5, <1>0 DEF SubmitFail, InFlight, TypeOK
  <2>2. Cardinality(InFlight(k)') <= Cardinality(InFlight(k))
    BY <2>1, FS_RemoveElement
  <2>. QED
    BY <1>0, <1>5, <2>2 DEF SubmitFail, Budget
<1>6. ASSUME NEW r \in Req, Record(r)
      PROVE  Budget(k)' <= bound
  <2>1. CASE k \in keys[r]
    <3>1. InFlight(k)' = InFlight(k) \ {r}
      BY <1>6, <1>0 DEF Record, InFlight, TypeOK
    <3>2. r \in InFlight(k)
      BY <1>6, <2>1 DEF Record, InFlight
    <3>3. Cardinality(InFlight(k)') = Cardinality(InFlight(k)) - 1
      BY <3>1, <3>2, FS_RemoveElement
    <3>4. count'[k] = count[k] + 1
      BY <1>6, <2>1 DEF Record
    <3>. QED
      BY <1>0, <3>3, <3>4 DEF Budget
  <2>2. CASE k \notin keys[r]
    <3>1. InFlight(k)' = InFlight(k)
      BY <1>6, <2>2, <1>0 DEF Record, InFlight, TypeOK
    <3>2. count'[k] = count[k]
      BY <1>6, <2>2 DEF Record
    <3>. QED
      BY <1>1, <3>1, <3>2
  <2>. QED
    BY <2>1, <2>2
<1>7. ASSUME NEW j \in Keys, WindowExpires(j)
      PROVE  Budget(k)' <= bound
  <2>1. InFlight(k)' = InFlight(k)
    BY <1>7 DEF WindowExpires, InFlight
  <2>2. count'[k] \in {0, count[k]}
    BY <1>7, <1>0 DEF WindowExpires, TypeOK
  <2>. QED
    BY <1>0, <2>1, <2>2 DEF Budget
<1>8. CASE UNCHANGED vars
  BY <1>1, <1>8 DEF vars, InFlight
<1>9. QED
  BY <1>2, <1>3, <1>4, <1>5, <1>6, <1>7, <1>8 DEF Next

(* Bounded overshoot of the relay limit, for every limit and every finite  *)
(* number of concurrent requests: a key's counter never exceeds            *)
(* Capacity - 1 plus the number of request slots.                          *)
THEOREM OvershootBoundThm == Spec => []OvershootBound
<1>1. IInv => OvershootBound
  <2> SUFFICES ASSUME IInv, NEW k \in Keys
               PROVE  count[k] <= Capacity - 1 + Cardinality(Req)
    BY DEF OvershootBound
  <2>1. Cardinality(InFlight(k)) \in Nat /\ count[k] \in Nat
    BY InFlightCard DEF IInv, TypeOK
  <2>. QED
    BY <2>1, InFlightCard, CapacityAssumption DEF IInv, Budget
<1>2. QED
  BY <1>1, InitIInv, NextIInv, PTL DEF Spec

=============================================================================
