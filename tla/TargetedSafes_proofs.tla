------------------------ MODULE TargetedSafes_proofs ------------------------
(***************************************************************************)
(* Proofs about createTargetedSafes/getTargetedSafe and their cache        *)
(* (TargetedSafes), for every number of safes, readers and creators.       *)
(***************************************************************************)
EXTENDS TargetedSafes, TLAPS

USE NoSafeAssumption

(***************************************************************************)
(* A reader between its cache miss and its fill holds a real safe: the     *)
(* fill writes the field of rsafe[g], which must be a field of the hash.   *)
(* With it, TypeOK is inductive.                                           *)
(***************************************************************************)
IInv ==
    /\ TypeOK
    /\ \A g \in Readers : rpc[g] # "idle" => rsafe[g] \in Safes

LEMMA InitIInv == Init => IInv
BY DEF Init, IInv, TypeOK, NoFields, Entry

(* Each step of each creator and reader, and the expiry, preserves IInv.   *)
LEMMA NextIInv == IInv /\ [Next]_vars => IInv'
<1> SUFFICES ASSUME IInv, [Next]_vars PROVE IInv'
  OBVIOUS
<1>1. ASSUME NEW c \in Creators, NEW addresses \in SUBSET Safes \ {{}},
             CreateTargetedSafes(c, addresses)
      PROVE IInv'
  BY <1>1 DEF CreateTargetedSafes, IInv, TypeOK
<1>2. ASSUME NEW c \in Creators, InvalidateTargetedSafes(c) PROVE IInv'
  BY <1>2 DEF InvalidateTargetedSafes, IInv, TypeOK, NoFields, Entry
<1>3. ASSUME NEW c \in Creators, InvalidateTargetedSafesFails(c) PROVE IInv'
  BY <1>3 DEF InvalidateTargetedSafesFails, IInv, TypeOK
<1>4. ASSUME NEW g \in Readers, NEW s \in Safes, GetTargetedSafe(g, s) PROVE IInv'
  BY <1>4 DEF GetTargetedSafe, IInv, TypeOK
<1>5. ASSUME NEW g \in Readers, QueryTargetedSafe(g) PROVE IInv'
  BY <1>5 DEF QueryTargetedSafe, IInv, TypeOK
<1>6. ASSUME NEW g \in Readers, FillTargetedSafe(g) PROVE IInv'
  <2>1. rsafe[g] \in Safes
    BY <1>6 DEF FillTargetedSafe, IInv
  <2>2. TypeOK'
    BY <1>6, <2>1 DEF FillTargetedSafe, IInv, TypeOK, Entry
  <2>3. (\A h \in Readers : rpc'[h] # "idle" => rsafe'[h] \in Safes)
    BY <1>6 DEF FillTargetedSafe, IInv, TypeOK
  <2>4. QED
    BY <2>2, <2>3 DEF IInv
<1>7. CASE CacheExpires
  BY <1>7 DEF CacheExpires, IInv, TypeOK, NoFields, Entry
<1>8. CASE UNCHANGED vars
  BY <1>8 DEF vars, IInv, TypeOK
<1>9. QED
  BY <1>1, <1>2, <1>3, <1>4, <1>5, <1>6, <1>7, <1>8 DEF Next

(* The strengthened invariant holds in every reachable state.             *)
THEOREM IInvHolds == Spec => []IInv
<1>1. Init /\ [][Next]_vars => []IInv
  BY InitIInv, NextIInv, PTL
<1>2. QED
  BY <1>1, PTL DEF Spec

(* Type correctness of the rows, the cache hash, readers and creators.    *)
THEOREM TypeCorrect == Spec => []TypeOK
BY IInvHolds, PTL DEF IInv

=============================================================================
