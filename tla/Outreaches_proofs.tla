-------------------------- MODULE Outreaches_proofs --------------------------
(***************************************************************************)
(* Proofs about the outreach operations of TargetedMessagingDatasource     *)
(* (Outreaches), for every number of clients, source ids, details, files   *)
(* and rows.                                                               *)
(***************************************************************************)
EXTENDS Outreaches, TLAPS

USE OutreachBounds

(***************************************************************************)
(* TypeOK is not inductive: markOutreachAsProcessed updates a listed row,  *)
(* which is a row only because lists are read from existing rows and rows *)
(* are never deleted; createOutreach writes row nextId, which overwrites   *)
(* nothing only because the ids from nextId on are still free.            *)
(***************************************************************************)
IInv ==
    /\ TypeOK
    /\ \A c \in Clients : \A i \in listed[c] : rows[i] # None
    /\ \A i \in Ids : i >= nextId => rows[i] = None

LEMMA InitIInv == Init => IInv
BY DEF Init, IInv, TypeOK, Ids

(* Each step preserves the strengthened invariant.                         *)
LEMMA NextIInv == IInv /\ [Next]_vars => IInv'
<1> SUFFICES ASSUME IInv, [Next]_vars PROVE IInv'
  OBVIOUS
<1>1. ASSUME NEW c \in Clients, NEW s \in SourceIds, NEW d \in Details,
             NEW f \in Files, NEW p \in BOOLEAN, CreateOutreach(c, s, d, f, p)
      PROVE IInv'
  BY <1>1 DEF CreateOutreach, IInv, TypeOK, Ids, Row
<1>2. ASSUME NEW c \in Clients, NEW s \in SourceIds, NEW d \in Details,
             UpdateOutreach(c, s, d)
      PROVE IInv'
  BY <1>2 DEF UpdateOutreach, WithSource, IInv, TypeOK, Row
<1>3. ASSUME NEW c \in Clients, GetUnprocessedOutreaches(c)
      PROVE IInv'
  BY <1>3 DEF GetUnprocessedOutreaches, IInv, TypeOK
<1>4. ASSUME NEW c \in Clients, NEW i \in Ids, MarkOutreachAsProcessed(c, i)
      PROVE IInv'
  <2>1. rows[i] \in Row
    BY <1>4 DEF MarkOutreachAsProcessed, IInv, TypeOK
  <2>2. QED
    BY <1>4, <2>1 DEF MarkOutreachAsProcessed, IInv, TypeOK, Row
<1>5. ASSUME NEW c \in Clients, StatementFails(c)
      PROVE IInv'
  BY <1>5 DEF StatementFails, IInv, TypeOK
<1>6. CASE UNCHANGED vars
  BY <1>6 DEF vars, IInv, TypeOK
<1>7. QED
  BY <1>1, <1>2, <1>3, <1>4, <1>5, <1>6 DEF Next

(* The strengthened invariant holds in every reachable state.             *)
THEOREM IInvHolds == Spec => []IInv
BY InitIInv, NextIInv, PTL DEF Spec

(* Type correctness: every row id is within the serial's bound, every row  *)
(* is an outreach or absent, and every client's list holds row ids.        *)
THEOREM TypeCorrect == Spec => []TypeOK
BY IInvHolds, PTL DEF IInv

-----------------------------------------------------------------------------
(* REFINEMENT OF THE OUTREACH LOG                                          *)

(* A row is not None, and neither is its image in the log.                *)
LEMMA RowNotNone ==
    ASSUME NEW r \in Row
    PROVE  /\ r # None
           /\ [sourceId |-> r.sourceId, file |-> r.file] # None
<1>1. [sourceId |-> r.sourceId, file |-> r.file] \in [sourceId: SourceIds, file: Files]
  BY DEF Row
<1>2. QED
  BY <1>1, OutreachBounds

(* The empty table is the empty log.                                       *)
LEMMA InitRefines == Init => Log!Init
BY DEF Init, Log!Init, LogUpload, LogDone

(* createOutreach is the log's Create of the fresh id nextId, processed    *)
(* from the start when the DTO carries a processed date.                   *)
LEMMA CreateRefines ==
    ASSUME IInv, NEW c \in Clients, NEW s \in SourceIds, NEW d \in Details,
           NEW f \in Files, NEW p \in BOOLEAN, CreateOutreach(c, s, d, f, p)
    PROVE  Log!Create(nextId, [sourceId |-> s, file |-> f], p)
<1>1. nextId \in Ids /\ rows[nextId] = None
  BY DEF CreateOutreach, IInv, TypeOK, Ids
<1>2. LogUpload[nextId] = None
  BY <1>1 DEF LogUpload
<1>3. LogUpload' = [LogUpload EXCEPT ![nextId] = [sourceId |-> s, file |-> f]]
  <2>1. rows' = [rows EXCEPT ![nextId] = [sourceId |-> s, details |-> d,
                                          file |-> f, processed |-> p]]
    BY DEF CreateOutreach
  <2>2. rows \in [Ids -> Row \cup {None}]
    BY DEF IInv, TypeOK
  <2>3. \A j \in Ids : LogUpload'[j] = IF j = nextId THEN [sourceId |-> s, file |-> f]
                                                    ELSE LogUpload[j]
    <3> SUFFICES ASSUME NEW j \in Ids
                 PROVE  LogUpload'[j] = IF j = nextId THEN [sourceId |-> s, file |-> f]
                                                    ELSE LogUpload[j]
      OBVIOUS
    <3>1. CASE j = nextId
      <4>1. rows'[j] = [sourceId |-> s, details |-> d, file |-> f, processed |-> p]
        BY <1>1, <2>1, <2>2, <3>1
      <4>2. rows'[j] \in Row
        BY <4>1 DEF Row
      <4>3. rows'[j] # None
        BY <4>2, RowNotNone
      <4>4. QED
        BY <3>1, <4>1, <4>3 DEF LogUpload
    <3>2. CASE j # nextId
      BY <2>1, <2>2, <3>2 DEF LogUpload
    <3>3. QED
      BY <3>1, <3>2
  <2>4. QED
    BY <1>1, <2>3 DEF LogUpload
<1>4. LogDone' = IF p THEN LogDone \cup {nextId} ELSE LogDone
  <2>1. rows' = [rows EXCEPT ![nextId] = [sourceId |-> s, details |-> d,
                                          file |-> f, processed |-> p]]
    BY DEF CreateOutreach
  <2>2. rows \in [Ids -> Row \cup {None}]
    BY DEF IInv, TypeOK
  <2>3. rows'[nextId] # None /\ rows'[nextId].processed = p
    BY <1>1, <2>1, <2>2, RowNotNone DEF Row
  <2>4. \A j \in Ids \ {nextId} : rows'[j] = rows[j]
    BY <2>1, <2>2
  <2>5. nextId \notin LogDone
    BY <1>1 DEF LogDone
  <2>6. QED
    BY <1>1, <2>3, <2>4, <2>5 DEF LogDone
<1>5. QED
  BY <1>2, <1>3, <1>4 DEF Log!Create

(* markOutreachAsProcessed is the log's Process of a listed, so existing,  *)
(* outreach.                                                               *)
LEMMA MarkRefines ==
    ASSUME IInv, NEW c \in Clients, NEW i \in Ids, MarkOutreachAsProcessed(c, i)
    PROVE  Log!Process(i)
<1>1. rows[i] \in Row
  BY DEF MarkOutreachAsProcessed, IInv, TypeOK
<1>2. LogUpload[i] # None
  BY <1>1, RowNotNone DEF LogUpload
<1>3. rows' = [rows EXCEPT ![i] = [rows[i] EXCEPT !.processed = TRUE]]
  BY DEF MarkOutreachAsProcessed
<1>4. rows \in [Ids -> Row \cup {None}]
  BY DEF IInv, TypeOK
<1>5. /\ rows'[i] # None
      /\ rows'[i].processed
      /\ rows'[i].sourceId = rows[i].sourceId
      /\ rows'[i].file = rows[i].file
  BY <1>1, <1>3, <1>4, OutreachBounds DEF Row
<1>6. \A j \in Ids \ {i} : rows'[j] = rows[j]
  BY <1>3, <1>4
<1>7. LogDone' = LogDone \cup {i}
  BY <1>5, <1>6 DEF LogDone
<1>8. LogUpload' = LogUpload
  BY <1>1, <1>4, <1>5, <1>6, OutreachBounds DEF LogUpload
<1>9. QED
  BY <1>2, <1>7, <1>8 DEF Log!Process

(* updateOutreach rewrites details only: the log does not move.            *)
LEMMA UpdateStutters ==
    ASSUME IInv, NEW c \in Clients, NEW s \in SourceIds, NEW d \in Details,
           UpdateOutreach(c, s, d)
    PROVE  LogUpload' = LogUpload /\ LogDone' = LogDone
<1>1. \A i \in Ids : rows'[i] = None <=> rows[i] = None
  BY OutreachBounds DEF UpdateOutreach, WithSource, IInv, TypeOK, Row
<1>2. \A i \in Ids : rows[i] # None =>
          /\ rows'[i].sourceId = rows[i].sourceId
          /\ rows'[i].file = rows[i].file
          /\ rows'[i].processed = rows[i].processed
  BY DEF UpdateOutreach, WithSource, IInv, TypeOK, Row
<1>3. QED
  BY <1>1, <1>2 DEF LogUpload, LogDone

(* Every step of the datasource is a step of the log or leaves it alone.   *)
LEMMA StepRefines == IInv /\ [Next]_vars => [Log!Next]_Log!vars
<1> SUFFICES ASSUME IInv, [Next]_vars PROVE [Log!Next]_Log!vars
  OBVIOUS
<1>1. ASSUME NEW c \in Clients, NEW s \in SourceIds, NEW d \in Details,
             NEW f \in Files, NEW p \in BOOLEAN, CreateOutreach(c, s, d, f, p)
      PROVE Log!Next
  <2>1. nextId \in Ids
    BY <1>1 DEF CreateOutreach, IInv, TypeOK, Ids
  <2>2. [sourceId |-> s, file |-> f] \in Log!Upload
    BY DEF Log!Upload
  <2>3. QED
    BY <1>1, <2>1, <2>2, CreateRefines DEF Log!Next
<1>2. ASSUME NEW c \in Clients, NEW i \in Ids, MarkOutreachAsProcessed(c, i)
      PROVE Log!Next
  BY <1>2, MarkRefines DEF Log!Next
<1>3. ASSUME NEW c \in Clients, NEW s \in SourceIds, NEW d \in Details,
             UpdateOutreach(c, s, d)
      PROVE UNCHANGED Log!vars
  BY <1>3, UpdateStutters DEF Log!vars
<1>4. ASSUME NEW c \in Clients, GetUnprocessedOutreaches(c) \/ StatementFails(c)
      PROVE UNCHANGED Log!vars
  BY <1>4 DEF GetUnprocessedOutreaches, StatementFails, Log!vars, LogUpload, LogDone
<1>5. CASE UNCHANGED vars
  BY <1>5 DEF vars, Log!vars, LogUpload, LogDone
<1>6. QED
  BY <1>1, <1>2, <1>3, <1>4, <1>5 DEF Next

(* The outreach operations implement the outreach log: whatever clients    *)
(* create, update, list and mark, in any interleaving, an id keeps its     *)
(* source id and file once created, and processing only ever marks         *)
(* existing outreaches and is never undone.                                *)
THEOREM ImplementsOutreachLogThm == Spec => ImplementsOutreachLog
<1>1. Spec => []IInv
  BY IInvHolds
<1>2. QED
  BY <1>1, InitRefines, StepRefines, PTL DEF Spec, ImplementsOutreachLog, Log!Spec
=============================================================================
