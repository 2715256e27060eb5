------------------------------ MODULE Outreaches ------------------------------
(***************************************************************************)
(* The outreach operations of TargetedMessagingDatasource                  *)
(* (src/datasources/targeted-messaging/targeted-messaging.datasource.ts):  *)
(* createOutreach, updateOutreach, getUnprocessedOutreaches and            *)
(* markOutreachAsProcessed, each one SQL statement on the outreaches       *)
(* table, called concurrently by any number of clients.  A client keeps   *)
(* the list getUnprocessedOutreaches gave it and marks outreaches of that  *)
(* list.  An outreach row is its source id, its editable details (name,    *)
(* dates, type, team) as one model value, its source file, and whether     *)
(* source_file_processed_date is set.                                      *)
(***************************************************************************)
EXTENDS Naturals

CONSTANTS
    Clients,        \* concurrent callers of the datasource
    SourceIds,      \* source ids of outreaches
    Details,        \* editable details of an outreach
    Files,          \* source files
    MaxOutreaches,  \* bound on the rows the serial id hands out
    None            \* no row with this id

VARIABLES
    rows,       \* outreaches: id -> row, or None
    nextId,     \* the id the next INSERT receives
    listed,     \* per client: ids of the outreaches it last listed as unprocessed
    answer      \* per client: how its last call ended

vars == <<rows, nextId, listed, answer>>

Ids == 1 .. MaxOutreaches

Row == [sourceId: SourceIds, details: Details, file: Files, processed: BOOLEAN]

ASSUME OutreachBounds ==
    /\ MaxOutreaches \in Nat
    /\ None \notin Row \cup [sourceId: SourceIds, file: Files]

TypeOK ==
    /\ rows \in [Ids -> Row \cup {None}]
    /\ nextId \in 1 .. MaxOutreaches + 1
    /\ listed \in [Clients -> SUBSET Ids]
    /\ answer \in [Clients -> {"none", "ok", "Unprocessable", "NoRow"}]

Init ==
    /\ rows = [i \in Ids |-> None]
    /\ nextId = 1
    /\ listed = [c \in Clients |-> {}]
    /\ answer = [c \in Clients |-> "none"]

(* createOutreach: INSERT ... RETURNING * of the DTO's fields, with       *)
(* source_file_processed_date taken from createOutreachDto as it comes:    *)
(* null (p = FALSE) or a date (p = TRUE).  The serial hands out nextId.    *)
CreateOutreach(c, s, d, f, p) ==
    /\ nextId <= MaxOutreaches
    /\ rows' = [rows EXCEPT ![nextId] = [sourceId |-> s, details |-> d,
                                         file |-> f, processed |-> p]]
    /\ nextId' = nextId + 1
    /\ answer' = [answer EXCEPT ![c] = "ok"]
    /\ UNCHANGED listed

(* Any of the statements fails: the catch logs and throws                  *)
(* UnprocessableEntityException; a single statement changes nothing.       *)
StatementFails(c) ==
    /\ answer' = [answer EXCEPT ![c] = "Unprocessable"]
    /\ UNCHANGED <<rows, nextId, listed>>

(* Ids of the rows with a given source id.                                 *)
WithSource(s) == {i \in Ids : rows[i] # None /\ rows[i].sourceId = s}

(* Mutant: the update also clears source_file_processed_date.              *)
UpdateOutreachReset(c, s, d) ==
    /\ rows' = [i \in Ids |-> IF i \in WithSource(s)
                              THEN [rows[i] EXCEPT !.details = d, !.processed = FALSE]
                              ELSE rows[i]]
    /\ answer' = [answer EXCEPT ![c] = IF WithSource(s) = {} THEN "NoRow" ELSE "ok"]
    /\ UNCHANGED <<nextId, listed>>

(* updateOutreach: UPDATE ... SET name, dates, type, team WHERE source_id; *)
(* every row of the source id is updated, the first returned one mapped;   *)
(* no row leaves [outreach] undefined for the mapper.                      *)
UpdateOutreach(c, s, d) ==
    /\ rows' = [i \in Ids |-> IF i \in WithSource(s)
                              THEN [rows[i] EXCEPT !.details = d]
                              ELSE rows[i]]
    /\ answer' = [answer EXCEPT ![c] = IF WithSource(s) = {} THEN "NoRow" ELSE "ok"]
    /\ UNCHANGED <<nextId, listed>>

(* getUnprocessedOutreaches: SELECT * WHERE source_file_processed_date IS  *)
(* NULL, mapped row by row.                                                *)
GetUnprocessedOutreaches(c) ==
    /\ listed' = [listed EXCEPT ![c] = {i \in Ids : rows[i] # None /\ ~rows[i].processed}]
    /\ answer' = [answer EXCEPT ![c] = "ok"]
    /\ UNCHANGED <<rows, nextId>>

(* markOutreachAsProcessed of a listed outreach: UPDATE ... SET            *)
(* source_file_processed_date = new Date() WHERE id, with no condition on  *)
(* the current date.                                                       *)
MarkOutreachAsProcessed(c, i) ==
    /\ i \in listed[c]
    /\ rows' = [rows EXCEPT ![i].processed = TRUE]
    /\ listed' = [listed EXCEPT ![c] = @ \ {i}]
    /\ answer' = [answer EXCEPT ![c] = "ok"]
    /\ UNCHANGED nextId

Next ==
    \E c \in Clients :
        \/ \E s \in SourceIds, d \in Details, f \in Files, p \in BOOLEAN :
               CreateOutreach(c, s, d, f, p)
        \/ \E s \in SourceIds, d \in Details : UpdateOutreach(c, s, d)
        \/ GetUnprocessedOutreaches(c)
        \/ \E i \in Ids : MarkOutreachAsProcessed(c, i)
        \/ StatementFails(c)

Spec == Init /\ [][Next]_vars

-----------------------------------------------------------------------------
(* REFINEMENT                                                              *)

(* The abstract log seen through the table: each row's source id and file, *)
(* and the rows with source_file_processed_date set.                       *)
LogUpload == [i \in Ids |-> IF rows[i] = None THEN None
                            ELSE [sourceId |-> rows[i].sourceId, file |-> rows[i].file]]

LogDone == {i \in Ids : rows[i] # None /\ rows[i].processed}

Log == INSTANCE OutreachLog WITH upload <- LogUpload, done <- LogDone

(* The outreach operations implement the outreach log: under any           *)
(* interleaving of clients, createOutreach adds an outreach under a free   *)
(* id (already processed when the DTO carries a processed date),           *)
(* markOutreachAsProcessed only marks an existing outreach, and        *)
(* updateOutreach, listing and failing statements change nothing the log   *)
(* records (no source id or file is ever rewritten, no mark undone).       *)
ImplementsOutreachLog == Log!Spec

=============================================================================
