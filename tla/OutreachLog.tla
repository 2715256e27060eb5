------------------------------ MODULE OutreachLog ------------------------------
(***************************************************************************)
(* What the outreach operations of TargetedMessagingDatasource promise the *)
(* worker that imports outreach files, abstractly: an outreach id, once    *)
(* handed out, names one source id and one source file for good, and the   *)
(* set of outreaches whose file was processed only grows, and only by      *)
(* outreaches that exist.  Editable details and the calls' answers are     *)
(* not part of it.                                                         *)
(***************************************************************************)
CONSTANTS
    Ids,        \* outreach ids
    SourceIds,  \* source ids of outreaches
    Files,      \* source files
    None        \* no outreach with this id

VARIABLES
    upload,     \* id -> the source id and file it was created with, or None
    done        \* ids of the outreaches whose file was processed

vars == <<upload, done>>

Upload == [sourceId: SourceIds, file: Files]

TypeOK ==
    /\ upload \in [Ids -> Upload \cup {None}]
    /\ done \subseteq Ids

Init ==
    /\ upload = [i \in Ids |-> None]
    /\ done = {}

(* A new outreach is created under a free id, its file already processed  *)
(* or not (p).                                                             *)
Create(i, u, p) ==
    /\ upload[i] = None
    /\ upload' = [upload EXCEPT ![i] = u]
    /\ done' = IF p THEN done \cup {i} ELSE done

(* An existing outreach's file is marked processed.                        *)
Process(i) ==
    /\ upload[i] # None
    /\ done' = done \cup {i}
    /\ UNCHANGED upload

Next ==
    \/ \E i \in Ids, u \in Upload, p \in BOOLEAN : Create(i, u, p)
    \/ \E i \in Ids : Process(i)

Spec == Init /\ [][Next]_vars
=============================================================================
