--------------------------- MODULE EmailRegistration ---------------------------
(***************************************************************************)
(* EmailRepository.saveEmail (src/domain/email/email.repository.ts).      *)
(*                                                                         *)
(* A call builds the Email value (which validates the address), fetches    *)
(* the Safe from the safe repository, requires the signer to be one of its *)
(* owners, generates a verification code and saves the email through the  *)
(* email datasource.  The owner test is written `args.signer in            *)
(* safe.owners`; safe.owners is an array, and the JavaScript `in` operator *)
(* asks whether a property key (for an array: an index "0", "1", ...)      *)
(* exists, not whether a value is an element.                              *)
(***************************************************************************)
EXTENDS Naturals, Sequences, FiniteSets

CONSTANTS
    Safes,      \* Safe addresses of the chain
    Addresses,  \* owner and signer addresses
    Owners,     \* the owners array of each Safe, as the safe repository returns it
    Calls,      \* concurrent saveEmail calls
    NoSafe      \* the Safe of an idle call

(* Owners is in [Safes -> Seq(Addresses)] and NoSafe is not a Safe.       *)

VARIABLES
    pc,         \* where each call is
    req,        \* each call's arguments
    result      \* how each call ended

vars == <<pc, req, result>>

Request == [safe: Safes, signer: Addresses]

NoRequest == [safe |-> NoSafe, signer |-> NoSafe]

Result == {"none", "InvalidEmail", "SafeNotFound", "SignerNotOwner"}

TypeOK ==
    /\ pc \in [Calls -> {"idle", "fetching", "done"}]
    /\ req \in [Calls -> Request \cup {NoRequest}]
    /\ result \in [Calls -> Result]

Init ==
    /\ pc = [c \in Calls |-> "idle"]
    /\ req = [c \in Calls |-> NoRequest]
    /\ result = [c \in Calls |-> "none"]

(* JavaScript `key in array`: true when key is one of the array's property *)
(* keys, i.e. an index 0 .. length - 1 (or "length"); a signer address is  *)
(* never such a key.                                                       *)
JsIn(key, array) == key \in {i - 1 : i \in DOMAIN array}

(* The elements of an array.                                               *)
Elements(array) == {array[i] : i \in DOMAIN array}

(* new Email(args.emailAddress) throws on an invalid address; otherwise    *)
(* safeRepository.getSafe is awaited.                                      *)
SaveEmailStart(c, r, emailValid) ==
    /\ pc[c] = "idle"
    /\ req' = [req EXCEPT ![c] = r]
    /\ pc' = [pc EXCEPT ![c] = IF emailValid THEN "fetching" ELSE "done"]
    /\ result' = [result EXCEPT ![c] = IF emailValid THEN "none" ELSE "InvalidEmail"]

(* Mutant: the owner check is dropped.                                     *)
SafeFetchedNoCheck(c) ==
    /\ pc[c] = "fetching"
    /\ pc' = [pc EXCEPT ![c] = "saving"]
    /\ UNCHANGED <<req, result>>

(* getSafe resolves: the signer must pass `signer in safe.owners`,         *)
(* otherwise SignerNotOwnerError.  A signer address is never an index of   *)
(* the owners array, so the rest of saveEmail (codeGenerator,              *)
(* emailDataSource.saveEmail and its EmailSaveError) is never reached and  *)
(* has no action.                                                          *)
SafeFetched(c) ==
    /\ pc[c] = "fetching"
    /\ ~JsIn(req[c].signer, Owners[req[c].safe])
    /\ pc' = [pc EXCEPT ![c] = "done"]
    /\ result' = [result EXCEPT ![c] = "SignerNotOwner"]
    /\ UNCHANGED req

(* getSafe rejects (no such Safe, transaction service down).               *)
SafeFetchFails(c) ==
    /\ pc[c] = "fetching"
    /\ pc' = [pc EXCEPT ![c] = "done"]
    /\ result' = [result EXCEPT ![c] = "SafeNotFound"]
    /\ UNCHANGED req

Next ==
    \E c \in Calls :
        \/ \E r \in Request, emailValid \in BOOLEAN : SaveEmailStart(c, r, emailValid)
        \/ SafeFetched(c)
        \/ SafeFetchFails(c)

Spec == Init /\ [][Next]_vars

-----------------------------------------------------------------------------
(* PROPERTIES                                                              *)

(* Owners are not refused: a call ends with SignerNotOwnerError only when  *)
(* the signer is not among the Safe's owners.                              *)
OwnerNotRefused ==
    \A c \in Calls :
        result[c] = "SignerNotOwner" => req[c].signer \notin Elements(Owners[req[c].safe])

=============================================================================
