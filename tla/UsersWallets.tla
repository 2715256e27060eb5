------------------------------ MODULE UsersWallets ------------------------------
(***************************************************************************)
(* UsersRepository.createUserWithWallet (src/domain/users/users.repository *)
(* .ts) against the wallets table of migration CreateWallet1737368483467   *)
(* (src/migrations/1737368483467-create_wallet.ts).                       *)
(*                                                                         *)
(* Inside one transaction the call saves a User, then a Wallet that refers *)
(* to it; anything that throws rolls the transaction back.  The wallets    *)
(* table has address NOT NULL (no default), UNIQUE(address) and           *)
(* UNIQUE(user_id, address), and user_id REFERENCES users ON DELETE        *)
(* CASCADE.  Calls run concurrently; rows become visible at commit.        *)
(***************************************************************************)
EXTENDS FiniteSets

CONSTANTS
    Calls,      \* concurrent createUserWithWallet calls (one user id each)
    Addresses,  \* wallet addresses (signer addresses of auth payloads)
    Null        \* an unset column

VARIABLES
    txUsers,    \* user rows inserted by transactions that are still open
    pc,         \* where each call is
    result      \* how each call ended

vars == <<txUsers, pc, result>>

Wallet == [user: Calls, address: Addresses \cup {Null}]

Result == {"none", "notNullViolation", "dbError"}

TypeOK ==
    /\ txUsers \subseteq Calls
    /\ pc \in [Calls -> {"idle", "savingUser", "savingWallet", "done"}]
    /\ result \in [Calls -> Result]

Init ==
    /\ txUsers = {}
    /\ pc = [c \in Calls |-> "idle"]
    /\ result = [c \in Calls |-> "none"]

(* The address createUserWithWallet gives the wallet: walletRepository.   *)
(* create({ user: createdUser }) sets no address, and args.authPayload is  *)
(* never read, so the column is left unset.                                *)
WalletAddress(c) == Null

(* The constraint a wallet INSERT violates, if any: NOT NULL on address,   *)
(* then the unique address index against the committed wallets (none can  *)
(* be committed: see SaveWallet).                                          *)
WalletViolation(w) ==
    IF w.address = Null THEN "notNullViolation" ELSE "none"

(* postgresDatabaseService.transaction opens the transaction.             *)
Begin(c) ==
    /\ pc[c] = "idle"
    /\ pc' = [pc EXCEPT ![c] = "savingUser"]
    /\ UNCHANGED <<txUsers, result>>

(* userRepository.save(user): the row is inserted in the transaction.     *)
SaveUser(c) ==
    /\ pc[c] = "savingUser"
    /\ txUsers' = txUsers \cup {c}
    /\ pc' = [pc EXCEPT ![c] = "savingWallet"]
    /\ UNCHANGED result

(* walletRepository.save(wallet): the INSERT violates a constraint, so it *)
(* throws; the transaction rolls back, the user row with it, and the call *)
(* rejects.  The success path (commit, return createdUser) needs a wallet  *)
(* without violation, which WalletAddress never gives: it has no action.   *)
SaveWallet(c) ==
    LET w == [user |-> c, address |-> WalletAddress(c)] IN
    /\ pc[c] = "savingWallet"
    /\ WalletViolation(w) # "none"
    /\ result' = [result EXCEPT ![c] = WalletViolation(w)]
    /\ txUsers' = txUsers \ {c}
    /\ pc' = [pc EXCEPT ![c] = "done"]

(* Any other database error in one of the saves: rollback.                 *)
DbError(c) ==
    /\ pc[c] \in {"savingUser", "savingWallet"}
    /\ result' = [result EXCEPT ![c] = "dbError"]
    /\ txUsers' = txUsers \ {c}
    /\ pc' = [pc EXCEPT ![c] = "done"]

Next ==
    \E c \in Calls :
        \/ Begin(c)
        \/ SaveUser(c)
        \/ SaveWallet(c)
        \/ DbError(c)

Spec == Init /\ [][Next]_vars

-----------------------------------------------------------------------------
(* PROPERTIES                                                              *)

(* A sign-up is never refused by the schema: the wallet that               *)
(* createUserWithWallet builds satisfies the wallets table's constraints   *)
(* (only the database itself may fail).                                    *)
WalletSatisfiesSchema ==
    \A c \in Calls : result[c] # "notNullViolation"

=============================================================================
