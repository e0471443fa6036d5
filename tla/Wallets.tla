------------------------------ MODULE Wallets ------------------------------
(***************************************************************************)
(* The wallet rows and the two primitives every service moves money with:  *)
(* credit and debit of services/wallet_service.py, each one atomic UPDATE. *)
(* A call runs in one database transaction (database.get_db).  Under READ  *)
(* COMMITTED an UPDATE takes the row lock, works on the newest committed   *)
(* version plus what its own transaction already did, and stays invisible  *)
(* to every other transaction until the commit.                            *)
(***************************************************************************)
EXTENDS Integers

CONSTANTS
    Call,        \* the HTTP calls being served, one database transaction each
    User,        \* users; a wallet is named by its owner (user_id is unique)
    Currency,    \* balance_idr, balance_pts
    MaxBalance,  \* the largest value DECIMAL(12, 2) can hold
    Nobody       \* no call holds the row

ASSUME WalletsAssumption ==
    /\ MaxBalance \in Nat
    /\ Nobody \notin Call \cup User

VARIABLES
    balance,     \* committed balances
    holder,      \* the call that holds the lock on a wallet row
    delta        \* what each call has changed and not yet committed

walletVars == <<balance, holder, delta>>

Purses == [User -> [Currency -> 0 .. MaxBalance]]

NoDelta == [u \in User |-> [cur \in Currency |-> 0]]

WalletsTypeOK ==
    /\ balance \in Purses
    /\ holder \in [User -> Call \cup {Nobody}]
    /\ delta \in [Call -> [User -> [Currency -> Int]]]

WalletsInit(opening) ==
    /\ balance = opening
    /\ holder = [u \in User |-> Nobody]
    /\ delta = [c \in Call |-> NoDelta]

-----------------------------------------------------------------------------

(* What the statements of call c read in a wallet. *)
Seen(c, u, cur) == balance[u][cur] + delta[c][u][cur]

CanLock(c, u) == holder[u] \in {Nobody, c}

(* UPDATE wallets SET balance = balance + amount WHERE id = u *)
Update(c, u, cur, amount) ==
    /\ holder' = [holder EXCEPT ![u] = c]
    /\ delta' = [delta EXCEPT ![c][u][cur] = @ + amount]
    /\ UNCHANGED balance

(* Slip: a column without the bound of DECIMAL(12, 2). *)
CreditUnbounded(c, u, cur, amount) ==
    /\ amount > 0
    /\ CanLock(c, u)
    /\ Update(c, u, cur, amount)

Credit(c, u, cur, amount) ==
    /\ amount > 0
    /\ CanLock(c, u)
    /\ Seen(c, u, cur) + amount <= MaxBalance
    /\ Update(c, u, cur, amount)

(* INVALID_AMOUNT, or the database reports a numeric overflow. *)
CreditFails(c, u, cur, amount) ==
    \/ amount <= 0
    \/ CanLock(c, u) /\ Seen(c, u, cur) + amount > MaxBalance

(* Slip: UPDATE without WHERE balance >= amount. *)
DebitUnguarded(c, u, cur, amount) ==
    /\ amount > 0
    /\ CanLock(c, u)
    /\ Update(c, u, cur, -amount)

Debit(c, u, cur, amount) ==
    /\ amount > 0
    /\ CanLock(c, u)
    /\ Seen(c, u, cur) >= amount
    /\ Update(c, u, cur, -amount)

(* INVALID_AMOUNT, or no row matches WHERE balance >= amount: then the     *)
(* UPDATE does not wait for a lock.                                        *)
DebitFails(c, u, cur, amount) ==
    \/ amount <= 0
    \/ Seen(c, u, cur) < amount

Unlocked(c) == [u \in User |-> IF holder[u] = c THEN Nobody ELSE holder[u]]

(* session.commit() *)
CommitWallets(c) ==
    /\ balance' = [u \in User |-> [cur \in Currency |-> Seen(c, u, cur)]]
    /\ holder' = Unlocked(c)
    /\ delta' = [delta EXCEPT ![c] = NoDelta]

(* Slip: the locks are released, the changes stay in the session. *)
RollbackKeepsChanges(c) ==
    /\ holder' = Unlocked(c)
    /\ UNCHANGED <<balance, delta>>

(* session.rollback(), or the connection is lost *)
RollbackWallets(c) ==
    /\ holder' = Unlocked(c)
    /\ delta' = [delta EXCEPT ![c] = NoDelta]
    /\ UNCHANGED balance

-----------------------------------------------------------------------------
(* Money in flight is covered by row locks: a call has uncommitted changes *)
(* in a wallet only while it holds the row, and the row it would commit is *)
(* within bounds.  So no interleaving of debits and credits overdraws, the *)
(* promise at the head of wallet_service.py ("to prevent race conditions").*)
InFlightCovered ==
    \A c \in Call, u \in User, cur \in Currency :
        /\ delta[c][u][cur] # 0 => holder[u] = c
        /\ holder[u] = c => Seen(c, u, cur) \in 0 .. MaxBalance
=============================================================================
