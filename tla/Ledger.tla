------------------------------- MODULE Ledger -------------------------------
(***************************************************************************)
(* What the backend promises about money, with no calls, locks or          *)
(* sessions: wallets never go below zero, and money moves only in single   *)
(* steps that change the balances and post the one permanent record of     *)
(* that movement (models/transaction.py, services/transaction_service.py). *)
(* The modules of the services that move money are checked against it.     *)
(***************************************************************************)
EXTENDS Integers

CONSTANTS
    User,       \* every user owns exactly one wallet, named here by its owner
    Currency,   \* IDR and PTS, kept apart in each wallet
    Amount,     \* the amounts that can move, positive numbers
    TxId,       \* identities of transaction records
    Reference,  \* the entities a record can refer to (reference_id)
    Nobody      \* the absent side of a record (source or destination NULL): no user

VARIABLES
    balance,    \* committed balance of every wallet in every currency
    ledger      \* the committed transaction records

ledgerVars == <<balance, ledger>>

Entry == [id : TxId, source : User \cup {Nobody},
          destination : User \cup {Nobody},
          amount : Amount, currency : Currency, reference : Reference]

(* The balances after the movement that record e stands for. *)
Posted(e) ==
    [u \in User |-> [cur \in Currency |->
        balance[u][cur]
            + (IF u = e.destination /\ cur = e.currency THEN e.amount ELSE 0)
            - (IF u = e.source /\ cur = e.currency THEN e.amount ELSE 0)]]

Init ==
    /\ balance \in [User -> [Currency -> Nat]]
    /\ ledger = {}

Post(e) ==
    /\ \A f \in ledger : f.id # e.id
    /\ ledger' = ledger \cup {e}
    /\ balance' = Posted(e)
    /\ \A u \in User, cur \in Currency : balance'[u][cur] >= 0

Next == \E e \in Entry : Post(e)

Spec == Init /\ [][Next]_ledgerVars
=============================================================================
