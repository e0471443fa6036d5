----------------------------- MODULE MoneyCalls -----------------------------
(***************************************************************************)
(* What the calls of WalletOps, Allowances and Expenses have in common.    *)
(* Each is one HTTP call in one database transaction (database.get_db)     *)
(* that performs the statements of its handler one by one, with other      *)
(* calls between any two of them.  A call of any of the three services can *)
(* arrive; what it is asked is one member of Ask.  The rows a call inserts *)
(* are named by the call.                                                  *)
(***************************************************************************)
EXTENDS Wallets

CONSTANTS
    Parent,      \* users with role "parent"
    Child,       \* users with role "child"
    Idr, Pts,    \* the two currencies
    Standing,    \* allowances that exist before the first call
    Ask,         \* what calls may be asked
    Opening      \* the balances before the first call

Question ==
    [op : {"topup", "exchange", "allow", "adjust", "transfer", "spend", "unspend"},
     user : User,                                     \* who sends the call
     about : Call \cup Standing \cup User \cup {Nobody}, \* the row or user it names
     amount : Nat,
     currency : Currency,
     flag : BOOLEAN]             \* is_active (adjust), deduct_from_wallet (spend)

ASSUME MoneyCallsAssumption ==
    /\ User = Parent \cup Child
    /\ Parent \cap Child = {}
    /\ Currency = {Idr, Pts}
    /\ Idr # Pts
    /\ Call \cap Standing = {}
    /\ Nobody \notin Standing
    /\ \A q \in Ask :
        /\ q \in Question
        /\ q.op \in {"adjust", "transfer"} => q.about \in Call \cup Standing
        /\ q.op = "unspend" => q.about \in Call
    /\ Opening \in Purses

VARIABLES
    ledger,      \* committed rows of transactions
    notices,     \* committed rows of notifications, named by call and receiver
    member,      \* the users with an active membership of the family
    asked,       \* what each call was asked
    work,        \* what each call has read and goes on with
    pc           \* how far each call has come

moneyVars == <<walletVars, ledger, notices, member, asked, work, pc>>

Unasked == [op |-> "none", user |-> Nobody, about |-> Nobody, amount |-> 0,
            currency |-> Idr, flag |-> FALSE]

(* family: the caller's membership was found.  The rest is what was read   *)
(* of an allowance, or the amount to be credited.                          *)
Work == [amount : Nat, currency : Currency, active : BOOLEAN, family : BOOLEAN]
NoWork == [amount |-> 0, currency |-> Idr, active |-> FALSE, family |-> FALSE]

Entry == [id : Call, source : User \cup {Nobody}, destination : User \cup {Nobody},
          amount : Nat, currency : Currency,
          reference : Call \cup Standing \cup {Nobody}]

Ended == {"done", "failed"}

Label == {"idle", "vouching", "pricing", "looking", "reading", "summing", "debiting",
          "crediting", "inserting", "editing", "removing", "recording"} \cup Ended

MoneyTypeOK ==
    /\ WalletsTypeOK
    /\ ledger \subseteq Entry
    /\ notices \subseteq [call : Call, user : User]
    /\ member \subseteq User
    /\ asked \in [Call -> Ask \cup {Unasked}]
    /\ work \in [Call -> Work]
    /\ pc \in [Call -> Label]

MoneyInit ==
    /\ WalletsInit(Opening)
    /\ ledger = {}
    /\ notices = {}
    /\ member = User
    /\ asked = [c \in Call |-> Unasked]
    /\ work = [c \in Call |-> NoWork]
    /\ pc = [c \in Call |-> "idle"]

Goto(c, label) == pc' = [pc EXCEPT ![c] = label]

At(c, op, label) == asked[c].op = op /\ pc[c] = label

(* A call with operation op arrives.                                       *)
Arrive(c, op, label) ==
    /\ pc[c] = "idle"
    /\ \E q \in Ask : q.op = op /\ asked' = [asked EXCEPT ![c] = q]
    /\ Goto(c, label)
    /\ UNCHANGED <<walletVars, ledger, notices, member, work>>

(* A statement that only reads, or moves money not yet recorded.           *)
Proceed(c, label) ==
    /\ Goto(c, label)
    /\ UNCHANGED <<ledger, notices, member, asked>>

(* The last statement and the commit.                                      *)
Finish(c) ==
    /\ CommitWallets(c)
    /\ Goto(c, "done")
    /\ UNCHANGED <<member, asked, work>>

(* get_db: an exception in the handler, or a lost connection, undoes all,  *)
(* and nobody remembers what was asked or read.                            *)
Rollback(c) ==
    /\ RollbackWallets(c)
    /\ Goto(c, "failed")
    /\ asked' = [asked EXCEPT ![c] = Unasked]
    /\ work' = [work EXCEPT ![c] = NoWork]
    /\ UNCHANGED <<ledger, notices, member>>
=============================================================================
