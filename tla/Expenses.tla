------------------------------ MODULE Expenses ------------------------------
(***************************************************************************)
(* services/expense_service.py: a member of the family notes an expense    *)
(* and may have it deducted from the wallet, up to a limit per hour; a     *)
(* note that deducted nothing can be deleted.  An expense is named by the  *)
(* call that creates it, and its details are what that call was asked.     *)
(* update_expense is left out: it writes only texts, a category and a date *)
(* that no other code reads.                                               *)
(***************************************************************************)
EXTENDS MoneyCalls, Functions

CONSTANT MaxHourly   \* 5,000,000

ASSUME ExpensesAssumption == MaxHourly \in Nat

VARIABLES
    expense,     \* rows of expenses: "recent" in the hour after their insert
    counted      \* history: the expenses in the hourly sum of a call

expenseVars == <<expense, counted>>

ExpensesInit ==
    /\ expense = [c \in Call |-> "absent"]
    /\ counted = [c \in Call |-> {}]

Spent(S) == SumFunctionOnSet([c \in Call |-> asked[c].amount], S)

Deducted(u) == {d \in Call : /\ expense[d] = "recent"
                             /\ asked[d].user = u
                             /\ asked[d].flag}

-----------------------------------------------------------------------------
(* create_expense                                                          *)

StartSpend(c) == Arrive(c, "spend", "vouching") /\ UNCHANGED expenseVars

VouchSpend(c) ==
    /\ At(c, "spend", "vouching")
    /\ asked[c].user \in member
    /\ Proceed(c, IF asked[c].flag THEN "summing" ELSE "inserting")
    /\ UNCHANGED <<walletVars, work, expenseVars>>

RefuseSpend(c) ==
    /\ At(c, "spend", "vouching")
    /\ asked[c].user \notin member
    /\ Rollback(c)
    /\ UNCHANGED expenseVars

(* Slip: the sum is compared without the new amount.                       *)
WithinHourBefore(c) == Spent(Deducted(asked[c].user)) <= MaxHourly

(* The sum runs over both currencies.                                      *)
WithinHour(c) ==
    Spent(Deducted(asked[c].user)) + asked[c].amount <= MaxHourly

SumHour(c) ==
    /\ At(c, "spend", "summing")
    /\ WithinHour(c)
    /\ counted' = [counted EXCEPT ![c] = Deducted(asked[c].user)]
    /\ Proceed(c, "debiting")
    /\ UNCHANGED <<walletVars, work, expense>>

(* HOURLY_LIMIT_EXCEEDED                                                   *)
HourExceeded(c) ==
    /\ At(c, "spend", "summing")
    /\ ~ WithinHour(c)
    /\ Rollback(c)
    /\ UNCHANGED expenseVars

DebitExpense(c) ==
    /\ At(c, "spend", "debiting")
    /\ Debit(c, asked[c].user, asked[c].currency, asked[c].amount)
    /\ Proceed(c, "inserting")
    /\ UNCHANGED <<work, expenseVars>>

TooPoorToSpend(c) ==
    /\ At(c, "spend", "debiting")
    /\ DebitFails(c, asked[c].user, asked[c].currency, asked[c].amount)
    /\ Rollback(c)
    /\ UNCHANGED expenseVars

(* The record is inserted without a reference and gets it by an UPDATE     *)
(* once the expense is there, all in the caller's transaction.             *)
ExpenseEntry(c) ==
    [id |-> c, source |-> asked[c].user, destination |-> Nobody,
     amount |-> asked[c].amount, currency |-> asked[c].currency, reference |-> c]

InsertExpense(c) ==
    /\ At(c, "spend", "inserting")
    /\ expense' = [expense EXCEPT ![c] = "recent"]
    /\ ledger' = IF asked[c].flag THEN ledger \cup {ExpenseEntry(c)} ELSE ledger
    /\ Finish(c)
    /\ UNCHANGED <<notices, counted>>

-----------------------------------------------------------------------------
(* delete_expense                                                          *)

StartUnspend(c) == Arrive(c, "unspend", "reading") /\ UNCHANGED expenseVars

Noted(d) == expense[d] \in {"recent", "old"}

(* Slip: EXPENSE_FINANCIAL_RECORD is not checked.                          *)
MayRemoveAny(c) ==
    /\ Noted(asked[c].about)
    /\ asked[asked[c].about].user = asked[c].user

MayRemove(c) ==
    /\ Noted(asked[c].about)
    /\ asked[asked[c].about].user = asked[c].user
    /\ ~ asked[asked[c].about].flag

ReadExpense(c) ==
    /\ At(c, "unspend", "reading")
    /\ MayRemove(c)
    /\ Proceed(c, "removing")
    /\ UNCHANGED <<walletVars, work, expenseVars>>

RefuseRemoval(c) ==
    /\ At(c, "unspend", "reading")
    /\ ~ MayRemove(c)
    /\ Rollback(c)
    /\ UNCHANGED expenseVars

(* The DELETE; a row that is gone already is only a warning.               *)
RemoveExpense(c) ==
    /\ At(c, "unspend", "removing")
    /\ expense' = [expense EXCEPT ![asked[c].about] = "deleted"]
    /\ Finish(c)
    /\ UNCHANGED <<ledger, notices, counted>>

ExpenseOp(c) ==
    \/ StartSpend(c)
    \/ VouchSpend(c)
    \/ RefuseSpend(c)
    \/ SumHour(c)
    \/ HourExceeded(c)
    \/ DebitExpense(c)
    \/ TooPoorToSpend(c)
    \/ InsertExpense(c)
    \/ StartUnspend(c)
    \/ ReadExpense(c)
    \/ RefuseRemoval(c)
    \/ RemoveExpense(c)

(* An hour without a call.                                                 *)
HourPasses ==
    /\ \E c \in Call : expense[c] = "recent"
    /\ expense' = [c \in Call |-> IF expense[c] = "recent" THEN "old"
                                                           ELSE expense[c]]
    /\ UNCHANGED <<moneyVars, counted>>
=============================================================================
