----------------------------- MODULE Allowances -----------------------------
(***************************************************************************)
(* services/allowance_service.py: a parent sets up an allowance for a      *)
(* child of the family (create), changes it (update) and pays it by hand   *)
(* (manual_transfer).  Nothing but the creation looks at the family, and   *)
(* nothing locks the row of the allowance.  The schedule of an allowance   *)
(* is data that no code reads.                                             *)
(***************************************************************************)
EXTENDS MoneyCalls

Allowance == Call \cup Standing

VARIABLES
    allowance,   \* rows of allowances, "absent" until their insert commits
    versions     \* history: the terms committed while a transfer was under way

allowanceVars == <<allowance, versions>>

AllowanceRow == [status : {"absent", "open"}, parent : User \cup {Nobody},
                 child : User \cup {Nobody}, amount : Nat,
                 currency : Currency, active : BOOLEAN]

NoAllowance == [status |-> "absent", parent |-> Nobody, child |-> Nobody,
                amount |-> 0, currency |-> Idr, active |-> FALSE]

Terms(row) == [amount |-> row.amount, currency |-> row.currency,
               active |-> row.active]

AllowancesInit(standing) ==
    /\ allowance = [a \in Allowance |-> IF a \in Standing THEN standing
                                                          ELSE NoAllowance]
    /\ versions = [c \in Call |-> {}]

Target(c) == asked[c].about
Row(c) == allowance[Target(c)]

Found(c) == Row(c).status = "open" /\ Row(c).parent = asked[c].user

PairOf(parent, child) ==
    {a \in Allowance : /\ allowance[a].status = "open"
                       /\ allowance[a].parent = parent
                       /\ allowance[a].child = child}

-----------------------------------------------------------------------------
(* create_allowance                                                        *)

StartAllow(c) == Arrive(c, "allow", "vouching") /\ UNCHANGED allowanceVars

MayAllow(c) ==
    /\ asked[c].user \in Parent \cap member
    /\ asked[c].about \in Child \cap member
    /\ asked[c].currency = Idr

VouchAllow(c) ==
    /\ At(c, "allow", "vouching")
    /\ MayAllow(c)
    /\ Proceed(c, "looking")
    /\ UNCHANGED <<walletVars, work, allowanceVars>>

RefuseAllow(c) ==
    /\ At(c, "allow", "vouching")
    /\ ~ MayAllow(c)
    /\ Rollback(c)
    /\ UNCHANGED allowanceVars

LookForPair(c) ==
    /\ At(c, "allow", "looking")
    /\ PairOf(asked[c].user, asked[c].about) = {}
    /\ Proceed(c, "inserting")
    /\ UNCHANGED <<walletVars, work, allowanceVars>>

PairExists(c) ==
    /\ At(c, "allow", "looking")
    /\ PairOf(asked[c].user, asked[c].about) # {}
    /\ Rollback(c)
    /\ UNCHANGED allowanceVars

AllowanceOf(c) ==
    [status |-> "open", parent |-> asked[c].user, child |-> asked[c].about,
     amount |-> asked[c].amount, currency |-> asked[c].currency, active |-> TRUE]

UnderWay(c, a) ==
    /\ asked[c].op = "transfer"
    /\ asked[c].about = a
    /\ pc[c] \notin Ended

(* Allowance a is committed as row.                                        *)
Write(a, row) ==
    /\ allowance' = [allowance EXCEPT ![a] = row]
    /\ versions' = [d \in Call |-> IF UnderWay(d, a) THEN versions[d] \cup {Terms(row)}
                                                     ELSE versions[d]]

InsertAllowance(c) ==
    /\ At(c, "allow", "inserting")
    /\ PairOf(asked[c].user, asked[c].about) = {}
    /\ Write(c, AllowanceOf(c))
    /\ Finish(c)
    /\ UNCHANGED <<ledger, notices>>

(* The unique constraint refuses the second row of a pair.                 *)
InsertClashes(c) ==
    /\ At(c, "allow", "inserting")
    /\ PairOf(asked[c].user, asked[c].about) # {}
    /\ Rollback(c)
    /\ UNCHANGED allowanceVars

-----------------------------------------------------------------------------
(* update_allowance                                                        *)

StartAdjust(c) == Arrive(c, "adjust", "reading") /\ UNCHANGED allowanceVars

ReadTerms(c, label) ==
    /\ work' = [work EXCEPT ![c] = [amount |-> Row(c).amount,
                                    currency |-> Row(c).currency,
                                    active |-> Row(c).active, family |-> FALSE]]
    /\ Proceed(c, label)
    /\ UNCHANGED <<walletVars, allowanceVars>>

ReadForAdjust(c) ==
    /\ At(c, "adjust", "reading")
    /\ asked[c].user \in Parent
    /\ Found(c)
    /\ ReadTerms(c, "editing")

(* The UPDATE names the columns that differ from what was read.            *)
Edited(c) ==
    LET q == asked[c]
        r == Row(c)
    IN  [r EXCEPT
          !.amount = IF q.amount = work[c].amount THEN r.amount ELSE q.amount,
          !.currency = IF q.currency = work[c].currency THEN r.currency ELSE q.currency,
          !.active = IF q.flag = work[c].active THEN r.active ELSE q.flag]

EditAllowance(c) ==
    /\ At(c, "adjust", "editing")
    /\ Write(Target(c), Edited(c))
    /\ notices' = notices \cup {[call |-> c, user |-> Row(c).child]}
    /\ Finish(c)
    /\ UNCHANGED ledger

-----------------------------------------------------------------------------
(* manual_transfer                                                         *)

StartTransfer(c) ==
    /\ Arrive(c, "transfer", "reading")
    /\ versions' = [versions EXCEPT ![c] = {Terms(allowance[asked'[c].about])}]
    /\ UNCHANGED allowance

(* Slip: the allowance is not asked whether it is active.                  *)
MayTransferAnyway(c) == asked[c].user \in Parent /\ Found(c)

MayTransfer(c) ==
    /\ asked[c].user \in Parent
    /\ Found(c)
    /\ Row(c).active

ReadForTransfer(c) ==
    /\ At(c, "transfer", "reading")
    /\ MayTransfer(c)
    /\ ReadTerms(c, "debiting")

(* Not found, not the owner's, or ALLOWANCE_INACTIVE.                      *)
RefuseAllowance(c) ==
    /\ \/ At(c, "transfer", "reading") /\ ~ MayTransfer(c)
       \/ At(c, "adjust", "reading") /\ ~ (asked[c].user \in Parent /\ Found(c))
    /\ Rollback(c)
    /\ UNCHANGED allowanceVars

DebitParent(c) ==
    /\ At(c, "transfer", "debiting")
    /\ Debit(c, asked[c].user, work[c].currency, work[c].amount)
    /\ Proceed(c, "crediting")
    /\ UNCHANGED <<work, allowanceVars>>

ParentTooPoor(c) ==
    /\ At(c, "transfer", "debiting")
    /\ DebitFails(c, asked[c].user, work[c].currency, work[c].amount)
    /\ Rollback(c)
    /\ UNCHANGED allowanceVars

(* Slip: the row is refreshed between the debit and the credit.            *)
CreditChildReread(c) ==
    /\ At(c, "transfer", "crediting")
    /\ Credit(c, Row(c).child, Row(c).currency, Row(c).amount)
    /\ Proceed(c, "recording")
    /\ UNCHANGED <<work, allowanceVars>>

CreditChild(c) ==
    /\ At(c, "transfer", "crediting")
    /\ Credit(c, Row(c).child, work[c].currency, work[c].amount)
    /\ Proceed(c, "recording")
    /\ UNCHANGED <<work, allowanceVars>>

ChildOverflows(c) ==
    /\ At(c, "transfer", "crediting")
    /\ CreditFails(c, Row(c).child, work[c].currency, work[c].amount)
    /\ Rollback(c)
    /\ UNCHANGED allowanceVars

TransferEntry(c) ==
    [id |-> c, source |-> asked[c].user, destination |-> Row(c).child,
     amount |-> work[c].amount, currency |-> work[c].currency,
     reference |-> Target(c)]

RecordTransfer(c) ==
    /\ At(c, "transfer", "recording")
    /\ ledger' = ledger \cup {TransferEntry(c)}
    /\ notices' = notices \cup {[call |-> c, user |-> Row(c).child]}
    /\ Finish(c)
    /\ UNCHANGED allowanceVars

AllowanceOp(c) ==
    \/ StartAllow(c)
    \/ VouchAllow(c)
    \/ RefuseAllow(c)
    \/ LookForPair(c)
    \/ PairExists(c)
    \/ InsertAllowance(c)
    \/ InsertClashes(c)
    \/ StartAdjust(c)
    \/ ReadForAdjust(c)
    \/ EditAllowance(c)
    \/ StartTransfer(c)
    \/ ReadForTransfer(c)
    \/ RefuseAllowance(c)
    \/ DebitParent(c)
    \/ ParentTooPoor(c)
    \/ CreditChild(c)
    \/ ChildOverflows(c)
    \/ RecordTransfer(c)
=============================================================================
