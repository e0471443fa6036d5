------------------------------ MODULE Spending ------------------------------
(***************************************************************************)
(* The services that share a family's wallets outside tasks, requests and  *)
(* goals, composed: WalletOps, Allowances and Expenses.  A call of any of  *)
(* them can arrive, be interleaved with the others and be cut off.         *)
(***************************************************************************)
EXTENDS WalletOps, Allowances, Expenses, FiniteSets

CONSTANT Agreed  \* the rows the standing allowances can hold

(* create_allowance has seen to the roles of a standing allowance too.     *)
ASSUME SpendingAssumption ==
    /\ Agreed \subseteq AllowanceRow
    /\ \A row \in Agreed :
          row.status = "open" => row.parent \in Parent /\ row.child \in Child

vars == <<moneyVars, rate, allowanceVars, expenseVars>>

TypeOK ==
    /\ MoneyTypeOK
    /\ rate \in Rate \cup {NoRate}
    /\ allowance \in [Allowance -> AllowanceRow]
    /\ versions \in [Call -> SUBSET [amount : Nat, currency : Currency, active : BOOLEAN]]
    /\ expense \in [Call -> {"absent", "recent", "old", "deleted"}]
    /\ counted \in [Call -> SUBSET Call]

Init ==
    /\ MoneyInit
    /\ WalletOpsInit
    /\ \E row \in Agreed : AllowancesInit(row)
    /\ ExpensesInit

(* The worker or its connection dies before the commit.                    *)
CutOff(c) ==
    /\ pc[c] \notin Ended \cup {"idle"}
    /\ Rollback(c)
    /\ UNCHANGED <<rate, allowanceVars, expenseVars>>

(* family_service.remove_member: of a child, or of a parent who is not the *)
(* admin.                                                                  *)
RemoveMember(u) ==
    /\ u \in member
    /\ member' = member \ {u}
    /\ UNCHANGED <<walletVars, ledger, notices, asked, work, pc>>
    /\ UNCHANGED <<rate, allowanceVars, expenseVars>>

AllEnded ==
    /\ \A c \in Call : pc[c] \in Ended
    /\ UNCHANGED vars

Next ==
    \/ \E c \in Call : WalletOp(c) /\ UNCHANGED <<allowanceVars, expenseVars>>
    \/ \E c \in Call : AllowanceOp(c) /\ UNCHANGED <<rate, expenseVars>>
    \/ \E c \in Call : ExpenseOp(c) /\ UNCHANGED <<rate, allowanceVars>>
    \/ HourPasses /\ UNCHANGED <<rate, allowanceVars>>
    \/ \E c \in Call : CutOff(c)
    \/ \E u \in User : RemoveMember(u)
    \/ AllEnded

Spec == Init /\ [][Next]_vars

-----------------------------------------------------------------------------
(* Properties                                                              *)

Done(op) == {c \in Call : asked[c].op = op /\ pc[c] = "done"}

Unrecorded(u) == {c \in Done("topup") : asked[c].user = u /\ ~ work[c].family}
ExchangesOf(u) == {c \in Done("exchange") : asked[c].user = u}

Incoming(u, cur) == {e \in ledger : e.currency = cur /\ e.destination = u}
Outgoing(u, cur) == {e \in ledger : e.currency = cur /\ e.source = u}

SumOfEntries(S) == SumFunctionOnSet([e \in ledger |-> e.amount], S)

AskedFor == [c \in Call |-> asked[c].amount]
Bought == [c \in Call |-> Worth(asked[c].amount)]

(* The permanent records explain every balance, except for what the code   *)
(* leaves unrecorded: top-ups and exchanges outside a family, and the IDR  *)
(* side of exchanges ("Record transaction if in a family").                *)
Explained ==
    \A u \in User, cur \in Currency :
        balance[u][cur] = Opening[u][cur]
            + SumOfEntries(Incoming(u, cur)) - SumOfEntries(Outgoing(u, cur))
            + (IF cur = Idr
               THEN SumFunctionOnSet(AskedFor, Unrecorded(u))
                        + SumFunctionOnSet(Bought, ExchangesOf(u))
               ELSE - SumFunctionOnSet(AskedFor, ExchangesOf(u)))

(* Exchanges never give more than the rate, however an amount is split up, *)
(* although pts / rate.pts is rounded, perhaps up, before it is multiplied *)
(* ("quantize(ROUND_DOWN)" and the cap of exchange_pts); and none gives    *)
(* nothing, or less by more than one cent.                                 *)
ExchangedAtRate ==
    LET Gained == SumFunctionOnSet([c \in Call |-> work[c].amount], Done("exchange"))
        Paid == SumFunctionOnSet(AskedFor, Done("exchange"))
    IN  Done("exchange") # {} =>
            /\ Gained * rate.pts <= Paid * rate.idr
            /\ Gained <= MaxIdrPerPts * Paid
            /\ \A c \in Done("exchange") :
                   /\ work[c].amount > 0
                   /\ asked[c].amount * rate.idr <= (work[c].amount + 1) * rate.pts

(* A transfer pays terms that the allowance had, as active, at one moment  *)
(* of the call: one that begins after a deactivation pays nothing, and no  *)
(* mixture of two versions is paid.                                        *)
PaidAsAgreed ==
    \A e \in ledger : asked[e.id].op = "transfer" =>
        [amount |-> e.amount, currency |-> e.currency, active |-> TRUE]
            \in versions[e.id]

(* An hour's deductions exceed the limit only through calls that did not   *)
(* see each other: the price of the sum being read before the insert.      *)
LimitUnlessOverlapping ==
    \A u \in User : Spent(Deducted(u)) > MaxHourly =>
        \E c, d \in Deducted(u) :
            c # d /\ c \notin counted[d] /\ d \notin counted[c]

(* An expense took money exactly if there is a record of it, and then it   *)
(* cannot go away ("financial integrity").                                 *)
DeductionsOnRecord ==
    \A c \in Call : (Noted(c) /\ asked[c].flag)
        <=> \E e \in ledger : e.reference = c /\ asked[e.id].op = "spend"

-----------------------------------------------------------------------------
(* The inductive invariant                                                 *)

(* The changes of the wallets by which a call is ahead of its commit.      *)
Given(c, u, cur) ==
    LET gone == pc[c] \in {"crediting", "recording"}
    IN  IF u # asked[c].user THEN 0
        ELSE IF asked[c].op = "exchange" /\ gone /\ cur = Pts THEN asked[c].amount
        ELSE IF asked[c].op = "transfer" /\ gone /\ cur = work[c].currency
             THEN work[c].amount
        ELSE IF At(c, "spend", "inserting") /\ asked[c].flag /\ cur = asked[c].currency
             THEN asked[c].amount
        ELSE 0

Received(c, u, cur) ==
    IF /\ pc[c] = "recording"
       /\ \/ asked[c].op = "transfer" /\ u = Row(c).child /\ cur = work[c].currency
          \/ asked[c].op # "transfer" /\ u = asked[c].user /\ cur = Idr
    THEN work[c].amount
    ELSE 0

InFlightIsMove ==
    \A c \in Call, u \in User, cur \in Currency :
        delta[c][u][cur] = Received(c, u, cur) - Given(c, u, cur)

(* The statements of each operation.                                       *)
Statements ==
    [topup |-> {"vouching", "crediting", "recording"},
     exchange |-> {"pricing", "vouching", "debiting", "crediting", "recording"},
     allow |-> {"vouching", "looking", "inserting"},
     adjust |-> {"reading", "editing"},
     transfer |-> {"reading", "debiting", "crediting", "recording"},
     spend |-> {"vouching", "summing", "debiting", "inserting"},
     unspend |-> {"reading", "removing"}]

TopupInStep(c) ==
    pc[c] # "vouching" => work[c].amount = asked[c].amount

ExchangeInStep(c) ==
    /\ pc[c] # "pricing" =>
        Exchangeable(asked[c].amount) /\ work[c].amount = Worth(asked[c].amount)
    /\ pc[c] \in {"recording", "done"} => work[c].amount > 0

AllowInStep(c) ==
    pc[c] # "vouching" => asked[c].user \in Parent /\ asked[c].about \in Child

AdjustInStep(c) == pc[c] # "reading" => Row(c).status = "open"

(* A transfer that is not yet paid knows the terms it found among those of *)
(* its time.                                                               *)
TransferInStep(c) ==
    /\ pc[c] = "reading" => Terms(Row(c)) \in versions[c]
    /\ pc[c] # "reading" =>
        /\ Row(c).status = "open"
        /\ [amount |-> work[c].amount, currency |-> work[c].currency, active |-> TRUE]
                \in versions[c]

SpendInStep(c) == pc[c] \in {"summing", "debiting"} => asked[c].flag

UnspendInStep(c) ==
    pc[c] # "reading" =>
        expense[asked[c].about] # "absent" /\ ~ asked[asked[c].about].flag

InStep(c) ==
    /\ pc[c] \notin {"idle", "failed"} => asked[c] \in Ask
    /\ pc[c] \notin Ended \cup {"idle"} => pc[c] \in Statements[asked[c].op]
    /\ pc[c] \notin {"idle", "failed"} =>
        /\ asked[c].op = "topup" => TopupInStep(c)
        /\ asked[c].op = "exchange" => ExchangeInStep(c)
        /\ asked[c].op = "spend" => SpendInStep(c)
    /\ pc[c] \notin Ended \cup {"idle"} =>
        /\ asked[c].op = "allow" => AllowInStep(c)
        /\ asked[c].op = "adjust" => AdjustInStep(c)
        /\ asked[c].op = "transfer" => TransferInStep(c)
        /\ asked[c].op = "unspend" => UnspendInStep(c)

(* Rows are there once their calls have committed.                         *)
RowsInStep ==
    /\ \A a \in Allowance : allowance[a].status = "open" =>
        /\ allowance[a].parent \in Parent /\ allowance[a].child \in Child
        /\ a \in Call => asked[a].op = "allow" /\ pc[a] = "done"
    /\ \A c \in Call : expense[c] # "absent" <=> c \in Done("spend")
    /\ \A e \in ledger :
        /\ pc[e.id] = "done"
        /\ asked[e.id].op = "spend" => e.reference = e.id /\ asked[e.id].flag

(* Only finitely many calls have come.                                     *)
FinitelyMany ==
    IsFiniteSet({c \in Call : pc[c] # "idle"}) /\ IsFiniteSet(ledger)

(* An hourly sum holds deductions of the same user, with each of them what *)
(* that one had counted and is still recent, and has room for the new one. *)
CountsRight(c) ==
    /\ \A d \in counted[c] :
        /\ d # c /\ pc[c] # "idle" /\ expense[d] # "absent"
        /\ asked[d].flag
        /\ pc[c] # "failed" => asked[d].user = asked[c].user
        /\ \A e \in counted[d] : expense[e] = "recent" => e \in counted[c]
    /\ asked[c].op = "spend" /\ asked[c].flag
            /\ pc[c] \in {"debiting", "inserting", "done"} =>
        Spent(counted[c]) + asked[c].amount <= MaxHourly

IInv ==
    /\ TypeOK
    /\ InFlightCovered
    /\ InFlightIsMove
    /\ \A c \in Call : InStep(c)
    /\ RowsInStep
    /\ FinitelyMany
    /\ \A c \in Call : CountsRight(c)
    /\ Explained
    /\ PaidAsAgreed
    /\ DeductionsOnRecord
=============================================================================
