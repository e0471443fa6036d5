----------------------------- MODULE WalletOps ------------------------------
(***************************************************************************)
(* topup and exchange_pts of services/wallet_service.py: money enters the  *)
(* system in a parent's wallet, and a user changes points for money at the *)
(* rate in the one active row of pts_exchange_rates.  No code but the seed *)
(* writes that row.                                                        *)
(***************************************************************************)
EXTENDS MoneyCalls

CONSTANTS
    Rate,        \* the rates the active row can hold, [pts, idr]
    NoRate,      \* no row is active
    Lot,         \* 100: points change hands in multiples of it
    MaxIdrPerPts,\* 100: a higher rate is taken for a manipulated one
    Power,       \* the powers of ten that Decimal's exponents name
    Leading      \* 10^27: the least coefficient of its 28 digits

ASSUME WalletOpsAssumption ==
    /\ Rate \subseteq [pts : Nat \ {0}, idr : Nat]
    /\ NoRate \notin Rate
    /\ Lot \in Nat \ {0}
    /\ MaxIdrPerPts \in Nat
    /\ Power \subseteq Nat \ {0}
    /\ 1 \in Power
    /\ \A p \in Power \ {1} : \E q \in Power : p = 10 * q
    /\ Leading \in Nat \ {0}

(* The digits and exponents of Decimal suffice for what may be asked: an   *)
(* amount has 10 digits (ExchangePtsRequest) and a rate 12 (DECIMAL(12,2)).*)
ASSUME PrecisionAssumption ==
    \A q \in Ask, r \in Rate : q.op = "exchange" /\ q.amount >= Lot =>
        /\ 6 * q.amount * r.idr <= Leading
        /\ \E p \in Power : q.amount * p >= r.pts * Leading
        /\ \E p \in Power : r.idr < p

VARIABLE rate    \* the active row

WalletOpsInit == rate \in Rate \cup {NoRate}

-----------------------------------------------------------------------------
(* topup                                                                   *)

StartTopup(c) == Arrive(c, "topup", "vouching") /\ UNCHANGED rate

RefuseTopup(c) ==
    /\ At(c, "topup", "vouching")
    /\ asked[c].user \notin Parent
    /\ Rollback(c)
    /\ UNCHANGED rate

(* The membership is only looked up for the record.                        *)
VouchTopup(c) ==
    /\ At(c, "topup", "vouching")
    /\ asked[c].user \in Parent
    /\ work' = [work EXCEPT ![c].amount = asked[c].amount,
                            ![c].family = asked[c].user \in member]
    /\ Proceed(c, "crediting")
    /\ UNCHANGED <<walletVars, rate>>

-----------------------------------------------------------------------------
(* exchange_pts                                                            *)

StartExchange(c) == Arrive(c, "exchange", "pricing") /\ UNCHANGED rate

(* Decimal: a coefficient of at most 28 digits over a power of ten, and    *)
(* every result rounded to that, half to even.                             *)
Least(S) == CHOOSE p \in S : \A q \in S : p <= q

HalfEven(n, d) ==
    LET low == n \div d
        rest == 2 * (n % d)
    IN  IF rest > d \/ (rest = d /\ low % 2 = 1) THEN low + 1 ELSE low

(* What has to be cut off a coefficient n, and what is left of it.         *)
Surplus(n) == Least({p \in Power : n < 10 * Leading * p})
Rounded(n) == HalfEven(n, Surplus(n)) * Surplus(n)

(* pts / r.pts is Quotient over Places.                                    *)
Places(pts, r) == Least({p \in Power : pts * p >= r.pts * Leading})
Quotient(pts, r) == HalfEven(pts * Places(pts, r), r.pts)

(* pts / r.pts * r.idr, quantized with ROUND_DOWN.                         *)
WorthAt(pts, r) == Rounded(Quotient(pts, r) * r.idr) \div Places(pts, r)

(* Slip: ROUND_HALF_UP.                                                    *)
WorthHalfUp(pts) ==
    LET p == Places(pts, rate)
    IN  (2 * Rounded(Quotient(pts, rate) * rate.idr) + p) \div (2 * p)

Worth(pts) == WorthAt(pts, rate)

Exchangeable(pts) ==
    /\ pts >= Lot
    /\ pts % Lot = 0
    /\ rate # NoRate
    /\ Worth(pts) <= MaxIdrPerPts * pts

HoldsRate(c) ==
    /\ asked[c].op = "exchange"
    /\ pc[c] \in {"vouching", "debiting", "crediting", "recording"}

(* SELECT ... FOR UPDATE of the active rate, and the checks.               *)
PriceExchange(c) ==
    /\ At(c, "exchange", "pricing")
    /\ \A d \in Call : ~ HoldsRate(d)
    /\ Exchangeable(asked[c].amount)
    /\ work' = [work EXCEPT ![c].amount = Worth(asked[c].amount)]
    /\ Proceed(c, "vouching")
    /\ UNCHANGED <<walletVars, rate>>

RefuseExchange(c) ==
    /\ At(c, "exchange", "pricing")
    /\ ~ Exchangeable(asked[c].amount)
    /\ Rollback(c)
    /\ UNCHANGED rate

VouchExchange(c) ==
    /\ At(c, "exchange", "vouching")
    /\ work' = [work EXCEPT ![c].family = asked[c].user \in member]
    /\ Proceed(c, "debiting")
    /\ UNCHANGED <<walletVars, rate>>

DebitPts(c) ==
    /\ At(c, "exchange", "debiting")
    /\ Debit(c, asked[c].user, Pts, asked[c].amount)
    /\ Proceed(c, "crediting")
    /\ UNCHANGED <<work, rate>>

TooFewPts(c) ==
    /\ At(c, "exchange", "debiting")
    /\ DebitFails(c, asked[c].user, Pts, asked[c].amount)
    /\ Rollback(c)
    /\ UNCHANGED rate

-----------------------------------------------------------------------------
(* Both end with a credit and, in a family, with a record.                 *)

Crediting(c) == At(c, "topup", "crediting") \/ At(c, "exchange", "crediting")

CreditOwn(c) ==
    /\ Crediting(c)
    /\ Credit(c, asked[c].user, Idr, work[c].amount)
    /\ Proceed(c, "recording")
    /\ UNCHANGED <<work, rate>>

(* The column overflows, or the points were worth nothing (INVALID_AMOUNT).*)
CreditOwnFails(c) ==
    /\ Crediting(c)
    /\ CreditFails(c, asked[c].user, Idr, work[c].amount)
    /\ Rollback(c)
    /\ UNCHANGED rate

TopupEntry(c) ==
    [id |-> c, source |-> Nobody, destination |-> asked[c].user,
     amount |-> asked[c].amount, currency |-> Idr, reference |-> Nobody]

(* The record of an exchange names the points only.                        *)
ExchangeEntry(c) ==
    [id |-> c, source |-> asked[c].user, destination |-> asked[c].user,
     amount |-> asked[c].amount, currency |-> Pts, reference |-> Nobody]

RecordOwn(c) ==
    /\ asked[c].op \in {"topup", "exchange"}
    /\ pc[c] = "recording"
    /\ ledger' = ledger \cup
          (IF ~ work[c].family THEN {}
           ELSE {IF asked[c].op = "topup" THEN TopupEntry(c) ELSE ExchangeEntry(c)})
    /\ Finish(c)
    /\ UNCHANGED <<notices, rate>>

WalletOp(c) ==
    \/ StartTopup(c)
    \/ RefuseTopup(c)
    \/ VouchTopup(c)
    \/ StartExchange(c)
    \/ PriceExchange(c)
    \/ RefuseExchange(c)
    \/ VouchExchange(c)
    \/ DebitPts(c)
    \/ TooFewPts(c)
    \/ CreditOwn(c)
    \/ CreditOwnFails(c)
    \/ RecordOwn(c)
=============================================================================
