----------------------------- MODULE MCSpending -----------------------------
(* Instances of Spending for TLC.                                          *)
EXTENDS Spending, TLC

CONSTANTS p1, k1, a1

MCUser == {p1, k1}

MCOpening ==
    (p1 :> [cur \in Currency |-> 2]) @@ (k1 :> (Idr :> 5 @@ Pts :> 8))

(* An allowance that is there, or none yet.                                *)
MCAgreed == {[status |-> "open", parent |-> p1, child |-> k1, amount |-> 1,
              currency |-> Idr, active |-> TRUE], NoAllowance}

(* One that gives nothing for 1 and a cent too little for 8, for 8/6 is    *)
(* 1.333; and one over the cap.                                            *)
MCRate == {[pts |-> 6, idr |-> 3], [pts |-> 1, idr |-> 3]}

Q(op, user, about, amount, currency, flag) ==
    [op |-> op, user |-> user, about |-> about, amount |-> amount,
     currency |-> currency, flag |-> flag]

MCAsk ==
    {Q("topup", p1, Nobody, 1, Idr, FALSE), Q("topup", k1, Nobody, 1, Idr, FALSE),
     Q("exchange", k1, Nobody, 1, Pts, FALSE), Q("exchange", k1, Nobody, 8, Pts, FALSE),
     Q("allow", p1, k1, 2, Idr, FALSE),
     Q("adjust", p1, a1, 2, Pts, TRUE), Q("adjust", p1, a1, 1, Idr, FALSE),
     Q("transfer", p1, a1, 0, Idr, FALSE),
     Q("spend", k1, Nobody, 1, Idr, TRUE),
     Q("spend", k1, Nobody, 1, Pts, FALSE)}
    \cup UNION {{Q("transfer", p1, c, 0, Idr, FALSE),
                 Q("unspend", k1, c, 0, Idr, FALSE)} : c \in Call}

Symmetry == Permutations(Call)
=============================================================================
