SPECIFICATION Spec
CONSTANTS
    Creation = {g1}
    Work = {c1, c2, c3}
    Call <- MCCall
    User = {k1}
    Currency = {IDR}
    Idr = IDR
    Amount = {1}
    TargetAmount = {4}
    MaxContribution = 2
    MaxGoals = 1
    MaxBalance = 4
    Opening <- MCOpening
    Nobody = Nobody
SYMMETRY Symmetry
INVARIANT
    RefundedOnce
