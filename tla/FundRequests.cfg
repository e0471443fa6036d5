SPECIFICATION Spec
CONSTANTS
    Creation = {c1, c2}
    Review = {v1, v2}
    Call <- MCCall
    User <- MCUser
    p1 = p1
    p2 = p2
    k1 = k1
    Parent = {p1, p2}
    Child = {k1}
    Admin = {p1}
    Currency = {IDR}
    Amount = {1, 2}
    MaxBalance = 3
    MaxPending = 1
    Opening <- MCOpening
    Nobody = Nobody
SYMMETRY Symmetry
INVARIANTS
    IInv
    PaidIffApproved
    InFlightCovered
    VerdictTold
PROPERTIES
    ReviewIsFinal
    LedgerSpec
