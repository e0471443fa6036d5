SPECIFICATION Spec
CONSTANTS
    Task = {t1}
    Call = {c1, c2, c3}
    User <- MCUser
    p1 = p1
    p2 = p2
    k1 = k1
    Parent = {p1, p2}
    Child = {k1}
    Admin = {p1}
    Currency = {IDR}
    Amount = {1, 2}
    MaxBalance = 3
    Opening <- MCOpening
    Nobody = Nobody
SYMMETRY Symmetry
INVARIANTS
    IInv
    RewardTold
    CompletedIsPaid
PROPERTIES
    PaysExistingTask
    LedgerSpec
