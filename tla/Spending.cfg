SPECIFICATION Spec
CONSTANTS
    Call = {c1, c2, c3}
    User <- MCUser
    p1 = p1
    k1 = k1
    a1 = a1
    Parent = {p1}
    Child = {k1}
    Idr = IDR
    Pts = PTS
    Currency = {IDR, PTS}
    Standing = {a1}
    Ask <- MCAsk
    Opening <- MCOpening
    Agreed <- MCAgreed
    Rate <- MCRate
    NoRate = NoRate
    Lot = 1
    MaxIdrPerPts = 2
    MaxHourly = 2
    MaxBalance = 8
    Power = {1, 10, 100, 1000, 10000}
    Leading = 1000
    Nobody = Nobody
SYMMETRY Symmetry
INVARIANTS
    IInv
    Explained
    ExchangedAtRate
    PaidAsAgreed
    LimitUnlessOverlapping
    DeductionsOnRecord
