SPECIFICATION Spec
CONSTANTS
    Request = {r1, r2, r3}
    Address = {a1}
    Kind = {"auth", "general"}
    Limit <- MCLimit
    Minute = 2
    LastMinute = 1
SYMMETRY Symmetry
INVARIANTS
    IInv
    LimitHolds
    RefusedForCause
    RetryIsLaterMinute
    NoKeyForgotten
