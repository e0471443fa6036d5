SPECIFICATION SessionSpec
CONSTANTS
    Request = {r1, r2, l1}
    LogoutRequest = {l1}
    First = First
    None = None
SYMMETRY Symmetry
INVARIANTS
    SessionInv
    KeptTokenWorks
    LostForCause
    LogoutClears
