SPECIFICATION Spec
CONSTANTS
    Login = {l1, l2}
    Refresh = {r1, r2}
    Logout = {o1}
    Change = {c1}
    Nobody = Nobody
SYMMETRY Symmetry
INVARIANTS
    IInv
    RotatedIsDead
    LoggedOutIsDead
    ChangeEndsTokens
PROPERTY
    RotationNeedsRow
