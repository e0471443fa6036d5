SPECIFICATION Spec
CONSTANTS
    Login = {l1, l2}
    Refresh = {r1, r2}
    Logout = {}
    Change = {c1}
    Nobody = Nobody
INVARIANT
    AllLoggedInAgain
