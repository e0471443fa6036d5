SPECIFICATION Spec
CONSTANTS
    Founding = {f1, f2}
    Inviting = {i1, i2}
    Joining = {j1, j2}
    Removing = {}
    Cancelling = {}
    Parent = {p1, p2}
    Child = {k1, k2}
    Code = {n1, n2}
    MaxSeats = 2
    MaxPending = 2
    Nobody = Nobody
SYMMETRY Symmetry
INVARIANT
    OneFamily
