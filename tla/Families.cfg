SPECIFICATION Spec
CONSTANTS
    Founding = {f1}
    Inviting = {i1, i2}
    Joining = {j1, j2, j3}
    Removing = {r1}
    Cancelling = {x1}
    Parent = {p1}
    Child = {k1, k2}
    Code = {n1, n2}
    MaxSeats = 2
    MaxPending = 2
    Nobody = Nobody
SYMMETRY Symmetry
INVARIANTS
    IInv
    AcceptedTookSeat
    OneInvitationWithinSeats
