SPECIFICATION FairSpec
CONSTANTS
    Creation = {g1}
    Work = {c1, c2, c3}
    Call <- MCCall
    User = {k1}
    Currency = {IDR}
    Idr = IDR
    Amount = {1, 2, 3}
    TargetAmount = {2, 4}
    MaxContribution = 2
    MaxGoals = 1
    MaxBalance = 4
    Opening <- MCOpening
    Nobody = Nobody
INVARIANTS
    IInv
    ReadingStaysValid
PROPERTIES
    ContributionsCount
    MilestonesMatch
    RefundsRecorded
    EveryCallEnds
