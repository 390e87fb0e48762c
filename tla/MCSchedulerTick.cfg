CONSTANTS
    a1 = a1
    a2 = a2
    j1 = j1
    j2 = j2
    Admins = {a1, a2}
    Jobs = {j1, j2}
    LockTtl = 3
    Period = 6
    MaxStall = 1
    Cron <- MCOften
    MaxFailures = 2
    MaxTime = 10
SPECIFICATION Spec
INVARIANTS
    TypeOK
    OneProcessor
    RepeatsNeedFailures
    RowsNotForgotten
    OverdueBounded
PROPERTIES
    FireTimesServed
SYMMETRY MCSymmetry
