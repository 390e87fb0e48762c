CONSTANTS
    w1 = w1
    w2 = w2
    e1 = e1
    e2 = e2
    Workers = {w1, w2}
    NoWorker = NoWorker
    Executions = {e1}
    NoTask = NoTask
    MaxEnqueues = 3
    MaxAttempts = 5
    MaxFailures = 2
    Eligible <- MCEligible
    Disabled <- MCDisabled
SPECIFICATION Spec
INVARIANTS
    TypeOK
    LostWasInterrupted
    RunningHasRunner
    WorkBounded
    OneRunnerPerAttempt
SYMMETRY MCSymmetry
