CONSTANTS
    w1 = w1
    w2 = w2
    e1 = e1
    e2 = e2
    Workers = {w1, w2}
    NoWorker = NoWorker
    Executions = {e1}
    NoTask = NoTask
    MaxEnqueues = 2
    MaxAttempts = 3
    MaxFailures = 1
    Eligible <- MCEligible
    Disabled <- MCDisabled
SPECIFICATION FairSpec
PROPERTIES
    InterruptedIsRetried
