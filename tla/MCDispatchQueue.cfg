CONSTANTS
    w1 = w1
    w2 = w2
    e1 = e1
    e2 = e2
    Workers = {w1, w2}
    NoWorker = NoWorker
    Executions = {e1, e2}
    LabelKeys <- MCLabelKeys
    LabelValues <- MCLabelValues
    WorkerLabels <- MCWorkerLabels
    JobSelector <- MCSelector
    PushTargets = {w1, w2, NoWorker}
    MaxEnqueues = 2
SPECIFICATION FairSpec
INVARIANTS
    TypeOK
    Conserved
    ServedToEntitled
    ClaimsNumbered
PROPERTIES
    NilMeansNothing
    RefinesWorkPool
    EntitledItemLeaves
