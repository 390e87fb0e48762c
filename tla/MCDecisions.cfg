CONSTANTS
    LabelKeys = {"region", "executor"}
    LabelValues = {"cn", "us"}
    Modulus = 256
    Selectors <- MCSelectors
    Keys <- MCKeys
    WorkerLists <- MCWorkerLists
    FireTimes <- MCFireTimes
    Nows = {3, 4}
    Graces = {0, 1, 2}
SPECIFICATION Spec
INVARIANTS
    ReadersAgree
    RoutedRight
    MisfiredRight
CHECK_DEADLOCK FALSE
