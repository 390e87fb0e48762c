CONSTANTS
    e1 = e1
    w1 = w1
    w2 = w2
    a1 = a1
    a2 = a2
    Executions = {e1}
    Workers = {w1, w2}
    NoWorker = NoWorker
    Admins = {a1, a2}
    NoKey = NoKey
    MaxAttempts = 2
SPECIFICATION FairStoreSpec
INVARIANTS
    StoreTypeOK
    NumberStaysFree
    KeysUnique
    TablesAgree
PROPERTIES
    AttemptsAppended
    RefinesTable
    TransactionsEnd
