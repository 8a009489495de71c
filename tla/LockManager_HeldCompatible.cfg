CONSTANTS
    t1 = t1
    t2 = t2
    t3 = t3
    tab = tab
    rec = rec
    gap = gap
    Txns <- MCTxns3
    Tables <- MCTables
    Records <- MCNoRecords
    Gaps <- MCNoGaps
    MaxAttempt = 2
SPECIFICATION Spec
INVARIANT HeldCompatible
