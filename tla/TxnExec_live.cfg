SPECIFICATION Spec
CONSTANTS
    t1 = t1
    t2 = t2
    tab = tab
    r1 = r1
    r2 = r2
    r3 = r3
    r4 = r4
    r5 = r5
    Txns <- MCTxns
    Tab <- tab
    Rids <- MCRids
    InitRows <- MCInitRows
    MaxAttempt = 1
    MaxStmts = 2
    Workload = {"ins", "del", "upd"}
    Layout <- MCLayout
    NumPages = 4
    RecordsPerPage = 2
INVARIANT TypeOK
INVARIANT ScanReturnsLiveRows
INVARIANT ScanPinsCurrentPage
PROPERTY RollbackRestoresFirstImage
PROPERTY StatementsEnd
