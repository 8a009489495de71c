\* Redo and undo with up to two crashes, one of them possibly during
\* recovery, when no page is written back in the middle of an operation.
CONSTANTS
    t1 = t1
    t2 = t2
    r1 = r1
    r2 = r2
    pg1 = pg1
    pg2 = pg2
    Txns <- MCTxns
    Rids <- MCRids
    Pages <- MCOnePage
    PageOf <- MCSharedPage
    Own <- MCOwn
    InitVal <- MCInitVal
    MaxOps = 1
    MaxCrashes = 2
    EvictAt = {}
SPECIFICATION Spec
INVARIANT TypeOK
INVARIANT RecoveryCorrect
