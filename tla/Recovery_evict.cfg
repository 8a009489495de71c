\* Pages written back between a heap change and its log record, in either
\* order: recovery then keeps an unlogged row or skips a logged change.
CONSTANTS
    t1 = t1
    t2 = t2
    r1 = r1
    r2 = r2
    pg1 = pg1
    pg2 = pg2
    Txns <- MCTxns
    Rids <- MCRids
    Pages <- MCOnePage
    PageOf <- MCSharedPage
    Own <- MCOwn
    InitVal <- MCInitVal
    MaxOps = 1
    MaxCrashes = 1
    EvictAt = {"ins_log", "apply", "abort_apply"}
SPECIFICATION Spec
INVARIANT RecoveryCorrect
