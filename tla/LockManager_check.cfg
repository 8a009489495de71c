\* Two transactions, a table, a record and a gap, two attempts per wait:
\* the safety invariants and action property of the lock calls, and that
\* every call returns.
CONSTANTS
    t1 = t1
    t2 = t2
    t3 = t3
    tab = tab
    rec = rec
    gap = gap
    Txns <- MCTxns2
    Tables <- MCTables
    Records <- MCRecords
    Gaps <- MCGaps
    MaxAttempt = 2
SPECIFICATION Spec
INVARIANT TypeOK
INVARIANT UpgradeFlagTracksUpgrader
INVARIANT NoOrphanRequests
INVARIANT CallReturnsRequestedStrength
PROPERTY NoDowngrade
PROPERTY LockCallsReturn
