\* B+ tree from a full three-level index: one serialised writer making
\* MaxOps calls, and a reader under a table S lock.
CONSTANTS
    Keys <- MCKeys
    ReadKeys <- MCReadKeys
    Starts <- MCStarts
    MaxSize = 4
    MinSize = 2
    MaxPages = 22
    MaxOps = 3
    ScanConds <- MCScanConds
    TableS = TRUE
SPECIFICATION Spec
INVARIANT TypeOK
INVARIANT SearchCorrect
INVARIANT LeafChainInOrder
INVARIANT ParentLinksConsistent
INVARIANT NodesHalfFull
INVARIANT KeyRangeCovers
INVARIANT RangeScanComplete
PROPERTY ImplementsIndexSet
