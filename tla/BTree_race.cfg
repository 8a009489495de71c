\* get_value in UpdateExecutor's duplicate check, which holds no table lock,
\* against a concurrent writer on the same index.
CONSTANTS
    Keys <- MCKeys
    ReadKeys <- MCReadKeys
    Starts <- MCStarts
    MaxSize = 4
    MinSize = 2
    MaxPages = 22
    MaxOps = 3
    ScanConds <- MCScanConds
    TableS = FALSE
SPECIFICATION Spec
PROPERTY GetValueLinearizable
