\* Hash join against nested-loop join on every pair of child outputs of up
\* to three rows, two records per page and per block.
CONSTANTS
    Inputs <- MCInputs
    RecordsPerBlock = 2
    RecordsPerPage = 2
    GarbageKeys <- MCKeys
SPECIFICATION Spec
INVARIANT HashJoinEquivalent
CHECK_DEADLOCK FALSE
