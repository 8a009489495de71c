\* Two client threads, a two-record buffer, four LSNs: the log stays
\* sequential and durable, ForceFlush returns only when its LSN is on disk,
\* and every call returns.
CONSTANTS
    c1 = c1
    c2 = c2
    Threads <- MCThreads2
    BufCap = 2
    MaxLsn = 4
SPECIFICATION Spec

INVARIANT TypeOK
INVARIANT LogIsSequential
INVARIANT PersistIsDurable
INVARIANT ForcedIsDurable
PROPERTY CallsReturn
