\* Two threads, two frames, three pages and one new one, three calls per
\* thread, every call kind: pin counts, one frame per page, and every call
\* returns.
SPECIFICATION Spec
CONSTANTS
    th1 = th1
    th2 = th2
    f1 = f1
    f2 = f2
    p1 = p1
    p2 = p2
    p3 = p3
    p4 = p4
    Threads <- MCThreads
    Frames <- MCFrames
    InitPages <- MCInitPages
    NewPages <- MCNewPages
    MaxCalls = 3
    Ops <- MCAllOps
INVARIANT TypeOK
INVARIANT PinCountMatches
INVARIANT OneFramePerPage
PROPERTY CallsReturn
