SPECIFICATION Spec
CONSTANTS
    th1 = th1
    th2 = th2
    f1 = f1
    f2 = f2
    p1 = p1
    p2 = p2
    p3 = p3
    p4 = p4
    Threads <- MCThreads
    Frames <- MCFrames
    InitPages <- MCInitPages
    NewPages <- MCNewPages
    MaxCalls = 4
    Ops <- MCAllOps
INVARIANT PinnedResident
