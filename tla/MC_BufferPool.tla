----------------------------- MODULE MC_BufferPool -----------------------------
(* Model values and constants for checking BufferPool with TLC.            *)
EXTENDS BufferPool, TLC

CONSTANTS th1, th2, f1, f2, p1, p2, p3, p4

MCThreads   == {th1, th2}
MCFrames    == {f1, f2}
MCInitPages == {p1, p2, p3}
MCNewPages  == <<p4>>
MCAllOps    == {"fetch", "unpin", "flush", "new", "delete"}
====
