------------------------------ MODULE MC_TxnExec ------------------------------
(* Model values and symmetry for checking TxnExec with TLC.                *)
EXTENDS TxnExec, TLC

CONSTANTS t1, t2, tab, r1, r2, r3, r4, r5

MCTxns     == {t1, t2}
MCInitRows == {r1}
MCRids     == {r1, r2, r3, r4, r5}

\* Three data pages of two slots; slot 1 of page 3 is never used, so
\* next() also meets a page whose bitmap ends before its last slot.
MCLayout == [r \in MCRids |->
               CASE r = r1 -> [page |-> 1, slot |-> 0]
                 [] r = r2 -> [page |-> 1, slot |-> 1]
                 [] r = r3 -> [page |-> 2, slot |-> 0]
                 [] r = r4 -> [page |-> 2, slot |-> 1]
                 [] r = r5 -> [page |-> 3, slot |-> 0]]

\* Transactions are interchangeable, and so are the slots that start empty.
\* (Every permutation here maps Init to itself.)
MCSymmetry == Permutations(MCTxns) \cup Permutations(MCRids \ MCInitRows)
====
