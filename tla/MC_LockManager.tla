--------------------------- MODULE MC_LockManager ---------------------------
(* LockManager instantiated for TLC: transactions are model values, one    *)
(* object of each lock kind.                                               *)
EXTENDS LockManager, TLC

CONSTANTS t1, t2, t3, tab, rec, gap

MCTxns3 == {t1, t2, t3}
MCTxns2 == {t1, t2}
MCTables == {tab}
MCRecords == {rec}
MCGaps == {gap}
MCNoRecords == {}
MCNoGaps == {}

TxnSymmetry == Permutations(MCTxns3)
=============================================================================
