----------------------------- MODULE MC_Recovery -----------------------------
(* Two transactions, each writing its own slot. Slot r1 starts with a row, *)
(* r2 empty. Both slots are on page pg1 (one page-LSN shared by two        *)
(* writers), or each on its own page.                                      *)
EXTENDS Recovery

CONSTANTS t1, t2, r1, r2, pg1, pg2

MCTxns == {t1, t2}
MCRids == {r1, r2}
MCOnePage == {pg1}
MCTwoPages == {pg1, pg2}
MCSharedPage == [r \in MCRids |-> pg1]
MCOwnPage == (r1 :> pg1) @@ (r2 :> pg2)
MCOwn == (t1 :> r1) @@ (t2 :> r2)
MCInitVal == (r1 :> 0) @@ (r2 :> Absent)
====
