----------------------------- MODULE IndexScan -----------------------------
(***************************************************************************)
(* IndexScanExecutor (src/src/execution/executor_index_scan.h) over the    *)
(* B+ tree of BTree, for a unique index on one INT column and a WHERE      *)
(* clause of conditions `col op value` on that column.                    *)
(*                                                                         *)
(* beginTuple takes S on the table, builds min_key and max_key from the   *)
(* conditions, asks IxIndexHandle::lower_bound(min_key) and               *)
(* upper_bound(max_key) for two (page, slot) positions and walks the leaf *)
(* list from the first to the second with IxScan, stopping at each entry  *)
(* check_cond accepts; nextTuple resumes the walk.  Writers take IX on    *)
(* the table, which conflicts with S, so no writer operation runs while a *)
(* scan is open: a scan is a function of the index state it starts in,    *)
(* evaluated here in every state where no writer call is half done.       *)
(*                                                                         *)
(* IxScan (next, is_end) is not in the repository; it is modelled from    *)
(* spec.md ("iterates leaves between lower-bound(min) and                 *)
(* upper-bound(max)") with the slot-advance rule the leaf walks of        *)
(* ix_index_handle.cpp use, and it stops at leaf_end().                   *)
(***************************************************************************)
EXTENDS BTree

CONSTANTS
    ScanConds   \* WHERE clauses: sequences of [op, val] on the index column

IntMin == -2147483647 - 1   \* INT32_MIN
IntMax == 2147483647    \* INT32_MAX

\* IndexScanExecutor::compare for an INT column and an INT value.
Compare(a, b, op) ==
    CASE op = "EQ" -> a = b
      [] op = "NE" -> a # b
      [] op = "LT" -> a < b
      [] op = "GT" -> a > b
      [] op = "LE" -> a <= b
      [] op = "GE" -> a >= b

\* check_cond: the record fetched for the entry satisfies every condition.
CheckCond(k, C) == \A i \in DOMAIN C : Compare(k, C[i].val, C[i].op)

\* setMaxKey for TYPE_INT.
SetMaxKey == IntMax

\* Mutant: the TYPE_FLOAT branch's numeric_limits<float>::min(), the
\* smallest positive value, which on integer keys acts as 1.
SetMinKeyPositive == 1

\* setMinKey for TYPE_INT.
SetMinKey == IntMin

(***************************************************************************)
(* The loop of beginTuple over conds_ for index column 0.  acc holds the  *)
(* bytes of min_key and max_key for the column and the flags min_set,     *)
(* max_set and equ_set.  An OP_EQ sets both keys and skips the rest.  A   *)
(* second < or <= keeps the smaller value.  A second > or >= compares its *)
(* value with max_key + offset, not min_key: max_key was filled by an     *)
(* earlier < or <=, or is still the uninitialized bytes of new char[],    *)
(* whose comparison may go either way.  The result is the set of states  *)
(* the loop may end in.                                                   *)
(***************************************************************************)
NoBounds == [min |-> 0, max |-> 0, minSet |-> FALSE, maxSet |-> FALSE, equ |-> FALSE]

RECURSIVE BoundsFrom(_, _, _)
BoundsFrom(C, j, acc) ==
    IF j > Len(C) \/ acc.equ THEN {acc}
    ELSE LET c == C[j]
         IN CASE c.op = "EQ" ->
                   {[acc EXCEPT !.min = c.val, !.max = c.val, !.equ = TRUE]}
              [] c.op \in {"LT", "LE"} ->
                   BoundsFrom(C, j + 1,
                       IF ~acc.maxSet THEN [acc EXCEPT !.max = c.val, !.maxSet = TRUE]
                       ELSE IF c.val < acc.max THEN [acc EXCEPT !.max = c.val]
                       ELSE acc)
              [] c.op \in {"GT", "GE"} /\ ~acc.minSet ->
                   BoundsFrom(C, j + 1, [acc EXCEPT !.min = c.val, !.minSet = TRUE])
              [] c.op \in {"GT", "GE"} ->
                   UNION {BoundsFrom(C, j + 1, IF gt THEN [acc EXCEPT !.min = c.val] ELSE acc) :
                              gt \in IF acc.maxSet THEN {c.val > acc.max} ELSE BOOLEAN}
              [] OTHER -> BoundsFrom(C, j + 1, acc)

\* After the loop: a column with no equality and no lower (upper) bound
\* gets the type's minimum (maximum).
KeyRange(acc) ==
    [lo |-> IF acc.equ \/ acc.minSet THEN acc.min ELSE SetMinKey,
     hi |-> IF acc.equ \/ acc.maxSet THEN acc.max ELSE SetMaxKey]

KeyRanges(C) == {KeyRange(acc) : acc \in BoundsFrom(C, 1, NoBounds)}

(***************************************************************************)
(* Iid positions.  IxIndexHandle::lower_bound and upper_bound descend with *)
(* find_leaf_page and search the leaf; a position one past a leaf's last  *)
(* slot moves to slot 0 of the next leaf unless the leaf is last_leaf_.   *)
(***************************************************************************)
Iid(l, s) ==
    IF s = Len(keys[l]) /\ l # lastLeaf THEN [page |-> nextLeaf[l], slot |-> 0]
    ELSE [page |-> l, slot |-> s]

IxLowerBound(k) == Iid(FindLeaf(k), LowerBound(keys[FindLeaf(k)], k))

\* Mutant: upper_bound searching with the lower_bound test, so a key equal
\* to max_key is left out.
IxUpperBoundLower(k) == Iid(FindLeaf(k), LowerBound(keys[FindLeaf(k)], k))

IxUpperBound(k) == Iid(FindLeaf(k), UpperBound(keys[FindLeaf(k)], k))

\* leaf_end: one past the last slot of last_leaf_.
LeafEnd == [page |-> lastLeaf, slot |-> Len(keys[lastLeaf])]

\* IxScan::next: the next slot, across to the next leaf at a leaf's end.
ScanNext(iid) == Iid(iid.page, iid.slot + 1)

\* The keys IxScan visits from iid until it is at end (is_end) or at
\* leaf_end; fuel bounds the walk by the number of keys there can be.
RECURSIVE ScanFrom(_, _, _)
ScanFrom(iid, end, fuel) ==
    IF iid = end \/ iid = LeafEnd \/ fuel = 0 THEN <<>>
    ELSE <<keys[iid.page][iid.slot + 1]>> \o ScanFrom(ScanNext(iid), end, fuel - 1)

\* The rows beginTuple and the nextTuple calls return from the entries
\* the scan visits: those check_cond accepts, in order.
IndexScanRows(C, scan) == SelectSeq(scan, LAMBDA k : CheckCond(k, C))

-----------------------------------------------------------------------------

\* The values min_key and max_key can take: the condition values and the
\* type's extrema.
ScanBounds == {SetMinKey, SetMaxKey} \cup UNION {{C[i].val : i \in DOMAIN C} : C \in ScanConds}

\* The keys of a set in ascending order.
AscendingSeq(S) == [i \in 1 .. Cardinality(S) |-> CHOOSE x \in S : Cardinality({y \in S : y < x}) = i - 1]

\* WHERE lo <= key AND key <= hi, as two conditions.
Between(lo, hi) == <<[op |-> "GE", val |-> lo], [op |-> "LE", val |-> hi]>>

\* The keys some WHERE clause accepts that fall outside one of the
\* [min_key, max_key] ranges beginTuple may build for it (a constant).
MissedKeys ==
    {k \in Keys : \E C \in ScanConds : \E r \in KeyRanges(C) :
                     CheckCond(k, C) /\ ~(r.lo <= k /\ k <= r.hi)}

\* Every key of the index a WHERE clause accepts lies between the min_key
\* and max_key beginTuple builds for it, whichever way the comparison with
\* uninitialized bytes goes.  It is about the type extrema setMinKey and
\* setMaxKey give an unbounded side, and about several bounds on one
\* column (the smaller of two <, the second > compared with max_key).
KeyRangeCovers == ChainKeys \cap MissedKeys = {}

\* The IxScan from lower_bound(lo) to upper_bound(hi) visits, in ascending
\* order, every key of the index between lo and hi, for every pair of
\* bounds (inverted ones included).  It is about lower_bound and
\* upper_bound landing one past a leaf's end and moving to the next leaf
\* unless it is last_leaf_, about upper_bound's search from slot 1, and
\* about find_leaf_page routing a bound that is not in the index past
\* stale separators, after any split or merge cascade.
RangeScanComplete ==
    wpc = "idle" =>
        LET sorted == AscendingSeq(ChainKeys)
        IN \A lo, hi \in ScanBounds :
               IndexScanRows(Between(lo, hi),
                             ScanFrom(IxLowerBound(lo), IxUpperBound(hi), Cardinality(Keys)))
                   = SelectSeq(sorted, LAMBDA k : lo <= k /\ k <= hi)

=============================================================================
