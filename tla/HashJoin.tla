------------------------------ MODULE HashJoin ------------------------------
(***************************************************************************)
(* HashJoinExecutor (src/src/execution/executor_hash_join.h) joining two   *)
(* child relations on one INT equality condition.                         *)
(*                                                                         *)
(* beginTuple puts every tuple of each child into one of 256 Partition    *)
(* pages by the low 8 bits of its key, then takes the first partition     *)
(* index where both sides are non-empty, builds a PartitionHashJoin over  *)
(* it (buckets by key bits 8-9, chained through next[]) and probes.  Each *)
(* beginTuple or nextTuple call runs continue_join until one match is     *)
(* found or the partitions are exhausted; the call is one step here.      *)
(*                                                                         *)
(* A tuple is its row number in its child's output; only its key is       *)
(* compared.  Row 0 on the right is not a row of the input: it is the     *)
(* bytes just past a partition that continue_probe reads as a tuple.      *)
(* Those bytes are the zeroes of the calloc'd page when the partition     *)
(* holds fewer than RecordsPerPage tuples, and otherwise lie beyond the   *)
(* page (padding or the next partition's page): a value in GarbageKeys,   *)
(* chosen when the pages are filled.  The left and right join columns are *)
(* taken to have the same offset in their records.                        *)
(***************************************************************************)
EXTENDS Integers, Sequences, SequencesExt

CONSTANTS
    Inputs,          \* the relations a child may produce: sequences of join keys
    RecordsPerPage,  \* page_size / record_len: the tuples a partition page holds
    GarbageKeys      \* the keys the bytes past a full partition page may read as

VARIABLES
    left, right,     \* the child executors' outputs (row i has key left[i])
    hjState,         \* "init" before beginTuple, "open", "end" (isend), "crashed"
    partition_idx,   \* HashJoinExecutor::partition_idx_
    ctx,             \* the PartitionHashJoin: its partition pair and HashJoinContext
    garbage,         \* the keys past each full partition page, left and right
    hjOut            \* the rows the consumer read with Next(), in order

hjVars == <<hjState, partition_idx, ctx, garbage, hjOut>>

PartitionBit == 8
PartitionNum == 2 ^ PartitionBit
Limit == 2
Buckets == 0 .. 2 ^ Limit - 1

\* Partition::get_hash_code: key & ((1 << PARTITION_BIT) - 1).
PartCode(k) == k % PartitionNum

\* PartitionHashJoin::get_hash_code: (key & mask) >> PARTITION_BIT with
\* mask = ((1 << limit) - 1) << PARTITION_BIT, a code in 0..3.  calloc'd
\* hash_table has upround_power2(left_num) >> 2 buckets, or 2^limit (= 0)
\* when fewer; codes 2 and 3 then index past the requested size but stay
\* inside glibc's minimum zeroed chunk, so the table behaves as 4 buckets.
BucketCode(k) == (k \div PartitionNum) % (2 ^ Limit)

(***************************************************************************)
(* Phase 1: Partition::put_tup for each child tuple in order.  A page that *)
(* would overflow is flushed to "./part<tid>-<code>.txt" and emptied; the  *)
(* spilled tuples are never read back (see GetPartition), so only the     *)
(* page and the totals are kept.                                          *)
(***************************************************************************)
\* The partitions a relation's keys fall in; every other partition of the
\* 256 keeps tup_total_count 0 and an empty page.
Codes(rel) == {PartCode(rel[i]) : i \in DOMAIN rel}

EmptyPartition(rel) == [page |-> [p \in Codes(rel) |-> <<>>], total |-> [p \in Codes(rel) |-> 0]]

PutTup(rel, pt, i) ==
    LET c == PartCode(rel[i])
        flushed == IF (Len(pt.page[c]) + 1) > RecordsPerPage
                   THEN [pt EXCEPT !.page[c] = <<>>]
                   ELSE pt
    IN [flushed EXCEPT !.page[c] = Append(@, i), !.total[c] = @ + 1]

PartitionOf(rel) ==
    FoldLeft(LAMBDA pt, i : PutTup(rel, pt, i), EmptyPartition(rel), [i \in DOMAIN rel |-> i])

LeftPart == PartitionOf(left)
RightPart == PartitionOf(right)

\* tup_total_count[p].
Total(pt, p) == IF p \in DOMAIN pt.total THEN pt.total[p] ELSE 0

\* Partitions whose page is exactly full: the bytes after their last tuple
\* are not in the page.
FullParts(pt) == {p \in DOMAIN pt.total : pt.total[p] = RecordsPerPage}

\* The join key read just past partition p's tuples.
KeyAfter(pt, g, p) == IF Total(pt, p) < RecordsPerPage THEN 0 ELSE g[p]

(***************************************************************************)
(* Partition::get_partition over indexes from..255, as the loops of       *)
(* beginTuple and continue_join call it (left, then right).  A partition  *)
(* with more tuples than a page opens "./part<code>.txt", a name no       *)
(* flush_to_file wrote, and freads through the null FILE* (had the names  *)
(* agreed, the count check's assert(0) would fire, since the file lacks   *)
(* the tuples still on the page): the process aborts.                     *)
(***************************************************************************)
Oversized(p) == Total(LeftPart, p) > RecordsPerPage \/ Total(RightPart, p) > RecordsPerPage

Candidates(from) == {p \in (DOMAIN LeftPart.total) \cap (DOMAIN RightPart.total) : p >= from}

ScanEnd(from) == IF Candidates(from) = {} THEN PartitionNum - 1 ELSE Min(Candidates(from))

GetPartitionCrashes(from) ==
    \E p \in (DOMAIN LeftPart.total) \cup (DOMAIN RightPart.total) :
        from <= p /\ p <= ScanEnd(from) /\ Oversized(p)

(***************************************************************************)
(* PartitionHashJoin::build_hash_table over partition p (after the        *)
(* constructor or update_next_partition reset the context).  Position k   *)
(* of the left partition is pushed on its bucket's chain: next[k] is the  *)
(* old head and hash_table[code] = k.  The first probe's target is then   *)
(* taken from the key after the LEFT partition's last tuple (curr_tup has *)
(* walked past it) although context.curr_tup is the first right tuple.    *)
(***************************************************************************)
BuildHashTable(p, g) ==
    LET L == LeftPart.page[p]
        tbl[k \in 0 .. Len(L)] ==
            IF k = 0 THEN [b \in Buckets |-> 0]
            ELSE [tbl[k - 1] EXCEPT ![BucketCode(left[L[k]])] = k]
    IN [lrel   |-> L,
        rrel   |-> RightPart.page[p],
        table  |-> tbl[Len(L)],
        next   |-> [k \in 1 .. Len(L) |-> tbl[k - 1][BucketCode(left[L[k]])]],
        i      |-> 0,
        cur    |-> 1,
        target |-> tbl[Len(L)][BucketCode(KeyAfter(LeftPart, g.l, p))],
        after  |-> KeyAfter(RightPart, g.r, p)]

\* The right tuple at 1-based position j of the partition; position
\* Len + 1 is the bytes after it (row 0).
RightKey(c, j) == IF j <= Len(c.rrel) THEN right[c.rrel[j]] ELSE c.after
RightRow(c, j) == IF j <= Len(c.rrel) THEN c.rrel[j] ELSE 0

\* check_cond with the one condition: an OP_EQ between the INT join columns
\* of left row l and a right tuple whose key is k.
CheckCond(l, k) == left[l] = k

\* Walk a bucket chain from t: the first left position whose tuple
\* satisfies check_cond against key k, or 0.
RECURSIVE FirstMatch(_, _, _)
FirstMatch(c, t, k) ==
    IF t = 0 THEN 0
    ELSE IF CheckCond(c.lrel[t], k) THEN t
    ELSE FirstMatch(c, c.next[t], k)

\* The for loop of continue_probe from i: it advanced curr_tup before the
\* loop, so iteration i probes 1-based position i + 2, and the last
\* iteration (i = right_num - 1) probes the bytes after the partition.
RECURSIVE ProbeFrom(_, _)
ProbeFrom(c, i) ==
    IF i >= Len(c.rrel) THEN [hit |-> 0, ctx |-> c]
    ELSE LET h == FirstMatch(c, c.table[BucketCode(RightKey(c, i + 2))], RightKey(c, i + 2))
         IN IF h # 0
            THEN [hit |-> h, ctx |-> [c EXCEPT !.target = c.next[h], !.i = i + 1, !.cur = i + 2]]
            ELSE ProbeFrom(c, i + 1)

\* continue_probe: finish the saved target chain for curr_tup, then loop.
ContinueProbe(c) ==
    LET h == FirstMatch(c, c.target, RightKey(c, c.cur))
    IN IF h # 0 THEN [hit |-> h, ctx |-> [c EXCEPT !.target = c.next[h]]]
       ELSE ProbeFrom(c, c.i)

\* continue_join: probe; when the partition pair is exhausted, move to the
\* next pair from partition_idx and recurse, or report the end.
RECURSIVE ContinueJoin(_, _, _)
ContinueJoin(c, pidx, g) ==
    LET pr == ContinueProbe(c)
    IN IF pr.hit # 0
       THEN [res |-> "row", ctx |-> pr.ctx, pidx |-> pidx,
             row |-> <<c.lrel[pr.hit], RightRow(pr.ctx, pr.ctx.cur)>>]
       ELSE IF GetPartitionCrashes(pidx) THEN [res |-> "crash", ctx |-> c, pidx |-> pidx, row |-> <<>>]
       ELSE IF Candidates(pidx) = {} THEN [res |-> "end", ctx |-> c, pidx |-> pidx, row |-> <<>>]
       ELSE LET p == Min(Candidates(pidx))
            IN ContinueJoin(BuildHashTable(p, g), p + 1, g)

\* The outcome of a call: isend, or the matched row that Next() returns.
Deliver(r) ==
    /\ hjState' = CASE r.res = "row" -> "open" [] r.res = "end" -> "end" [] OTHER -> "crashed"
    /\ hjOut' = IF r.res = "row" THEN Append(hjOut, r.row) ELSE hjOut
    /\ ctx' = r.ctx
    /\ partition_idx' = r.pidx

NoContext == [lrel |-> <<>>, rrel |-> <<>>, table |-> [b \in Buckets |-> 0], next |-> <<>>,
              i |-> 0, cur |-> 1, target |-> 0, after |-> 0]

HJInit ==
    /\ left \in Inputs
    /\ right \in Inputs
    /\ hjState = "init"
    /\ partition_idx = 0
    /\ ctx = NoContext
    /\ garbage = [l |-> <<>>, r |-> <<>>]
    /\ hjOut = <<>>

\* beginTuple: partition both children, pick the first non-empty pair and
\* build its table, then continue_join.  With no such pair `join` is never
\* assigned and join->build_hash_table() calls through an uninitialized
\* pointer: modelled as the process crashing.
BeginTuple ==
    /\ hjState = "init"
    /\ \E gl \in [FullParts(LeftPart) -> GarbageKeys], gr \in [FullParts(RightPart) -> GarbageKeys] :
         LET g == [l |-> gl, r |-> gr]
         IN /\ garbage' = g
            /\ IF GetPartitionCrashes(0) \/ Candidates(0) = {}
               THEN /\ hjState' = "crashed"
                    /\ UNCHANGED <<partition_idx, ctx, hjOut>>
               ELSE LET p == Min(Candidates(0))
                    IN Deliver(ContinueJoin(BuildHashTable(p, g), p + 1, g))
    /\ UNCHANGED <<left, right>>

\* nextTuple: continue_join from the saved context.
NextTuple ==
    /\ hjState = "open"
    /\ Deliver(ContinueJoin(ctx, partition_idx, garbage))
    /\ UNCHANGED <<left, right, garbage>>

HJNext == BeginTuple \/ NextTuple

HJSpec == HJInit /\ [][HJNext]_<<left, right, hjVars>>

-----------------------------------------------------------------------------

HJTypeOK ==
    /\ hjState \in {"init", "open", "end", "crashed"}
    /\ partition_idx \in 0 .. PartitionNum
    /\ hjOut \in Seq((DOMAIN left) \X ((DOMAIN right) \cup {0}))

=============================================================================
