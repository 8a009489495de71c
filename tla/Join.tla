-------------------------------- MODULE Join --------------------------------
(***************************************************************************)
(* The two join executors run on the same pair of child outputs: first    *)
(* NestedLoopJoinExecutor to its end, then HashJoinExecutor, each driven  *)
(* by the consumer loop for (beginTuple(); !is_end(); nextTuple()) Next(). *)
(* spec.md: the partitioned hash join produces the same multiset of       *)
(* tuples as the nested-loop join on the same equi-join predicate.        *)
(***************************************************************************)
EXTENDS Integers, Sequences, SequencesExt

CONSTANTS Inputs, RecordsPerBlock, RecordsPerPage, GarbageKeys

VARIABLES left, right, lblk, rblk, ltup, nlState, nlOut,
          hjState, partition_idx, ctx, garbage, hjOut

NL == INSTANCE NestedLoopJoin
HJ == INSTANCE HashJoin

nlVars == <<lblk, rblk, ltup, nlState, nlOut>>
hjVars == <<hjState, partition_idx, ctx, garbage, hjOut>>
vars == <<left, right, nlVars, hjVars>>

Init == NL!NLInit /\ HJ!HJInit

\* The same query planned with the hash join, once the nested loop is done.
Next ==
    \/ NL!NLNext /\ UNCHANGED hjVars
    \/ nlState = "end" /\ HJ!HJNext /\ UNCHANGED nlVars

Spec == Init /\ [][Next]_vars

TypeOK == NL!NLTypeOK /\ HJ!HJTypeOK

\* Once both executors are done, the hash join did not abort and returned
\* the same multiset of joined rows as the nested-loop join (spec.md,
\* "partitioned-hash-join produces the same multiset of tuples as
\* nested-loop-join").  It is about continue_probe's first target and its
\* loop bounds, and about get_partition's re-read of spilled partitions.
HashJoinEquivalent ==
    nlState = "end" /\ hjState \in {"end", "crashed"} =>
        /\ hjState = "end"
        /\ ToBag(hjOut) = ToBag(nlOut)

=============================================================================
