--------------------------- MODULE NestedLoopJoin ---------------------------
(***************************************************************************)
(* NestedLoopJoinExecutor (src/src/execution/executor_nestedloop_join.h): *)
(* a block nested-loop join.  init_join copies each child into a          *)
(* JoinBlock: a one-block buffer in front of a temporary file; then, for  *)
(* each block of the left file and each block of the right file, every   *)
(* left tuple of the block is compared with every right tuple of the      *)
(* block.  continue_block_join stops at each match and resumes there on   *)
(* the next call; each beginTuple or nextTuple call is one step.          *)
(*                                                                         *)
(* A tuple is its row number in its child's output, and the one join      *)
(* condition is equality of keys.  A file is the sequence of rows written *)
(* to it; fread's position is fpos.                                       *)
(***************************************************************************)
EXTENDS Integers, Sequences, SequencesExt

CONSTANTS
    Inputs,           \* the relations a child may produce: sequences of join keys
    RecordsPerBlock   \* block_size / record_len

VARIABLES
    left, right,      \* the child executors' outputs (row i has key left[i])
    lblk, rblk,       \* left_block and right_block
    ltup,             \* left_tup: the row it points at, 0 for nullptr
    nlState,          \* "init" before beginTuple, "open", "end" (isend)
    nlOut             \* the rows the consumer read with Next(), in order

nlVars == <<lblk, rblk, ltup, nlState, nlOut>>

\* The JoinBlock constructor: fopen(f_path, "w+") starts an empty file.
NewBlock == [file |-> <<>>, data |-> <<>>, pos |-> 0, fpos |-> 0]

\* insert_tup: copy into the block; when the next record would not fit,
\* fwrite the full block and start it again.
InsertTup(b, r) ==
    LET d == Append(b.data, r)
    IN IF Len(d) + 1 > RecordsPerBlock
       THEN [b EXCEPT !.file = @ \o d, !.data = <<>>]
       ELSE [b EXCEPT !.data = d]

\* read_next_block: fread up to a block from the file position.
ReadNextBlock(b) ==
    LET n == IF Len(b.file) - b.fpos < RecordsPerBlock THEN Len(b.file) - b.fpos
             ELSE RecordsPerBlock
    IN [b EXCEPT !.data = SubSeq(b.file, b.fpos + 1, b.fpos + n), !.fpos = @ + n, !.pos = 0]

\* reset_to_file_head: rewind, then read the first block.
ResetToFileHead(b) == ReadNextBlock([b EXCEPT !.fpos = 0])

\* start_read: fwrite the partial block, then reset_to_file_head.
StartRead(b) == ResetToFileHead([b EXCEPT !.file = @ \o b.data])

\* reset_to_block_head: the read cursor back to the block's first record.
ResetToBlockHead(b) == [b EXCEPT !.pos = 0]

\* read_tup: the next record of the block, or nullptr (0) past tup_in_block.
ReadTup(b) ==
    IF b.pos >= Len(b.data) THEN [blk |-> b, tup |-> 0]
    ELSE [blk |-> [b EXCEPT !.pos = @ + 1], tup |-> b.data[b.pos + 1]]

\* check_cond with the one condition: an OP_EQ between the INT join columns.
CheckCond(lt, rt) == left[lt] = right[rt]

\* continue_block_join over s = [l, r, lt, row, end]: return at the first
\* match (row) or when both files are exhausted (end).
RECURSIVE ContinueBlockJoin(_)
ContinueBlockJoin(s) ==
    IF s.lt # 0
    THEN LET rt == ReadTup(s.r)
         IN IF rt.tup # 0
            THEN IF CheckCond(s.lt, rt.tup)
                 THEN [s EXCEPT !.r = rt.blk, !.row = <<s.lt, rt.tup>>]
                 ELSE ContinueBlockJoin([s EXCEPT !.r = rt.blk])
            ELSE LET lt == ReadTup(s.l)
                 IN ContinueBlockJoin([s EXCEPT !.l = lt.blk, !.lt = lt.tup,
                                                !.r = ResetToBlockHead(rt.blk)])
    ELSE LET r2 == ReadNextBlock(s.r)
         IN IF Len(r2.data) = 0
            THEN LET l2 == ReadNextBlock(s.l)
                 IN IF Len(l2.data) = 0
                    THEN [s EXCEPT !.l = l2, !.r = r2, !.end = TRUE]
                    ELSE LET lt == ReadTup(l2)
                         IN ContinueBlockJoin([s EXCEPT !.l = lt.blk, !.lt = lt.tup,
                                                        !.r = ResetToFileHead(r2)])
            ELSE LET lt == ReadTup(ResetToBlockHead(s.l))
                 IN ContinueBlockJoin([s EXCEPT !.l = lt.blk, !.lt = lt.tup, !.r = r2])

\* The outcome of a call: isend, or the matched row that Next() returns.
Emit(s) ==
    /\ lblk' = s.l
    /\ rblk' = s.r
    /\ ltup' = s.lt
    /\ nlState' = IF s.end THEN "end" ELSE "open"
    /\ nlOut' = IF s.end THEN nlOut ELSE Append(nlOut, s.row)

NLInit ==
    /\ left \in Inputs
    /\ right \in Inputs
    /\ lblk = NewBlock
    /\ rblk = NewBlock
    /\ ltup = 0
    /\ nlState = "init"
    /\ nlOut = <<>>

\* beginTuple: init_join copies the left child into left_block, start_read,
\* reads left_tup, copies the right child likewise (init_join returns 0),
\* then continue_block_join.
NLBeginTuple ==
    /\ nlState = "init"
    /\ LET lb == StartRead(FoldLeft(InsertTup, NewBlock, [i \in DOMAIN left |-> i]))
           lt == ReadTup(lb)
           rb == StartRead(FoldLeft(InsertTup, NewBlock, [j \in DOMAIN right |-> j]))
       IN Emit(ContinueBlockJoin([l |-> lt.blk, r |-> rb, lt |-> lt.tup, row |-> <<>>, end |-> FALSE]))
    /\ UNCHANGED <<left, right>>

\* nextTuple: continue_block_join from the blocks' cursors.
NLNextTuple ==
    /\ nlState = "open"
    /\ Emit(ContinueBlockJoin([l |-> lblk, r |-> rblk, lt |-> ltup, row |-> <<>>, end |-> FALSE]))
    /\ UNCHANGED <<left, right>>

NLNext == NLBeginTuple \/ NLNextTuple

NLSpec == NLInit /\ [][NLNext]_<<left, right, nlVars>>

-----------------------------------------------------------------------------

NLTypeOK ==
    /\ nlState \in {"init", "open", "end"}
    /\ ltup \in (DOMAIN left) \cup {0}
    /\ nlOut \in Seq((DOMAIN left) \X (DOMAIN right))

=============================================================================
