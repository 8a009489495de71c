------------------------------ MODULE MC_Join -------------------------------
(***************************************************************************)
(* Child outputs of up to three rows over keys in partitions 0 and 1      *)
(* (0, 256 and 1, 257) and in buckets 0 and 1 of each, with pages and     *)
(* blocks of two records, so that a partition or a block is empty, part   *)
(* full, exactly full and over full.                                      *)
(***************************************************************************)
EXTENDS Join

MCKeys == {0, 1, 256, 257}
MCInputs == BoundedSeq(MCKeys, 3)

=============================================================================
