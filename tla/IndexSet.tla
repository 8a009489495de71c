------------------------------ MODULE IndexSet ------------------------------
(***************************************************************************)
(* What a unique B+ tree index promises its callers (IxIndexHandle in      *)
(* src/src/index/ix_index_handle.cpp): it holds a set of keys, and every   *)
(* completed insert_entry adds one key that was absent and every completed *)
(* delete_entry removes one key that was present.  Structural steps        *)
(* (splits, merges, separator maintenance) leave the set as it is.         *)
(***************************************************************************)
EXTENDS Naturals

CONSTANTS Keys, Initials  \* the key values; the key sets an index may start with

VARIABLES
    contents,   \* the keys in the index
    calls       \* insert_entry and delete_entry calls that changed it

Init == contents \in Initials /\ calls = 0

Insert(k) ==
    /\ k \notin contents
    /\ contents' = contents \cup {k}
    /\ calls' = calls + 1

Erase(k) ==
    /\ k \in contents
    /\ contents' = contents \ {k}
    /\ calls' = calls + 1

Next == \E k \in Keys : Insert(k) \/ Erase(k)

Spec == Init /\ [][Next]_<<contents, calls>>

=============================================================================
