------------------------------ MODULE MC_BTree ------------------------------
(***************************************************************************)
(* Model values for BTree.                                                 *)
(*                                                                         *)
(* The two start states are the indexes insert_entry builds from         *)
(* EmptyIndex with max size 4 when 1..10 are inserted in ascending and in *)
(* descending order (the model reaches each in 20 steps).  Both have      *)
(* three levels with all but one node at minimum size, so one delete      *)
(* cascades coalesce to the internal level, where the fuller internal     *)
(* node is on the right (ascending) or on the left (descending) of the    *)
(* one that underflows; two inserts into one leaf cascade split up to a   *)
(* new root.  The descending build leaves stale zeroth keys (the          *)
(* sentinels 7 in pages 4 and 8).                                         *)
(*                                                                         *)
(*   ascending:                 8:[1,5]                                    *)
(*                    4:[1,3]              7:[5,7,9]                       *)
(*                 2:[1,2] 3:[3,4]   5:[5,6] 6:[7,8] 9:[9,10]              *)
(*   descending:                8:[7,7]                                    *)
(*                    4:[7,3,5]            7:[7,9]                         *)
(*             2:[1,2] 9:[3,4] 6:[5,6]   5:[7,8] 3:[9,10]                  *)
(***************************************************************************)
EXTENDS IndexScan

MCKeys == 0 .. 10
MCSmallKeys == 1 .. 5

Extend(f, default) == [p \in PageIds |-> IF p \in DOMAIN f THEN f[p] ELSE default]

MCAscending ==
    [keys |-> Extend((2 :> <<1, 2>>) @@ (3 :> <<3, 4>>) @@ (4 :> <<1, 3>>) @@
                     (5 :> <<5, 6>>) @@ (6 :> <<7, 8>>) @@ (7 :> <<5, 7, 9>>) @@
                     (8 :> <<1, 5>>) @@ (9 :> <<9, 10>>), <<>>),
     kids |-> Extend((4 :> <<2, 3>>) @@ (7 :> <<5, 6, 9>>) @@ (8 :> <<4, 7>>), <<>>),
     isLeaf |-> [p \in PageIds |-> p \in {2, 3, 5, 6, 9}],
     parent |-> Extend((2 :> 4) @@ (3 :> 4) @@ (4 :> 8) @@ (5 :> 7) @@
                       (6 :> 7) @@ (7 :> 8) @@ (9 :> 7), NoPage),
     prevLeaf |-> Extend((1 :> 9) @@ (2 :> 1) @@ (3 :> 2) @@ (4 :> 1) @@
                         (5 :> 3) @@ (6 :> 5) @@ (8 :> 1) @@ (9 :> 6), NoPage),
     nextLeaf |-> Extend((1 :> 2) @@ (2 :> 3) @@ (3 :> 5) @@ (4 :> 1) @@
                         (5 :> 6) @@ (6 :> 9) @@ (8 :> 1) @@ (9 :> 1), NoPage),
     root |-> 8, lastLeaf |-> 9, numPages |-> 10]

MCDescending ==
    [keys |-> Extend((2 :> <<1, 2>>) @@ (3 :> <<9, 10>>) @@ (4 :> <<7, 3, 5>>) @@
                     (5 :> <<7, 8>>) @@ (6 :> <<5, 6>>) @@ (7 :> <<7, 9>>) @@
                     (8 :> <<7, 7>>) @@ (9 :> <<3, 4>>), <<>>),
     kids |-> Extend((4 :> <<2, 9, 6>>) @@ (7 :> <<5, 3>>) @@ (8 :> <<4, 7>>), <<>>),
     isLeaf |-> [p \in PageIds |-> p \in {2, 3, 5, 6, 9}],
     parent |-> Extend((2 :> 4) @@ (3 :> 7) @@ (4 :> 8) @@ (5 :> 7) @@
                       (6 :> 4) @@ (7 :> 8) @@ (9 :> 4), NoPage),
     prevLeaf |-> Extend((1 :> 3) @@ (2 :> 1) @@ (3 :> 5) @@ (4 :> 1) @@
                         (5 :> 6) @@ (6 :> 9) @@ (8 :> 1) @@ (9 :> 2), NoPage),
     nextLeaf |-> Extend((1 :> 2) @@ (2 :> 9) @@ (3 :> 1) @@ (4 :> 1) @@
                         (5 :> 3) @@ (6 :> 5) @@ (8 :> 1) @@ (9 :> 6), NoPage),
     root |-> 8, lastLeaf |-> 3, numPages |-> 10]

MCStarts == {MCAscending, MCDescending, EmptyIndex}
MCReadKeys == {2, 5, 9}
MCEmptyStart == {EmptyIndex}

\* WHERE clauses of one and two conditions with every operator, on a key
\* at a leaf's end (2), one at a leaf's start and a separator (5) and one
\* in the last leaf (9).
MCScanCond == [op : {"EQ", "NE", "LT", "GT", "LE", "GE"}, val : {2, 5, 9}]
MCScanConds == {<<c>> : c \in MCScanCond} \cup {<<c, d>> : c, d \in MCScanCond}

====
