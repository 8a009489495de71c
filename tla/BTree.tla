------------------------------- MODULE BTree -------------------------------
(***************************************************************************)
(* The B+ tree index of src/src/index/ix_index_handle.cpp (IxIndexHandle   *)
(* and IxNodeHandle), with one writer and one reader of the same index.    *)
(*                                                                         *)
(* A node is a page: its keys, its children (the page numbers carried in   *)
(* the rids of an internal node), whether it is a leaf, its parent page    *)
(* and, for leaves, the prev/next links of the leaf list, which starts and *)
(* ends at the leaf header page.  Leaf rids are left out: the index is     *)
(* unique, so a key stands for its entry.  Sequences are 1-based here; the *)
(* code's slot i is position i+1.                                          *)
(*                                                                         *)
(* The writer is insert_entry or delete_entry.  It holds root_latch_ from  *)
(* find_leaf_page to its return: the writer branch of find_leaf_page only  *)
(* releases the pages of the transaction's latch set, and the lines that   *)
(* fill that set are commented out, so the set is always empty.  Its page  *)
(* write latches are commented out too.  Writers are therefore serialised  *)
(* and one writer process stands for all of them.  Each level of a split   *)
(* cascade (split, insert_into_parent) and of a merge cascade              *)
(* (coalesce_or_redistribute) is one step.                                 *)
(*                                                                         *)
(* The reader is get_value: find_leaf_page with Operation::FIND takes      *)
(* root_latch_, read-latches each node on the way down and gives the root  *)
(* latch back when it leaves the root page.  One descent level is one      *)
(* step.  TableS says whether the reader's table lock excludes writers     *)
(* (an index scan holds S on the table) or not (the duplicate check of     *)
(* UpdateExecutor, which takes no table lock).                             *)
(***************************************************************************)
EXTENDS Naturals, Integers, Sequences, FiniteSets, SequencesExt, Functions

CONSTANTS
    Keys,       \* the key values, ordered by <
    ReadKeys,   \* the keys the reader looks up, a subset of Keys
    MaxSize,    \* get_max_size(): a node splits when it reaches it
    MinSize,    \* get_min_size(): below it a non-root node is merged or refilled
    MaxPages,   \* bound: page numbers are 1 .. MaxPages-1
    TableS,     \* TRUE: the reader holds a table lock that excludes writers
    Starts,     \* index states (pages and file header) a behaviour may start in
    MaxOps      \* bound: insert_entry and delete_entry calls in a behaviour

NoPage == -1            \* IX_NO_PAGE / INVALID_PAGE_ID
LeafHdr == 1            \* IX_LEAF_HEADER_PAGE
InitRoot == 2           \* IX_INIT_ROOT_PAGE
PageIds == 1 .. (MaxPages - 1)

VARIABLES
    keys, kids, isLeaf, parent, prevLeaf, nextLeaf,  \* the node pages
    root, lastLeaf, numPages,                        \* the file header
    deleted,                \* pages handed to delete_page by a merge
    rootLatch,              \* root_latch_: "free", "writer" or "reader"
    wpc, wnode, wnew,       \* the writer: its step and the nodes it works on
    wleaf, wleafNew,        \* the leaf insert_entry split, and its new sibling
    rpc, rkey, rnode,       \* the reader: its step, key and current node
    rvals,                  \* ghost: values of "rkey is in the index" seen
                            \* while the reader runs
    nops                    \* writer calls made so far

treeVars == <<keys, kids, isLeaf, parent, prevLeaf, nextLeaf, root, lastLeaf,
              numPages, deleted>>
writerVars == <<wpc, wnode, wnew, wleaf, wleafNew>>
readerVars == <<rpc, rkey, rnode, rvals>>
vars == <<treeVars, rootLatch, writerVars, readerVars, nops>>

----------------------------------------------------------------------------
(* IxNodeHandle searches.  lower_bound: binary search over slots           *)
(* [0, num_key) for the first key >= target.  upper_bound: 0 on an empty   *)
(* node, else binary search over [1, num_key) for the first key > target.  *)

\* Mutant: lower_bound comparing with <= (the upper_bound test).
RECURSIVE LowerBoundInLe(_, _, _, _)
LowerBoundInLe(s, t, left, right) ==
    IF left < right
    THEN LET mid == left + (right - left) \div 2
         IN IF s[mid + 1] <= t THEN LowerBoundInLe(s, t, mid + 1, right)
                               ELSE LowerBoundInLe(s, t, left, mid)
    ELSE left

RECURSIVE LowerBoundIn(_, _, _, _)
LowerBoundIn(s, t, left, right) ==
    IF left < right
    THEN LET mid == left + (right - left) \div 2
         IN IF s[mid + 1] < t THEN LowerBoundIn(s, t, mid + 1, right)
                              ELSE LowerBoundIn(s, t, left, mid)
    ELSE left

LowerBound(s, t) == LowerBoundIn(s, t, 0, Len(s))

RECURSIVE UpperBoundIn(_, _, _, _)
UpperBoundIn(s, t, left, right) ==
    IF left < right
    THEN LET mid == left + (right - left) \div 2
         IN IF s[mid + 1] <= t THEN UpperBoundIn(s, t, mid + 1, right)
                               ELSE UpperBoundIn(s, t, left, mid)
    ELSE left

UpperBound(s, t) == IF Len(s) = 0 THEN 0 ELSE UpperBoundIn(s, t, 1, Len(s))

\* leaf_lookup: the key is at slot lower_bound.
LeafLookup(s, t) ==
    LET i == LowerBound(s, t) IN i < Len(s) /\ s[i + 1] = t

\* insert (with insert_pairs): put a key at slot lower_bound.  Callers only
\* insert a key that is absent into a node below max size.
NodeInsert(s, t) == InsertAt(s, LowerBound(s, t) + 1, t)

\* remove (with erase_pair): drop the key at slot lower_bound.  Callers only
\* remove a key that is present.
NodeRemove(s, t) == RemoveAt(s, LowerBound(s, t) + 1)

\* internal_lookup: the child in slot upper_bound(key) - 1.
InternalLookup(n, t) == kids[n][UpperBound(keys[n], t)]

\* find_child: the slot of child c in p.
FindChild(p, c) == CHOOSE i \in 0 .. (Len(kids[p]) - 1) : kids[p][i + 1] = c

\* The leaf find_leaf_page reaches from the root.
RECURSIVE DescendFrom(_, _)
DescendFrom(n, t) == IF isLeaf[n] THEN n ELSE DescendFrom(InternalLookup(n, t), t)

FindLeaf(t) == DescendFrom(root, t)

RECURSIVE Depth(_)
Depth(n) == IF isLeaf[n] THEN 1 ELSE 1 + Depth(kids[n][1])

\* maintain_parent: copy a node's first key into its slot of the parent,
\* walking up while the parent's key differs.
RECURSIVE MaintainParent(_, _)
MaintainParent(ks, n) ==
    IF parent[n] = NoPage THEN ks
    ELSE LET p == parent[n]
             r == FindChild(p, n) + 1
         IN IF ks[p][r] = ks[n][1] THEN ks
            ELSE MaintainParent([ks EXCEPT ![p][r] = ks[n][1]], p)

----------------------------------------------------------------------------
(* The tree as the properties see it.                                      *)

RECURSIVE Subtree(_)
Subtree(n) == {n} \cup UNION {Subtree(kids[n][i]) : i \in DOMAIN kids[n]}

Reachable == Subtree(root)

\* The leaves under n, left to right.
RECURSIVE LeavesUnder(_)
LeavesUnder(n) ==
    IF isLeaf[n] THEN <<n>>
    ELSE FlattenSeq([i \in DOMAIN kids[n] |-> LeavesUnder(kids[n][i])])

\* The leaf list from the header page (at most MaxPages links).
RECURSIVE ChainFrom(_, _)
ChainFrom(n, fuel) ==
    IF n \notin PageIds \/ n = LeafHdr \/ fuel = 0 THEN <<>>
    ELSE <<n>> \o ChainFrom(nextLeaf[n], fuel - 1)

LeafChain == ChainFrom(nextLeaf[LeafHdr], MaxPages)

ChainKeys == UNION {Range(keys[LeafChain[i]]) : i \in DOMAIN LeafChain}

----------------------------------------------------------------------------
(* The index as create_index leaves it: an empty leaf root, alone in the  *)
(* leaf list.                                                              *)
EmptyIndex ==
    [keys |-> [p \in PageIds |-> <<>>],
     kids |-> [p \in PageIds |-> <<>>],
     isLeaf |-> [p \in PageIds |-> p = InitRoot],
     parent |-> [p \in PageIds |-> NoPage],
     prevLeaf |-> [p \in PageIds |-> IF p \in {LeafHdr, InitRoot} THEN 3 - p
                                                              ELSE NoPage],
     nextLeaf |-> [p \in PageIds |-> IF p \in {LeafHdr, InitRoot} THEN 3 - p
                                                              ELSE NoPage],
     root |-> InitRoot, lastLeaf |-> InitRoot, numPages |-> 3]

\* The keys of a start state's leaves.
KeysOf(st) == UNION {Range(st.keys[p]) : p \in {q \in PageIds : st.isLeaf[q]}}

Init ==
  \E Start \in Starts :
    /\ keys = Start.keys
    /\ kids = Start.kids
    /\ isLeaf = Start.isLeaf
    /\ parent = Start.parent
    /\ prevLeaf = Start.prevLeaf
    /\ nextLeaf = Start.nextLeaf
    /\ root = Start.root
    /\ lastLeaf = Start.lastLeaf
    /\ numPages = Start.numPages
    /\ deleted = {}
    /\ nops = 0
    /\ rootLatch = "free"
    /\ wpc = "idle" /\ wnode = NoPage /\ wnew = NoPage
    /\ wleaf = NoPage /\ wleafNew = NoPage
    /\ rpc = "idle" /\ rnode = NoPage
    /\ rkey = CHOOSE k \in Keys : TRUE
    /\ rvals = {}

----------------------------------------------------------------------------
(* Writer steps.                                                           *)

\* Every writer step, after its other conjuncts: a running reader sees the index's new membership of
\* its key (ghost).
TrackRead ==
    rvals' = IF rpc = "descend" THEN rvals \cup {rkey \in ChainKeys'} ELSE rvals

\* Mutant: the writer's caller takes no table lock that the reader's excludes.
WriterMayStartNoTableLock ==
    /\ wpc = "idle"
    /\ rootLatch = "free"

\* The writer may begin when root_latch_ is free and, under TableS, no
\* reader holds its table lock.
WriterMayStart ==
    /\ wpc = "idle"
    /\ rootLatch = "free"
    /\ TableS => rpc = "idle"

\* The end of insert_entry: last_leaf_ moves to the split leaf's new
\* sibling if the split leaf was the last one; root_latch_ is released.
FinishInsert ==
    /\ lastLeaf' = IF wleaf = lastLeaf THEN wleafNew ELSE lastLeaf
    /\ rootLatch' = "free"
    /\ wpc' = "idle" /\ wnode' = NoPage /\ wnew' = NoPage
    /\ wleaf' = NoPage /\ wleafNew' = NoPage

\* The end of delete_entry: root_latch_ is released.
FinishDelete ==
    /\ rootLatch' = "free"
    /\ wpc' = "idle" /\ wnode' = NoPage
    /\ UNCHANGED <<wnew, wleaf, wleafNew, lastLeaf>>

\* Mutant: the last_leaf_ test placed after the split branch, so an insert
\* into the last leaf that does not split sets last_leaf_ to the null page.
InsertEntryLastLeafAlways(k) ==
    /\ WriterMayStart
    /\ nops < MaxOps
    /\ nops' = nops + 1
    /\ numPages + Depth(root) + 1 <= MaxPages
    /\ LET L == FindLeaf(k)
       IN /\ ~LeafLookup(keys[L], k)
          /\ keys' = [keys EXCEPT ![L] = NodeInsert(@, k)]
          /\ IF Len(keys'[L]) >= MaxSize
             THEN /\ wpc' = "split" /\ wnode' = L /\ wleaf' = L
                  /\ rootLatch' = "writer"
                  /\ UNCHANGED <<wnew, wleafNew, lastLeaf>>
             ELSE /\ lastLeaf' = IF L = lastLeaf THEN wleafNew ELSE lastLeaf
                  /\ UNCHANGED <<rootLatch, writerVars>>
    /\ UNCHANGED <<kids, isLeaf, parent, prevLeaf, nextLeaf, root, numPages,
                   deleted, rpc, rkey, rnode>>
    /\ TrackRead

\* insert_entry: find the leaf, insert the key in order unless it is there
\* (insert() returns the old size, and insert_entry returns -1 having changed
\* nothing); split if the leaf reached max size.  Guard: enough page numbers
\* are left for a cascade up to a new root.
InsertEntry(k) ==
    /\ WriterMayStart
    /\ nops < MaxOps
    /\ nops' = nops + 1
    /\ numPages + Depth(root) + 1 <= MaxPages
    /\ LET L == FindLeaf(k)
       IN /\ ~LeafLookup(keys[L], k)
          /\ keys' = [keys EXCEPT ![L] = NodeInsert(@, k)]
          /\ IF Len(keys'[L]) >= MaxSize
             THEN /\ wpc' = "split" /\ wnode' = L /\ wleaf' = L
                  /\ rootLatch' = "writer"
                  /\ UNCHANGED <<wnew, wleafNew, lastLeaf>>
             ELSE UNCHANGED <<rootLatch, writerVars, lastLeaf>>
    /\ UNCHANGED <<kids, isLeaf, parent, prevLeaf, nextLeaf, root, numPages,
                   deleted, rpc, rkey, rnode>>
    /\ TrackRead

\* Mutant: split does not repoint the old next leaf's prev_leaf.
SplitNoPrevFix ==
    /\ wpc = "split"
    /\ LET n == wnode
           N == numPages
           pos == Len(keys[n]) \div 2
           moved == IF isLeaf[n] THEN <<>> ELSE SubSeq(kids[n], pos + 1, Len(kids[n]))
       IN /\ numPages' = numPages + 1
          /\ keys' = [keys EXCEPT ![n] = SubSeq(@, 1, pos),
                                  ![N] = SubSeq(keys[n], pos + 1, Len(keys[n]))]
          /\ kids' = [kids EXCEPT ![n] = IF isLeaf[n] THEN @ ELSE SubSeq(@, 1, pos),
                                  ![N] = moved]
          /\ isLeaf' = [isLeaf EXCEPT ![N] = isLeaf[n]]
          /\ parent' = [p \in PageIds |-> IF p = N THEN parent[n]
                                          ELSE IF p \in Range(moved) THEN N
                                          ELSE parent[p]]
          /\ IF isLeaf[n]
             THEN /\ prevLeaf' = [prevLeaf EXCEPT ![N] = n]
                  /\ nextLeaf' = [nextLeaf EXCEPT ![N] = nextLeaf[n], ![n] = N]
                  /\ wleafNew' = N
             ELSE UNCHANGED <<prevLeaf, nextLeaf, wleafNew>>
          /\ wnew' = N
    /\ wpc' = "parent"
    /\ UNCHANGED <<nops, root, lastLeaf, deleted, rootLatch, wnode, wleaf,
                   rpc, rkey, rnode>>
    /\ TrackRead

\* split: a new right sibling takes slots [pos, num_key) with
\* pos = ceil(num_key / 2) in integer arithmetic; a leaf sibling is linked
\* into the leaf list after the node; an internal sibling becomes the parent
\* of the children it took (maintain_child).
Split ==
    /\ wpc = "split"
    /\ LET n == wnode
           N == numPages
           pos == Len(keys[n]) \div 2
           moved == IF isLeaf[n] THEN <<>> ELSE SubSeq(kids[n], pos + 1, Len(kids[n]))
       IN /\ numPages' = numPages + 1
          /\ keys' = [keys EXCEPT ![n] = SubSeq(@, 1, pos),
                                  ![N] = SubSeq(keys[n], pos + 1, Len(keys[n]))]
          /\ kids' = [kids EXCEPT ![n] = IF isLeaf[n] THEN @ ELSE SubSeq(@, 1, pos),
                                  ![N] = moved]
          /\ isLeaf' = [isLeaf EXCEPT ![N] = isLeaf[n]]
          /\ parent' = [p \in PageIds |-> IF p = N THEN parent[n]
                                          ELSE IF p \in Range(moved) THEN N
                                          ELSE parent[p]]
          /\ IF isLeaf[n]
             THEN /\ prevLeaf' = [prevLeaf EXCEPT ![N] = n, ![nextLeaf[n]] = N]
                  /\ nextLeaf' = [nextLeaf EXCEPT ![N] = nextLeaf[n], ![n] = N]
                  /\ wleafNew' = N
             ELSE UNCHANGED <<prevLeaf, nextLeaf, wleafNew>>
          /\ wnew' = N
    /\ wpc' = "parent"
    /\ UNCHANGED <<nops, root, lastLeaf, deleted, rootLatch, wnode, wleaf,
                   rpc, rkey, rnode>>
    /\ TrackRead

\* Mutant: a new root that does not become the old root's parent.
InsertIntoParentNoOldParent ==
    /\ wpc = "parent"
    /\ LET old == wnode
           new == wnew
           key == keys[new][1]
       IN IF old = root
          THEN LET R == numPages
               IN /\ numPages' = numPages + 1
                  /\ keys' = [keys EXCEPT ![R] = <<keys[old][1], key>>]
                  /\ kids' = [kids EXCEPT ![R] = <<old, new>>]
                  /\ isLeaf' = [isLeaf EXCEPT ![R] = FALSE]
                  /\ parent' = [parent EXCEPT ![R] = NoPage, ![new] = R]
                  /\ prevLeaf' = [prevLeaf EXCEPT ![R] = LeafHdr]
                  /\ nextLeaf' = [nextLeaf EXCEPT ![R] = LeafHdr]
                  /\ root' = R
                  /\ FinishInsert
          ELSE LET P == parent[old]
                   i == UpperBound(keys[P], key)
               IN /\ keys' = [keys EXCEPT ![P] = InsertAt(@, i + 1, key)]
                  /\ kids' = [kids EXCEPT ![P] = InsertAt(@, i + 1, new)]
                  /\ parent' = [parent EXCEPT ![new] = P]
                  /\ IF Len(keys'[P]) >= MaxSize
                     THEN /\ wpc' = "split" /\ wnode' = P
                          /\ UNCHANGED <<rootLatch, wnew, wleaf, wleafNew, lastLeaf>>
                     ELSE FinishInsert
                  /\ UNCHANGED <<numPages, isLeaf, prevLeaf, nextLeaf, root>>
    /\ UNCHANGED <<nops, deleted, rpc, rkey, rnode>>
    /\ TrackRead

\* insert_into_parent: a split root gets a new root above the two halves;
\* otherwise the sibling's first key goes into the parent at
\* upper_bound(key), and a parent that reaches max size is split in turn.
InsertIntoParent ==
    /\ wpc = "parent"
    /\ LET old == wnode
           new == wnew
           key == keys[new][1]
       IN IF old = root
          THEN LET R == numPages
               IN /\ numPages' = numPages + 1
                  /\ keys' = [keys EXCEPT ![R] = <<keys[old][1], key>>]
                  /\ kids' = [kids EXCEPT ![R] = <<old, new>>]
                  /\ isLeaf' = [isLeaf EXCEPT ![R] = FALSE]
                  /\ parent' = [parent EXCEPT ![R] = NoPage, ![old] = R, ![new] = R]
                  /\ prevLeaf' = [prevLeaf EXCEPT ![R] = LeafHdr]
                  /\ nextLeaf' = [nextLeaf EXCEPT ![R] = LeafHdr]
                  /\ root' = R
                  /\ FinishInsert
          ELSE LET P == parent[old]
                   i == UpperBound(keys[P], key)
               IN /\ keys' = [keys EXCEPT ![P] = InsertAt(@, i + 1, key)]
                  /\ kids' = [kids EXCEPT ![P] = InsertAt(@, i + 1, new)]
                  /\ parent' = [parent EXCEPT ![new] = P]
                  /\ IF Len(keys'[P]) >= MaxSize
                     THEN /\ wpc' = "split" /\ wnode' = P
                          /\ UNCHANGED <<rootLatch, wnew, wleaf, wleafNew, lastLeaf>>
                     ELSE FinishInsert
                  /\ UNCHANGED <<numPages, isLeaf, prevLeaf, nextLeaf, root>>
    /\ UNCHANGED <<nops, deleted, rpc, rkey, rnode>>
    /\ TrackRead

\* delete_entry: find the leaf and remove the key if it is there (remove()
\* returns the old size otherwise, and delete_entry returns false having
\* changed nothing), then coalesce_or_redistribute the leaf.
DeleteEntry(k) ==
    /\ WriterMayStart
    /\ nops < MaxOps
    /\ nops' = nops + 1
    /\ LET L == FindLeaf(k)
       IN /\ LeafLookup(keys[L], k)
          /\ keys' = [keys EXCEPT ![L] = NodeRemove(@, k)]
          /\ wnode' = L
    /\ wpc' = "cor"
    /\ rootLatch' = "writer"
    /\ UNCHANGED <<kids, isLeaf, parent, prevLeaf, nextLeaf, root, lastLeaf,
                   numPages, deleted, wnew, wleaf, wleafNew, rpc, rkey, rnode>>
    /\ TrackRead

\* coalesce_or_redistribute on the root (is_root_page: no parent):
\* adjust_root makes the only child of an internal root the new root and
\* hands the old root to delete_page; an empty leaf root stays.
AdjustRoot ==
    /\ wpc = "cor"
    /\ parent[wnode] = NoPage
    /\ IF ~isLeaf[wnode] /\ Len(keys[wnode]) = 1
       THEN /\ root' = kids[wnode][1]
            /\ parent' = [parent EXCEPT ![kids[wnode][1]] = NoPage]
            /\ deleted' = deleted \cup {wnode}
       ELSE UNCHANGED <<root, parent, deleted>>
    /\ FinishDelete
    /\ UNCHANGED <<nops, keys, kids, isLeaf, prevLeaf, nextLeaf, numPages, wnew,
                   rpc, rkey, rnode>>
    /\ TrackRead

\* Mutant: the half-full test of coalesce_or_redistribute off by one.
MaintainOnlyOffByOne ==
    /\ wpc = "cor"
    /\ parent[wnode] # NoPage
    /\ Len(keys[wnode]) + 1 >= MinSize
    /\ keys' = MaintainParent(keys, wnode)
    /\ FinishDelete
    /\ UNCHANGED <<nops, kids, isLeaf, parent, prevLeaf, nextLeaf, root, numPages,
                   deleted, wnew, rpc, rkey, rnode>>
    /\ TrackRead

\* coalesce_or_redistribute on a non-root node still at least half full:
\* maintain_parent.
MaintainOnly ==
    /\ wpc = "cor"
    /\ parent[wnode] # NoPage
    /\ Len(keys[wnode]) >= MinSize
    /\ keys' = MaintainParent(keys, wnode)
    /\ FinishDelete
    /\ UNCHANGED <<nops, kids, isLeaf, parent, prevLeaf, nextLeaf, root, numPages,
                   deleted, wnew, rpc, rkey, rnode>>
    /\ TrackRead

\* The parent, the node's slot in it, and the neighbour
\* coalesce_or_redistribute picks: the right one for slot 0, else the left.
CorParent == parent[wnode]
CorIndex == FindChild(CorParent, wnode)
CorNeighbor == kids[CorParent][IF CorIndex = 0 THEN 2 ELSE CorIndex]

\* redistribute: move one entry from the neighbour to the node and fix the
\* parent's key for the right one of the two.
Redistribute ==
    /\ wpc = "cor"
    /\ parent[wnode] # NoPage
    /\ Len(keys[wnode]) < MinSize
    /\ Len(keys[wnode]) + Len(keys[CorNeighbor]) >= 2 * MinSize
    /\ LET n == wnode
           nb == CorNeighbor
           P == CorParent
           i == CorIndex
       IN IF i = 0
          THEN \* node(left) neighbour(right): the neighbour's first entry
               LET movedKey == IF isLeaf[n] THEN keys[nb][1] ELSE keys[P][2]
                   nbKeys == Tail(keys[nb])
               IN /\ keys' = [keys EXCEPT ![n] = Append(@, movedKey),
                                          ![nb] = nbKeys,
                                          ![P] = [@ EXCEPT ![2] = nbKeys[1]]]
                  /\ IF isLeaf[n] THEN UNCHANGED <<kids, parent>>
                     ELSE /\ kids' = [kids EXCEPT ![n] = Append(@, kids[nb][1]),
                                                  ![nb] = Tail(@)]
                          /\ parent' = [parent EXCEPT ![kids[nb][1]] = n]
          ELSE \* neighbour(left) node(right): the neighbour's last entry
               LET nKeys == <<Last(keys[nb])>> \o
                              (IF isLeaf[n] THEN keys[n]
                               ELSE [keys[n] EXCEPT ![1] = keys[P][i + 1]])
               IN /\ keys' = [keys EXCEPT ![n] = nKeys,
                                          ![nb] = Front(@),
                                          ![P] = [@ EXCEPT ![i + 1] = nKeys[1]]]
                  /\ IF isLeaf[n] THEN UNCHANGED <<kids, parent>>
                     ELSE /\ kids' = [kids EXCEPT ![n] = <<Last(kids[nb])>> \o @,
                                                  ![nb] = Front(@)]
                          /\ parent' = [parent EXCEPT ![Last(kids[nb])] = n]
    /\ FinishDelete
    /\ UNCHANGED <<nops, isLeaf, prevLeaf, nextLeaf, root, numPages, deleted, wnew,
                   rpc, rkey, rnode>>
    /\ TrackRead

\* Mutant: coalesce moves one entry too few (insert_pairs with n - 1).
CoalesceDropLast ==
    /\ wpc = "cor"
    /\ parent[wnode] # NoPage
    /\ Len(keys[wnode]) < MinSize
    /\ Len(keys[wnode]) + Len(keys[CorNeighbor]) < 2 * MinSize
    /\ LET P == CorParent
           left == IF CorIndex = 0 THEN wnode ELSE CorNeighbor
           right == IF CorIndex = 0 THEN CorNeighbor ELSE wnode
           idx == IF CorIndex = 0 THEN 1 ELSE CorIndex
           rightKeys == IF isLeaf[right] THEN keys[right]
                        ELSE [keys[right] EXCEPT ![1] = keys[P][idx + 1]]
           merged == [keys EXCEPT ![left] = @ \o Front(rightKeys)]
           maintained == IF isLeaf[right] THEN MaintainParent(merged, left)
                         ELSE merged
       IN /\ keys' = [maintained EXCEPT ![P] = RemoveAt(@, idx + 1)]
          /\ kids' = [kids EXCEPT ![left] = @ \o kids[right],
                                  ![P] = RemoveAt(@, idx + 1)]
          /\ parent' = [p \in PageIds |-> IF p \in Range(kids[right]) THEN left
                                          ELSE parent[p]]
          /\ IF isLeaf[right]
             THEN /\ lastLeaf' = IF right = lastLeaf THEN left ELSE lastLeaf
                  /\ nextLeaf' = [nextLeaf EXCEPT ![prevLeaf[right]] = nextLeaf[right]]
                  /\ prevLeaf' = [prevLeaf EXCEPT ![nextLeaf[right]] = prevLeaf[right]]
             ELSE UNCHANGED <<lastLeaf, nextLeaf, prevLeaf>>
          /\ deleted' = deleted \cup {right}
          /\ IF Len(keys'[P]) < MinSize
             THEN /\ wnode' = P
                  /\ UNCHANGED <<rootLatch, wpc>>
             ELSE /\ rootLatch' = "free"
                  /\ wpc' = "idle" /\ wnode' = NoPage
    /\ UNCHANGED <<nops, isLeaf, root, numPages, wnew, wleaf, wleafNew,
                   rpc, rkey, rnode>>
    /\ TrackRead

\* coalesce: merge the right one of node and neighbour into the left one,
\* unlink a merged leaf from the leaf list (erase_leaf) and move last_leaf_
\* off it, run maintain_parent on a merged leaf, adopt an internal node's
\* children (maintain_child), erase the right one's slot from the parent,
\* and go on with the parent if it is now below half full.
Coalesce ==
    /\ wpc = "cor"
    /\ parent[wnode] # NoPage
    /\ Len(keys[wnode]) < MinSize
    /\ Len(keys[wnode]) + Len(keys[CorNeighbor]) < 2 * MinSize
    /\ LET P == CorParent
           left == IF CorIndex = 0 THEN wnode ELSE CorNeighbor
           right == IF CorIndex = 0 THEN CorNeighbor ELSE wnode
           idx == IF CorIndex = 0 THEN 1 ELSE CorIndex
           rightKeys == IF isLeaf[right] THEN keys[right]
                        ELSE [keys[right] EXCEPT ![1] = keys[P][idx + 1]]
           merged == [keys EXCEPT ![left] = @ \o rightKeys]
           maintained == IF isLeaf[right] THEN MaintainParent(merged, left)
                         ELSE merged
       IN /\ keys' = [maintained EXCEPT ![P] = RemoveAt(@, idx + 1)]
          /\ kids' = [kids EXCEPT ![left] = @ \o kids[right],
                                  ![P] = RemoveAt(@, idx + 1)]
          /\ parent' = [p \in PageIds |-> IF p \in Range(kids[right]) THEN left
                                          ELSE parent[p]]
          /\ IF isLeaf[right]
             THEN /\ lastLeaf' = IF right = lastLeaf THEN left ELSE lastLeaf
                  /\ nextLeaf' = [nextLeaf EXCEPT ![prevLeaf[right]] = nextLeaf[right]]
                  /\ prevLeaf' = [prevLeaf EXCEPT ![nextLeaf[right]] = prevLeaf[right]]
             ELSE UNCHANGED <<lastLeaf, nextLeaf, prevLeaf>>
          /\ deleted' = deleted \cup {right}
          /\ IF Len(keys'[P]) < MinSize
             THEN /\ wnode' = P
                  /\ UNCHANGED <<rootLatch, wpc>>
             ELSE /\ rootLatch' = "free"
                  /\ wpc' = "idle" /\ wnode' = NoPage
    /\ UNCHANGED <<nops, isLeaf, root, numPages, wnew, wleaf, wleafNew,
                   rpc, rkey, rnode>>
    /\ TrackRead

----------------------------------------------------------------------------
(* Reader steps: get_value.                                                *)

\* The reader may begin when root_latch_ is free and, under TableS, no
\* writer holds its table lock.
ReaderMayStart ==
    /\ rpc = "idle"
    /\ rootLatch = "free"
    /\ TableS => wpc = "idle"

\* find_leaf_page(FIND): take root_latch_, read the root page number.
GetValue(k) ==
    /\ ReaderMayStart
    /\ rpc' = "descend"
    /\ rkey' = k
    /\ rnode' = root
    /\ rootLatch' = "reader"
    /\ rvals' = {k \in ChainKeys}
    /\ UNCHANGED <<nops, treeVars, writerVars>>

\* One level down by internal_lookup; root_latch_ is released when the
\* node left behind is the root page.
ReaderStep ==
    /\ rpc = "descend"
    /\ ~isLeaf[rnode]
    /\ rnode' = InternalLookup(rnode, rkey)
    /\ rootLatch' = IF rootLatch = "reader" /\ parent[rnode] = NoPage
                    THEN "free" ELSE rootLatch
    /\ UNCHANGED <<nops, treeVars, writerVars, rpc, rkey, rvals>>

\* At the leaf: leaf_lookup gives the answer; get_value releases
\* root_latch_ if it still holds it.
ReaderEnd ==
    /\ rpc = "descend"
    /\ isLeaf[rnode]
    /\ rpc' = "idle"
    /\ rnode' = NoPage
    /\ rvals' = {}
    /\ rootLatch' = IF rootLatch = "reader" THEN "free" ELSE rootLatch
    /\ UNCHANGED <<nops, treeVars, writerVars, rkey>>

----------------------------------------------------------------------------
Next ==
    \/ \E k \in Keys : InsertEntry(k) \/ DeleteEntry(k)
    \/ \E k \in ReadKeys : GetValue(k)
    \/ Split \/ InsertIntoParent
    \/ AdjustRoot \/ MaintainOnly \/ Redistribute \/ Coalesce
    \/ ReaderStep \/ ReaderEnd

Spec == Init /\ [][Next]_vars

----------------------------------------------------------------------------
(* Properties.  The structural ones are stated for states where no writer *)
(* operation is half done.                                                 *)

WriterPCs == {"idle", "split", "parent", "cor"}

TypeOK ==
    /\ keys \in [PageIds -> Seq(Keys)]
    /\ kids \in [PageIds -> Seq(PageIds)]
    /\ isLeaf \in [PageIds -> BOOLEAN]
    /\ parent \in [PageIds -> PageIds \cup {NoPage}]
    /\ prevLeaf \in [PageIds -> PageIds \cup {NoPage}]
    /\ nextLeaf \in [PageIds -> PageIds \cup {NoPage}]
    /\ {root, lastLeaf} \subseteq PageIds
    /\ numPages \in 3 .. MaxPages
    /\ deleted \subseteq PageIds
    /\ rootLatch \in {"free", "writer", "reader"}
    /\ wpc \in WriterPCs
    /\ {wnode, wnew, wleaf, wleafNew} \subseteq PageIds \cup {NoPage}
    /\ rpc \in {"idle", "descend"}
    /\ rkey \in Keys
    /\ rnode \in PageIds \cup {NoPage}
    /\ rvals \subseteq BOOLEAN
    /\ nops \in 0 .. MaxOps

\* Search is exact: for every key, the leaf find_leaf_page routes it to by
\* upper_bound in each internal node holds it (by leaf_lookup) exactly when
\* it is in the leaf list.  Stale separators left by redistribute, by
\* inserts below an internal node's first key, and by maintain_parent's
\* early stop must never send a key to the wrong leaf.
SearchCorrect ==
    wpc = "idle" =>
        \A k \in Keys : LeafLookup(keys[FindLeaf(k)], k) <=> k \in ChainKeys

\* The leaf list (next_leaf from the header page) visits exactly the
\* tree's leaves, left to right, with keys strictly increasing across it;
\* prev_leaf links mirror next_leaf; last_leaf_ is the last leaf and the
\* header page's prev_leaf.  split, erase_leaf and the last_leaf_ updates of
\* insert_entry and coalesce keep these together.
LeafChainInOrder ==
    wpc = "idle" =>
        LET ch == LeafChain
        IN /\ ch = LeavesUnder(root)
           /\ IsSorted(FlattenSeq([i \in DOMAIN ch |-> keys[ch[i]]]), <)
           /\ \A i \in DOMAIN ch :
                  prevLeaf[ch[i]] = IF i = 1 THEN LeafHdr ELSE ch[i - 1]
           /\ lastLeaf = Last(ch)
           /\ prevLeaf[LeafHdr] = lastLeaf

\* Every child's parent page number names the node that holds it, the root
\* has none, and no node of the tree is a page a merge handed to
\* delete_page.  split (maintain_child), insert_into_parent, redistribute,
\* coalesce and adjust_root each rewrite parent numbers of moved children.
ParentLinksConsistent ==
    wpc = "idle" =>
        /\ parent[root] = NoPage
        /\ Reachable \cap deleted = {}
        /\ \A n \in Reachable :
               /\ ~isLeaf[n] => Len(kids[n]) = Len(keys[n])
               /\ \A j \in DOMAIN kids[n] : parent[kids[n][j]] = n

\* Balance and occupancy: all leaves are at one depth, every non-root node
\* holds between ceil(max/2) and max-1 keys, and an internal root has at
\* least two children.  The split position and the redistribute/coalesce
\* threshold of coalesce_or_redistribute decide this.
NodesHalfFull ==
    wpc = "idle" =>
        /\ \A n \in Reachable \ {root} :
               MinSize <= Len(keys[n]) /\ Len(keys[n]) <= MaxSize - 1
        /\ ~isLeaf[root] => Len(keys[root]) >= 2
        /\ \A n \in Reachable : isLeaf[n] =>
               Depth(root) = Cardinality({m \in Reachable : n \in Subtree(m)})

\* The tree implements the abstract unique index: the keys of the leaf list
\* change only in the step of an insert_entry or delete_entry call, by the
\* one key it adds or removes; no step of a split or merge cascade loses or
\* duplicates a key.
IS == INSTANCE IndexSet WITH contents <- ChainKeys, calls <- nops, Initials <- {KeysOf(st) : st \in Starts}

ImplementsIndexSet == IS!Spec

\* get_value is linearizable: the answer it returns is whether its key was
\* in the index at some moment while it ran.  A writer that changes a node
\* between the reader's internal_lookup and its visit breaks this.
GetValueLinearizable ==
    [][(rpc = "descend" /\ rpc' = "idle") => LeafLookup(keys[rnode], rkey) \in rvals]_vars

====
