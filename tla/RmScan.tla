------------------------------- MODULE RmScan -------------------------------
(***************************************************************************)
(* RmScan of src/src/record/rm_scan.cpp: the iterator SeqScanExecutor      *)
(* walks a heap file with.  Page 0 is the file header; pages 1 ..         *)
(* NumPages-1 hold RecordsPerPage slots each, and a page's bitmap is the   *)
(* set of its used slots.                                                  *)
(*                                                                         *)
(* The scan keeps rid_ and cur_page_hanle_, the handle of the page it      *)
(* fetched last.  A page fetched and found empty is unpinned at once; the *)
(* page a record was found on stays pinned until next() leaves it, so      *)
(* SeqScanExecutor::Next reads the record from cur_page_hanle_ without a   *)
(* fetch of its own.  The state of a scan is the record [rid, cur, pins]: *)
(* rid_, the page of cur_page_hanle_ (0 before any assignment), and the    *)
(* pins the scan holds, per page.  Bitmap::first_bit and next_bit are not  *)
(* in the repository; they are modelled from their use here: the first    *)
(* used slot (after a slot), or RecordsPerPage when there is none.         *)
(***************************************************************************)
EXTENDS Naturals, Integers, Sequences, FiniteSets

CONSTANTS
    NumPages,        \* file_hdr_.num_pages, header page included
    RecordsPerPage   \* file_hdr_.num_records_per_page

DataPages == 1 .. NumPages - 1
Slots     == 0 .. RecordsPerPage - 1

\* rid_ at the end of the file: {-1, -1}.
EndRid == [page |-> -1, slot |-> -1]

NoPins == [p \in DataPages |-> 0]

Fetch(pins, p) == [pins EXCEPT ![p] = @ + 1]
Unpin(pins, p) == [pins EXCEPT ![p] = @ - 1]

\* Bitmap::first_bit(1, bitmap, n): the lowest used slot, or n.
FirstBit(used) ==
    IF used = {} THEN RecordsPerPage ELSE CHOOSE s \in used : \A x \in used : s <= x

\* Mutant: next_bit searching from slot s itself, not after it.
NextBitFrom(used, s) == FirstBit({x \in used : x >= s})

\* Bitmap::next_bit(1, bitmap, n, s): the lowest used slot after s, or n.
NextBit(used, s) == FirstBit({x \in used : x > s})

(***************************************************************************)
(* The page loop of the constructor and of next(): fetch page p, take its *)
(* first used slot; if there is none, unpin it and go on to p+1.  Past    *)
(* the last page rid_ becomes {-1, -1} and cur_page_hanle_ keeps its old  *)
(* value.  bm[p] is the bitmap of page p.                                 *)
(***************************************************************************)
RECURSIVE FetchFrom(_, _, _, _)
FetchFrom(bm, p, cur, pins) ==
    IF p >= NumPages THEN [rid |-> EndRid, cur |-> cur, pins |-> pins]
    ELSE LET s == FirstBit(bm[p])
         IN IF s # RecordsPerPage
            THEN [rid |-> [page |-> p, slot |-> s], cur |-> p, pins |-> Fetch(pins, p)]
            ELSE FetchFrom(bm, p + 1, cur, Unpin(Fetch(pins, p), p))

\* RmScan::RmScan: no data page means the end at once; otherwise the loop
\* from page 1 (a do-while, whose first pass always runs).
RmScanInit(bm) ==
    IF NumPages <= 1 THEN [rid |-> EndRid, cur |-> 0, pins |-> NoPins]
    ELSE FetchFrom(bm, 1, 0, NoPins)

\* Mutant: next() without the closing cur_page_hanle_ = page_handle.
RmScanNextKeepHandle(bm, sc) ==
    LET s == NextBit(bm[sc.cur], sc.rid.slot)
    IN IF s # RecordsPerPage THEN [sc EXCEPT !.rid = [page |-> sc.rid.page, slot |-> s]]
       ELSE LET r == FetchFrom(bm, sc.rid.page + 1, sc.cur, Unpin(sc.pins, sc.rid.page))
            IN [r EXCEPT !.cur = sc.cur]

\* RmScan::next: the next used slot of cur_page_hanle_'s bitmap after
\* rid_.slot_no; at the page's end, unpin page rid_.page_no and run the
\* page loop from the page after it.
RmScanNext(bm, sc) ==
    LET s == NextBit(bm[sc.cur], sc.rid.slot)
    IN IF s # RecordsPerPage THEN [sc EXCEPT !.rid = [page |-> sc.rid.page, slot |-> s]]
       ELSE FetchFrom(bm, sc.rid.page + 1, sc.cur, Unpin(sc.pins, sc.rid.page))

\* RmScan::is_end.
RmScanIsEnd(sc) == sc.rid.page < 0 \/ sc.rid.slot < 0

\* The scan states from sc on, up to and including the first at the end;
\* fuel bounds the walk by the number of slots of the file.
RECURSIVE RmScanFrom(_, _, _)
RmScanFrom(bm, sc, fuel) ==
    IF RmScanIsEnd(sc) \/ fuel = 0 THEN <<sc>>
    ELSE <<sc>> \o RmScanFrom(bm, RmScanNext(bm, sc), fuel - 1)

\* Every state of a scan of the file from the constructor on.
RmScanStates(bm) ==
    RmScanFrom(bm, RmScanInit(bm), Cardinality(DataPages) * RecordsPerPage + 1)

====
