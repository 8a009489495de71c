------------------------------ MODULE BufferPool ------------------------------
(***************************************************************************)
(* BufferPoolManager of src/storage/buffer_pool_manager.cpp, called by     *)
(* concurrent threads.                                                     *)
(*                                                                         *)
(* One global latch_ guards page_table_, free_list_ and the replacer; a    *)
(* latch per frame (pagelatch_) guards the frame's page id, pin count and  *)
(* dirty flag.  Every call takes latch_ first and then the frame latch,    *)
(* so a thread can wait for a frame latch while holding latch_.  The page  *)
(* table is cleaned lazily: an eviction leaves the old page's entry in     *)
(* place, and a later lookup that finds the frame holding another page     *)
(* erases the entry (and fetch_page retries).                              *)
(*                                                                         *)
(* Page bytes and disk I/O are not modelled: a dirty victim's write-back   *)
(* and the read of the new page happen under the frame latch, where no     *)
(* other thread can look at the frame.                                     *)
(***************************************************************************)
EXTENDS Naturals, Sequences, FiniteSets, SequencesExt

CONSTANTS
    Threads,    \* threads calling the buffer pool
    Frames,     \* the pool's frames (pool_size_)
    InitPages,  \* page numbers on disk at the start
    NewPages,   \* page numbers allocate_page hands out, in order
    MaxCalls,   \* the calls a thread makes, at most
    Ops         \* the calls threads make: a subset of CallKinds

CallKinds == {"fetch", "unpin", "flush", "new", "delete"}

ASSUME /\ Ops \subseteq CallKinds
       /\ IsInjective(NewPages) /\ Range(NewPages) \cap InitPages = {}

Pages   == InitPages \cup Range(NewPages)
NoFrame == "noframe"
NoPage  == "nopage"
Nobody  == "nobody"

PCs == {"idle", "fetch_hit", "fetch_miss", "fetch_io", "fetch_retry",
        "unpin", "flush", "flush_io", "new_latch", "new_io",
        "delete", "delete_io"}

VARIABLES
    pageTable,  \* page_table_: page -> frame, possibly stale
    fid,        \* fid[f]: pages_[f].id_
    pin,        \* pin[f]: pages_[f].pin_count_
    dirty,      \* dirty[f]: pages_[f].is_dirty_
    freeList,   \* free_list_
    lru,        \* the replacer's list of evictable frames, oldest first
    glatch,     \* the holder of latch_, or Nobody
    flatch,     \* flatch[f]: the holder of pagelatch_[f], or Nobody
    nextNew,    \* allocate_page: the next index into NewPages
    live,       \* pages the callers may still fetch (not given to delete_page)
    tpc,        \* tpc[th]: where thread th is inside a call
    tpage,      \* the page of th's call
    tframe,     \* the frame th's call works on
    tdirty,     \* the is_dirty argument of th's unpin_page
    pinned,     \* pinned[th]: pages th fetched and has not unpinned
    ncalls      \* calls th has made

vars == <<pageTable, fid, pin, dirty, freeList, lru, glatch, flatch, nextNew,
          live, tpc, tpage, tframe, tdirty, pinned, ncalls>>

TypeOK ==
    /\ pageTable \in [Pages -> Frames \cup {NoFrame}]
    /\ fid \in [Frames -> Pages \cup {NoPage}]
    /\ pin \in [Frames -> 0..Cardinality(Threads)]
    /\ dirty \in [Frames -> BOOLEAN]
    /\ freeList \in Seq(Frames) /\ lru \in Seq(Frames)
    /\ glatch \in Threads \cup {Nobody}
    /\ flatch \in [Frames -> Threads \cup {Nobody}]
    /\ nextNew \in 1..Len(NewPages) + 1
    /\ live \subseteq Pages
    /\ tpc \in [Threads -> PCs]
    /\ tpage \in [Threads -> Pages \cup {NoPage}]
    /\ tframe \in [Threads -> Frames \cup {NoFrame}]
    /\ tdirty \in [Threads -> BOOLEAN]
    /\ pinned \in [Threads -> SUBSET Pages]
    /\ ncalls \in [Threads -> 0..MaxCalls]

----
(* LRUReplacer (not in src/; as spec.md describes it): victim takes the    *)
(* frame unpinned longest ago, pin removes a frame, unpin appends it once. *)
----

ReplacerPin(l, f)   == Remove(l, f)
ReplacerUnpin(l, f) == IF f \in Range(l) THEN l ELSE Append(l, f)

\* find_victim_page: the front of free_list_, else the replacer's victim.
\* The result is <<frame, free list', replacer list'>>, frame NoFrame when
\* both are empty.
find_victim_page ==
    IF freeList # <<>> THEN <<Head(freeList), Tail(freeList), lru>>
    ELSE IF lru # <<>> THEN <<Head(lru), freeList, Tail(lru)>>
    ELSE <<NoFrame, freeList, lru>>

----
(* Call entry and return                                                   *)
----

\* A thread starts a call between two calls: it takes latch_.
Start(th, k) ==
    /\ tpc[th] = "idle"
    /\ k \in Ops
    /\ ncalls[th] < MaxCalls
    /\ glatch = Nobody
    /\ ncalls' = [ncalls EXCEPT ![th] = @ + 1]

\* Return from a call: both latches released, thread idle.
Return(th) ==
    /\ tpc' = [tpc EXCEPT ![th] = "idle"]
    /\ tframe' = [tframe EXCEPT ![th] = NoFrame]
    /\ tpage' = [tpage EXCEPT ![th] = NoPage]

----
(* fetch_page                                                              *)
----

\* Under latch_: look page p up in page_table_; on a miss take a victim
\* frame, and with none throw BufferpoolFullError (latch_ is released by
\* the unique_lock).  Entered by a new call, or by the recursive call after
\* a stale entry was erased.
FetchLookup(th, p) ==
    /\ \/ Start(th, "fetch") /\ p \in live \ pinned[th]
       \/ tpc[th] = "fetch_retry" /\ tpage[th] = p /\ glatch = Nobody
          /\ UNCHANGED ncalls
    /\ IF pageTable[p] # NoFrame
         THEN /\ glatch' = th
              /\ tpc' = [tpc EXCEPT ![th] = "fetch_hit"]
              /\ tframe' = [tframe EXCEPT ![th] = pageTable[p]]
              /\ tpage' = [tpage EXCEPT ![th] = p]
              /\ UNCHANGED <<freeList, lru>>
         ELSE LET v == find_victim_page IN
              IF v[1] = NoFrame
                THEN /\ Return(th)
                     /\ UNCHANGED <<glatch, freeList, lru>>
                ELSE /\ glatch' = th
                     /\ tpc' = [tpc EXCEPT ![th] = "fetch_miss"]
                     /\ tframe' = [tframe EXCEPT ![th] = v[1]]
                     /\ tpage' = [tpage EXCEPT ![th] = p]
                     /\ freeList' = v[2]
                     /\ lru' = v[3]
    /\ UNCHANGED <<pageTable, fid, pin, dirty, flatch, nextNew, live, tdirty,
                   pinned>>

\* Faulty variant of FetchHit: a stale entry is not erased before the retry.
FetchHitNoErase(th) ==
    LET f == tframe[th]
        p == tpage[th]
    IN
    /\ tpc[th] = "fetch_hit"
    /\ flatch[f] = Nobody
    /\ glatch' = Nobody
    /\ IF fid[f] # p
         THEN /\ tpc' = [tpc EXCEPT ![th] = "fetch_retry"]
              /\ UNCHANGED <<pageTable, lru, pin, pinned, tpage, tframe>>
         ELSE /\ lru' = ReplacerPin(lru, f)
              /\ pin' = [pin EXCEPT ![f] = @ + 1]
              /\ pinned' = [pinned EXCEPT ![th] = @ \cup {p}]
              /\ Return(th)
              /\ UNCHANGED pageTable
    /\ UNCHANGED <<fid, dirty, freeList, flatch, nextNew, live, tdirty, ncalls>>

\* Faulty variant of FetchHit: pin_count_++ before the page id is checked.
FetchHitPinFirst(th) ==
    LET f == tframe[th]
        p == tpage[th]
    IN
    /\ tpc[th] = "fetch_hit"
    /\ flatch[f] = Nobody
    /\ glatch' = Nobody
    /\ pin' = [pin EXCEPT ![f] = @ + 1]
    /\ IF fid[f] # p
         THEN /\ pageTable' = [pageTable EXCEPT ![p] = NoFrame]
              /\ tpc' = [tpc EXCEPT ![th] = "fetch_retry"]
              /\ UNCHANGED <<lru, pinned, tpage, tframe>>
         ELSE /\ lru' = ReplacerPin(lru, f)
              /\ pinned' = [pinned EXCEPT ![th] = @ \cup {p}]
              /\ Return(th)
              /\ UNCHANGED pageTable
    /\ UNCHANGED <<fid, dirty, freeList, flatch, nextNew, live, tdirty, ncalls>>

\* Hit: lock the frame latch (holding latch_) and check the frame still
\* holds p.  If not, erase the entry, unlock both and call fetch_page
\* again; else replacer_->pin, unlock latch_, pin_count_++, unlock frame.
FetchHit(th) ==
    LET f == tframe[th]
        p == tpage[th]
    IN
    /\ tpc[th] = "fetch_hit"
    /\ flatch[f] = Nobody
    /\ glatch' = Nobody
    /\ IF fid[f] # p
         THEN /\ pageTable' = [pageTable EXCEPT ![p] = NoFrame]
              /\ tpc' = [tpc EXCEPT ![th] = "fetch_retry"]
              /\ UNCHANGED <<lru, pin, pinned, tpage, tframe>>
         ELSE /\ lru' = ReplacerPin(lru, f)
              /\ pin' = [pin EXCEPT ![f] = @ + 1]
              /\ pinned' = [pinned EXCEPT ![th] = @ \cup {p}]
              /\ Return(th)
              /\ UNCHANGED pageTable
    /\ UNCHANGED <<fid, dirty, freeList, flatch, nextNew, live, tdirty, ncalls>>

\* Faulty variant of FetchMissLatch: page_table_ is not updated.
FetchMissLatchNoTable(th) ==
    /\ tpc[th] = "fetch_miss"
    /\ flatch[tframe[th]] = Nobody
    /\ flatch' = [flatch EXCEPT ![tframe[th]] = th]
    /\ glatch' = Nobody
    /\ tpc' = [tpc EXCEPT ![th] = "fetch_io"]
    /\ UNCHANGED <<pageTable, fid, pin, dirty, freeList, lru, nextNew, live,
                   tpage, tframe, tdirty, pinned, ncalls>>

\* Miss: lock the victim's frame latch (holding latch_), point
\* page_table_ at it, unlock latch_.  The old page's entry stays.
FetchMissLatch(th) ==
    /\ tpc[th] = "fetch_miss"
    /\ flatch[tframe[th]] = Nobody
    /\ flatch' = [flatch EXCEPT ![tframe[th]] = th]
    /\ pageTable' = [pageTable EXCEPT ![tpage[th]] = tframe[th]]
    /\ glatch' = Nobody
    /\ tpc' = [tpc EXCEPT ![th] = "fetch_io"]
    /\ UNCHANGED <<fid, pin, dirty, freeList, lru, nextNew, live, tpage,
                   tframe, tdirty, pinned, ncalls>>

\* Under the frame latch only: update_page (write back a dirty victim,
\* id_ = new page, is_dirty_ = false, pin_count_ = 0), read_page,
\* pin_count_++, unlock the frame.
FetchMissIO(th) ==
    LET f == tframe[th] IN
    /\ tpc[th] = "fetch_io"
    /\ fid' = [fid EXCEPT ![f] = tpage[th]]
    /\ dirty' = [dirty EXCEPT ![f] = FALSE]
    /\ pin' = [pin EXCEPT ![f] = 0 + 1]
    /\ flatch' = [flatch EXCEPT ![f] = Nobody]
    /\ pinned' = [pinned EXCEPT ![th] = @ \cup {tpage[th]}]
    /\ Return(th)
    /\ UNCHANGED <<pageTable, freeList, lru, glatch, nextNew, live, tdirty,
                   ncalls>>

----
(* unpin_page, flush_page                                                  *)
----

\* Under latch_: a page missing from page_table_ returns false.  The
\* caller's pin is gone either way.
UnpinLookup(th, p, d) ==
    /\ Start(th, "unpin")
    /\ p \in pinned[th]
    /\ IF pageTable[p] = NoFrame
         THEN /\ pinned' = [pinned EXCEPT ![th] = @ \ {p}]
              /\ Return(th)
              /\ UNCHANGED <<glatch, tdirty>>
         ELSE /\ glatch' = th
              /\ tpc' = [tpc EXCEPT ![th] = "unpin"]
              /\ tpage' = [tpage EXCEPT ![th] = p]
              /\ tframe' = [tframe EXCEPT ![th] = pageTable[p]]
              /\ tdirty' = [tdirty EXCEPT ![th] = d]
              /\ UNCHANGED pinned
    /\ UNCHANGED <<pageTable, fid, pin, dirty, freeList, lru, flatch, nextNew,
                   live>>

\* Lock the frame latch (holding latch_).  A frame holding another page:
\* erase the entry, false.  pin_count_ 0: false.  Else pin_count_--, at 0
\* replacer_->unpin; is_dirty_ is sticky.  Both latches are released.
UnpinFrame(th) ==
    LET f == tframe[th]
        p == tpage[th]
    IN
    /\ tpc[th] = "unpin"
    /\ flatch[f] = Nobody
    /\ \/ fid[f] # p /\ pageTable' = [pageTable EXCEPT ![p] = NoFrame]
          /\ UNCHANGED <<pin, lru, dirty>>
       \/ fid[f] = p /\ pin[f] = 0 /\ UNCHANGED <<pageTable, pin, lru, dirty>>
       \/ /\ fid[f] = p /\ pin[f] > 0
          /\ pin' = [pin EXCEPT ![f] = @ - 1]
          /\ lru' = IF pin[f] = 1 THEN ReplacerUnpin(lru, f) ELSE lru
          /\ dirty' = [dirty EXCEPT ![f] = @ \/ tdirty[th]]
          /\ UNCHANGED pageTable
    /\ pinned' = [pinned EXCEPT ![th] = @ \ {p}]
    /\ glatch' = Nobody
    /\ Return(th)
    /\ UNCHANGED <<fid, freeList, flatch, nextNew, live, tdirty, ncalls>>

\* flush_page under latch_: a page missing from page_table_ returns false.
\* (flush_all_pages passes the page id of every frame of a file.)
FlushLookup(th, p) ==
    /\ Start(th, "flush")
    /\ IF pageTable[p] = NoFrame
         THEN Return(th) /\ UNCHANGED glatch
         ELSE /\ glatch' = th
              /\ tpc' = [tpc EXCEPT ![th] = "flush"]
              /\ tpage' = [tpage EXCEPT ![th] = p]
              /\ tframe' = [tframe EXCEPT ![th] = pageTable[p]]
    /\ UNCHANGED <<pageTable, fid, pin, dirty, freeList, lru, flatch, nextNew,
                   live, tdirty, pinned>>

\* Lock the frame latch; a frame holding another page: erase, false.
\* Else unlock latch_ and keep the frame latch for the write.
FlushLatch(th) ==
    LET f == tframe[th] IN
    /\ tpc[th] = "flush"
    /\ flatch[f] = Nobody
    /\ glatch' = Nobody
    /\ IF fid[f] # tpage[th]
         THEN /\ pageTable' = [pageTable EXCEPT ![tpage[th]] = NoFrame]
              /\ Return(th)
              /\ UNCHANGED flatch
         ELSE /\ flatch' = [flatch EXCEPT ![f] = th]
              /\ tpc' = [tpc EXCEPT ![th] = "flush_io"]
              /\ UNCHANGED <<pageTable, tpage, tframe>>
    /\ UNCHANGED <<fid, pin, dirty, freeList, lru, nextNew, live, tdirty,
                   pinned, ncalls>>

\* ForceFlush(page lsn), write_page, is_dirty_ = false, unlock the frame.
FlushIO(th) ==
    LET f == tframe[th] IN
    /\ tpc[th] = "flush_io"
    /\ dirty' = [dirty EXCEPT ![f] = FALSE]
    /\ flatch' = [flatch EXCEPT ![f] = Nobody]
    /\ Return(th)
    /\ UNCHANGED <<pageTable, fid, pin, freeList, lru, glatch, nextNew, live,
                   tdirty, pinned, ncalls>>

----
(* new_page, delete_page                                                   *)
----

\* Under latch_: a victim frame (none: return nullptr), then
\* allocate_page on the file.  NewPages bounds the pages allocated.
NewVictim(th) ==
    LET v == find_victim_page IN
    /\ Start(th, "new")
    /\ nextNew <= Len(NewPages)
    /\ IF v[1] = NoFrame
         THEN Return(th) /\ UNCHANGED <<glatch, freeList, lru, nextNew>>
         ELSE /\ glatch' = th
              /\ freeList' = v[2]
              /\ lru' = v[3]
              /\ tframe' = [tframe EXCEPT ![th] = v[1]]
              /\ tpage' = [tpage EXCEPT ![th] = NewPages[nextNew]]
              /\ nextNew' = nextNew + 1
              /\ tpc' = [tpc EXCEPT ![th] = "new_latch"]
    /\ UNCHANGED <<pageTable, fid, pin, dirty, flatch, live, tdirty, pinned>>

\* Lock the frame latch, page_table_[new] = frame, replacer_->pin,
\* unlock latch_.
NewLatch(th) ==
    LET f == tframe[th] IN
    /\ tpc[th] = "new_latch"
    /\ flatch[f] = Nobody
    /\ flatch' = [flatch EXCEPT ![f] = th]
    /\ pageTable' = [pageTable EXCEPT ![tpage[th]] = f]
    /\ lru' = ReplacerPin(lru, f)
    /\ glatch' = Nobody
    /\ tpc' = [tpc EXCEPT ![th] = "new_io"]
    /\ UNCHANGED <<fid, pin, dirty, freeList, nextNew, live, tpage, tframe,
                   tdirty, pinned, ncalls>>

\* update_page, ForceFlush, write_page of the zeroed page, pin_count_ = 1,
\* unlock the frame.  The caller links the new page into its file.
NewIO(th) ==
    LET f == tframe[th] IN
    /\ tpc[th] = "new_io"
    /\ fid' = [fid EXCEPT ![f] = tpage[th]]
    /\ dirty' = [dirty EXCEPT ![f] = FALSE]
    /\ pin' = [pin EXCEPT ![f] = 1]
    /\ flatch' = [flatch EXCEPT ![f] = Nobody]
    /\ pinned' = [pinned EXCEPT ![th] = @ \cup {tpage[th]}]
    /\ live' = live \cup {tpage[th]}
    /\ Return(th)
    /\ UNCHANGED <<pageTable, freeList, lru, glatch, nextNew, tdirty, ncalls>>

\* delete_page under latch_ (deallocate_page is a no-op): a page missing
\* from page_table_ returns true.  The caller (IxIndexHandle::delete_entry,
\* after unpinning its latched pages) has unlinked the page: it is not
\* fetched again.
DeleteLookup(th, p) ==
    /\ Start(th, "delete")
    /\ p \in live \ pinned[th]
    /\ live' = live \ {p}
    /\ IF pageTable[p] = NoFrame
         THEN Return(th) /\ UNCHANGED glatch
         ELSE /\ glatch' = th
              /\ tpc' = [tpc EXCEPT ![th] = "delete"]
              /\ tpage' = [tpage EXCEPT ![th] = p]
              /\ tframe' = [tframe EXCEPT ![th] = pageTable[p]]
    /\ UNCHANGED <<pageTable, fid, pin, dirty, freeList, lru, flatch, nextNew,
                   tdirty, pinned>>

\* Lock the frame latch.  Another page in the frame: erase, true.  Pinned:
\* false.  Else erase the entry, push the frame on free_list_, unlock
\* latch_ (the frame is left in the replacer).
DeleteLatch(th) ==
    LET f == tframe[th]
        p == tpage[th]
    IN
    /\ tpc[th] = "delete"
    /\ flatch[f] = Nobody
    /\ glatch' = Nobody
    /\ \/ /\ fid[f] # p
          /\ pageTable' = [pageTable EXCEPT ![p] = NoFrame]
          /\ Return(th)
          /\ UNCHANGED <<freeList, flatch>>
       \/ /\ fid[f] = p /\ pin[f] # 0
          /\ Return(th)
          /\ UNCHANGED <<pageTable, freeList, flatch>>
       \/ /\ fid[f] = p /\ pin[f] = 0
          /\ pageTable' = [pageTable EXCEPT ![p] = NoFrame]
          /\ freeList' = Append(freeList, f)
          /\ flatch' = [flatch EXCEPT ![f] = th]
          /\ tpc' = [tpc EXCEPT ![th] = "delete_io"]
          /\ UNCHANGED <<tpage, tframe>>
    /\ UNCHANGED <<fid, pin, dirty, lru, nextNew, live, tdirty, pinned, ncalls>>

\* Reset the frame's id_, is_dirty_ and pin_count_, unlock the frame.
DeleteIO(th) ==
    LET f == tframe[th] IN
    /\ tpc[th] = "delete_io"
    /\ fid' = [fid EXCEPT ![f] = NoPage]
    /\ dirty' = [dirty EXCEPT ![f] = FALSE]
    /\ pin' = [pin EXCEPT ![f] = 0]
    /\ flatch' = [flatch EXCEPT ![f] = Nobody]
    /\ Return(th)
    /\ UNCHANGED <<pageTable, freeList, lru, glatch, nextNew, live, tdirty,
                   pinned, ncalls>>

----

Init ==
    /\ pageTable = [p \in Pages |-> NoFrame]
    /\ fid = [f \in Frames |-> NoPage]
    /\ pin = [f \in Frames |-> 0]
    /\ dirty = [f \in Frames |-> FALSE]
    /\ freeList = SetToSeq(Frames)
    /\ lru = <<>>
    /\ glatch = Nobody
    /\ flatch = [f \in Frames |-> Nobody]
    /\ nextNew = 1
    /\ live = InitPages
    /\ tpc = [th \in Threads |-> "idle"]
    /\ tpage = [th \in Threads |-> NoPage]
    /\ tframe = [th \in Threads |-> NoFrame]
    /\ tdirty = [th \in Threads |-> FALSE]
    /\ pinned = [th \in Threads |-> {}]
    /\ ncalls = [th \in Threads |-> 0]

\* The steps of a call already under way.
InCall(th) ==
    \/ tpc[th] = "fetch_retry" /\ FetchLookup(th, tpage[th])
    \/ FetchHit(th) \/ FetchMissLatch(th) \/ FetchMissIO(th)
    \/ UnpinFrame(th) \/ FlushLatch(th) \/ FlushIO(th)
    \/ NewLatch(th) \/ NewIO(th) \/ DeleteLatch(th) \/ DeleteIO(th)

\* Every thread has made all its calls.
Finished == \A th \in Threads : tpc[th] = "idle" /\ ncalls[th] = MaxCalls

Next ==
    \/ \E th \in Threads :
          \/ \E p \in Pages : FetchLookup(th, p) \/ FlushLookup(th, p)
                              \/ DeleteLookup(th, p)
          \/ \E p \in Pages, d \in BOOLEAN : UnpinLookup(th, p, d)
          \/ NewVictim(th)
          \/ InCall(th)
    \/ Finished /\ UNCHANGED vars

\* A thread inside a call keeps running: the latches are mutexes held for
\* a bounded time, and every thread makes at most MaxCalls calls, so none
\* is overtaken forever.  Callers are not forced to make calls.
Fairness == \A th \in Threads : WF_vars(InCall(th))

Spec == Init /\ [][Next]_vars /\ Fairness

----
(* Properties                                                              *)
----

\* Threads holding page p pinned (in the callers' bookkeeping).
Holders(p) == {th \in Threads : p \in pinned[th]}

\* A page a caller has fetched and not unpinned stays in the pool: its
\* page_table_ entry names a frame whose id_ is that page and whose pin
\* count is positive.  Breaking this means a caller reads or writes a frame
\* that now holds another page (an eviction of a pinned page).
PinnedResident ==
    \A th \in Threads : \A p \in pinned[th] :
        /\ pageTable[p] # NoFrame
        /\ fid[pageTable[p]] = p
        /\ pin[pageTable[p]] > 0

\* Outside a call that holds its latch, a frame's pin_count_ is the number
\* of callers holding its page: no pin is lost or counted twice by the
\* unlocked pin_count_++ of fetch_page, unpin_page's decrement and
\* update_page's reset.
PinCountMatches ==
    \A f \in Frames :
        flatch[f] = Nobody /\ fid[f] # NoPage =>
            pin[f] = Cardinality(Holders(fid[f]))

\* No page is in two frames: page_table_ is updated under latch_ before a
\* miss releases it, and a stale entry is only erased after its frame was
\* seen holding another page.
OneFramePerPage ==
    \A f, g \in Frames :
        f # g /\ fid[f] # NoPage => fid[f] # fid[g]

\* Every call returns: a thread waiting for a frame latch while holding
\* latch_ is not waiting for a thread that needs latch_, and the retry of
\* fetch_page after a stale entry ends.
CallsReturn ==
    \A th \in Threads : tpc[th] # "idle" ~> tpc[th] = "idle"

====
