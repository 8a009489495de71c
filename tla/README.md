# TLA+ models of RMDB

RMDB (src/) is a single-process relational database written in C++. One
server thread per client runs that client's statements. The parts, and how
they interact:

- **Executors** (`execution/executor_*.h`) run a statement's operator tree.
  Scans take table locks from the lock manager. Writers change records,
  append WAL records and update indexes. They also push undo entries onto
  the transaction's write set.
- **Lock manager** (`transaction/concurrency/lock_manager.cpp`) keeps one
  request queue per table, record or gap, with the modes IS/IX/S/SIX/X, an
  upgrade path and a bounded retry-sleep wait instead of deadlock detection.
- **Transaction manager** (`transaction/transaction_manager.cpp`):
  - begin assigns an id;
  - commit releases the locks, writes COMMIT and forces the log;
  - abort undoes the write set in reverse, releases the locks and writes
    ABORT.
- **Log manager** (`recovery/log_manager.cpp`) appends records into a
  buffer under a latch. A flush thread swaps the double buffer every 30ms,
  or on demand. ForceFlush spins until `persist_lsn_` reaches the LSN it was
  given.
- **Recovery** (`recovery/log_recovery.cpp`) redoes by page-LSN
  comparison, then undoes the active transactions by descending LSN,
  writing compensation records.
- **Buffer pool** (`storage/buffer_pool_manager.cpp`) keeps a page table,
  an LRU victim choice, pins, dirty flags and a latch per frame. It forces
  the log before writing a page (WAL).
- **B+ tree** (`index/ix_index_handle.cpp`), **record scan**, **hash join**,
  **nested-loop join** and **sort** are the data structures and algorithms
  beneath the executors.

## Inventory

| Component | State | Operations | Hard behaviour | Properties |
|---|---|---|---|---|
| Lock manager | per-object queue (txn, mode, granted), `upgrading_`; per-txn state, lock set | seven lock functions, `checkSameTxnLockRequest`, `try_lock_in_gap`, `unlock` | threads interleaving on a queue; retry loop with a bound; upgrade while others wait | compatibility of granted locks, upgrade flag, queue cleanup, every call returns |
| Transaction manager | txn map, write set, state | begin, commit, abort | the order of lock release and log force; rollback | locks gone at the end; abort restores images |
| Executors (DML) | row values, indexes | insert, delete, update, scans | which locks each operator takes | isolation: no lost update or dirty write |
| Log manager | buffer, flush buffer, `global_lsn_`, `persist_lsn_`, `needFlush_` | append, flush thread, ForceFlush | buffer full, a flag race, a spin wait | LSN order, durability of forced LSNs, ForceFlush returns |
| Recovery | log on disk, pages with LSNs | redo, undo | crash at any point, a repeated recovery | committed kept, uncommitted removed, idempotence |
| Buffer pool | page table, frames, pins, dirty | fetch, unpin, new, flush, delete | stale page-table entries, pool full | one frame per page, no eviction of a pinned page, WAL before write |
| B+ tree | nodes, keys | insert, delete, split, coalesce, redistribute | boundary sizes, and readers against writers | sorted keys, the tree equals a set |
| Index scan | key bounds, Iid positions | beginTuple, nextTuple, lower_bound, upper_bound | several conditions on one column, uninitialized bytes, leaf edges | the bounds cover the clause, the scan returns the range in order |
| Sequential scan | rid_, cur_page_hanle_, pins | constructor, next, is_end | empty pages, page ends, the pin kept for Next | every row once in order, one pin on the current page |
| Hash join vs NLJ | relations | build, probe | bucket sizing, probe offsets | same result as the nested loop |

## Plan

Modules, in order of importance:

1. `LockManager`: done.
2. `TxnExec`: done.
3. `LogManager`: done.
4. `Recovery`: done.
5. `BufferPool`: done.
6. `BTree`: done (search, insert and delete cascades, reader/writer
   latching, refinement to `IndexSet`).
7. `HashJoin`, `NestedLoopJoin` and `Join`: done (the hash join checked
   against the nested-loop join on the same inputs).
8. `IndexScan`: done for single-column INT indexes.
9. `RmScan`: done, in TxnExec.

## Modules and runs

### LockManager.tla, MC_LockManager.tla

**State.**

- `req[o][t]` is transaction t's `LockRequest` in the queue of object o
  (mode, granted), or NoReq.
  - A transaction has at most one request per object: a second call
    returns, upgrades or throws.
  - `checkQueueCompatible` looks only at granted requests of other
    transactions, so the order of the queue is abstracted away.
- `upgrading[o]` is `LockRequestQueue::upgrading_`.
- `txnState` is the state. `lockSet` is the lock set.
- `pc[t]` is where t's thread is:
  - idle between calls;
  - wait inside a retry loop;
  - aborting after a TransactionAbortException;
  - done after commit or abort.
- `wt[t]` is the loop t is in (object, upgrade path?, `curAttemp`).
- Two history variables:
  - `held[o][t]` is the mode a lock call last returned to t;
  - `call[t]` is t's last returned call.

**Actions.**

- `lock_shared_on_record` ... `lock_gap_on_index` are the seven entry
  points. Each fixes the object kind and mode of `LockCall`. Inside
  `LockCall`:
  - step 1 is DEFAULT→GROWING;
  - a new request is step 5;
  - the three reachable branches of `checkSameTxnLockRequest` are:
    - already covered;
    - UPGRADE_CONFLICT;
    - the upgrade.
  - The branch for "same transaction, request not granted" cannot be
    reached: a transaction's only thread is inside that loop.
- `LoopPass` is one pass of the retry loop under the queue latch. Between
  two passes the latch is released and the thread sleeps.
  - `WaitRetry` is a later pass.
  - `WaitExpire` is the exit when `curAttemp` reaches MaxAttempt+1.
- `try_lock_in_gap`.
- `commit` and `abort`: the lock part of the TransactionManager functions,
  through `ReleaseLocks`/`unlock`.
  - The write set and the log records are left to later modules; they do
    not affect the lock table.
  - The client's catch-and-abort is outside src/ and is the `aborting`
    state.

**Runs.**

| Run | cfg | What it shows |
|---|---|---|
| lock_check (pass) | LockManager_check.cfg | 2 transactions, a table, a record and a gap, MaxAttempt 2. `UpgradeFlagTracksUpgrader`: upgrading_ is set exactly while an upgrader waits. `NoOrphanRequests`: no request outlives its transaction or lies outside the lock set. `CallReturnsRequestedStrength`: a returned call holds at least the mode asked. `NoDowngrade` (action): no step weakens a held lock. `LockCallsReturn`: every blocked or aborting call returns. |
| lock_held_incompatible (violation) | LockManager_HeldCompatible.cfg | `HeldCompatible` (locks returned to different transactions and not released are compatible) fails two ways. With three transactions TLC reports the upgrade hole in 4 steps: t1 holds S and t2 holds IS; t1 upgrades to X and waits with granted_ = false; t3 is then granted IX beside t1's S. With `Txns <- MCTxns2` the same cfg reports the timeout grant in 5 steps: t1 holds S, t2 asks for X, retries twice, and the off-by-one in the retry loop grants X beside S after MaxAttempt+1 failed checks (spec.md says such a request aborts). |

**Bounds.**

- MaxAttempt = 2 lets a wait run through all the cases:
  - success at attempt 0;
  - success on a retry;
  - success exactly at MaxAttempt (a spurious abort);
  - expiry.
- Three transactions are the fewest for the upgrade hole: a holder, an
  upgrader and a newcomer (lock_held_incompatible). Two are the fewest for
  UPGRADE_CONFLICT and for the timeout, and are what lock_check uses, with
  the liveness property in the same run.
- Object kinds do not interact in the code (there is no hierarchy check),
  so one object per kind is enough.

**Fairness.**

- Weak fairness on each thread's retry steps: a sleeping thread wakes
  after 50μs.
- Weak fairness on `abort` from `aborting`: the server aborts on every
  TransactionAbortException.
- Idle clients are not fair: a client may never commit. That is why
  `LockCallsReturn` must hold even against a holder that never releases.

`Finished` is a stuttering step once all clients are done, so deadlock
checking stays on for every other state.


### TxnExec.tla, MC_TxnExec.tla

`TxnExec` composes the lock manager with the DML executors and the
transaction manager. `LM == INSTANCE LockManager` shares LockManager's
variables, with one table and no records or gaps: those are the only lock
calls the executors make.

**State.**

- `rows[r]` is the record in heap slot r: a value, or Absent.
- `ws[t]` is the write set, a sequence of (kind, rid, before-image).
- `stmt[t]` is the statement t's executor is running: its kind, its
  phase, the rid its scan produced and the new image an UPDATE computed.
- `nstmt[t]` counts the statements t started, up to MaxStmts.
- `expected` is history: the table after the committed transactions run
  one after another in commit order.

**Actions.** Each statement is split at the points where another thread
can act between two of its steps:

- INSERT: `BeginInsert` (X table lock) and `InsertWrite` (a free slot,
  INSERT_TUPLE).
- DELETE: `BeginScan` (S table lock), `DeleteScan` (the scan's rids_),
  `DeleteLockIX` (IX, which becomes SIX) and `DeleteWrite`.
- UPDATE (SET v = v + 1): `BeginScan`, `UpdateRead` (get_record and the
  new image) and `UpdateWrite` (the before-image re-read, UPDATE_TUPLE,
  the write). There is no lock of its own: the code's locks are
  commented out.
- A record gone at get_record throws, and spec.md's error policy rolls
  the transaction back (pc `aborting`).
- `Commit` and `Abort` extend LockManager's `commit` and `abort`:
  - commit drops the write set;
  - abort undoes it from back() to front (`Undo`, a fold over the
    reversed sequence).

**The sequential scan (RmScan.tla).** `RS == INSTANCE RmScan` is
`record/rm_scan.cpp` as operators over the pages' bitmaps (`Bitmaps`,
from `rows` and the constant `Layout` of slots on pages). A scan state
is [rid, cur, pins]: `rid_`, the page of `cur_page_hanle_`, and the
pins the scan holds. `FetchFrom` is the page loop of the constructor
and of `next()` (fetch a page, take its first used slot, or unpin it
and go on); `RmScanNext` is `next()`, which searches `cur_page_hanle_`'s
bitmap after `rid_.slot_no` and, at the page's end, unpins `rid_`'s
page. Bitmap::first_bit/next_bit are not in the repository and are
modelled from their use. Inserts take X and deletes IX on the table,
both in conflict with a scan's S, so a scan is a function of the state
it starts in: `ScanRids` is evaluated in every state, and
`ScanReturnsLiveRows` shows that it returns exactly the table's rows,
which is why `DeleteScan` and `UpdateRead` may pick any present row. This rests on the table locks excluding writers while a scan runs. The lock manager's timeout grant breaks that (lock_held_incompatible grants X beside S), and then a scan can see a bitmap change under it; with that grant in play, `ScanReturnsLiveRows` and `ScanPinsCurrentPage` say nothing about the scan's result.

**Runs.**

| Run | cfg | What it shows |
|---|---|---|
| txn_live (pass) | TxnExec_live.cfg | 2 transactions, 2 statements each of any kind, 5 slots (one full), MaxAttempt 1, about 94k states. `RollbackRestoresFirstImage` (action): an abort leaves every slot it wrote as before its first write. `StatementsEnd`: every started statement completes or is rolled back, even beside a client that holds its locks forever. In every table state reached, over three data pages of two slots: `ScanReturnsLiveRows` (the RmScan returns every row once, in file order, across emptied pages and a page whose last slot is never used) and `ScanPinsCurrentPage` (at each row it stops at, `cur_page_hanle_` is the row's page and the only page the scan holds pinned; at the end it holds none, which SeqScanExecutor::Next relies on when it reads the record without a fetch). |
| txn_update_unlocked (violation) | TxnExec_serial.cfg | UPDATE-only workload. `CommittedStateVisible` fails in 8 steps: t2 reads t1's uncommitted update, t1 aborts, t2 commits 2 where any serial order gives 1. |

**Bounds.**

- Five slots: each of the 4 possible inserts finds a free slot, so the
  heap file never has to grow (an ASSUME).
- Two statements per transaction let one transaction write a slot twice,
  which is what the undo order needs.
- MaxAttempt 1 still runs the timeout grant of the lock manager. That
  grant lets a delete find its row gone.
- The layout puts r1, r2 on page 1, r3, r4 on page 2 and r5 on page 3,
  so deletes and rollbacks empty a first or middle page and the scan
  meets every branch of its page loop.
- Symmetry (violation run only, which does not check the scan): over the transactions and over the
  slots that start empty.

**Fairness.** Once a statement has started, the server thread runs it to
its end, so there is weak fairness on `ExecStep`. An aborting client
aborts. Clients are not fair otherwise.

### BufferPool.tla, MC_BufferPool.tla

`BufferPool` models `BufferPoolManager` (src/src/storage/buffer_pool_manager.cpp)
with client threads calling it concurrently. Page bytes and the disk are
left out: a frame holds a page id, a pin count and a dirty bit.

**State.**

- `pageTable`, `fid`, `pin`, `dirty`, `freeList`, `lru`: page_table_, the
  frames' page ids, pin counts and dirty bits, free_list_ and the LRU
  replacer's list.
- `glatch` is the holder of latch_; `flatch[f]` of frame f's latch.
- `tpc`, `tpage`, `tframe`, `tdirty`: where each thread is inside its
  call, and the page, frame and dirty flag of that call.
- `pinned[th]` is history: the pages th fetched and has not unpinned.
- `nextNew` is the next id new_page allocates; `live` the pages that
  exist; `ncalls` counts calls, up to MaxCalls.

**Actions.** Each call is split where it takes or releases a latch,
because the page table is read under latch_ but the frame is changed
under the frame latch after latch_ is released:

- fetch_page: `FetchLookup` (latch_, page_table_ lookup), `FetchHit`
  (frame latch, page-id recheck, pin), or `FetchMissLatch` (a victim from
  free_list_ or the replacer, frame latch, page_table_ update) and
  `FetchMissIO` (update_page: write back, read, reset). A stale entry
  sends the thread back to `FetchLookup` (`fetch_retry`).
- unpin_page: `UnpinLookup`, `UnpinFrame` (mismatch, a pin count already
  0, or the decrement, which makes the frame a replacer candidate at 0).
- flush_page: `FlushLookup`, `FlushLatch`, `FlushIO`.
- new_page: `NewVictim`, `NewLatch`, `NewIO`.
- delete_page: `DeleteLookup`, `DeleteLatch` (mismatch, still pinned, or
  free: the frame goes to free_list_), `DeleteIO`.

Callers are modelled as the code uses the pool: a thread unpins only a page
it pinned, and deletes only a page nobody has pinned.

**Runs.**

| Run | cfg | What it shows |
|---|---|---|
| bp_calls (pass) | BufferPool_calls.cfg | 2 threads, 2 frames, 3 pages and one new one, 3 calls per thread of every kind. `PinCountMatches`: a frame's pin count is the number of holders of its page. `OneFramePerPage`: no page is in two frames. `CallsReturn`: every call returns, and no latch order deadlocks. |
| bp_delete_evicts_pinned (violation) | BufferPool_evict.cfg | `PinnedResident` fails. delete_page puts the frame on free_list_ while it is still in the replacer. One fetch takes it from free_list_ and pins it. Another fetch takes it from the replacer and evicts that pinned page. |

`PinnedResident` (a page a thread holds is in a frame with that id) is
the property the delete bug breaks, so it is checked only in the violation
run.

**Bounds.** Two frames and three resident pages mean that a fetch misses
and evicts. Two threads give each page-table entry a reader and a writer.
Three calls per thread are enough for fetch, evict, refetch and unpin to
interleave with a second thread. The fix for the stale entry needs a miss that
overwrites a frame another thread looked up.

**Fairness.** Each thread is weakly fair inside a call: the code never
gives up a latch, and a waiting thread gets it once the holder lets go.
A thread at `idle` is not fair.

### LogManager.tla, MC_LogManager.tla

**State.**

- `buf` and `fbuf` are `log_buffer_` and `flush_buffer_`. Each is the
  sequence of LSNs of the records in it; a record is one unit of
  `BufCap`.
- `disk` is the log file.
- `globalLsn`, `persistLsn` and `needFlush` are the atomics of the same
  names.
- `fpc` and `flushLsn` are the flush thread's position and its local `lsn`.
- For each client thread:
  - `tpc` is where it is (idle, waiting for room, or at one of the three
    points of ForceFlush);
  - `force` says whether it forces its record;
  - `target` is the LSN passed to ForceFlush;
  - `returned` is history: the LSN of its last ForceFlush that returned.

**Actions.**

- `add_log_to_buffer`/`BufWake`: the append, and the `operation_cv_` wait
  returning.
- Three client uses of the log:
  - `AppendRecord` is an executor's INSERT/DELETE/UPDATE record;
  - `CommitRecord` is COMMIT or ABORT followed by ForceFlush;
  - `WalForce` is `update_page` forcing a page LSN, possibly
    INVALID_LSN.
- `FlushSwap` is the flush thread's pass under the latch. `FlushWrite` is
  its write off the latch: `flush_log_to_disk`, then `persist_lsn_`, then
  clearing `needFlush_`.
- `ForceCheck`/`ForceSet`/`ForceSpin` are the three unsynchronised
  statements of ForceFlush. A concurrent flush can clear the flag between
  them.

**Runs.**

| Run | cfg | What it shows |
|---|---|---|
| log_check (pass) | LogManager_check.cfg | 2 threads, BufCap 2, MaxLsn 4. `LogIsSequential`: file, flush buffer and log buffer together hold every LSN once and in order. `PersistIsDurable`: no LSN up to `persist_lsn_` is missing from the file. `ForcedIsDurable`: a returned ForceFlush's record is in the file. `CallsReturn`: every blocked append and every ForceFlush returns, even when a flush clears the `needFlush_` a forcer had just set. |

**Bounds and fairness.**

- MaxLsn bounds the LSNs handed out. An append is refused when the
  waiters already use up the remaining LSNs (`RoomForOne`).
- With BufCap 2 and 4 LSNs there are:
  - a full buffer with a waiting appender;
  - a swap with records left behind;
  - a force of a record that lies in each of the three places.
- The flush thread is weakly fair: `wait_for` returns at least every 30ms.
  Its no-op passes on an empty buffer are stuttering.
- Client threads are weakly fair only inside a call.

### Recovery.tla, MC_Recovery.tla

`Recovery` covers write-ahead logging end to end. It models the log
records the executors and TransactionManager write, the page-LSNs they set,
write-back with ForceFlush, the flush thread, crashes, and
`RecoveryManager::redo` and `undo`.

**State.**

- `log` is the log. The record at index i has LSN i-1: `global_lsn_`
  counts from 0, and after redo from max_lsn + 1. `durable` is the length
  of the part on disk.
- `memVal`/`memLsn` are the buffer's copy of each slot and page-LSN;
  `diskVal`/`diskLsn` the disk's. Slots r1 and r2 share page pg1.
- `tpc`, `tprev` (prev_lsn_), `ws` (the write set) and `tval` (the image
  of a pending heap change) are per transaction.
- `phase` is run, redo, undo or up; `cursor`, `active_txn_` and `next_lsn`
  are redo's and undo's locals.
- `cval` is history: each slot as the committed transactions left it.

Each transaction writes only its own slot, which stands for the X locks
of 2PL. The question here is durability and atomicity, which
`RecoveryCorrect` states; isolation is TxnExec's.

**Actions.**

- Run time, in the code's order:
  - `Insert` is insert_record; `InsertLog` is the INSERT record and
    set_page_lsn.
  - `Delete` and `Update` write the record and set_page_lsn; `Apply` is
    the heap change after it.
  - `Abort`, `AbortLog` and `Apply` roll back the write set: each entry
    gets a compensating record and set_page_lsn, then the heap change.
  - `Commit` and `AbortEnd` append COMMIT or ABORT and force the log.
- `FlushPage` is flush_page or an eviction: ForceFlush to the page-LSN,
  then the write. `FlushLog` is the flush thread.
- `Crash` loses the buffer and the log tail that is not on disk; a flush in
  progress may have written any prefix of it.
- `Redo` reads one record (`RedoLog`: the active-transaction map, and the
  page-LSN test before re-applying). `RedoEnd` seeds `next_lsn`. `Undo`
  undoes the highest LSN left (`UndoLog`: a compensating record, the
  before-image, the page-LSN set to the undone record's LSN) and follows
  prev_lsn_. `UndoEnd` appends the ABORT records without forcing them.

`EvictAt` is the set of points between the two halves of an operation
at which the page can be written back. In the code the page is unpinned
at all of them. With `EvictAt = {}` the model checks the recovery algorithm
on its own; the violation runs add the points back.

**Runs.**

| Run | cfg | What it shows |
|---|---|---|
| rec_safety (pass) | Recovery_safety.cfg | One operation per transaction, up to two crashes (the second one possibly during redo or undo, or after them), `EvictAt = {}`: about 1M states. `RecoveryCorrect`: once recovery ends, every slot is as the committed transactions left it. This holds even when the log tail, the compensating records or the final ABORTs are lost and recovery is repeated, and when undo has lowered a page-LSN. |
| rec_evict (violation) | Recovery_evict.cfg | Write-backs at both points where the heap and the log disagree (EvictAt = ins_log, apply, abort_apply). TLC reports the shortest trace: a write-back after insert_record, before the INSERT record exists, then a crash, so the uncommitted row survives recovery. With EvictAt = {"apply", "abort_apply"} alone the same property fails the other way: a write-back after a DELETE's set_page_lsn and before delete_record, then commit and a crash, makes redo skip the delete. The rollback path has the same order. |

**Bounds.** Two transactions on one page share a page-LSN, so one
transaction's write-back carries the other's changes. With one operation
per transaction, a rollback at run time still leaves a chain of a
compensating record, a data record and BEGIN for undo to follow. Two
crashes allow a crash during the first recovery. The undo mutant that
stops following prev_lsn_ is caught at these bounds. MaxOps 2 has too many
states for TLC here.

**Fairness.** None is assumed: the property is a safety property.

### BTree.tla, IndexSet.tla, MC_BTree.tla

`BTree` models one unique B+ tree index (`IxIndexHandle` and
`IxNodeHandle` in `index/ix_index_handle.cpp`). There is one writer
process, an insert_entry or delete_entry caller, and one reader, a
get_value caller.
`Init` is the constructor's empty index (lines 206-221); MC_BTree also
starts from two pre-built three-level trees, the ones insert_entry builds
from the empty index (see MC_BTree), so that merge cascades happen within
the bound.

State. Each page is split across functions of the page number:

- `keys` holds the node's key slots. The code's slot i is position i+1.
- `kids` holds an internal node's child page numbers. `isLeaf` marks the
  leaves.
- `parent`, `prevLeaf` and `nextLeaf` are the page header's links.
  Page 1 is the leaf-list header page.
- `root`, `lastLeaf` and `numPages` are the file header's fields.
  `numPages` only grows, as create_node allocates, so a page number is
  never reused. `deleted` holds the pages a merge handed to delete_page.
- `rootLatch` is `root_latch_`.
- The writer's position in a cascade is `wpc`, with `wnode`, `wnew`,
  `wleaf` and `wleafNew`.
- The reader's position is `rpc`, `rkey` and `rnode`.
- `rvals` is a ghost: the membership values of the reader's key seen
  while it ran.
- `nops` counts insert_entry and delete_entry calls.

Operators and actions.

- Node search is a set of operators:
  - `LowerBoundIn` and `UpperBoundIn` are the binary searches, written
    recursively;
  - `LeafLookup` and `InternalLookup`;
  - `NodeInsert` and `NodeRemove` are insert_pairs/insert and
    erase_pair/remove.
- `FindLeaf` is find_leaf_page's descent.
- Each level of a cascade is one writer step. Each step is a whole call
  of the code, with the maintain_parent, maintain_child and erase_leaf
  calls it makes. The steps are:
  - `InsertEntry`, `Split` and `InsertIntoParent` (the new-root case and
    the parent-insert case);
  - `DeleteEntry`;
  - `AdjustRoot` and `MaintainOnly` (the two early returns of
    coalesce_or_redistribute);
  - `Redistribute`;
  - `Coalesce`, which recurses when the parent underflows;
  - `FinishInsert`, with its last_leaf_ update, and `FinishDelete`.
- The writer holds `root_latch_` for the whole call. The page set of
  find_leaf_page is always empty because its appends are commented out,
  so the latch is never released early. The Wlatch calls are commented
  out as well, so writers latch no page.
- The reader (`GetValue`, `ReaderStep`, `ReaderEnd`) goes down one level
  per step and releases `root_latch_` once it leaves the root (lines
  366-368). Its Rlatches exclude nobody, because no writer takes a
  Wlatch.
- `TableS` says whether the reader's caller holds a table lock that
  excludes writers:
  - IndexScanExecutor takes an S lock on the table, while
    InsertExecutor and DeleteExecutor take X and IX.
  - UpdateExecutor's duplicate check takes none.

`IndexSet` is the abstract specification: a set of keys, where each
completed call inserts an absent key or erases a present one. BTree
implements it under the mapping contents <- keys of the leaf list and
calls <- `nops`. Because of `calls`, a step of a merge cascade cannot lose
a key while posing as an Erase.

Bounds (`BTree_check.cfg`):

- MaxSize is 4 and MinSize is 2.
- The runs start from three states:
  - the tree insert_entry builds from 1..10 inserted in ascending order;
  - the tree built from 1..10 in descending order;
  - the empty index.
- Both built trees have three levels with most nodes at minimum size.
  One delete therefore cascades a coalesce to the internal level, with
  the fuller sibling on either side. Two inserts into one leaf cascade a
  split up to a new root. The descending tree has stale zeroth separators.
- Keys are 0..10, so 0 falls below every separator.
- MaxOps is 3 writer calls. MaxPages 22 leaves room for the split
  cascades.
- The reader looks up 2, 5 and 9: a key at the left edge, one at a
  separator and one in the last leaf.

No fairness is assumed. The properties are safety properties and
refinement of a spec without liveness.

| Run | Cfg | What it shows |
|---|---|---|
| bt_check (pass) | BTree_check.cfg | About 44,000 states. After every call, and through every split and merge cascade: **SearchCorrect** (each key's find_leaf_page route finds it exactly when it is in the leaf list); **LeafChainInOrder** (the leaf list is the tree's leaves in key order, prev_leaf mirrors next_leaf, last_leaf_ is right); **ParentLinksConsistent**; **NodesHalfFull** (one leaf depth, min..max-1 keys per non-root node); **ImplementsIndexSet**. GetValueLinearizable is not checked here: under a table S lock a reader never overlaps a writer, so it would add nothing to SearchCorrect; bt_update_race checks it where they do overlap. In every state with no writer call half done: **KeyRangeCovers** (for every one- or two-condition WHERE clause, each key of the index it accepts lies in the [min_key, max_key] beginTuple builds, whichever way the comparison with uninitialized bytes goes) and **RangeScanComplete** (for every pair of bounds, inverted ones included, the IxScan from lower_bound(lo) to upper_bound(hi) visits exactly the keys in [lo, hi], in order). These two add about 10 s to the run. |
| bt_update_race (violation) | BTree_race.cfg | The same model with `TableS = FALSE`, as in UpdateExecutor. Trace, from the ascending tree: insert_entry(0) fills leaf 2 to [0,1,2], and get_value(2) descends from root 8 to node 4. delete_entry(3) leaves leaf 3 with one key, and redistribute moves key 2 from leaf 2 into it. The reader then reaches leaf 2 and returns false, although 2 was in the index throughout. UpdateExecutor's duplicate check misses the conflict, and insert_entry silently refuses the key, so the updated row has no index entry (finding in PROJECT.json). |

Not modelled here:

- gap locks (`gap_lock` is dead code: its call in beginTuple is commented out);
- insert_entry_for_load;
- the pins of fetched pages. insert_entry and delete_entry return early
  without unpinning (a hazard in PROJECT.json). maintain_parent unpins
  inside `assert`, so an NDEBUG build would leak.

### IndexScan.tla (checked in bt_check)

`IndexScan` extends `BTree` with IndexScanExecutor
(`execution/executor_index_scan.h`) for a unique single-column INT
index, and the positions it walks between (`IxIndexHandle::lower_bound`,
`upper_bound`, `leaf_end`).

- beginTuple takes S on the table. Writers take IX, which conflicts, so
  no writer call runs while a scan is open. A scan is therefore an
  operator of the index state, evaluated in every state where
  `wpc = "idle"`, not an action.
- `BoundsFrom` is the loop over `conds_` for the column: EQ sets both
  keys and skips the rest; a second `<`/`<=` keeps the smaller value; a
  second `>`/`>=` is compared with `max_key + offset` (the code's
  slip), whose bytes are uninitialized unless a `<` came first, so the
  model lets that comparison go either way. `KeyRange` applies
  `setMinKey`/`setMaxKey` (INT32_MIN/MAX) to an unbounded side.
- `IxLowerBound`/`IxUpperBound` are find_leaf_page followed by the node
  search, moved to slot 0 of the next leaf when they land one past a
  leaf that is not `last_leaf_` (`Iid`).
- `ScanFrom` is IxScan, which is not in the repository: it is modelled
  from spec.md, advancing slot by slot across `next_leaf`, and it
  stops at `upper_bound` or at `leaf_end`.
- `IndexScanRows` is the beginTuple/nextTuple loops: the entries
  `check_cond` accepts, in order.

Bounds: `ScanConds` is every one- and two-condition clause over the six
operators and the values 2, 5 and 9 (a left-edge key, a separator, a key
in the last leaf), 342 clauses. RangeScanComplete takes the bound pairs
from those values and INT32_MIN/MAX, so it meets a bound below, at and
above every leaf edge of the trees the B+ tree runs reach.

Not modelled here, and described instead of checked (hazard in
PROJECT.json): `setMinKey` for FLOAT writes
`numeric_limits<float>::min()`, the smallest positive float, so a
FLOAT index scan with no lower bound misses keys <= 0; BIGINT and
DATETIME columns fall to `default` in both functions and keep
uninitialized bytes; multi-column indexes; a lower bound above the
upper bound runs IxScan past `upper_bound` in the real IxScan, which
the model stops at `leaf_end`.

### HashJoin.tla, NestedLoopJoin.tla, Join.tla, MC_Join.tla

HashJoinExecutor is not constructed anywhere under src/ (nor is the
nested-loop executor); it is modelled as written, and join_equiv shows
what would go wrong if it were used.

`NestedLoopJoin` models `executor_nestedloop_join.h`:

- `lblk` and `rblk` are the two JoinBlocks. A block is its temporary file
  (the rows written to it), the rows in the buffer, the read cursor and
  the fread position.
- `NewBlock`, `InsertTup`, `StartRead`, `ReadTup`, `ReadNextBlock` and the
  two resets are the JoinBlock methods.
- `NLBeginTuple` is init_join followed by continue_block_join.
  `NLNextTuple` is continue_block_join from the saved `ltup` and cursors.
- `ContinueBlockJoin` is the recursive function itself, and it stops at
  each match.

`HashJoin` models `executor_hash_join.h`:

- `PartitionOf` folds `PutTup` over a child's rows. Each partition keeps
  a page and `tup_total_count`. Only the 256 partitions' non-empty ones
  are represented; the rest count 0.
- `GetPartitionCrashes` is get_partition on a partition larger than a
  page. The spill file is opened under another name than the one it was
  written to, so the process aborts.
- `BuildHashTable` chains each left position into bucket
  `(key >> 8) & 3` through `next`. `ContinueProbe`, `ProbeFrom` and
  `FirstMatch` follow continue_probe's two phases and its `curr_tup`
  arithmetic exactly.
- `ContinueJoin` moves to the next partition pair and recurses.
- `BeginTuple` and `NextTuple` are the executor calls. A tuple is its row
  number; only its INT key is compared (`CheckCond`, one OP_EQ condition).
- The bytes after a partition's last tuple are read as a tuple (row 0).
  They are the zeroes of the calloc'd page when the partition is not
  full. When it is exactly full they are any key of GarbageKeys, chosen in
  BeginTuple (`garbage`).
- Calling `join` when it was never assigned is modelled as
  `hjState = "crashed"`.

`Join` runs the nested-loop join to its end and then the hash join on
the same `left` and `right`.

Bounds (`Join_equiv.cfg`):

- Each child is any sequence of up to three keys from {0, 1, 256, 257}.
  These are two partitions (low byte 0 and 1) and two buckets in each
  (bits 8-9).
- Pages and blocks hold two records. A partition or block is therefore
  empty, part full, exactly full or over full, and the nested loop crosses
  block boundaries on both sides.
- That is 85 × 85 pairs of inputs.

Before the run was kept, a separate check over the same bounds confirmed
two things. First, the nested-loop join returns every matching pair
exactly once. Second, every row the hash join returns from real tuples is
a matching pair and none repeats. The disagreement is therefore in the
hash join.

| Run | Cfg | What it shows |
|---|---|---|
| join_equiv (violation) | Join_equiv.cfg | **HashJoinEquivalent** (spec.md: the hash join returns the same multiset as the nested-loop join) is violated, with four distinct causes. TLC's shortest trace has an empty left child (left = <<>>, right = <<0>>): `join` is never assigned and beginTuple crashes. Choosing other inputs in `Inputs` shows the other three. `<<1, 256>>` on both sides loses (2, 2), because build_hash_table takes the first target from past the left partition. `<<0>>` gives the extra row (1, 0), because the probe loop reads one tuple past the right partition. `<<1, 1, 1>>` overflows a page and aborts in get_partition. Each cause is a finding in PROJECT.json. |

There is no passing run of the join. Every input space worth checking
contains one of the four causes. A run restricted to inputs that avoid
all of them would show only that those inputs avoid them.

Not modelled here:

- columns other than INT (the hash join asserts on them);
- several join conditions;
- the abort when a JoinBlock's fopen fails;
- the shared temporary-file name of two nested-loop joins in one thread
  on the same first table;
- the bucket-count XOR (hazard in PROJECT.json: glibc's minimum chunk
  hides it).

## Not modelled

These are not modelled. The first six change no state that another
thread races on:

- the parser AST (type definitions only);
- the catalog and its text files (sm_manager);
- SHOW/DESC output;
- disk I/O;
- the data generator (a stand-alone program);
- common helpers (value types and comparisons, used as data here).

The rest, with the reason for each:

- a SELECT with LIMIT (`execution_manager.cpp:183`) leaves its loop
  while RmScan holds the pin of its current page, and RmScan has no
  destructor, so the pin leaks (a hazard in PROJECT.json; TxnExec's
  statements scan to the end);
- the disk manager: its state is OS files and descriptors (`path2fd_`,
  `fd2path_`) under one latch, with the create/open/close/destroy error
  checks made under it (get_file_name and get_file_fd read the maps
  without it, on descriptors the catalog opened at startup); page numbers come from a per-fd counter whose
  initial value is set by code not in the repository, and the buffer
  pool model takes page numbers from a constant sequence instead;
- the execution manager: DDL dispatch into the catalog, SHOW/DESC text,
  and BEGIN/COMMIT/ABORT, which call TransactionManager::commit/abort
  (the `Commit` and `Abort` actions of TxnExec);
- Sort (`execution_sort.h`): it materialises the child's rows and calls
  `std::sort` with a comparator that is a strict weak order on the sort
  columns; there is no state shared with other threads and no step a
  model would reach that a unit test does not.

Each hazard in PROJECT.json without a property has a note saying why.
