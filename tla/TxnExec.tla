------------------------------- MODULE TxnExec -------------------------------
(***************************************************************************)
(* The DML executors of src/execution run by concurrent transactions over  *)
(* one table, with the lock calls they make into the lock manager          *)
(* (LockManager, INSTANCEd over the same variables), the write set they    *)
(* fill, and TransactionManager::commit/abort.                             *)
(*                                                                         *)
(*   INSERT: lock_exclusive_on_table, then insert_record + INSERT_TUPLE.   *)
(*   DELETE: the scan's lock_shared_on_table collects rids_; Next() takes  *)
(*           lock_IX_on_table (S + IX = SIX), then per rid get_record,     *)
(*           DELETE_TUPLE with the image, delete_record.                   *)
(*   UPDATE: the scan's lock_shared_on_table collects rids_; Next() reads  *)
(*           the record, computes the new image, reads it again for the    *)
(*           UPDATE_TUPLE before-image and writes.  The row X lock is      *)
(*           commented out: no lock beyond the scan's S.                   *)
(*                                                                         *)
(* A row holds a value (UPDATE t SET v = v + 1) or Absent.  A statement    *)
(* touches at most one rid, so its per-row loop is a single step.  The     *)
(* scans' RmScan over the heap file's pages is RS (RmScan.tla).            *)
(***************************************************************************)
EXTENDS Naturals, Integers, Sequences, FiniteSets, SequencesExt

CONSTANTS
    Txns,        \* transactions, one client thread each
    MaxAttempt,  \* the lock manager's retry bound
    Tab,         \* the table's LockDataId
    Rids,        \* record slots of the table's heap file
    InitRows,    \* the slots holding a record (value 0) at the start
    MaxStmts,    \* the statements a transaction runs, at most
    Workload,    \* the statement kinds the clients send: "ins", "del", "upd"
    Layout,      \* Layout[r]: the (page, slot) of record slot r in the heap file
    NumPages,    \* the heap file's num_pages, header page included
    RecordsPerPage

ASSUME InitRows \subseteq Rids /\ Workload \subseteq {"ins", "del", "upd"}
\* Every insert finds a free slot of Rids (the heap file never grows).
ASSUME Cardinality(Rids) >= Cardinality(InitRows) + Cardinality(Txns) * MaxStmts
ASSUME /\ Layout \in [Rids -> [page : 1 .. NumPages - 1, slot : 0 .. RecordsPerPage - 1]]
       /\ \A r, x \in Rids : Layout[r] = Layout[x] => r = x

VARIABLES req, upgrading, txnState, lockSet, pc, wt, held, call
VARIABLES
    rows,      \* rows[r]: the record in slot r, or Absent
    ws,        \* ws[t]: Transaction::write_set_, oldest first
    stmt,      \* stmt[t]: the statement t's executor is running, or NoStmt
    nstmt,     \* statements t has started
    expected   \* history: the table after the committed transactions run
               \* one after another in commit order

LM == INSTANCE LockManager WITH Tables <- {Tab}, Records <- {}, Gaps <- {}

RS == INSTANCE RmScan

lmvars == <<req, upgrading, txnState, lockSet, pc, wt, held, call>>
tvars  == <<rows, ws, stmt, nstmt, expected>>
vars   == <<lmvars, tvars>>

Absent == -1
NoRid  == "norid"
MaxVal == Cardinality(Txns) * MaxStmts
Vals   == 0..MaxVal

\* WriteRecord: INSERT_TUPLE carries no image, DELETE_TUPLE and
\* UPDATE_TUPLE the record as it was before the write.
Entries == [kind : {"ins"}, rid : Rids, before : {Absent}]
           \cup [kind : {"del", "upd"}, rid : Rids, before : Vals]

NoStmt == [kind |-> "none", phase |-> "none", rid |-> NoRid, val |-> 0]
Stmts  == [kind : {"ins", "del", "upd"}, phase : {"scan", "ix", "write"},
           rid : Rids \cup {NoRid}, val : Vals] \cup {NoStmt}

TypeOK ==
    /\ LM!TypeOK
    /\ rows \in [Rids -> Vals \cup {Absent}]
    /\ ws \in [Txns -> Seq(Entries)]
    /\ stmt \in [Txns -> Stmts]
    /\ nstmt \in [Txns -> 0..MaxStmts]
    /\ expected \in [Rids -> Vals \cup {Absent}]

Free == {r \in Rids : rows[r] = Absent}

\* The pages' bitmaps: the slots holding a record.
Bitmaps == [p \in RS!DataPages |->
              {Layout[r].slot : r \in {x \in Rids : rows[x] # Absent /\ Layout[x].page = p}}]

\* The record slot at a scan position.
RidAt(pos) == CHOOSE r \in Rids : Layout[r] = pos

\* The rows the table's RmScan stops at, from the constructor to is_end.
\* Inserts take X and deletes IX on the table, both in conflict with the
\* scan's S, so no bitmap changes while a scan is open: a scan is a
\* function of the state it starts in.
ScanRids ==
    LET sts == SelectSeq(RS!RmScanStates(Bitmaps), LAMBDA sc : ~RS!RmScanIsEnd(sc))
    IN [i \in DOMAIN sts |-> RidAt(sts[i].rid)]

\* A client thread starts its next statement between two statements.
CanStart(t) ==
    /\ pc[t] = "idle"
    /\ stmt[t] = NoStmt
    /\ nstmt[t] < MaxStmts

----
(* Executors                                                               *)
----

\* InsertExecutor::Next, lock part: lock_exclusive_on_table.
BeginInsert(t) ==
    /\ CanStart(t)
    /\ "ins" \in Workload
    /\ LM!lock_exclusive_on_table(t, Tab)
    /\ stmt' = [stmt EXCEPT ![t] = [kind |-> "ins", phase |-> "write",
                                    rid |-> NoRid, val |-> 0]]
    /\ nstmt' = [nstmt EXCEPT ![t] = @ + 1]
    /\ UNCHANGED <<rows, ws, expected>>

\* SeqScanExecutor::beginTuple of a DELETE or UPDATE: lock_shared_on_table.
BeginScan(t, k) ==
    /\ CanStart(t)
    /\ k \in Workload
    /\ LM!lock_shared_on_table(t, Tab)
    /\ stmt' = [stmt EXCEPT ![t] = [kind |-> k, phase |-> "scan",
                                    rid |-> NoRid, val |-> 0]]
    /\ nstmt' = [nstmt EXCEPT ![t] = @ + 1]
    /\ UNCHANGED <<rows, ws, expected>>

\* The insert proper: insert_record takes a free slot, INSERT_TUPLE is
\* appended to the write set.
InsertWrite(t) ==
    /\ pc[t] = "idle"
    /\ stmt[t].kind = "ins"
    /\ \E r \in Free :
          /\ rows' = [rows EXCEPT ![r] = 0]
          /\ ws' = [ws EXCEPT ![t] = Append(@, [kind |-> "ins", rid |-> r,
                                                before |-> Absent])]
    /\ stmt' = [stmt EXCEPT ![t] = NoStmt]
    /\ UNCHANGED <<lmvars, nstmt, expected>>

\* The delete's scan produces rids_ (a matching row, or none) under S:
\* any row, as ScanReturnsLiveRows shows the scan returns every row.
DeleteScan(t) ==
    /\ pc[t] = "idle"
    /\ stmt[t].kind = "del" /\ stmt[t].phase = "scan"
    /\ \E r \in {x \in Rids : rows[x] # Absent} \cup {NoRid} :
          stmt' = [stmt EXCEPT ![t].phase = "ix", ![t].rid = r]
    /\ UNCHANGED <<lmvars, rows, ws, nstmt, expected>>

\* DeleteExecutor::Next first takes lock_IX_on_table.
DeleteLockIX(t) ==
    /\ stmt[t].kind = "del" /\ stmt[t].phase = "ix"
    /\ LM!lock_IX_on_table(t, Tab)
    /\ stmt' = [stmt EXCEPT ![t].phase = "write"]
    /\ UNCHANGED <<rows, ws, nstmt, expected>>

\* Faulty variant of DeleteWrite: a record deleted meanwhile is "found".
DeleteWriteNoCheck(t) ==
    LET r == stmt[t].rid IN
    /\ pc[t] = "idle"
    /\ stmt[t].kind = "del" /\ stmt[t].phase = "write"
    /\ \/ /\ r = NoRid
          /\ stmt' = [stmt EXCEPT ![t] = NoStmt]
          /\ UNCHANGED <<lmvars, rows, ws>>
       \/ /\ r # NoRid
          /\ ws' = [ws EXCEPT ![t] = Append(@, [kind |-> "del", rid |-> r,
                                                before |-> rows[r]])]
          /\ rows' = [rows EXCEPT ![r] = Absent]
          /\ stmt' = [stmt EXCEPT ![t] = NoStmt]
          /\ UNCHANGED lmvars
    /\ UNCHANGED <<nstmt, expected>>

\* The loop over rids_: get_record (a record deleted meanwhile throws,
\* and the error aborts the transaction), DELETE_TUPLE with the image,
\* delete_record.
DeleteWrite(t) ==
    LET r == stmt[t].rid IN
    /\ pc[t] = "idle"
    /\ stmt[t].kind = "del" /\ stmt[t].phase = "write"
    /\ \/ /\ r = NoRid
          /\ stmt' = [stmt EXCEPT ![t] = NoStmt]
          /\ UNCHANGED <<lmvars, rows, ws>>
       \/ /\ r # NoRid
          /\ rows[r] = Absent
          /\ pc' = [pc EXCEPT ![t] = "aborting"]
          /\ UNCHANGED <<req, upgrading, txnState, lockSet, wt, held, call,
                         rows, ws, stmt>>
       \/ /\ r # NoRid
          /\ rows[r] # Absent
          /\ ws' = [ws EXCEPT ![t] = Append(@, [kind |-> "del", rid |-> r,
                                                before |-> rows[r]])]
          /\ rows' = [rows EXCEPT ![r] = Absent]
          /\ stmt' = [stmt EXCEPT ![t] = NoStmt]
          /\ UNCHANGED lmvars
    /\ UNCHANGED <<nstmt, expected>>

\* UpdateExecutor::Next, first loop: rids_ from the scan, get_record, and
\* the new image computed from it (SET v = v + 1).
UpdateRead(t) ==
    /\ pc[t] = "idle"
    /\ stmt[t].kind = "upd" /\ stmt[t].phase = "scan"
    /\ \/ \E r \in {x \in Rids : rows[x] # Absent} :
             stmt' = [stmt EXCEPT ![t].phase = "write", ![t].rid = r,
                                  ![t].val = rows[r] + 1]
       \/ stmt' = [stmt EXCEPT ![t].phase = "write", ![t].rid = NoRid]
    /\ UNCHANGED <<lmvars, rows, ws, nstmt, expected>>

\* UpdateExecutor::Next, last loop: get_record again for the before-image,
\* UPDATE_TUPLE, update_record with the image computed in UpdateRead.
UpdateWrite(t) ==
    LET r == stmt[t].rid IN
    /\ pc[t] = "idle"
    /\ stmt[t].kind = "upd" /\ stmt[t].phase = "write"
    /\ \/ /\ r = NoRid
          /\ stmt' = [stmt EXCEPT ![t] = NoStmt]
          /\ UNCHANGED <<lmvars, rows, ws>>
       \/ /\ r # NoRid
          /\ rows[r] = Absent
          /\ pc' = [pc EXCEPT ![t] = "aborting"]
          /\ UNCHANGED <<req, upgrading, txnState, lockSet, wt, held, call,
                         rows, ws, stmt>>
       \/ /\ r # NoRid
          /\ rows[r] # Absent
          /\ ws' = [ws EXCEPT ![t] = Append(@, [kind |-> "upd", rid |-> r,
                                                before |-> rows[r]])]
          /\ rows' = [rows EXCEPT ![r] = stmt[t].val]
          /\ stmt' = [stmt EXCEPT ![t] = NoStmt]
          /\ UNCHANGED lmvars
    /\ UNCHANGED <<nstmt, expected>>

----
(* Commit and abort                                                        *)
----

\* The image one write-set entry puts back when it is rolled back.
UndoEntry(rs, x) == [rs EXCEPT ![x.rid] = x.before]

\* Faulty variant of Undo: the write set is replayed oldest first.
UndoForward(rs, w) == FoldLeft(UndoEntry, rs, w)

\* TransactionManager::abort, first part: the write set from back() to
\* front: an INSERT_TUPLE is deleted, a DELETE_TUPLE re-inserted at its
\* rid, an UPDATE_TUPLE gets its before-image back.
Undo(rs, w) == FoldLeft(UndoEntry, rs, Reverse(w))

\* What one committed write means when the transactions run serially.
Replay(e, x) ==
    CASE x.kind = "ins" -> [e EXCEPT ![x.rid] = 0]
      [] x.kind = "del" -> [e EXCEPT ![x.rid] = Absent]
      [] x.kind = "upd" -> IF e[x.rid] = Absent THEN e
                           ELSE [e EXCEPT ![x.rid] = e[x.rid] + 1]

\* TransactionManager::commit between statements: ReleaseLocks, the
\* write set dropped, COMMITTED.
Commit(t) ==
    /\ stmt[t] = NoStmt
    /\ LM!commit(t)
    /\ ws' = [ws EXCEPT ![t] = <<>>]
    /\ expected' = FoldLeft(Replay, expected, ws[t])
    /\ UNCHANGED <<rows, stmt, nstmt>>

\* TransactionManager::abort: rollback, then ReleaseLocks.  Run on an
\* explicit ABORT between statements or on any error of a statement.
Abort(t) ==
    /\ pc[t] = "aborting" \/ stmt[t] = NoStmt
    /\ LM!abort(t)
    /\ rows' = Undo(rows, ws[t])
    /\ ws' = [ws EXCEPT ![t] = <<>>]
    /\ stmt' = [stmt EXCEPT ![t] = NoStmt]
    /\ UNCHANGED <<nstmt, expected>>

----

Init ==
    /\ LM!Init
    /\ rows = [r \in Rids |-> IF r \in InitRows THEN 0 ELSE Absent]
    /\ ws = [t \in Txns |-> <<>>]
    /\ stmt = [t \in Txns |-> NoStmt]
    /\ nstmt = [t \in Txns |-> 0]
    /\ expected = rows

\* The steps of t's executor, as opposed to its client's choices.
ExecStep(t) ==
    \/ InsertWrite(t) \/ DeleteScan(t) \/ DeleteLockIX(t) \/ DeleteWrite(t)
    \/ UpdateRead(t) \/ UpdateWrite(t)
    \/ (LM!WaitRetry(t) \/ LM!WaitExpire(t)) /\ UNCHANGED tvars

Next ==
    \/ \E t \in Txns :
          \/ BeginInsert(t) \/ BeginScan(t, "del") \/ BeginScan(t, "upd")
          \/ ExecStep(t)
          \/ Commit(t)
          \/ Abort(t)
    \/ LM!Finished /\ UNCHANGED vars

\* Once a statement has started, the server thread runs it to its end
\* (the lock waits are bounded sleeps), and a statement error aborts.
\* The client is not fair: it may never start, commit or abort.
Fairness ==
    \A t \in Txns :
        /\ WF_vars(ExecStep(t))
        /\ WF_vars(pc[t] = "aborting" /\ Abort(t))

Spec == Init /\ [][Next]_vars /\ Fairness

----
(* Properties                                                              *)
----

\* The earliest before-image t recorded for slot r.
FirstBefore(w, r) ==
    w[CHOOSE i \in DOMAIN w : w[i].rid = r /\ \A j \in 1..i - 1 : w[j].rid # r].before

\* TransactionManager::abort puts every slot its transaction wrote back as
\* it was before that transaction's first write to it, whatever it wrote
\* in between (an insert then a delete of the same slot, two updates):
\* the write set is undone from back() to front.
RollbackRestoresFirstImage ==
    [][\A t \in Txns :
         (pc[t] # "done" /\ pc'[t] = "done" /\ txnState'[t] = "ABORTED") =>
            \A i \in DOMAIN ws[t] :
                rows'[ws[t][i].rid] = FirstBefore(ws[t], ws[t][i].rid)
      ]_vars

\* Every statement an executor starts ends: it completes, or its error
\* or lock abort is rolled back, even if other clients stall holding locks.
StatementsEnd ==
    \A t \in Txns : stmt[t] # NoStmt ~> stmt[t] = NoStmt

\* Serialisability of committed work: a slot no running transaction has
\* written holds what running the committed transactions one after
\* another in commit order gives (spec: write operators take row locks,
\* so no committed write is lost or rolled back by another transaction).
CommittedStateVisible ==
    \A r \in Rids :
        (\A t \in Txns : pc[t] # "done" => \A i \in DOMAIN ws[t] : ws[t][i].rid # r)
            => rows[r] = expected[r]

\* The record slots in file order: by page, then slot.
Position(r) == Layout[r].page * RecordsPerPage + Layout[r].slot
FileOrder == [i \in 1 .. Cardinality(Rids) |->
                CHOOSE r \in Rids : Cardinality({x \in Rids : Position(x) < Position(r)}) = i - 1]

\* A sequential scan returns every row of the table exactly once, in file
\* order, whatever pages the inserts, deletes and rollbacks have emptied
\* or filled: it is about RmScan's page loop skipping empty pages, next()
\* moving from the last used slot of a page to the first of a later one,
\* and the end of the file.
ScanReturnsLiveRows ==
    ScanRids = SelectSeq(FileOrder, LAMBDA r : rows[r] # Absent)

\* At every row the scan stops at, cur_page_hanle_ is the page of rid_ and
\* the scan holds that page's pin and no other, so SeqScanExecutor::Next
\* can read the record from it without a fetch; at the end it holds no
\* pin.  It is about next() unpinning the page it leaves (rid_'s, read
\* before the loop) and assigning the new page handle.
ScanPinsCurrentPage ==
    \A sc \in Range(RS!RmScanStates(Bitmaps)) :
        IF RS!RmScanIsEnd(sc) THEN sc.pins = RS!NoPins
        ELSE /\ sc.cur = sc.rid.page
             /\ sc.pins = [p \in RS!DataPages |-> IF p = sc.cur THEN 1 ELSE 0]

====
