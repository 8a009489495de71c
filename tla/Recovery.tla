------------------------------ MODULE Recovery ------------------------------
(***************************************************************************)
(* Write-ahead logging at run time and RecoveryManager's redo and undo on  *)
(* restart (src/src/recovery/log_recovery.cpp), with crashes at any point, *)
(* recovery included.                                                      *)
(*                                                                         *)
(* A record slot holds a value or Absent. A page groups slots and carries  *)
(* one page-LSN. Each page has a buffer copy (memVal, memLsn) and a disk   *)
(* copy (diskVal, diskLsn). The log is one sequence; the record at index   *)
(* i has LSN i-1, because global_lsn_ starts at 0 and, after recovery, at  *)
(* max_lsn + 1. durable is the length of the prefix on disk.               *)
(*                                                                         *)
(* Each transaction writes only the slots it owns (Own). This stands for   *)
(* the X locks that 2PL gives writers; here the question is durability and *)
(* atomicity, not isolation.                                               *)
(***************************************************************************)
EXTENDS Naturals, Integers, Sequences, FiniteSets, SequencesExt, Functions,
        FiniteSetsExt

CONSTANTS
    Txns,        \* transactions
    Rids,        \* record slots
    Pages,       \* pages
    PageOf,      \* PageOf[r]: the page that holds slot r
    Own,         \* Own[t]: the slot transaction t writes
    InitVal,     \* InitVal[r]: the slot's value when the database opens
    MaxOps,      \* data operations per transaction
    MaxCrashes,  \* crashes in one behaviour
    EvictAt      \* the points between the two halves of an operation at
                 \* which its page can be written back

ASSUME PageOf \in [Rids -> Pages]
ASSUME Own \in [Txns -> Rids] /\ IsInjective(Own)
ASSUME EvictAt \subseteq {"ins_log", "apply", "abort_apply"}

Absent == -1
INVALID_LSN == -1
NoRid == "norid"
MaxVal == MaxOps + 1
Vals == {Absent} \cup 0..MaxVal

ASSUME InitVal \in [Rids -> {Absent, 0}]

\* The fields of a log record: LogType, log_tid_, prev_lsn_, and for data
\* records rid_ with the before-image and after-image (Absent where the
\* record type has none).
DataTypes == {"INSERT", "DELETE", "UPDATE"}
LogTypes == {"begin", "commit", "ABORT"} \cup DataTypes
LogRecords == [type : LogTypes, tid : Txns, prev : {INVALID_LSN} \cup Nat,
               rid : Rids \cup {NoRid}, bef : Vals, aft : Vals]

CtlRec(type, t, prev) ==
    [type |-> type, tid |-> t, prev |-> prev, rid |-> NoRid,
     bef |-> Absent, aft |-> Absent]
DataRec(type, t, prev, r, bef, aft) ==
    [type |-> type, tid |-> t, prev |-> prev, rid |-> r, bef |-> bef, aft |-> aft]

TxnPCs == {"init", "active", "ins_log", "apply", "aborting", "abort_apply",
           "committed", "aborted", "lost"}
Phases == {"run", "redo", "undo", "up"}

VARIABLES
    log, durable,           \* the log and the length of its prefix on disk
    memVal, memLsn,         \* buffer copies of the slots and page-LSNs
    diskVal, diskLsn,       \* disk copies of the slots and page-LSNs
    tpc, tprev, ws, nops,   \* per transaction: pc, prev_lsn_, write set, count
    tval,                   \* the image the pending apply step writes
    phase,                  \* running, in redo, in undo, or recovered
    cursor,                 \* redo: index of the next log record to read
    active_txn_,            \* redo/undo: txn -> its last LSN
    next_lsn,               \* undo: LSNs still to undo
    crashes,
    cval                    \* history: the slot values commits made durable

vars == <<log, durable, memVal, memLsn, diskVal, diskLsn, tpc, tprev, ws,
          nops, tval, phase, cursor, active_txn_, next_lsn, crashes, cval>>
recVars == <<cursor, active_txn_, next_lsn>>

NextLsn == Len(log)

----
(***************************************************************************)
(* Run time: a transaction's log records, and its changes to the slot in   *)
(* the buffer, in the order the executors and TransactionManager make them.*)
(***************************************************************************)

Running(t) == phase = "run" /\ tpc[t] = "active"

\* TransactionManager::begin: a BEGIN record with the fresh prev_lsn_.
Begin(t) ==
    /\ phase = "run" /\ tpc[t] = "init"
    /\ log' = Append(log, CtlRec("begin", t, tprev[t]))
    /\ tprev' = [tprev EXCEPT ![t] = NextLsn]
    /\ tpc' = [tpc EXCEPT ![t] = "active"]
    /\ UNCHANGED <<durable, memVal, memLsn, diskVal, diskLsn, ws, nops, tval,
                   phase, recVars, crashes, cval>>

\* InsertExecutor::Next, first half: insert_record writes the slot and the
\* write set gets INSERT_TUPLE; the log record is not written yet.
Insert(t) ==
    LET r == Own[t] IN
    /\ Running(t) /\ nops[t] < MaxOps /\ memVal[r] = Absent
    /\ memVal' = [memVal EXCEPT ![r] = 1]
    /\ ws' = [ws EXCEPT ![t] = Append(@, [kind |-> "ins", rid |-> r, before |-> Absent])]
    /\ nops' = [nops EXCEPT ![t] = @ + 1]
    /\ tpc' = [tpc EXCEPT ![t] = "ins_log"]
    /\ UNCHANGED <<log, durable, memLsn, diskVal, diskLsn, tprev, tval, phase,
                   recVars, crashes, cval>>

\* InsertExecutor::Next, second half: the INSERT record, and set_page_lsn.
InsertLog(t) ==
    LET r == Own[t] IN
    /\ phase = "run" /\ tpc[t] = "ins_log"
    /\ log' = Append(log, DataRec("INSERT", t, tprev[t], r, Absent, memVal[r]))
    /\ memLsn' = [memLsn EXCEPT ![PageOf[r]] = NextLsn]
    /\ tprev' = [tprev EXCEPT ![t] = NextLsn]
    /\ tpc' = [tpc EXCEPT ![t] = "active"]
    /\ UNCHANGED <<durable, memVal, diskVal, diskLsn, ws, nops, tval, phase,
                   recVars, crashes, cval>>

\* DeleteExecutor::Next and UpdateExecutor::Next, first half: the write set
\* gets the before-image, then the DELETE or UPDATE record and set_page_lsn.
\* The slot is changed by the next step (Apply).
LogChange(t, kind, type, new) ==
    LET r == Own[t] IN
    /\ log' = Append(log, DataRec(type, t, tprev[t], r, memVal[r], new))
    /\ memLsn' = [memLsn EXCEPT ![PageOf[r]] = NextLsn]
    /\ tprev' = [tprev EXCEPT ![t] = NextLsn]
    /\ ws' = [ws EXCEPT ![t] = Append(@, [kind |-> kind, rid |-> r, before |-> memVal[r]])]
    /\ tval' = [tval EXCEPT ![t] = new]
    /\ nops' = [nops EXCEPT ![t] = @ + 1]
    /\ tpc' = [tpc EXCEPT ![t] = "apply"]
    /\ UNCHANGED <<durable, memVal, diskVal, diskLsn, phase, recVars, crashes, cval>>

Delete(t) ==
    /\ Running(t) /\ nops[t] < MaxOps /\ memVal[Own[t]] # Absent
    /\ LogChange(t, "del", "DELETE", Absent)

Update(t) ==
    /\ Running(t) /\ nops[t] < MaxOps /\ memVal[Own[t]] \notin {Absent, MaxVal}
    /\ LogChange(t, "upd", "UPDATE", memVal[Own[t]] + 1)

\* The second half of a change whose record is already logged: delete_record
\* or update_record of an executor, or the heap call of one undo step of
\* TransactionManager::abort.
Apply(t) ==
    /\ phase = "run" /\ tpc[t] \in {"apply", "abort_apply"}
    /\ memVal' = [memVal EXCEPT ![Own[t]] = tval[t]]
    /\ tpc' = [tpc EXCEPT ![t] = IF @ = "apply" THEN "active" ELSE "aborting"]
    /\ UNCHANGED <<log, durable, memLsn, diskVal, diskLsn, tprev, ws, nops, tval,
                   phase, recVars, crashes, cval>>

\* TransactionManager::commit: drop the write set, a COMMIT record, and
\* ForceFlush up to it.
Commit(t) ==
    /\ Running(t)
    /\ log' = Append(log, CtlRec("commit", t, tprev[t]))
    /\ durable' = Len(log')
    /\ tprev' = [tprev EXCEPT ![t] = NextLsn]
    /\ ws' = [ws EXCEPT ![t] = <<>>]
    /\ tpc' = [tpc EXCEPT ![t] = "committed"]
    /\ cval' = [r \in Rids |-> IF r = Own[t] THEN memVal[r] ELSE cval[r]]
    /\ UNCHANGED <<memVal, memLsn, diskVal, diskLsn, nops, tval, phase, recVars,
                   crashes>>

\* A client ABORT, a lock timeout or a failed statement: rollback begins.
Abort(t) ==
    /\ Running(t)
    /\ tpc' = [tpc EXCEPT ![t] = "aborting"]
    /\ UNCHANGED <<log, durable, memVal, memLsn, diskVal, diskLsn, tprev, ws,
                   nops, tval, phase, recVars, crashes, cval>>

\* TransactionManager::abort, one write-set entry from back(): the
\* compensating record (DELETE for an insert, INSERT for a delete, UPDATE
\* back to the before-image) and set_page_lsn. Apply then changes the slot.
AbortLog(t) ==
    LET x == Last(ws[t])
        r == x.rid
        type == CASE x.kind = "ins" -> "DELETE"
                  [] x.kind = "del" -> "INSERT"
                  [] x.kind = "upd" -> "UPDATE"
    IN
    /\ phase = "run" /\ tpc[t] = "aborting" /\ ws[t] # <<>>
    /\ log' = Append(log, DataRec(type, t, tprev[t], r, memVal[r], x.before))
    /\ memLsn' = [memLsn EXCEPT ![PageOf[r]] = NextLsn]
    /\ tprev' = [tprev EXCEPT ![t] = NextLsn]
    /\ ws' = [ws EXCEPT ![t] = Front(@)]
    /\ tval' = [tval EXCEPT ![t] = x.before]
    /\ tpc' = [tpc EXCEPT ![t] = "abort_apply"]
    /\ UNCHANGED <<durable, memVal, diskVal, diskLsn, nops, phase, recVars,
                   crashes, cval>>

\* TransactionManager::abort, after the write set: an ABORT record and
\* ForceFlush up to it.
AbortEnd(t) ==
    /\ phase = "run" /\ tpc[t] = "aborting" /\ ws[t] = <<>>
    /\ log' = Append(log, CtlRec("ABORT", t, tprev[t]))
    /\ durable' = Len(log')
    /\ tprev' = [tprev EXCEPT ![t] = NextLsn]
    /\ tpc' = [tpc EXCEPT ![t] = "aborted"]
    /\ UNCHANGED <<memVal, memLsn, diskVal, diskLsn, ws, nops, tval, phase,
                   recVars, crashes, cval>>

----
(***************************************************************************)
(* Write-back, log flush and crash. Each can happen at any time.           *)
(***************************************************************************)

\* Transaction t is between the two halves of an operation on page p, at a
\* point where the page cannot be written back.
MidOp(t, p) ==
    tpc[t] \in {"ins_log", "apply", "abort_apply"} \ EvictAt /\ PageOf[Own[t]] = p

\* ForceFlush(page_lsn) returns at once if persist_lsn_ >= page_lsn, and
\* otherwise has the flush thread write everything appended.
ForcedDurable(lsn) == IF lsn < durable THEN durable ELSE Len(log)

\* BufferPoolManager::flush_page or update_page on eviction: ForceFlush
\* up to the page-LSN, then write the frame back. The buffer pool unpins a
\* page between the two halves of an operation, so it can be evicted there
\* too (EvictAt).
FlushPage(p) ==
    /\ \A t \in Txns : ~MidOp(t, p)
    /\ durable' = ForcedDurable(memLsn[p])
    /\ diskVal' = [r \in Rids |-> IF PageOf[r] = p THEN memVal[r] ELSE diskVal[r]]
    /\ diskLsn' = [diskLsn EXCEPT ![p] = memLsn[p]]
    /\ UNCHANGED <<log, memVal, memLsn, tpc, tprev, ws, nops, tval, phase,
                   recVars, crashes, cval>>

\* LogManager's flush thread: swap the buffers and write the flush buffer.
FlushLog ==
    /\ durable < Len(log)
    /\ durable' = Len(log)
    /\ UNCHANGED <<log, memVal, memLsn, diskVal, diskLsn, tpc, tprev, ws, nops,
                   tval, phase, recVars, crashes, cval>>

\* The process stops. The buffer and the unwritten tail of the log are lost;
\* a flush in progress may have written any part of the tail. On restart,
\* RecoveryManager runs redo and undo.
Crash ==
    /\ crashes < MaxCrashes
    /\ \E k \in durable..Len(log) :
          /\ log' = SubSeq(log, 1, k)
          /\ durable' = k
    /\ memVal' = diskVal
    /\ memLsn' = diskLsn
    /\ tpc' = [t \in Txns |-> IF tpc[t] \in {"init", "committed", "aborted"}
                              THEN tpc[t] ELSE "lost"]
    /\ ws' = [t \in Txns |-> <<>>]
    /\ phase' = "redo"
    /\ cursor' = 1
    /\ active_txn_' = <<>>
    /\ next_lsn' = {}
    /\ crashes' = crashes + 1
    /\ UNCHANGED <<diskVal, diskLsn, tprev, nops, tval, cval>>

----
(***************************************************************************)
(* RecoveryManager::redo and RecoveryManager::undo, one log record a step. *)
(***************************************************************************)

\* RedoLog: note the transaction's last LSN; COMMIT and ABORT end it; a data
\* record whose page-LSN is below its LSN is applied and sets the page-LSN.
RedoLog(x, lsn) ==
    /\ active_txn_' = IF x.type \in {"commit", "ABORT"}
                      THEN Restrict(active_txn_, DOMAIN active_txn_ \ {x.tid})
                      ELSE (x.tid :> lsn) @@ active_txn_
    /\ IF x.type \in DataTypes /\ memLsn[PageOf[x.rid]] < lsn
       THEN /\ memVal' = [memVal EXCEPT ![x.rid] = x.aft]
            /\ memLsn' = [memLsn EXCEPT ![PageOf[x.rid]] = lsn]
       ELSE UNCHANGED <<memVal, memLsn>>

\* redo: read the next record of the log on disk.
Redo ==
    /\ phase = "redo" /\ cursor <= Len(log)
    /\ RedoLog(log[cursor], cursor - 1)
    /\ cursor' = cursor + 1
    /\ UNCHANGED <<log, durable, diskVal, diskLsn, tpc, tprev, ws, nops, tval,
                   phase, next_lsn, crashes, cval>>

\* The end of redo: persist_lsn_ and global_lsn_ are set from max_lsn (the
\* log's length here), and undo starts from each active transaction's last LSN.
RedoEnd ==
    /\ phase = "redo" /\ cursor > Len(log)
    /\ phase' = "undo"
    /\ next_lsn' = Range(active_txn_)
    /\ UNCHANGED <<log, durable, memVal, memLsn, diskVal, diskLsn, tpc, tprev,
                   ws, nops, tval, cursor, active_txn_, crashes, cval>>

\* UndoLog of a data record: append the compensating record, whose prev_lsn_
\* is the transaction's last LSN, apply the before-image, set the page-LSN
\* to the undone record's LSN, and make the new record the last LSN.
UndoLog(x, lsn) ==
    IF x.type \in DataTypes
    THEN LET inv == CASE x.type = "INSERT" -> "DELETE"
                      [] x.type = "DELETE" -> "INSERT"
                      [] x.type = "UPDATE" -> "UPDATE"
         IN
         /\ log' = Append(log, DataRec(inv, x.tid, active_txn_[x.tid], x.rid,
                                       x.aft, x.bef))
         /\ memVal' = [memVal EXCEPT ![x.rid] = x.bef]
         /\ memLsn' = [memLsn EXCEPT ![PageOf[x.rid]] = lsn]
         /\ active_txn_' = [active_txn_ EXCEPT ![x.tid] = NextLsn]
    ELSE UNCHANGED <<log, memVal, memLsn, active_txn_>>

\* Faulty variant of Undo: prev_lsn_ is followed even when it is INVALID_LSN.
UndoNoInvalidCheck ==
    LET lsn == Max(next_lsn)
        x == log[lsn + 1]
    IN
    /\ phase = "undo" /\ next_lsn # {}
    /\ UndoLog(x, lsn)
    /\ next_lsn' = (next_lsn \ {lsn}) \cup {x.prev}
    /\ UNCHANGED <<durable, diskVal, diskLsn, tpc, tprev, ws, nops, tval, phase,
                   cursor, crashes, cval>>

\* Faulty variant of Undo: only each transaction's last record is undone.
UndoNoPrev ==
    LET lsn == Max(next_lsn)
        x == log[lsn + 1]
    IN
    /\ phase = "undo" /\ next_lsn # {}
    /\ UndoLog(x, lsn)
    /\ next_lsn' = next_lsn \ {lsn}
    /\ UNCHANGED <<durable, diskVal, diskLsn, tpc, tprev, ws, nops, tval, phase,
                   cursor, crashes, cval>>

\* undo: take the highest LSN left, undo it, and go on at its prev_lsn_.
Undo ==
    LET lsn == Max(next_lsn)
        x == log[lsn + 1]
    IN
    /\ phase = "undo" /\ next_lsn # {}
    /\ UndoLog(x, lsn)
    /\ next_lsn' = (next_lsn \ {lsn}) \cup
                   (IF x.prev # INVALID_LSN THEN {x.prev} ELSE {})
    /\ UNCHANGED <<durable, diskVal, diskLsn, tpc, tprev, ws, nops, tval, phase,
                   cursor, crashes, cval>>

\* The end of undo: an ABORT record for every transaction still active,
\* appended to the log buffer without ForceFlush.
UndoEnd ==
    LET ts == SetToSeq(DOMAIN active_txn_) IN
    /\ phase = "undo" /\ next_lsn = {}
    /\ log' = log \o [i \in 1..Len(ts) |-> CtlRec("ABORT", ts[i], active_txn_[ts[i]])]
    /\ phase' = "up"
    /\ UNCHANGED <<durable, memVal, memLsn, diskVal, diskLsn, tpc, tprev, ws,
                   nops, tval, recVars, crashes, cval>>

----

Init ==
    /\ log = <<>>
    /\ durable = 0
    /\ memVal = InitVal
    /\ diskVal = InitVal
    /\ memLsn = [p \in Pages |-> 0]
    /\ diskLsn = [p \in Pages |-> 0]
    /\ tpc = [t \in Txns |-> "init"]
    /\ tprev = [t \in Txns |-> INVALID_LSN]
    /\ ws = [t \in Txns |-> <<>>]
    /\ nops = [t \in Txns |-> 0]
    /\ tval = [t \in Txns |-> Absent]
    /\ phase = "run"
    /\ cursor = 1
    /\ active_txn_ = <<>>
    /\ next_lsn = {}
    /\ crashes = 0
    /\ cval = InitVal

TxnStep(t) ==
    \/ Begin(t) \/ Insert(t) \/ InsertLog(t) \/ Delete(t) \/ Update(t)
    \/ Apply(t) \/ Commit(t) \/ Abort(t) \/ AbortLog(t) \/ AbortEnd(t)

Next ==
    \/ \E t \in Txns : TxnStep(t)
    \/ \E p \in Pages : FlushPage(p)
    \/ FlushLog
    \/ Crash
    \/ Redo \/ RedoEnd \/ Undo \/ UndoEnd

Spec == Init /\ [][Next]_vars

----

TypeOK ==
    /\ log \in Seq(LogRecords)
    /\ durable \in 0..Len(log)
    /\ memVal \in [Rids -> Vals] /\ diskVal \in [Rids -> Vals]
    /\ memLsn \in [Pages -> Nat] /\ diskLsn \in [Pages -> Nat]
    /\ tpc \in [Txns -> TxnPCs]
    /\ \A t \in Txns : ws[t] \in Seq([kind : {"ins", "del", "upd"}, rid : Rids,
                                      before : Vals])
    /\ phase \in Phases
    /\ cursor \in 1..Len(log) + 1
    /\ DOMAIN active_txn_ \subseteq Txns
    /\ next_lsn \subseteq 0..Len(log) - 1
    /\ cval \in [Rids -> Vals]

\* After restart, redo and undo leave every slot as the committed
\* transactions left it: what a transaction whose commit returned wrote is
\* kept, and nothing of a transaction that aborted or was cut off by the
\* crash remains (spec.md, invariant 7; the page-LSN test in RedoLog).
RecoveryCorrect == phase = "up" => memVal = cval

====
