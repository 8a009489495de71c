----------------------------- MODULE LogManager -----------------------------
(***************************************************************************)
(* The write-ahead log of src/recovery/log_manager.cpp: add_log_to_buffer  *)
(* under latch_, the flush thread of RunFlushThread with its two buffers,  *)
(* and ForceFlush, driven by client threads that append records           *)
(* (executors, TransactionManager::commit) and force LSNs (commit, and the *)
(* buffer pool before it writes a dirty page).                             *)
(*                                                                         *)
(* A record is abstracted to its LSN and every record to one unit of the   *)
(* buffer: is_full(len) is "BufCap records are already in the buffer".     *)
(* Code between latch_.lock and unlock is one step; the flush thread's     *)
(* write happens off the latch, so it is a step of its own.                *)
(***************************************************************************)
EXTENDS Naturals, Integers, Sequences, FiniteSets, Functions

CONSTANTS
    Threads,    \* client threads that append and force
    BufCap,     \* records that fit in one log buffer (LOG_BUFFER_SIZE)
    MaxLsn      \* bound on the LSNs handed out, to keep the model finite

ASSUME BufCap \in Nat \ {0} /\ MaxLsn \in Nat

INVALID_LSN == -1
NoLsn == -2

VARIABLES
    buf,        \* log_buffer_: the LSNs of the records in it, in order
    fbuf,       \* flush_buffer_
    disk,       \* the log file: the LSNs written, in order
    globalLsn,  \* global_lsn_
    persistLsn, \* persist_lsn_
    needFlush,  \* needFlush_
    fpc,        \* flush thread: "sleep" (in wait_for) or "write" (off latch)
    flushLsn,   \* the local lsn of the flush thread
    tpc,        \* client thread: "idle", "bufwait", "check", "set", "spin"
    force,      \* whether the thread will ForceFlush its appended record
    target,     \* the lsn argument of the thread's ForceFlush
    returned    \* history: the lsn of the thread's last returned ForceFlush

vars == <<buf, fbuf, disk, globalLsn, persistLsn, needFlush, fpc, flushLsn,
          tpc, force, target, returned>>

Lsns == INVALID_LSN .. MaxLsn

TypeOK ==
    /\ buf \in Seq(0 .. MaxLsn - 1) /\ Len(buf) <= BufCap
    /\ fbuf \in Seq(0 .. MaxLsn - 1) /\ Len(fbuf) <= BufCap
    /\ disk \in Seq(0 .. MaxLsn - 1)
    /\ globalLsn \in 0 .. MaxLsn
    /\ persistLsn \in Lsns
    /\ needFlush \in BOOLEAN
    /\ fpc \in {"sleep", "write"}
    /\ flushLsn \in Lsns
    /\ tpc \in [Threads -> {"idle", "bufwait", "check", "set", "spin"}]
    /\ force \in [Threads -> BOOLEAN]
    /\ target \in [Threads -> Lsns \cup {NoLsn}]
    /\ returned \in [Threads -> Lsns \cup {NoLsn}]

Init ==
    /\ buf = <<>>
    /\ fbuf = <<>>
    /\ disk = <<>>
    /\ globalLsn = 0
    /\ persistLsn = INVALID_LSN
    /\ needFlush = FALSE
    /\ fpc = "sleep"
    /\ flushLsn = INVALID_LSN
    /\ tpc = [t \in Threads |-> "idle"]
    /\ force = [t \in Threads |-> FALSE]
    /\ target = [t \in Threads |-> NoLsn]
    /\ returned = [t \in Threads |-> NoLsn]

----
(* add_log_to_buffer                                                       *)

\* log_buffer_->is_full(log_record->log_tot_len_)
is_full == Len(buf) = BufCap

\* lsn = global_lsn_.fetch_add(1); serialize into log_buffer_; then the
\* caller either returns or goes on to ForceFlush(lsn).
PutRecord(t) ==
    /\ buf' = Append(buf, globalLsn)
    /\ globalLsn' = globalLsn + 1
    /\ IF force[t]
         THEN tpc' = [tpc EXCEPT ![t] = "check"] /\ target' = [target EXCEPT ![t] = globalLsn]
         ELSE tpc' = [tpc EXCEPT ![t] = "idle"] /\ UNCHANGED target

\* The LSNs still to be handed out cover every thread that is or will be
\* waiting for room.
Waiting == {t \in Threads : tpc[t] = "bufwait"}
RoomForOne == globalLsn + Cardinality(Waiting) < MaxLsn

\* Faulty variant of add_log_to_buffer: no wait for room in the buffer.
add_log_to_bufferNoWait(t, f) ==
    /\ tpc[t] = "idle"
    /\ RoomForOne
    /\ force' = [force EXCEPT ![t] = f]
    /\ PutRecord(t)
    /\ UNCHANGED <<needFlush, fbuf, disk, persistLsn, fpc, flushLsn, returned>>

\* Append a record; f tells whether the caller forces it afterwards.  A full
\* buffer sets needFlush_, wakes the flush thread and waits on
\* operation_cv_ (the latch is released while waiting).
add_log_to_buffer(t, f) ==
    /\ tpc[t] = "idle"
    /\ RoomForOne
    /\ force' = [force EXCEPT ![t] = f]
    /\ IF is_full
         THEN /\ needFlush' = TRUE
              /\ tpc' = [tpc EXCEPT ![t] = "bufwait"]
              /\ UNCHANGED <<buf, globalLsn, target>>
         ELSE /\ PutRecord(t) /\ UNCHANGED needFlush
    /\ UNCHANGED <<fbuf, disk, persistLsn, fpc, flushLsn, returned>>

\* The operation_cv_ wait returns once the buffer has room again.
BufWake(t) ==
    /\ tpc[t] = "bufwait"
    /\ ~is_full
    /\ PutRecord(t)
    /\ UNCHANGED <<fbuf, disk, persistLsn, needFlush, fpc, flushLsn, force, returned>>

\* The clients of the log: a data record (executor_insert/delete/update),
\* a COMMIT or ABORT record that is then forced (TransactionManager), and a
\* page write-back forcing its page LSN (BufferPoolManager::update_page).
AppendRecord(t) == add_log_to_buffer(t, FALSE)
CommitRecord(t) == add_log_to_buffer(t, TRUE)

WalForce(t) ==
    /\ tpc[t] = "idle"
    /\ \E l \in INVALID_LSN .. globalLsn - 1 :
          target' = [target EXCEPT ![t] = l]
    /\ tpc' = [tpc EXCEPT ![t] = "check"]
    /\ UNCHANGED <<buf, fbuf, disk, globalLsn, persistLsn, needFlush, fpc,
                   flushLsn, force, returned>>

----
(* RunFlushThread                                                          *)

\* Faulty variant of FlushSwap: persist the lsn of the next record.
FlushSwapNext ==
    /\ fpc = "sleep"
    /\ buf # <<>>
    /\ buf' = fbuf /\ fbuf' = buf
    /\ flushLsn' = globalLsn
    /\ fpc' = "write"
    /\ UNCHANGED <<disk, globalLsn, persistLsn, needFlush, tpc, force, target, returned>>

\* Faulty variant of FlushSwap: the wait has no timeout, so the thread runs
\* only when needFlush_ is set.
FlushSwapOnFlag ==
    /\ fpc = "sleep"
    /\ needFlush
    /\ buf # <<>>
    /\ buf' = fbuf /\ fbuf' = buf
    /\ flushLsn' = globalLsn - 1
    /\ fpc' = "write"
    /\ UNCHANGED <<disk, globalLsn, persistLsn, needFlush, tpc, force, target, returned>>

\* Faulty variant of FlushSwap: the records are copied to flush_buffer_ but
\* log_buffer_ is not emptied (the commented-out offset handling).
FlushSwapCopy ==
    /\ fpc = "sleep"
    /\ buf # <<>>
    /\ fbuf' = buf
    /\ flushLsn' = globalLsn - 1
    /\ fpc' = "write"
    /\ UNCHANGED <<buf, disk, globalLsn, persistLsn, needFlush, tpc, force, target, returned>>

\* wait_for returns (30ms timeout, or needFlush_); with a non-empty
\* log_buffer_, under the latch: swap the buffers, lsn = global_lsn_ - 1,
\* unlock, notify operation_cv_.  An empty buffer makes the pass a no-op.
FlushSwap ==
    /\ fpc = "sleep"
    /\ buf # <<>>
    /\ buf' = fbuf /\ fbuf' = buf
    /\ flushLsn' = globalLsn - 1
    /\ fpc' = "write"
    /\ UNCHANGED <<disk, globalLsn, persistLsn, needFlush, tpc, force, target, returned>>

\* flush_log_to_disk: append flush_buffer_ to the file, offset_ = 0.
flush_log_to_disk ==
    /\ disk' = disk \o fbuf
    /\ fbuf' = <<>>

\* Off the latch: flush_log_to_disk, persist_lsn_ = lsn, needFlush_ = false.
FlushWrite ==
    /\ fpc = "write"
    /\ flush_log_to_disk
    /\ persistLsn' = flushLsn
    /\ needFlush' = FALSE
    /\ fpc' = "sleep"
    /\ UNCHANGED <<buf, globalLsn, flushLsn, tpc, force, target, returned>>

----
(* ForceFlush(lsn)                                                         *)

\* if (persist_lsn_ >= lsn) return;
ForceCheck(t) ==
    /\ tpc[t] = "check"
    /\ IF persistLsn >= target[t]
         THEN /\ tpc' = [tpc EXCEPT ![t] = "idle"]
              /\ returned' = [returned EXCEPT ![t] = target[t]]
         ELSE /\ tpc' = [tpc EXCEPT ![t] = "set"]
              /\ UNCHANGED returned
    /\ UNCHANGED <<buf, fbuf, disk, globalLsn, persistLsn, needFlush, fpc,
                   flushLsn, force, target>>

\* needFlush_ = true; cv_.notify_one();
ForceSet(t) ==
    /\ tpc[t] = "set"
    /\ needFlush' = TRUE
    /\ tpc' = [tpc EXCEPT ![t] = "spin"]
    /\ UNCHANGED <<buf, fbuf, disk, globalLsn, persistLsn, fpc, flushLsn,
                   force, target, returned>>

\* Faulty variant of ForceSpin: spin until the flush thread clears the flag.
ForceSpinOnFlag(t) ==
    /\ tpc[t] = "spin"
    /\ ~needFlush
    /\ tpc' = [tpc EXCEPT ![t] = "idle"]
    /\ returned' = [returned EXCEPT ![t] = target[t]]
    /\ UNCHANGED <<buf, fbuf, disk, globalLsn, persistLsn, needFlush, fpc,
                   flushLsn, force, target>>

\* while (persist_lsn_ < lsn) {}  -- leaves the loop once it is reached.
ForceSpin(t) ==
    /\ tpc[t] = "spin"
    /\ persistLsn >= target[t]
    /\ tpc' = [tpc EXCEPT ![t] = "idle"]
    /\ returned' = [returned EXCEPT ![t] = target[t]]
    /\ UNCHANGED <<buf, fbuf, disk, globalLsn, persistLsn, needFlush, fpc,
                   flushLsn, force, target>>

----

Next ==
    \/ FlushSwap
    \/ FlushWrite
    \/ \E t \in Threads :
          \/ AppendRecord(t) \/ CommitRecord(t) \/ WalForce(t) \/ BufWake(t)
          \/ ForceCheck(t) \/ ForceSet(t) \/ ForceSpin(t)

\* The flush thread wakes at least every 30ms (wait_for); client threads
\* are scheduled.  Nothing forces an idle client to append or force.
Fairness ==
    /\ WF_vars(FlushSwap)
    /\ WF_vars(FlushWrite)
    /\ \A t \in Threads :
          WF_vars(BufWake(t) \/ ForceCheck(t) \/ ForceSet(t) \/ ForceSpin(t))

Spec == Init /\ [][Next]_vars /\ Fairness

----
(* Properties                                                              *)

\* The log file, the flush buffer and the log buffer, read in that order,
\* hold every LSN handed out exactly once and in order: the swap under the
\* latch, the single flush thread and the offset reset lose, duplicate or
\* reorder nothing.
LogIsSequential ==
    disk \o fbuf \o buf = [i \in 1 .. globalLsn |-> i - 1]

\* WAL: persist_lsn_ never names a record that is not yet in the file, even
\* though it is published after a write done off the latch.
PersistIsDurable ==
    \A l \in 0 .. persistLsn : l \in Range(disk)

\* Commit durability: a ForceFlush(lsn) that has returned left its record in
\* the file (spec.md ordering guarantee (ii)), although a concurrent flush
\* may clear the needFlush_ it set.
ForcedIsDurable ==
    \A t \in Threads :
        tpc[t] = "idle" /\ returned[t] >= 0 => returned[t] \in Range(disk)

\* Every append blocked on a full buffer and every ForceFlush returns: the
\* flush thread's timeout recovers from a needFlush_ cleared by a flush that
\* started before it was set.
CallsReturn ==
    \A t \in Threads : tpc[t] # "idle" ~> tpc[t] = "idle"

=============================================================================
