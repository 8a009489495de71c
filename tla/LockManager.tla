----------------------------- MODULE LockManager -----------------------------
(***************************************************************************)
(* The multi-granularity lock table of src/transaction/concurrency/        *)
(* lock_manager.cpp, driven by transactions that call its lock functions   *)
(* in any order and end by commit or abort (transaction_manager.cpp).      *)
(*                                                                         *)
(* Per object the code keeps a request queue of (txn, mode, granted) and   *)
(* an upgrading_ flag.  A transaction has at most one request per object   *)
(* (a second call either returns, upgrades that request, or fails), so the *)
(* queue is a function Txns -> request.  Queue order never matters: every  *)
(* check walks the whole queue and only granted requests of other          *)
(* transactions count (checkQueueCompatible).                              *)
(*                                                                         *)
(* The bounded retry loop is modelled step by step: a check under the      *)
(* queue latch, then "unlock, sleep 50us" as the gap between two steps.    *)
(***************************************************************************)
EXTENDS Naturals, FiniteSets

CONSTANTS
    Txns,        \* transactions, one client thread each
    Tables,      \* LockDataId(tab_fd, TABLE)
    Records,     \* LockDataId(tab_fd, rid, RECORD)
    Gaps,        \* LockDataId(index_fd, rid, GAP)
    MaxAttempt   \* the retry bound of the wait loops

ASSUME MaxAttempt \in Nat

Objs == Tables \cup Records \cup Gaps

Modes == {"IS", "IX", "S", "SIX", "X"}
None  == "none"

\* TransactionState
States == {"DEFAULT", "GROWING", "SHRINKING", "COMMITTED", "ABORTED"}

NoReq == [mode |-> None, granted |-> FALSE]
Requests == [mode : Modes, granted : BOOLEAN] \cup {NoReq}

VARIABLES
    req,        \* req[o][t]: t's LockRequest in the queue of o, or NoReq
    upgrading,  \* upgrading[o]: LockRequestQueue::upgrading_
    txnState,   \* Transaction::state_
    lockSet,    \* Transaction::lock_set_
    pc,         \* where t's thread is: "idle", "wait", "aborting", "done"
    wt,         \* the wait loop t is in: object, upgrade path?, curAttemp
    held,       \* history: the mode a lock call last returned to t on o
    call        \* history: the (object, mode) of t's last successful call

vars == <<req, upgrading, txnState, lockSet, pc, wt, held, call>>

NoWait == [obj |-> None, upg |-> FALSE, attempt |-> 0]
NoCall == [obj |-> None, mode |-> None]

TypeOK ==
    /\ req \in [Objs -> [Txns -> Requests]]
    /\ upgrading \in [Objs -> BOOLEAN]
    /\ txnState \in [Txns -> States]
    /\ lockSet \in [Txns -> SUBSET Objs]
    /\ pc \in [Txns -> {"idle", "wait", "aborting", "done"}]
    /\ wt \in [Txns -> [obj : Objs, upg : BOOLEAN, attempt : 0..MaxAttempt + 1]
                       \cup {NoWait}]
    /\ held \in [Objs -> [Txns -> Modes \cup {None}]]
    /\ call \in [Txns -> [obj : Objs, mode : Modes] \cup {NoCall}]

----
(* Mode tables                                                             *)
----

\* isLockCompatible(iter, target): a granted iter does not block target.
isLockCompatible(granted, target) ==
    CASE target = "IS"  -> granted # "X"
      [] target = "IX"  -> granted \in {"IS", "IX"}
      [] target = "S"   -> granted \in {"IS", "S"}
      [] target = "SIX" -> granted = "IS"
      [] target = "X"   -> FALSE

\* Faulty variants of isUpdateCompatible: IX + S reported as "no upgrade",
\* and S + IX moved to IX instead of SIX.
isUpdateCompatibleIXS(cur, new) ==
    IF cur = "IX" /\ new = "S" THEN None
    ELSE CASE cur = "IS"  -> IF new = "IS" THEN None ELSE new
           [] cur = "S"   -> CASE new = "X"  -> "X"
                               [] new = "IX" -> "SIX"
                               [] OTHER      -> None
           [] cur = "IX"  -> IF new = "X" THEN "X" ELSE None
           [] cur = "SIX" -> IF new = "X" THEN "X" ELSE None
           [] cur = "X"   -> None
isUpdateCompatibleSIX(cur, new) ==
    IF cur = "S" /\ new = "IX" THEN "IX"
    ELSE CASE cur = "IS"  -> IF new = "IS" THEN None ELSE new
           [] cur = "S"   -> IF new = "X" THEN "X" ELSE None
           [] cur = "IX"  -> CASE new = "X" -> "X"
                               [] new = "S" -> "SIX"
                               [] OTHER     -> None
           [] cur = "SIX" -> IF new = "X" THEN "X" ELSE None
           [] cur = "X"   -> None

\* isUpdateCompatible(iter, upgrade_lock_mode, &return_lock_mode): the
\* mode the request must move to, or None when the code reports "no upgrade
\* needed" (and then returns success if the request is granted).
isUpdateCompatible(cur, new) ==
    CASE cur = "IS"  -> IF new = "IS" THEN None ELSE new
      [] cur = "S"   -> CASE new = "X"  -> "X"
                          [] new = "IX" -> "SIX"
                          [] OTHER      -> None
      [] cur = "IX"  -> CASE new = "X" -> "X"
                          [] new = "S" -> "SIX"
                          [] OTHER     -> None
      [] cur = "SIX" -> IF new = "X" THEN "X" ELSE None
      [] cur = "X"   -> None

\* checkQueueCompatible(request_queue, request): only granted requests of
\* other transactions are looked at.
checkQueueCompatible(o, t, m) ==
    \A u \in Txns \ {t} :
        req[o][u].granted => isLockCompatible(req[o][u].mode, m)

----
(* The wait loop                                                           *)
(*   int curAttemp = 0;                                                    *)
(*   while (curAttemp <= MaxAttempt) {                                     *)
(*     if (curAttemp > 0) queue_lock.lock();                               *)
(*     if (!checkQueueCompatible(..)) { curAttemp++; queue_lock.unlock();  *)
(*                                      sleep(50us); } else break;         *)
(*   }                                                                     *)
(*   if (curAttemp == MaxAttempt) txn->set_state(ABORTED);                 *)
(*   [upgrade path: upgrading_ = false;]                                   *)
(*   if (state == ABORTED) throw DEADLOCK_PREVENTION;                      *)
(*   request.granted_ = true; return true;                                 *)
----


\* Step 1 of every lock_* function: DEFAULT -> GROWING.
GrowingState(t) == IF txnState[t] = "DEFAULT" THEN "GROWING" ELSE txnState[t]

\* Faulty variant of LoopPass: a failed check does not count the attempt.
LoopPassNoCount(t, o, r, upg, a) ==
    IF checkQueueCompatible(o, t, r.mode)
      THEN /\ upgrading' = IF upg THEN [upgrading EXCEPT ![o] = FALSE]
                                  ELSE upgrading
           /\ wt' = [wt EXCEPT ![t] = NoWait]
           /\ IF a = MaxAttempt
                THEN /\ req' = [req EXCEPT ![o][t] = r]
                     /\ txnState' = [txnState EXCEPT ![t] = "ABORTED"]
                     /\ pc' = [pc EXCEPT ![t] = "aborting"]
                     /\ UNCHANGED held
                ELSE /\ req' = [req EXCEPT ![o][t] = [r EXCEPT !.granted = TRUE]]
                     /\ held' = [held EXCEPT ![o][t] = r.mode]
                     /\ pc' = [pc EXCEPT ![t] = "idle"]
                     /\ txnState' = [txnState EXCEPT ![t] = GrowingState(t)]
      ELSE /\ req' = [req EXCEPT ![o][t] = r]
           /\ upgrading' = IF upg THEN [upgrading EXCEPT ![o] = TRUE]
                                  ELSE upgrading
           /\ pc' = [pc EXCEPT ![t] = "wait"]
           /\ wt' = [wt EXCEPT ![t] = [obj |-> o, upg |-> upg, attempt |-> a]]
           /\ txnState' = [txnState EXCEPT ![t] = GrowingState(t)]
           /\ UNCHANGED held

\* One pass of the loop body, latch held, curAttemp = a, on t's request r
\* to o; upg tells whether this is the loop of checkSameTxnLockRequest.
\* On the first pass (a = 0) r is being put into the queue in this step.
LoopPass(t, o, r, upg, a) ==
    IF checkQueueCompatible(o, t, r.mode)
      THEN \* break, then the statements after the loop
           /\ upgrading' = IF upg THEN [upgrading EXCEPT ![o] = FALSE]
                                  ELSE upgrading
           /\ wt' = [wt EXCEPT ![t] = NoWait]
           /\ IF a = MaxAttempt
                THEN /\ req' = [req EXCEPT ![o][t] = r]
                     /\ txnState' = [txnState EXCEPT ![t] = "ABORTED"]
                     /\ pc' = [pc EXCEPT ![t] = "aborting"]
                     /\ UNCHANGED held
                ELSE /\ req' = [req EXCEPT ![o][t] = [r EXCEPT !.granted = TRUE]]
                     /\ held' = [held EXCEPT ![o][t] = r.mode]
                     /\ pc' = [pc EXCEPT ![t] = "idle"]
                     /\ txnState' = [txnState EXCEPT ![t] = GrowingState(t)]
      ELSE \* curAttemp++; unlock; sleep
           /\ req' = [req EXCEPT ![o][t] = r]
           /\ upgrading' = IF upg THEN [upgrading EXCEPT ![o] = TRUE]
                                  ELSE upgrading
           /\ pc' = [pc EXCEPT ![t] = "wait"]
           /\ wt' = [wt EXCEPT ![t] = [obj |-> o, upg |-> upg, attempt |-> a + 1]]
           /\ txnState' = [txnState EXCEPT ![t] = GrowingState(t)]
           /\ UNCHANGED held

----
(* Entry points: lock_shared_on_record, lock_exclusive_on_record,          *)
(* lock_shared_on_table, lock_exclusive_on_table, lock_IS_on_table,        *)
(* lock_IX_on_table and lock_gap_on_index have one body and differ only in *)
(* the LockDataId and the mode.                                            *)
----

\* Steps 4 and 5 of a lock_* call of t on o in mode m.  Step 1 (a state
\* other than DEFAULT or GROWING throws LOCK_ON_SHIRINKING) never throws
\* here: a client calls the lock manager only while it is idle, and then
\* its state is DEFAULT or GROWING.
LockCall(t, o, m) ==
    LET cur == req[o][t]
        up  == isUpdateCompatible(cur.mode, m)
    IN
    /\ pc[t] = "idle"
    /\ txnState[t] \in {"DEFAULT", "GROWING"}
    /\ \/ \* step 5: no request of t yet; emplace_back, lock_set emplace
          /\ cur = NoReq
          /\ lockSet' = [lockSet EXCEPT ![t] = @ \cup {o}]
          /\ call' = [call EXCEPT ![t] = [obj |-> o, mode |-> m]]
          /\ LoopPass(t, o, [mode |-> m, granted |-> FALSE], FALSE, 0)
       \/ \* checkSameTxnLockRequest: already at least as strong
          /\ cur.granted
          /\ up = None
          /\ call' = [call EXCEPT ![t] = [obj |-> o, mode |-> m]]
          /\ UNCHANGED <<req, upgrading, txnState, lockSet, pc, wt, held>>
       \/ \* checkSameTxnLockRequest: upgrading_ set, throw UPGRADE_CONFLICT
          /\ cur.granted
          /\ up # None
          /\ upgrading[o]
          /\ pc' = [pc EXCEPT ![t] = "aborting"]
          /\ UNCHANGED <<req, upgrading, txnState, lockSet, wt, held, call>>
       \/ \* checkSameTxnLockRequest: upgrading_ = true, lock_mode_ = target,
          \* granted_ = false, then the loop
          /\ cur.granted
          /\ up # None
          /\ ~upgrading[o]
          /\ call' = [call EXCEPT ![t] = [obj |-> o, mode |-> m]]
          /\ UNCHANGED lockSet
          /\ LoopPass(t, o, [mode |-> up, granted |-> FALSE], TRUE, 0)

lock_shared_on_record(t, o)    == o \in Records /\ LockCall(t, o, "S")
lock_exclusive_on_record(t, o) == o \in Records /\ LockCall(t, o, "X")
lock_shared_on_table(t, o)     == o \in Tables  /\ LockCall(t, o, "S")
lock_exclusive_on_table(t, o)  == o \in Tables  /\ LockCall(t, o, "X")
lock_IS_on_table(t, o)         == o \in Tables  /\ LockCall(t, o, "IS")
lock_IX_on_table(t, o)         == o \in Tables  /\ LockCall(t, o, "IX")
lock_gap_on_index(t, o)        == o \in Gaps    /\ LockCall(t, o, "S")

\* Faulty variant of WaitRetry: the loop runs one pass more than its bound.
WaitRetryUnbounded(t) ==
    LET o == wt[t].obj IN
    /\ pc[t] = "wait"
    /\ wt[t].attempt <= MaxAttempt + 1
    /\ LoopPass(t, o, req[o][t], wt[t].upg, wt[t].attempt)
    /\ UNCHANGED <<lockSet, call>>

\* A later pass of the loop t sleeps in: lock the latch again and check.
WaitRetry(t) ==
    LET o == wt[t].obj IN
    /\ pc[t] = "wait"
    /\ wt[t].attempt <= MaxAttempt
    /\ LoopPass(t, o, req[o][t], wt[t].upg, wt[t].attempt)
    /\ UNCHANGED <<lockSet, call>>

\* Faulty variant of WaitExpire: upgrading_ is not reset on the upgrade path.
WaitExpireNoReset(t) ==
    LET o == wt[t].obj IN
    /\ pc[t] = "wait"
    /\ wt[t].attempt = MaxAttempt + 1
    /\ req' = [req EXCEPT ![o][t].granted = TRUE]
    /\ held' = [held EXCEPT ![o][t] = req[o][t].mode]
    /\ pc' = [pc EXCEPT ![t] = "idle"]
    /\ wt' = [wt EXCEPT ![t] = NoWait]
    /\ UNCHANGED <<txnState, lockSet, call, upgrading>>

\* The loop condition fails with curAttemp = MaxAttempt + 1: the test
\* "curAttemp == MaxAttempt" is false, the state is not ABORTED, and the
\* request is granted (without the latch) although its last check failed.
WaitExpire(t) ==
    LET o == wt[t].obj IN
    /\ pc[t] = "wait"
    /\ wt[t].attempt = MaxAttempt + 1
    /\ upgrading' = IF wt[t].upg THEN [upgrading EXCEPT ![o] = FALSE]
                                 ELSE upgrading
    /\ req' = [req EXCEPT ![o][t].granted = TRUE]
    /\ held' = [held EXCEPT ![o][t] = req[o][t].mode]
    /\ pc' = [pc EXCEPT ![t] = "idle"]
    /\ wt' = [wt EXCEPT ![t] = NoWait]
    /\ UNCHANGED <<txnState, lockSet, call>>

\* try_lock_in_gap: any request of another transaction on the gap throws
\* DEADLOCK_PREVENTION; otherwise it returns true.
try_lock_in_gap(t, g) ==
    /\ g \in Gaps
    /\ pc[t] = "idle"
    /\ txnState[t] \in {"DEFAULT", "GROWING"}
    /\ txnState' = [txnState EXCEPT ![t] = GrowingState(t)]
    /\ IF \E u \in Txns \ {t} : req[g][u] # NoReq
         THEN pc' = [pc EXCEPT ![t] = "aborting"]
         ELSE pc' = pc
    /\ UNCHANGED <<req, upgrading, lockSet, wt, held, call>>

----
(* Release: TransactionManager::ReleaseLocks calls unlock on every object  *)
(* of the lock set, and unlock erases every request of t in that queue.    *)
----

\* Faulty variant of unlock: only a granted request of t is erased.
unlockGrantedOnly(t, o, q) ==
    IF o \in lockSet[t] /\ q[t].granted THEN [q EXCEPT ![t] = NoReq] ELSE q

unlock(t, o, q) == IF o \in lockSet[t] THEN [q EXCEPT ![t] = NoReq] ELSE q

ReleaseLocks(t) ==
    /\ req' = [o \in Objs |-> unlock(t, o, req[o])]
    /\ held' = [o \in Objs |-> IF o \in lockSet[t] THEN [held[o] EXCEPT ![t] = None]
                                                 ELSE held[o]]
    /\ lockSet' = [lockSet EXCEPT ![t] = {}]

\* TransactionManager::commit, lock part: ReleaseLocks, lock set cleared,
\* state COMMITTED.  (The ABORTED check cannot fire: an idle client is
\* never ABORTED.)
commit(t) ==
    /\ pc[t] = "idle"
    /\ txnState[t] # "ABORTED"
    /\ ReleaseLocks(t)
    /\ txnState' = [txnState EXCEPT ![t] = "COMMITTED"]
    /\ pc' = [pc EXCEPT ![t] = "done"]
    /\ call' = [call EXCEPT ![t] = NoCall]
    /\ UNCHANGED <<upgrading, wt>>

\* TransactionManager::abort, lock part, as run by the client on any
\* TransactionAbortException (or an explicit ABORT while idle).
abort(t) ==
    /\ pc[t] \in {"idle", "aborting"}
    /\ ReleaseLocks(t)
    /\ txnState' = [txnState EXCEPT ![t] = "ABORTED"]
    /\ pc' = [pc EXCEPT ![t] = "done"]
    /\ call' = [call EXCEPT ![t] = NoCall]
    /\ UNCHANGED <<upgrading, wt>>

----

Init ==
    /\ req = [o \in Objs |-> [t \in Txns |-> NoReq]]
    /\ upgrading = [o \in Objs |-> FALSE]
    /\ txnState = [t \in Txns |-> "DEFAULT"]
    /\ lockSet = [t \in Txns |-> {}]
    /\ pc = [t \in Txns |-> "idle"]
    /\ wt = [t \in Txns |-> NoWait]
    /\ held = [o \in Objs |-> [t \in Txns |-> None]]
    /\ call = [t \in Txns |-> NoCall]

\* Every client has finished: nothing is left to do.
Finished == \A t \in Txns : pc[t] = "done"

Next ==
    \/ \E t \in Txns, o \in Objs :
          \/ lock_shared_on_record(t, o)
          \/ lock_exclusive_on_record(t, o)
          \/ lock_shared_on_table(t, o)
          \/ lock_exclusive_on_table(t, o)
          \/ lock_IS_on_table(t, o)
          \/ lock_IX_on_table(t, o)
          \/ lock_gap_on_index(t, o)
          \/ try_lock_in_gap(t, o)
    \/ \E t \in Txns : WaitRetry(t) \/ WaitExpire(t) \/ commit(t) \/ abort(t)
    \/ Finished /\ UNCHANGED vars

\* A thread in the wait loop keeps retrying (it sleeps 50us, it is not
\* descheduled forever); a client that caught an abort exception calls
\* TransactionManager::abort.  Nothing forces an idle client to go on.
Fairness ==
    \A t \in Txns :
        /\ WF_vars(WaitRetry(t) \/ WaitExpire(t))
        /\ WF_vars(pc[t] = "aborting" /\ abort(t))

Spec == Init /\ [][Next]_vars /\ Fairness


----
(* Properties                                                              *)
----

\* The strength order on modes: a lock in mode a grants everything a lock
\* in mode b does (X > SIX > S, IX > IS).
Dominates(a, b) ==
    \/ a = b
    \/ a = "X"
    \/ a = "SIX" /\ b \in {"S", "IX", "IS"}
    \/ a \in {"S", "IX"} /\ b = "IS"

\* LockRequestQueue::upgrading_ is set exactly while some transaction is
\* in the wait loop of checkSameTxnLockRequest on that queue: every exit of
\* the upgrade loop (grant, DEADLOCK_PREVENTION abort, or running out of
\* attempts) clears it.  A stale TRUE makes every later upgrade on the
\* queue throw UPGRADE_CONFLICT.
UpgradeFlagTracksUpgrader ==
    \A o \in Objs :
        upgrading[o] <=> \E t \in Txns : pc[t] = "wait" /\ wt[t].obj = o /\ wt[t].upg

\* After ReleaseLocks no request of a finished transaction is left in any
\* queue, and every queued request is on an object of its lock_set_ (so
\* ReleaseLocks will find it): the emplace_back into the queue and into
\* lock_set_ go together, and unlock erases granted and waiting requests.
NoOrphanRequests ==
    \A o \in Objs, t \in Txns :
        req[o][t] # NoReq => o \in lockSet[t] /\ pc[t] # "done"

\* A lock call that returns (true, or success without a new request)
\* leaves t holding at least the mode it asked for: the "no upgrade" rows
\* of isUpdateCompatible and the modes the upgrade moves to are right.
CallReturnsRequestedStrength ==
    \A t \in Txns :
        pc[t] = "idle" /\ call[t] # NoCall =>
            /\ held[call[t].obj][t] # None
            /\ Dominates(held[call[t].obj][t], call[t].mode)

\* No step weakens a lock a transaction holds: an upgrade through
\* checkSameTxnLockRequest always moves to a mode at least as strong.
NoDowngrade ==
    [][\A o \in Objs, t \in Txns :
         held[o][t] # None /\ held'[o][t] # None => Dominates(held'[o][t], held[o][t])
      ]_vars

\* Every lock call that blocks or throws returns to the client: the wait
\* loop is bounded by MaxAttempt, and an aborting client finishes abort.
LockCallsReturn ==
    \A t \in Txns : pc[t] \in {"wait", "aborting"} ~> pc[t] \in {"idle", "done"}

\* The locks the lock functions returned to different transactions, and not
\* yet released, are pairwise compatible, also while one of them waits to
\* upgrade (its old lock is still held by the caller).
HeldCompatible ==
    \A o \in Objs, t, u \in Txns :
        t # u /\ held[o][t] # None /\ held[o][u] # None =>
            isLockCompatible(held[o][t], held[o][u])

=============================================================================
