------------------------------ MODULE TxnMVCC ------------------------------
(***************************************************************************)
(* Concurrent transactions over the MVCC version store.                    *)
(*                                                                         *)
(* Composes TransactionManager::begin/commit/abort                         *)
(* (src/transaction/transaction_manager.cpp), the write path of the        *)
(* Insert/Update/Delete executors (src/execution/executor_*.h) and of      *)
(* RmFileHandle (src/record/rm_file_handle.cpp), the version store         *)
(* (MVCCManager) and the Watermark.  Each transaction is one client thread;*)
(* a step is the code between two acquisitions of a shared lock, so that  *)
(* the threads interleave exactly where the code lets them.                *)
(*                                                                         *)
(* Every transaction writes its own identity as the new value, so a value *)
(* names the transaction that wrote it.  The write-ahead log calls of these*)
(* handlers are modelled in the recovery modules, not here.               *)
(***************************************************************************)
EXTENDS Naturals, Sequences, SequencesExt, FiniteSetsExt, MVCCManager

CONSTANTS
    Txns,         \* the client threads, one transaction each
    Keys,         \* record slots 1..n; insert_record takes the first free one
    InitVal,      \* the value of the records present at start
    InitRecords,  \* the slots holding a record at start
    MaxWrites,    \* bound on the write statements of one transaction
    GCPeriod      \* commit/abort run the cleanup when the timestamp % GCPeriod = 0

ASSUME
    /\ Keys \subseteq Nat \ {0}
    /\ InitRecords \subseteq Keys
    /\ MaxWrites \in Nat \ {0}
    /\ GCPeriod \in Nat \ {0}

Values == Txns \cup {InitVal}

VARIABLES
    heap,       \* the physical slot of each record (NoVal: bitmap bit clear)
    chains,     \* MVCCManager::version_chains_
    active,     \* MVCCManager::active_txns_
    nextTs,     \* MVCCManager::next_ts_
    startTs,    \* Transaction::start_ts_
    commitTs,   \* Transaction::commit_ts_
    writeSet,   \* Transaction::write_set_: <<[type, key, before]>>
    pc,         \* where each thread is in its current call
    stmt,       \* the record and write type of the statement in progress
    current_reads, commit_ts, watermark,  \* TransactionManager::watermark_
    txnMap,     \* the transactions whose object txn_map still holds
    locks,      \* exclusive record locks held: <<slot, transaction>>
    snap        \* ghost: what each record showed the transaction at begin

W == INSTANCE Watermark
wmvars == <<current_reads, commit_ts, watermark>>

mvcc == <<heap, chains, active, nextTs>>
txn == <<startTs, commitTs, writeSet, pc, stmt, txnMap, locks>>
vars == <<mvcc, txn, current_reads, commit_ts, watermark, snap>>

NoStmt == [type |-> "NONE", key |-> 0]

Read(t, k) == GetRecord(heap[k], chains[k], t, startTs[t], active)

Init ==
    /\ heap = [k \in Keys |-> IF k \in InitRecords THEN InitVal ELSE NoVal]
    /\ chains = [k \in Keys |-> <<>>]
    /\ active = {}
    /\ nextTs = 1
    /\ startTs = [t \in Txns |-> 0]
    /\ commitTs = [t \in Txns |-> 0]
    /\ writeSet = [t \in Txns |-> <<>>]
    /\ pc = [t \in Txns |-> "idle"]
    /\ stmt = [t \in Txns |-> NoStmt]
    /\ txnMap = {}
    /\ locks = {}
    /\ W!WInit
    /\ snap = [t \in Txns |-> [k \in Keys |-> NoVal]]

-----------------------------------------------------------------------------
(* TransactionManager::begin                                               *)

\* get_next_timestamp, set_start_ts, GROWING, add_active_txn.
Begin(t) ==
    /\ pc[t] = "idle"
    /\ nextTs' = nextTs + 1
    /\ startTs' = [startTs EXCEPT ![t] = nextTs]
    /\ active' = active \cup {t}
    /\ snap' = [snap EXCEPT ![t] =
                  [k \in Keys |-> GetRecord(heap[k], chains[k], t, nextTs, active')]]
    /\ pc' = [pc EXCEPT ![t] = "begin_wm"]
    /\ UNCHANGED <<heap, chains, commitTs, writeSet, stmt, wmvars, txnMap, locks>>

\* watermark_.AddTxn(start_ts), then txn_map / running_txns_ under latch_.
BeginRegister(t) ==
    /\ pc[t] = "begin_wm"
    /\ W!AddTxn(startTs[t])
    /\ txnMap' = txnMap \cup {t}
    /\ pc' = [pc EXCEPT ![t] = "growing"]
    /\ UNCHANGED <<mvcc, startTs, commitTs, writeSet, stmt, snap, locks>>

-----------------------------------------------------------------------------
(* Write statements                                                        *)

CanWrite(t) == pc[t] = "growing" /\ Len(writeSet[t]) < MaxWrites

\* InsertExecutor::Next -> insert_record(buf, context): the first free slot
\* of the page is found in the bitmap (create_page_handle, first_bit).
InsertFindSlot(t) ==
    /\ CanWrite(t)
    /\ \E k \in Keys : heap[k] = NoVal
    /\ stmt' = [stmt EXCEPT ![t] =
                  [type |-> "INSERT", key |-> Min({k \in Keys : heap[k] = NoVal})]]
    /\ pc' = [pc EXCEPT ![t] = "insert_lock"]
    /\ UNCHANGED <<mvcc, startTs, commitTs, writeSet, wmvars, snap, txnMap, locks>>

HeldByOther(t, k) == \E u \in Txns \ {t} : <<k, u>> \in locks

\* lock_exclusive_on_record(rid) is granted, then the record bytes and the
\* bitmap bit are written to the slot found before the lock, without
\* looking at the bitmap again.  The version node is added only afterwards.
InsertPhysical(t) ==
    /\ pc[t] = "insert_lock"
    /\ ~HeldByOther(t, stmt[t].key)
    /\ locks' = locks \cup {<<stmt[t].key, t>>}
    /\ heap' = [heap EXCEPT ![stmt[t].key] = t]
    /\ pc' = [pc EXCEPT ![t] = "insert_version"]
    /\ UNCHANGED <<chains, active, nextTs, startTs, commitTs, writeSet, stmt,
                   wmvars, snap, txnMap>>

\* The lock manager (not in the repository) times out a wait for a record
\* lock another transaction holds and throws; the caller aborts.
InsertLockTimeout(t) ==
    /\ pc[t] = "insert_lock"
    /\ HeldByOther(t, stmt[t].key)
    /\ pc' = [pc EXCEPT ![t] = "abort_undo"]
    /\ stmt' = [stmt EXCEPT ![t] = NoStmt]
    /\ UNCHANGED <<mvcc, startTs, commitTs, writeSet, wmvars, snap, txnMap, locks>>

\* insert_record, second half: add_version(INSERT, ts 0); then the executor
\* appends the INSERT write record.
InsertVersion(t) ==
    /\ pc[t] = "insert_version"
    /\ LET k == stmt[t].key
       IN /\ chains' = AddVersion(chains, k, Version("INSERT", 0, t, t))
          /\ writeSet' = [writeSet EXCEPT ![t] =
                            Append(@, [type |-> "INSERT", key |-> k, before |-> NoVal])]
    /\ pc' = [pc EXCEPT ![t] = "growing"]
    /\ stmt' = [stmt EXCEPT ![t] = NoStmt]
    /\ UNCHANGED <<heap, active, nextTs, startTs, commitTs, wmvars, snap, txnMap, locks>>

\* UpdateExecutor::Next / DeleteExecutor::Next up to the conflict test of
\* update_record / delete_record: the record the transaction sees is read
\* (a scan only yields visible records), its image is appended to the write
\* set, and the whole chain is checked for a write-write conflict.  A
\* conflict throws TransactionAbortException and the caller aborts.
WriteCheck(t, k, type) ==
    /\ CanWrite(t)
    /\ Read(t, k) # NoVal
    /\ writeSet' = [writeSet EXCEPT ![t] =
                      Append(@, [type |-> type, key |-> k, before |-> Read(t, k)])]
    /\ IF WriteConflict(chains[k], t, startTs[t])
       THEN /\ pc' = [pc EXCEPT ![t] = "abort_undo"]
            /\ UNCHANGED stmt
       ELSE /\ pc' = [pc EXCEPT ![t] = "write_version"]
            /\ stmt' = [stmt EXCEPT ![t] = [type |-> type, key |-> k]]
    /\ UNCHANGED <<mvcc, startTs, commitTs, wmvars, snap, txnMap, locks>>

\* The add_version call that follows the conflict test under a second
\* acquisition of manager_latch_.  An UPDATE node holds the new record, a
\* DELETE node the bytes of the physical slot.  Neither touches the page.
WriteVersion(t) ==
    /\ pc[t] = "write_version"
    /\ LET k == stmt[t].key
           val == IF stmt[t].type = "UPDATE" THEN t ELSE heap[k]
       IN chains' = AddVersion(chains, k, Version(stmt[t].type, 0, t, val))
    /\ pc' = [pc EXCEPT ![t] = "growing"]
    /\ stmt' = [stmt EXCEPT ![t] = NoStmt]
    /\ UNCHANGED <<heap, active, nextTs, startTs, commitTs, writeSet, wmvars, snap, txnMap, locks>>

-----------------------------------------------------------------------------
(* TransactionManager::commit                                              *)

\* The states in which Transaction::state_ is COMMITTED or ABORTED: commit
\* sets it before its watermark calls, abort before rollback_transaction.
Finished(u) == pc[u] \in {"commit_wm", "committed", "abort_finish", "aborted"}

\* TransactionManager::GarbageCollection: under latch_, delete every
\* COMMITTED or ABORTED transaction of txn_map whose commit_ts is below the
\* watermark read by GetWatermark (wm).
GarbageCollection(wm) ==
    txnMap \ {u \in txnMap : Finished(u) /\ commitTs[u] < wm}

\* Mutant: remove_active_txn moved before assign_commit_timestamp.
CommitStartDeactivating(t) ==
    /\ pc[t] = "growing"
    /\ nextTs' = nextTs + 1
    /\ commitTs' = [commitTs EXCEPT ![t] = nextTs]
    /\ active' = active \ {t}
    /\ pc' = [pc EXCEPT ![t] = "commit_assign"]
    /\ UNCHANGED <<heap, chains, startTs, writeSet, stmt, wmvars, snap, txnMap, locks>>

\* Guard state == GROWING; COMMIT log record; commit_ts = get_next_timestamp.
CommitStart(t) ==
    /\ pc[t] = "growing"
    /\ nextTs' = nextTs + 1
    /\ commitTs' = [commitTs EXCEPT ![t] = nextTs]
    /\ pc' = [pc EXCEPT ![t] = "commit_assign"]
    /\ UNCHANGED <<heap, chains, active, startTs, writeSet, stmt, wmvars, snap, txnMap, locks>>

\* assign_commit_timestamp(txn, commit_ts).
CommitAssign(t) ==
    /\ pc[t] = "commit_assign"
    /\ chains' = AssignCommitTimestamp(chains, t, commitTs[t])
    /\ pc' = [pc EXCEPT ![t] = "commit_deactivate"]
    /\ UNCHANGED <<heap, active, nextTs, startTs, commitTs, writeSet, stmt, wmvars, snap, txnMap, locks>>

\* remove_active_txn; update_last_committed_ts (read by nothing modelled).
CommitDeactivate(t) ==
    /\ pc[t] = "commit_deactivate"
    /\ active' = active \ {t}
    /\ pc' = [pc EXCEPT ![t] = "commit_flush"]
    /\ UNCHANGED <<heap, chains, nextTs, startTs, commitTs, writeSet, stmt, wmvars, snap, txnMap, locks>>

\* lock_manager_->unlock of every entry of the lock set, then clear().
Unlock(t) == {p \in locks : p[2] # t}

\* Unlock the lock set, flush the log, state COMMITTED,
\* watermark_.RemoveTxn(start_ts).
CommitRelease(t) ==
    /\ pc[t] = "commit_flush"
    /\ W!RemoveTxn(startTs[t])
    /\ locks' = Unlock(t)
    /\ pc' = [pc EXCEPT ![t] = "commit_wm"]
    /\ UNCHANGED <<mvcc, startTs, commitTs, writeSet, stmt, snap, txnMap>>

\* watermark_.UpdateCommitTs(commit_ts); running_txns_.erase; and when
\* commit_ts % 100 = 0 cleanup_version_chains(commit_ts) and the
\* transaction-object GarbageCollection.
CommitFinish(t) ==
    /\ pc[t] = "commit_wm"
    /\ W!UpdateCommitTs(commitTs[t])
    /\ IF commitTs[t] % GCPeriod = 0
       THEN /\ chains' = CleanupVersionChains(chains, commitTs[t])
            /\ txnMap' = GarbageCollection(watermark')
       ELSE UNCHANGED <<chains, txnMap, locks>>
    /\ pc' = [pc EXCEPT ![t] = "committed"]
    /\ UNCHANGED <<heap, active, nextTs, startTs, commitTs, writeSet, stmt, snap, locks>>

-----------------------------------------------------------------------------
(* TransactionManager::abort                                               *)

\* The client rolls back a transaction between statements.
AbortStart(t) ==
    /\ pc[t] = "growing"
    /\ pc' = [pc EXCEPT ![t] = "abort_undo"]
    /\ UNCHANGED <<mvcc, startTs, commitTs, writeSet, stmt, wmvars, snap, txnMap, locks>>

\* The physical inverse of one write record, applied through the file
\* handle with no transaction (so without MVCC), newest record first.
\* Undoing an INSERT or UPDATE first reads the slot with get_record, which
\* throws RecordNotFoundError on a clear slot; abort does not catch it, so
\* the thread leaves abort there ("abort_failed").
UndoWrite(h, w) ==
    CASE w.type = "INSERT" -> [h EXCEPT ![w.key] = NoVal]
      [] w.type = "DELETE" -> [h EXCEPT ![w.key] = w.before]
      [] w.type = "UPDATE" -> [h EXCEPT ![w.key] = w.before]

UndoThrows(h, w) == w.type \in {"INSERT", "UPDATE"} /\ h[w.key] = NoVal

\* Mutant: the reverse iterator of the undo loop is never advanced.
AbortUndoNoAdvance(t) ==
    /\ pc[t] = "abort_undo"
    /\ writeSet[t] # <<>>
    /\ LET w == Last(writeSet[t])
       IN IF UndoThrows(heap, w)
          THEN /\ pc' = [pc EXCEPT ![t] = "abort_failed"]
               /\ UNCHANGED heap
          ELSE /\ heap' = UndoWrite(heap, w)
               /\ UNCHANGED pc
    /\ UNCHANGED <<chains, active, nextTs, startTs, commitTs, writeSet, stmt, wmvars, snap, txnMap, locks>>

AbortUndo(t) ==
    /\ pc[t] = "abort_undo"
    /\ writeSet[t] # <<>>
    /\ LET w == Last(writeSet[t])
       IN IF UndoThrows(heap, w)
          THEN /\ pc' = [pc EXCEPT ![t] = "abort_failed"]
               /\ UNCHANGED <<heap, writeSet>>
          ELSE /\ heap' = UndoWrite(heap, w)
               /\ writeSet' = [writeSet EXCEPT ![t] = Front(@)]
               /\ UNCHANGED pc
    /\ UNCHANGED <<chains, active, nextTs, startTs, commitTs, stmt, wmvars, snap, txnMap, locks>>

\* After the loop: unlock, clear the sets, flush the log, state ABORTED,
\* rollback_transaction.
AbortRollback(t) ==
    /\ pc[t] = "abort_undo"
    /\ writeSet[t] = <<>>
    /\ locks' = Unlock(t)
    /\ chains' = RollbackTransaction(chains, t)
    /\ pc' = [pc EXCEPT ![t] = "abort_finish"]
    /\ UNCHANGED <<heap, active, nextTs, startTs, commitTs, writeSet, stmt, wmvars, snap, txnMap>>

\* remove_active_txn, watermark_.RemoveTxn(start_ts), running_txns_.erase,
\* current_ts = get_next_timestamp and the periodic cleanup.
AbortFinish(t) ==
    /\ pc[t] = "abort_finish"
    /\ active' = active \ {t}
    /\ W!RemoveTxn(startTs[t])
    /\ nextTs' = nextTs + 1
    /\ IF nextTs % GCPeriod = 0
       THEN /\ chains' = CleanupVersionChains(chains, nextTs)
            /\ txnMap' = GarbageCollection(watermark')
       ELSE UNCHANGED <<chains, txnMap, locks>>
    /\ pc' = [pc EXCEPT ![t] = "aborted"]
    /\ UNCHANGED <<heap, startTs, commitTs, writeSet, stmt, snap, locks>>

-----------------------------------------------------------------------------

Done == \A t \in Txns : pc[t] \in {"committed", "aborted", "abort_failed"}

Next ==
    \/ \E t \in Txns :
         \/ Begin(t) \/ BeginRegister(t)
         \/ InsertFindSlot(t) \/ InsertPhysical(t) \/ InsertLockTimeout(t)
         \/ InsertVersion(t)
         \/ \E k \in Keys, type \in {"UPDATE", "DELETE"} : WriteCheck(t, k, type)
         \/ WriteVersion(t)
         \/ CommitStart(t) \/ CommitAssign(t) \/ CommitDeactivate(t)
         \/ CommitRelease(t) \/ CommitFinish(t)
         \/ AbortStart(t) \/ AbortUndo(t) \/ AbortRollback(t) \/ AbortFinish(t)
    \/ Done /\ UNCHANGED vars

\* The steps inside one commit or abort call are taken by a running thread
\* and are weakly fair; whether a client begins, writes, commits or rolls
\* back is its own choice and is not.
Fairness ==
    \A t \in Txns :
        /\ WF_vars(BeginRegister(t))
        /\ WF_vars(InsertVersion(t)) /\ WF_vars(WriteVersion(t))
        /\ WF_vars(CommitAssign(t)) /\ WF_vars(CommitDeactivate(t))
        /\ WF_vars(CommitRelease(t)) /\ WF_vars(CommitFinish(t))
        /\ WF_vars(AbortUndo(t)) /\ WF_vars(AbortRollback(t))
        /\ WF_vars(AbortFinish(t))

Spec == Init /\ [][Next]_vars
FairSpec == Spec /\ Fairness

-----------------------------------------------------------------------------
(* Properties                                                              *)

Versions == [type : WTypes, ts : Nat, txn : Txns, val : Values \cup {NoVal}]
WriteRecords == [type : WTypes, key : Keys, before : Values \cup {NoVal}]
Pcs == {"idle", "begin_wm", "growing", "insert_lock", "insert_version", "write_version",
        "commit_assign", "commit_deactivate", "commit_flush", "commit_wm",
        "committed", "abort_undo", "abort_finish", "aborted", "abort_failed"}

TypeOK ==
    /\ heap \in [Keys -> Values \cup {NoVal}]
    /\ chains \in [Keys -> Seq(Versions)]
    /\ active \subseteq Txns
    /\ nextTs \in Nat \ {0}
    /\ startTs \in [Txns -> Nat] /\ commitTs \in [Txns -> Nat]
    /\ writeSet \in [Txns -> Seq(WriteRecords)]
    /\ pc \in [Txns -> Pcs]
    /\ stmt \in [Txns -> [type : WTypes \cup {"NONE"}, key : Keys \cup {0}]]
    /\ IsABag(current_reads) /\ commit_ts \in Nat /\ watermark \in Nat
    /\ txnMap \subseteq Txns /\ locks \subseteq Keys \X Txns

\* The comment at transaction_manager.cpp:113: a transaction leaves the
\* active set only after assign_commit_timestamp (or rollback_transaction)
\* has run, so every uncommitted node (ts_ = 0) in any chain belongs to a
\* transaction that readers still treat as active.
UncommittedOwnerActive ==
    \A k \in Keys : \A i \in DOMAIN chains[k] :
        chains[k][i].ts = 0 => chains[k][i].txn \in active

\* Once commit has stamped its versions, every node the transaction owns,
\* in every chain and at any depth, carries exactly its commit timestamp.
CommittedNodesStamped ==
    \A t \in Txns :
        pc[t] \in {"commit_deactivate", "commit_flush", "commit_wm", "committed"} =>
            \A k \in Keys : \A i \in DOMAIN chains[k] :
                chains[k][i].txn = t => chains[k][i].ts = commitTs[t]

\* After rollback_transaction no chain holds a node of the aborted
\* transaction, wherever other transactions' nodes sit around it.
RolledBackLeavesNoNode ==
    \A t \in Txns :
        pc[t] \in {"abort_finish", "aborted"} =>
            \A k \in Keys : \A i \in DOMAIN chains[k] : chains[k][i].txn # t

\* A rollback that has started (by the client or after a write-write
\* conflict) runs to its end: the reverse undo loop of abort never hits a
\* missing slot, and the transaction leaves the active set.
AbortCompletes ==
    \A t \in Txns : pc[t] = "abort_undo" ~> pc[t] = "aborted"

Stamped(t) == pc[t] \in {"commit_deactivate", "commit_flush", "commit_wm", "committed"}

Wrote(t, k) == \E i \in DOMAIN writeSet[t] : writeSet[t][i].key = k

\* Snapshot isolation (spec, section 4.1 and the glossary): a transaction
\* sees the data as of its start timestamp, so what get_record returns to a
\* running transaction for a record it has not written never changes while
\* it runs.
SnapshotStable ==
    \A t \in Txns : \A k \in Keys :
        pc[t] = "growing" /\ ~Wrote(t, k) => Read(t, k) = snap[t][k]

\* No dirty reads (spec, section 3, invariant (a)): get_record never hands a
\* transaction a value written by another transaction whose commit has not
\* stamped its versions.
NoDirtyRead ==
    \A t \in Txns : \A k \in Keys :
        LET r == Read(t, k)
        IN pc[t] = "growing" /\ r \in Txns /\ r # t => Stamped(r)

\* First updater wins (the conflict test of update_record/delete_record):
\* a chain never holds uncommitted nodes of two different transactions.
FirstUpdaterWins ==
    \A k \in Keys : \A i, j \in DOMAIN chains[k] :
        chains[k][i].ts = 0 /\ chains[k][j].ts = 0 => chains[k][i].txn = chains[k][j].txn

\* Read your own writes (spec, section 4.1): a running transaction sees its
\* own last write to a record, the record gone after its own delete.
ReadYourWrites ==
    \A t \in Txns : \A k \in Keys :
        pc[t] = "growing" /\ Wrote(t, k) =>
            LET last == writeSet[t][Max({i \in DOMAIN writeSet[t] : writeSet[t][i].key = k})]
            IN Read(t, k) = IF last.type = "DELETE" THEN NoVal ELSE t

\* An abort's undo (TransactionManager::abort, the update_record and
\* insert_record calls of its loop) only takes back the aborting
\* transaction's own writes: no other running transaction reads anything
\* different after an undo step than before it.
AbortUndoPreservesReads ==
    [][\A t \in Txns : AbortUndo(t) =>
          \A u \in Txns \ {t} : \A k \in Keys :
              pc[u] = "growing" => Read(u, k)' = Read(u, k)]_vars

\* insert_record only writes a free slot: the bitmap bit it found clear
\* (line 151) is still clear when the record is copied in (lines 168-172),
\* after the record lock; no insert overwrites a record another
\* transaction inserted, committed or not.
InsertIntoFreeSlot ==
    [][\A t \in Txns : InsertPhysical(t) => heap[stmt[t].key] = NoVal]_vars

\* A Transaction is deleted only once its thread is done with it (spec,
\* section 3: "retired only after Watermark clears its commit timestamp"):
\* while commit() still reads txn after setting COMMITTED (lines 137-142)
\* or abort() after setting ABORTED (lines 298-308), no GarbageCollection
\* of another thread has deleted it from txn_map.
TxnObjectLive ==
    \A t \in Txns : pc[t] \in {"commit_wm", "abort_finish"} => t \in txnMap

\* The watermark never moves backwards (spec, section 3, invariant (d), and
\* section 8), whatever order commits report to it.
WatermarkMonotone == [][watermark' >= watermark]_vars

\* The watermark is a lower bound of every registered read timestamp (spec,
\* section 4.5: no live snapshot needs anything below it).
WatermarkBelowActiveReads ==
    \A t \in Txns :
        pc[t] \in {"growing", "insert_version", "write_version", "commit_assign",
                   "commit_deactivate", "commit_flush", "abort_undo", "abort_finish"}
            => watermark <= startTs[t]

=============================================================================
