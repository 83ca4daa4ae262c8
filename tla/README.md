# TLA+ models of amatilasDB transactions, MVCC, recovery, queries and catalog

This directory holds TLA+ specifications of the transaction, recovery, query and catalog code of
amatilasDB (`src/`), model-checked with TLC. Each module is translated from
the source; `PROJECT.json` maps every definition to the lines it models,
lists the runs, the mutants that show each checked property can fail, the
findings and the hazards.

## The system's parts and how they interact

| Part | Source | State | Operations |
|---|---|---|---|
| Watermark | `transaction/watermark.cpp` | `current_reads_` (read ts -> count), `commit_ts_`, `watermark_` | AddTxn, RemoveTxn, UpdateCommitTs, GetWatermark |
| Version store | `transaction/mvcc_manager.cpp`, `common/common.h` (VersionChain, UndoLog) | `version_chains_` (rid -> newest-first list of UndoLog `{type, ts, txn, value}`, ts 0 = uncommitted), `active_txns_`, `next_ts_` | add_version, assign_commit_timestamp, rollback_transaction, cleanup_version_chains, add/remove_active_txn, get_next_timestamp |
| Record file | `record/rm_file_handle.cpp` | page slots and bitmap | get_record (MVCC visibility walk), insert_record (physical write, then add_version), update_record/delete_record (conflict test, then add_version; the page is not touched under MVCC); the non-transactional variants used by abort |
| Write executors | `execution/executor_{insert,update,delete}.h` | the transaction's write set | read the visible image, append a WriteRecord and a log record, call the file handle |
| TransactionManager | `transaction/transaction_manager.cpp` | txn map, running set, the watermark | begin, commit, abort (reverse physical undo of the write set, then rollback_transaction) |
| LogManager | `recovery/log_manager.cpp` | log buffer, `global_lsn_`, `persist_lsn_` | add_log_to_buffer (latched), flush_log_to_disk (unlatched), create_checkpoint |
| RecoveryManager | `recovery/log_recovery.cpp` | active/committed tables, LSN map | analyze, redo (committed only), undo (active, newest first), checkpoint recovery, index rebuild |
| Checkpoint command | `execution/execution_manager.cpp` | — | commit current txn, write checkpoint record, then flush dirty pages |

Many client threads run transactions at once. They share the version store
(under `manager_latch_`, one acquisition per call), the page slots (no
latch on the MVCC paths), the watermark (no lock at all) and the log buffer.
Readers decide visibility from the chain, their start timestamp and the
active set fetched at read time.

| Query executors and planner | `execution/executor_*.h`, `execution/execution_sort.cpp`, `executor_aggregate.cpp`, `record/rm_scan.cpp`, `optimizer/planner.cpp`, `QlManager::select_from` | the executor tree's cursors, the sort and aggregate buffers | `generate_select_plan`, then `beginTuple` / `nextTuple` / `Next` of every executor, driven by `select_from` |
| System catalog | `system/sm_manager.cpp` | `db_` (tables, their index lists), the meta file, record and index files, open index handles `ihs_` | create/drop table, create/drop index (logged, in a transaction), `flush_meta`, `open_db`, `redo_index`; recovery's index passes in `log_recovery.cpp` |

Not modelled: the analyzer and the generated parser (queries enter the
model already analyzed); `IndexScan`, FLOAT and STRING columns and the
byte layout of printed values; `show_tables`, `desc_table`,
`show_indexes` (output only), `create_db`, `drop_db`, `close_db`; the
buffer pool, disk manager, B+ tree, lock manager, `rm_manager`,
`ix_manager`, `sm_meta.h` and the server main, whose sources are not in
`src/` (what the catalog model needs of them is written from the spec and
marked `spec_modelled` in `PROJECT.json`).

## Modules

* `Watermark.tla` — the three fields as variables; each method is one
  action-fragment used by the transaction module through `INSTANCE`. The
  class has no lock; calls are modelled as atomic steps in any order (the
  torn-map outcomes of the data race are not).
* `MVCCManager.tla` — pure operators over the chain map: `AddVersion`,
  `AssignCommitTimestamp`, `RollbackTransaction`, `CleanupVersionChains`
  (with the recursive `KeptCount` walk), the conflict test `WriteConflict`
  and the read path `IsVisible` / `GetRecord`, including the rule that an
  invisible INSERT node hides the base record.
* `TxnMVCC.tla` — the composition. Each transaction is a thread with a
  program counter; one action is the code between two points where another
  thread can interleave:
  `Begin` (timestamp, active set) / `BeginRegister` (watermark);
  `InsertFindSlot` (the first free slot of the bitmap, chosen before any
  lock) / `InsertPhysical` (exclusive record lock taken, slot written,
  bitmap set) or `InsertLockTimeout` (another transaction holds the lock:
  the lock manager throws and the thread goes to abort) / `InsertVersion`
  (add_version, write set); `WriteCheck` (visible image into the write
  set, conflict test; a conflict sends the thread to abort) /
  `WriteVersion` (add_version); commit in five steps following
  `commit()` (take ts, assign, deactivate, watermark RemoveTxn,
  UpdateCommitTs, and every `GCPeriod`-th commit the chain cleanup and
  `GarbageCollection`, which drops from `txnMap` each finished transaction
  whose commit timestamp is below the watermark); abort as `AbortStart`, one
  `AbortUndo` per write record (newest first, physical, throwing when
  `get_record(rid, nullptr)` finds a clear slot), `AbortRollback`,
  `AbortFinish` (deactivate, watermark, timestamp, periodic cleanup and
  garbage collection). `txnMap` is the set of transactions the manager's
  `txn_map` still holds; `locks` the record locks held, released by
  commit's release step and by rollback. The lock manager is not in
  `src/`: it is modelled from spec section 5 as exclusive locks whose
  waiter times out by throwing.
  Each transaction writes its own name as the value, so a value tells who
  wrote it. The ghost `snap` records what each record showed the
  transaction at begin.
* `MCTxnMVCC.tla` — three (or two, `MCTxns2`) transactions as model values, two slots.
* `LogSpec.tla` — the abstract write-ahead log: records appended with
  consecutive LSNs, a file that is always a growing prefix of them, and a
  caller acknowledged only once its record is in the file.
* `WAL.tla` — `LogManager` step by step. A record is its LSN; the buffer
  is a function from slots to LSNs (0 is what `memset` leaves). Each
  thread has a program counter; `AppendStart` (take `latch_`, `fetch_add`,
  call the flush when the buffer is full), `AppendSerialize`, `AppendEnd`
  (advance `offset_`, release `latch_`; a COMMIT then calls the flush
  without the latch) and the flush in the five steps of
  `flush_log_to_disk` (`FlushCheck` reads `offset_` and `global_lsn_`,
  `FlushWrite`, `FlushPersist`, `FlushReset`, `FlushClear`). The ghost
  `acked` holds the records whose commit returned. `Abstract` instantiates
  `LogSpec` with the mapping "the appended log is 1..global_lsn_-1", and
  `LogRefinement` checks the log manager implements it.
* `MCWAL.tla` — one or two client threads.
* `Recovery.tla` — durability across crashes. One statement is one atomic
  step (executor, file handle and `add_log_to_buffer` together):
  `Begin`, `Insert` (first free slot written and logged), `Write` (UPDATE
  or DELETE: before image and log record first, then the conflict test,
  which either adds a version and leaves the slot alone or dooms the
  transaction), `CommitLog` (COMMIT record, versions made visible) and
  `CommitFlush`, `Abort` (physical undo of the write set newest first,
  stopping at an undo that throws, then a flush, and no ABORT record).
  The log is `LogSpec`'s: a sequence and a durable prefix; `FlushLog` is
  the flush of a full buffer. `FlushPage` is the buffer pool writing a
  page back; `CkptLog`/`CkptPages` the CREATE CHECKPOINT command. `Crash`
  keeps the durable log and the disk, runs `Recover` — the code's
  `recover_from_checkpoint`, written as folds over the log: `Analyze`
  (with `AnalyzeStep` for `process_log_for_analyze`), `LastCkpt`,
  `Redo` (records above the checkpoint of committed transactions, with
  `RedoOp`'s `is_record` tests), `Undo` (records of active transactions
  by LSN descending, `UndoOp`) — and puts the result in the buffer pool.
  Unfinished transactions are gone; idle ones may begin after the
  restart, and a second crash may follow. `Expected` is the reference:
  the logical effect of the transactions with a durable COMMIT, in log
  order, from the initial table.
* `MCRecovery.tla` — one or two transactions, two or three slots (slot 1
  holds a record at the start).
* `Query.tla` — a SELECT from plan to output. `GenerateSelectPlan`
  follows `Planner::generate_select_plan` (`PushConds`, `MakeOneRel`,
  `MakeOneRelWithJointree`, `JoinReordering`, the aggregate, sort,
  projection and limit plans). The executor tree is a record of cursors;
  `SelectBegin` / `SelectNext` / `SelectEnd` are the loop of
  `select_from`, and every executor's `beginTuple`, `nextTuple`, `Next`
  and `is_end` is an operator of its own over INT rows. The ghost
  `undef` records a read of memory no code wrote (an RID no scan set, a
  field past the record). `Reference` is the relational answer: the
  multiset of rows, sorted and cut as the statement asks.
* `MCQuery.tla` — tables A(a1, a2) and B(b1), at most two records each
  over values {0, 1}; `QOk` is 84 statements (scans with filters, ORDER
  BY and LIMIT; aggregates with and without GROUP BY and HAVING; semi
  joins), and one `Q*` set per defect.
* `Catalog.tla` — DDL, `open_db` and recovery of indexes. `cat` holds
  `db_` (tables, each with its sequence of index columns), `ihs_`, the
  record and index files, the meta file last written by `flush_meta`,
  and the scratch of one statement. `Statement` runs one DDL statement
  of a transaction (`CreateTable`, `CreateIndex` with its unique check,
  `DropIndex`, `DropTable` with the range-for over the index vector it
  erases from, `DropTableLoop`); CREATE/DROP INDEX log before they act.
  `Commit` appends COMMIT and flushes; `Abort` flushes and writes no
  ABORT record (as `TransactionManager::abort`) and does not undo DDL.
  `Crash` keeps the durable log prefix and the files and loses `db_` and
  `ihs_`; `Restart` is `open_db` (`OpenDb`, `OpenLoop`: emplace the
  handle, `drop_index`, `create_index` for each entry of the meta file's
  index list) followed by the no-checkpoint path of
  `recover_from_checkpoint`: `Redo` of committed CREATE/DROP INDEX
  records (`RedoRec`), `Undo` of active ones newest first
  (`DestroyIndex`, `UndoDrop`), then `RedoIndexes` (`RedoIndex`). An
  error in `open_db` leaves the server `failed`. Each log record carries
  a ghost `ok`: whether its statement succeeded.
* `MCCatalog.tla` — two transactions, tables A and B, index columns x
  (and y).

## Runs

| Run | Expect | What it shows |
|---|---|---|
| `mvcc_core` (`MCTxnMVCC.cfg`) | pass | every uncommitted node belongs to an active transaction (`UncommittedOwnerActive`), commit stamps all its nodes at any depth of any chain (`CommittedNodesStamped`), rollback unlinks all of them (`RolledBackLeavesNoNode`). 2.49M distinct states, about 90 s with two workers. |
| `dirty_read` | violation | `NoDirtyRead`: a reader sees an insert between its physical write and add_version. |
| `snapshot` | violation | `SnapshotStable` (no inserts): a transaction that begins between another's assign_commit_timestamp and remove_active_txn sees that commit appear while it runs. |
| `first_updater` | violation | `FirstUpdaterWins`: two updaters pass the conflict test before either adds its version. |
| `read_own_writes` | violation | `ReadYourWrites`: an abort-triggered cleanup stops at another's uncommitted head and cuts the reader's own update. |
| `watermark_monotone` | violation | `WatermarkMonotone`: commits report their ts out of order. |
| `watermark_bound` | violation | `WatermarkBelowActiveReads`: AddTxn does not recompute the mark. |
| `abort_live_updates` (`MCTxnMVCC_live.cfg`) | pass | `AbortCompletes` under fairness, two transactions of up to two updates/deletes each and no inserts: every abort runs its undo loop to the end and leaves the active set. |
| `abort_completes` | violation | `AbortCompletes` under fairness (two transactions, with inserts): abort's undo of an update whose slot was cleared by another abort throws, and the transaction stays active for ever. |

| `wal_single` (`MCWAL.cfg`) | pass | one thread, a two-record buffer, five LSNs: `CommitDurable` (a returned commit is in the file), `FileIsLsnPrefix` (the file is exactly 1..n) and `LogRefinement` (the log manager implements `LogSpec`). |
| `wal_commit_durable` | violation | two threads: commit's unlatched flush writes the buffer, another thread appends, the flush then zeroes `offset_`; the appended COMMIT never reaches the file, yet its commit returns. |
| `recovery_core` (`MCRecovery.cfg`) | pass | two transactions of up to two writes of any kind, client and conflict aborts, write-ahead page write-back, one quiescent checkpoint, up to two crashes: `RecoveredUntainted` — after every crash each slot not touched by a rolled-back transaction, a rejected write or a checkpointed MVCC update holds its durably committed value. 1.16M distinct states, about 80 s. |

The project lists at most twelve runs. The following configurations are
kept beside the runs as reproductions; each makes TLC violate
`RecoveryRestoresCommitted` (recovery restores exactly the durably
committed transactions, spec section 7), and each is a hazard in
`PROJECT.json`:

| Configuration | What TLC finds |
|---|---|
| `MCWAL_prefix.cfg` | (`FileIsLsnPrefix`) two threads: two flushes write the same buffer, or one writes it after the other's `memset`, so the file repeats records or holds zeros where the reader stops. |
| `MCRecovery_stale.cfg` | the UPDATE rejected by the conflict test already logged its snapshot's before image; a crash before its abort makes undo overwrite the winner's committed update. |
| `MCRecovery_abort.cfg` | no ABORT record: recovery undoes an aborted insert again and deletes a later committed insert in the same slot. |
| `MCRecovery_reundo.cfg` | recovery logs nothing for what it undoes: after a second crash the same transaction is undone again over a record committed after the restart. |
| `MCRecovery_ckptupd.cfg` | one committed update, a checkpoint, a crash: the update lived only in the version chain, the checkpoint's page flush did not write it, and redo skips records before the checkpoint. |
| `MCRecovery_ckptorder.cfg` | a crash between the durable checkpoint record and `flush_all_dirty_pages` loses a committed insert. |
| `MCRecovery_steal.cfg` | without the write-ahead rule (no page LSN exists in the code) an uncommitted insert written back before its log survives recovery. |
| `MCRecovery_ckpt.cfg` | (passes) inserts only, three slots, a quiescent checkpoint: `RecoveryRestoresCommitted` holds for every slot. |

More configurations stand beside the MVCC runs:

| Configuration | What TLC finds |
|---|---|
| `MCTxnMVCC_undo.cfg` | (`AbortUndoPreservesReads`, both records pre-exist) t1 updates record 1 and commits; the MVCC update leaves the page holding the base. t2 began before that commit and reads the base from the page. t3 begins after it, updates record 1 (before image: t1's value) and aborts. The undo's `update_record(rid, before, nullptr)` writes t1's value to the page, and t2 now reads t1's value. Sixteen states (`transaction_manager.cpp:269`). |
| `MCTxnMVCC_gc.cfg` | (`TxnObjectLive`: a transaction inside `commit()` or `abort()` is still in `txn_map`, spec section 3) `GarbageCollection` deletes every COMMITTED or ABORTED transaction whose commit timestamp is below the watermark, without asking whether its thread has finished. A transaction that aborts sets ABORTED before `AbortFinish`, keeps the commit timestamp it was created with, and another transaction's periodic GC deletes it while its `abort()` still has lines 298-308 to run. Twelve states. The abort path assumes a new transaction's commit timestamp is 0 (its constructor is not in the repository); with only commits the same use-after-free takes two commits and fourteen states (state COMMITTED is set at line 134, before `RemoveTxn`). |
| `MCTxnMVCC_slot.cfg` | (`InsertIntoFreeSlot`, an action property: an insert writes only a free slot) `insert_record` picks the first free slot at line 151 and only then waits for the record lock; it never looks at the bitmap again. t1 and t2 both pick slot 2 while it is free (the bit is set only after the lock); t1 takes the lock, writes and commits, releasing it; t2 then takes the lock and overwrites t1's committed row. Fourteen states. |

The query and catalog models are checked by configurations that have no
run slot of their own (the run list is full):

| Configuration | Result |
|---|---|
| `MCQuery.cfg` | passes: `TypeOK`, `SelectMatchesReference` (the rows printed are a permitted answer of `Reference`) and `NoUndefinedRead`, for the 84 `QOk` statements over every database; 57,896 distinct states, 8 s. |
| `MCQuery_join.cfg` | `SelectMatchesReference`: `NestedLoopJoinExecutor::beginTuple` emits the first pair without testing the join condition. |
| `MCQuery_cross.cfg` | `NoUndefinedRead`: a join with an empty side reads an RID no scan set. |
| `MCQuery_avg.cfg` | AVG of an INT column prints 0 (the sum is in `float_val`, the output divides `int_val`). |
| `MCQuery_havingavg.cfg` | HAVING AVG compares the sum. |
| `MCQuery_havinggroup.cfg` | HAVING on a GROUP BY column is skipped. |
| `MCQuery_havingempty.cfg` | the COUNT-only zero row over no rows skips HAVING. |
| `MCQuery_count0.cfg` | `NoUndefinedRead`: two COUNTs over no rows read past the one-int zero row. |
| `MCQuery_order.cfg` | ORDER BY a column the projection moved sorts on the child's offset. |
| `MCQuery_limit0.cfg` | LIMIT 0 returns every row. |
| `MCQuery_semiwhere.cfg` | WHERE conditions across both tables of a SEMI JOIN are dropped. |
| `MCCatalog.cfg` | passes: `TypeOK`, `HandlesMatchCatalog` (while up, every index of `db_` has its file and an open handle), `OpenDbSucceeds`, and the action property `CommittedIndexesSurvive` (a restart keeps every index the committed log creates), for two transactions each doing up to two CREATE/DROP INDEX on its own table, one crash; 9,003 distinct states. |
| `MCCatalog_uncommitted.cfg` | `OnlyCommittedIndexes`: `create_index` flushes the meta file before its transaction commits; BEGIN, CREATE INDEX, crash, restart leaves an index no committed transaction created. |
| `MCCatalog_undoname.cfg` | `CommittedIndexesSurvive`: undo of an uncommitted CREATE INDEX destroys by name the index a committed transaction created again. |
| `MCCatalog_opendb.cfg` | `HandlesMatchCatalog`: `open_db`'s loop erases and re-appends entries of the vector it iterates; with two indexes it never opens the second. |
| `MCCatalog_dup.cfg` | `HandlesMatchCatalog`: a CREATE INDEX that failed its unique check was logged; committed and redone, it leaves a catalog index with no handle. |
| `MCCatalog_droptable.cfg` | `OpenDbSucceeds`: `drop_table` never calls `flush_meta`; after a crash `open_db` opens a file that no longer exists. |
| `MCCatalog_droptwo.cfg` | `DropTableRemovesTable`: `drop_table`'s range-for over the index vector that `drop_index` erases from reads an erased element on its second iteration; DROP TABLE of a table with two indexes fails and the table stays. (With at most one index the property holds: 23,261 states.) |

Each property of the passing run has a mutant (see `PROJECT.json`): removing
from the active set before stamping, stamping only the chain head, rolling
back only leading nodes, a watermark that never erases a zero count, and an
undo loop that never advances. For the log: a commit that returns without
flushing, `last_lsn` read as `global_lsn_`, a write that leaves the last
record out, an LSN read without the increment. For recovery: a flushed
length one past the log, undo in LSN order instead of descending, and
an analysis whose COMMIT leaves the transaction active.

## Bounds and why they suffice

Three transactions (the smallest number where one transaction's abort
cleans up while two others interleave on one record), two slots (one
pre-existing record and one free slot for inserts, or both pre-existing in
the runs that exclude inserts), one write per transaction in the passing
run, and `GCPeriod = 2` in place of the code's 100 so that the cleanup
branch of commit and abort is reached; `MaxKeepVersions = 10` and the
window of 1000 are the code's values (chains never reach them here, so
cleanup cuts at the first uncommitted or old node, as in the code for
fresh databases). Symmetry over the transactions is used only in the
safety run.

The WAL runs use a buffer of two records, so that both the flush of a
full buffer inside `add_log_to_buffer` and commit's own flush happen, and
five LSNs, enough for two commits with a full buffer between them. The
recovery runs use two transactions (the fewest for a conflict, a slot
reuse or a commit after another's abort), two slots with one record at
the start (an update or delete target and a free slot to insert into;
three slots in `MCRecovery_ckpt.cfg`, so that two inserts commit), up to two
writes per transaction (an insert then an update or delete of the same
slot, the case where undo order matters) and two crashes (recovery after
a recovery). `RecoveredUntainted` excludes exactly the slots of the
code defects the reproduction configurations show; everything else recovery does
is checked against `Expected`.

## Fairness

Whether a client begins, writes, commits or aborts is its own choice and is
not fair. Once inside `commit()` or `abort()` the thread runs to the next
step without waiting on anything, so those internal steps are weakly fair
(`FairSpec`). The two liveness runs use it, without symmetry.

Recovery's passing runs assume two things the code under `src/` cannot
show: the buffer pool writes a page only after the log records that
changed it are durable (`WALRule`; the buffer pool is not in the
repository), and no transaction runs during the checkpoint command (the
spec's quiescence duty of callers). `MCRecovery_steal.cfg` and `MCRecovery_ckptorder.cfg` show what
happens without them.

A third assumption is carried by `Crash`: after a restart, LSNs continue
from the end of the kept log (a record's LSN is its position in `log`) and
transaction ids are never reused, so a transaction that runs after a
recovery never shares an id with one in the old log. Nothing under `src/`
restores `global_lsn_` or the next transaction id after a restart; the
headers and the startup code that set them are not in the repository.
Spec section 3(c) describes the log as one growing sequence of LSNs. If
either counter restarted from zero, a second recovery (the `crashes = 2`
behaviours of `recovery_core`) could match a new transaction's records
with an old COMMIT, which the model cannot represent.

The query model has no concurrency and no fairness. The catalog model's
`Spec` has no fairness: it checks safety only.

## Plan for the next sittings

1. List `MCQuery.cfg` and `MCCatalog.cfg` as runs, with their mutants,
   once a run slot is free (the list holds twelve); the same for the
   `TxnObjectLive` and `InsertIntoFreeSlot` reproductions.
2. `create_checkpoint` inside `WAL.tla` (it holds the latch across two
   flushes) and a two-thread run of the refinement with the flush latched,
   to show the race is the only obstacle to it.
3. Liveness of commit under fairness.
4. Compose `WAL` with `Recovery`: recovery over a file with a hole.
5. The catalog's checkpoint path (`recover_from_checkpoint` with a
   checkpoint record) and DDL statements mixed with DML.
