------------------------------ MODULE Recovery ------------------------------
(***************************************************************************)
(* Durability across a crash: transactions write the log through the       *)
(* write-ahead log and the record slots through the buffer pool; a crash   *)
(* keeps the durable prefix of the log and the pages last written to disk; *)
(* restart runs RecoveryManager::recover_from_checkpoint over them         *)
(* (src/recovery/log_recovery.cpp).                                        *)
(*                                                                         *)
(* One statement of a transaction is one step: what the executor, the     *)
(* record file handle and add_log_to_buffer do for it.  The log is the     *)
(* abstract log of LogSpec: a sequence of records and a durable prefix.    *)
(* A slot holds one record value or NoVal (its bitmap bit clear).  Under   *)
(* MVCC an UPDATE or DELETE leaves the slot as it is and adds a version;   *)
(* only INSERT, abort and recovery change slot contents.  Each             *)
(* transaction writes its own name as the new value.                       *)
(***************************************************************************)
EXTENDS Naturals, Sequences, SequencesExt, FiniteSets

CONSTANTS
    Txns,         \* transactions, model values
    Slots,        \* record slots 1..N, in the order insert looks for a free one
    InitRecords,  \* slots that hold a committed record at the start
    InitVal,      \* the value of those records
    NoVal,        \* an empty slot
    WriteOps,     \* the statements clients issue: "INSERT", "UPDATE", "DELETE"
    ClientAbort,  \* whether a client may roll back on its own
    MaxWrites,    \* statements per transaction
    MaxCkpt,      \* checkpoints taken
    MaxCrash,     \* crashes
    CrashInCkpt,  \* whether a crash may fall between a checkpoint's record and its page flush
    WALRule       \* the buffer pool writes a page only after its log records

ASSUME /\ Slots \subseteq Nat /\ InitRecords \subseteq Slots
       /\ WriteOps \subseteq {"INSERT", "UPDATE", "DELETE"}
       /\ ClientAbort \in BOOLEAN /\ WALRule \in BOOLEAN /\ CrashInCkpt \in BOOLEAN
       /\ {MaxWrites, MaxCkpt, MaxCrash} \subseteq Nat

Vals == Txns \cup {InitVal}

\* The slot field of a record that names no slot.
NoSlot == 0

VARIABLES
    log,      \* every log record appended, in LSN order (LSN = index)
    durable,  \* the length of the durable prefix of log
    page,     \* slot contents in the buffer pool
    disk,     \* slot contents on disk
    status,   \* the TransactionState of each transaction, refined below
    writes,   \* each transaction's write set, oldest first
    snap,     \* ghost: the committed state each transaction reads
    since,    \* slots written by commits after the transaction began
    committed,\* ghost: the committed state MVCC readers see
    ckptPc,   \* "none" or "pages": a checkpoint between its record and its page flush
    ckpts,    \* checkpoints taken
    crashes   \* crashes so far

vars == <<log, durable, page, disk, status, writes, snap, since, committed,
          ckptPc, ckpts, crashes>>

InitState == [k \in Slots |-> IF k \in InitRecords THEN InitVal ELSE NoVal]

\* A log record: type, transaction, slot, before image, after image.
Rec(type, t, k, old, new) == [type |-> type, txn |-> t, slot |-> k, old |-> old, new |-> new]

Init ==
    /\ log = <<>>
    /\ durable = 0
    /\ page = InitState
    /\ disk = InitState
    /\ status = [t \in Txns |-> "idle"]
    /\ writes = [t \in Txns |-> <<>>]
    /\ snap = [t \in Txns |-> InitState]
    /\ since = [t \in Txns |-> {}]
    /\ committed = InitState
    /\ ckptPc = "none"
    /\ ckpts = 0
    /\ crashes = 0

-----------------------------------------------------------------------------
(* Transactions: begin, one statement per step, commit, abort              *)

\* The slots a transaction has written.
WrittenSlots(t) == {writes[t][i].slot : i \in DOMAIN writes[t]}

\* What a transaction reads of slot k: its own last write, else its snapshot.
Visible(t, k) ==
    LET own == {i \in DOMAIN writes[t] : writes[t][i].slot = k}
    IN  IF own = {} THEN snap[t][k]
        ELSE IF writes[t][Max(own)].type = "DELETE" THEN NoVal ELSE t

\* An uncommitted version of u on slot k: u added it and has not rolled it back.
HasVersion(u, k) ==
    /\ status[u] \in {"active", "doomed", "stuck"}
    /\ \E i \in DOMAIN writes[u] : writes[u][i].slot = k /\ writes[u][i].ver

\* The write-write test of update_record and delete_record: another
\* transaction's uncommitted version, or a version committed after t began.
Conflict(t, k) == k \in since[t] \/ \E u \in Txns \ {t} : HasVersion(u, k)

\* The committed state after the data records of a log are applied in order.
ApplyLogical(s, r) ==
    IF r.type \in {"INSERT", "UPDATE", "DELETE"} THEN [s EXCEPT ![r.slot] = r.new] ELSE s

\* begin: the transaction takes its snapshot and logs BEGIN.  No transaction
\* begins while a checkpoint runs (the spec's quiescence duty of callers).
Begin(t) ==
    /\ status[t] = "idle"
    /\ ckptPc = "none"
    /\ log' = Append(log, Rec("BEGIN", t, NoSlot, NoVal, NoVal))
    /\ snap' = [snap EXCEPT ![t] = committed]
    /\ since' = [since EXCEPT ![t] = {}]
    /\ status' = [status EXCEPT ![t] = "active"]
    /\ UNCHANGED <<durable, page, disk, writes, committed, ckptPc, ckpts, crashes>>

\* InsertExecutor::Next: insert_record writes the first free slot and sets
\* its bit, then the write record and the INSERT log record are added.
Insert(t) ==
    /\ status[t] = "active"
    /\ "INSERT" \in WriteOps
    /\ Len(writes[t]) < MaxWrites
    /\ \E k \in Slots :
         /\ page[k] = NoVal
         /\ \A j \in Slots : j < k => page[j] # NoVal
         /\ page' = [page EXCEPT ![k] = t]
         /\ writes' = [writes EXCEPT ![t] = Append(@,
                          [type |-> "INSERT", slot |-> k, before |-> NoVal, ver |-> TRUE])]
         /\ log' = Append(log, Rec("INSERT", t, k, NoVal, t))
    /\ UNCHANGED <<durable, disk, status, snap, since, committed, ckptPc, ckpts, crashes>>

\* UpdateExecutor::Next and DeleteExecutor::Next: the write record and the
\* log record, with the before image the transaction reads, come first; then
\* update_record or delete_record tests for a conflict and either adds the
\* version (the slot is left as it is) or throws, and the client must abort.
Write(t, op, k) ==
    /\ status[t] = "active"
    /\ op \in WriteOps
    /\ Len(writes[t]) < MaxWrites
    /\ Visible(t, k) # NoVal
    /\ page[k] # NoVal
    /\ writes' = [writes EXCEPT ![t] = Append(@,
                     [type |-> op, slot |-> k, before |-> Visible(t, k), ver |-> ~Conflict(t, k)])]
    /\ log' = Append(log, Rec(op, t, k, Visible(t, k), IF op = "UPDATE" THEN t ELSE NoVal))
    /\ status' = IF Conflict(t, k) THEN [status EXCEPT ![t] = "doomed"] ELSE status
    /\ UNCHANGED <<durable, page, disk, snap, since, committed, ckptPc, ckpts, crashes>>

\* commit: the COMMIT record is appended and the versions are stamped and
\* made visible (MVCC) before the log is flushed.
CommitLog(t) ==
    /\ status[t] = "active"
    /\ log' = Append(log, Rec("COMMIT", t, NoSlot, NoVal, NoVal))
    /\ committed' = FoldLeft(ApplyLogical, committed, SelectSeq(log, LAMBDA r : r.txn = t))
    /\ since' = [u \in Txns |-> IF status[u] = "active" /\ u # t
                                THEN since[u] \cup WrittenSlots(t) ELSE since[u]]
    /\ status' = [status EXCEPT ![t] = "committing"]
    /\ UNCHANGED <<durable, page, disk, writes, snap, ckptPc, ckpts, crashes>>

\* Mutant: the flushed length counted one past the end of the log.
CommitFlushPastEnd(t) ==
    /\ status[t] = "committing"
    /\ durable' = Len(log) + 1
    /\ status' = [status EXCEPT ![t] = "committed"]
    /\ UNCHANGED <<log, page, disk, writes, snap, since, committed, ckptPc, ckpts, crashes>>

\* commit: flush_log_to_disk, then the state is COMMITTED.
CommitFlush(t) ==
    /\ status[t] = "committing"
    /\ durable' = Len(log)
    /\ status' = [status EXCEPT ![t] = "committed"]
    /\ UNCHANGED <<log, page, disk, writes, snap, since, committed, ckptPc, ckpts, crashes>>


\* One step of abort's undo loop over slot contents, as the file handle does
\* it without a transaction context: an INSERT is deleted and an UPDATE
\* restored, both after get_record(rid, nullptr), which throws on a clear
\* slot; a DELETE is re-inserted with insert_record(rid, buf).
UndoWrite(acc, w) ==
    IF ~acc.ok THEN acc
    ELSE CASE w.type = "DELETE" -> [acc EXCEPT !.pg[w.slot] = w.before]
           [] acc.pg[w.slot] = NoVal -> [acc EXCEPT !.ok = FALSE]
           [] w.type = "INSERT" -> [acc EXCEPT !.pg[w.slot] = NoVal]
           [] OTHER -> [acc EXCEPT !.pg[w.slot] = w.before]

\* abort: undo the write set newest first, flush the log, ABORTED.  No ABORT
\* record is appended.  When an undo step throws, abort stops there: the
\* log is not flushed and the transaction stays as it is, its versions linked.
Abort(t) ==
    /\ \/ status[t] = "doomed"
       \/ ClientAbort /\ status[t] = "active"
    /\ LET res == FoldLeft(UndoWrite, [pg |-> page, ok |-> TRUE], Reverse(writes[t]))
       IN  /\ page' = res.pg
           /\ IF res.ok
              THEN durable' = Len(log) /\ status' = [status EXCEPT ![t] = "aborted"]
              ELSE UNCHANGED durable /\ status' = [status EXCEPT ![t] = "stuck"]
    /\ UNCHANGED <<log, disk, writes, snap, since, committed, ckptPc, ckpts, crashes>>

-----------------------------------------------------------------------------
(* The log buffer and the buffer pool                                      *)

\* add_log_to_buffer flushes the whole buffer when the next record does not
\* fit.
FlushLog ==
    /\ durable < Len(log)
    /\ durable' = Len(log)
    /\ UNCHANGED <<log, page, disk, status, writes, snap, since, committed, ckptPc, ckpts, crashes>>

\* The buffer pool writes a dirty page back.  No page LSN is set anywhere in
\* the source, so nothing ties this write to the log; WALRule says whether the
\* buffer pool waits until the log records of the slot are durable.
FlushPage(k) ==
    /\ page[k] # disk[k]
    /\ WALRule => \A i \in (durable + 1)..Len(log) : log[i].slot # k
    /\ disk' = [disk EXCEPT ![k] = page[k]]
    /\ UNCHANGED <<log, durable, page, status, writes, snap, since, committed, ckptPc, ckpts, crashes>>

\* The transactions whose writes a checkpoint may not run beside (the spec
\* makes this quiescence the caller's duty; the code does not check it).
Running == {t \in Txns : status[t] \in {"active", "doomed", "committing", "stuck"}}

\* run_cmd_utility CREATE CHECKPOINT: flush_log_to_disk, create_checkpoint
\* (which flushes, appends the STATIC_CHECKPOINT record and flushes again).
CkptLog ==
    /\ ckptPc = "none"
    /\ ckpts < MaxCkpt
    /\ Running = {}
    /\ log' = Append(log, Rec("CKPT", NoVal, NoSlot, NoVal, NoVal))
    /\ durable' = Len(log) + 1
    /\ ckptPc' = "pages"
    /\ ckpts' = ckpts + 1
    /\ UNCHANGED <<page, disk, status, writes, snap, since, committed, crashes>>

\* ... then flush_all_dirty_pages.
CkptPages ==
    /\ ckptPc = "pages"
    /\ disk' = page
    /\ ckptPc' = "none"
    /\ UNCHANGED <<log, durable, page, status, writes, snap, since, committed, ckpts, crashes>>

-----------------------------------------------------------------------------
(* Restart: recover_from_checkpoint over the durable log and the disk      *)

\* Mutant: COMMIT adds to the committed set but leaves the active set alone.
AnalyzeStepCommitKeepsActive(a, r) ==
    CASE r.type = "BEGIN" -> [a EXCEPT !.active = @ \cup {r.txn}]
      [] r.type = "COMMIT" -> [a EXCEPT !.committed = @ \cup {r.txn}]
      [] r.type = "ABORT" -> [a EXCEPT !.active = @ \ {r.txn}]
      [] r.type = "CKPT" -> [active |-> {}, committed |-> {}]
      [] OTHER -> a

\* process_log_for_analyze: BEGIN makes a transaction active, COMMIT moves
\* it to the committed set, ABORT (never written) would drop it, and a
\* STATIC_CHECKPOINT empties both tables.
AnalyzeStep(a, r) ==
    CASE r.type = "BEGIN" -> [a EXCEPT !.active = @ \cup {r.txn}]
      [] r.type = "COMMIT" -> [active |-> a.active \ {r.txn}, committed |-> a.committed \cup {r.txn}]
      [] r.type = "ABORT" -> [a EXCEPT !.active = @ \ {r.txn}]
      [] r.type = "CKPT" -> [active |-> {}, committed |-> {}]
      [] OTHER -> a

\* analyze and analyze_from_lsn: both scan the whole log.
Analyze(L) == FoldLeft(AnalyzeStep, [active |-> {}, committed |-> {}], L)

\* get_last_checkpoint_lsn: the LSN of the last checkpoint record, 0 if none.
LastCkpt(L) ==
    LET c == {i \in DOMAIN L : L[i].type = "CKPT"} IN IF c = {} THEN 0 ELSE Max(c)

\* redo_insert, redo_delete, redo_update: applied only when is_record says
\* the slot is clear (insert) or set (delete, update).
RedoOp(d, r) ==
    CASE r.type = "INSERT" /\ d[r.slot] = NoVal -> [d EXCEPT ![r.slot] = r.new]
      [] r.type = "DELETE" /\ d[r.slot] # NoVal -> [d EXCEPT ![r.slot] = NoVal]
      [] r.type = "UPDATE" /\ d[r.slot] # NoVal -> [d EXCEPT ![r.slot] = r.new]
      [] OTHER -> d

\* undo_insert, undo_delete, undo_update, under the same is_record tests.
UndoOp(d, r) ==
    CASE r.type = "INSERT" /\ d[r.slot] # NoVal -> [d EXCEPT ![r.slot] = NoVal]
      [] r.type = "DELETE" /\ d[r.slot] = NoVal -> [d EXCEPT ![r.slot] = r.old]
      [] r.type = "UPDATE" /\ d[r.slot] # NoVal -> [d EXCEPT ![r.slot] = r.old]
      [] OTHER -> d

\* redo (no checkpoint, from the start) and redo_from_lsn (LSN above the
\* checkpoint's): the records of committed transactions, in LSN order.
Redo(L, a, c, d) ==
    FoldLeft(LAMBDA s, i : IF i > c /\ L[i].txn \in a.committed THEN RedoOp(s, L[i]) ELSE s,
             d, [i \in DOMAIN L |-> i])

\* Mutant: the undo records left in LSN order instead of sorted descending.
UndoAscending(L, a, d) ==
    FoldLeft(LAMBDA s, i : IF L[i].txn \in a.active THEN UndoOp(s, L[i]) ELSE s,
             d, [i \in DOMAIN L |-> i])

\* undo: every record of the transactions left active, by LSN descending.
Undo(L, a, d) ==
    FoldLeft(LAMBDA s, i : IF L[i].txn \in a.active THEN UndoOp(s, L[i]) ELSE s,
             d, [j \in DOMAIN L |-> Len(L) + 1 - j])

\* recover_from_checkpoint.
Recover(L, d) ==
    LET a == Analyze(L) IN Undo(L, a, Redo(L, a, LastCkpt(L), d))

\* A crash keeps the durable log and the disk; recovery runs before any
\* client is served and leaves its result in the buffer pool.  The version
\* store starts empty, so readers see the slots.  Transactions that had not
\* finished are gone.
Crash ==
    /\ crashes < MaxCrash
    /\ CrashInCkpt \/ ckptPc = "none"
    /\ LET L == SubSeq(log, 1, durable)
           done(t) == \/ status[t] \in {"idle", "committed", "aborted", "dead"}
                      \/ status[t] = "committing" /\ \E i \in DOMAIN L :
                               L[i].type = "COMMIT" /\ L[i].txn = t
       IN  /\ log' = L
           /\ page' = Recover(L, disk)
           /\ committed' = page'
           /\ status' = [t \in Txns |-> IF ~done(t) THEN "dead"
                                        ELSE IF status[t] = "committing" THEN "committed"
                                        ELSE status[t]]
    /\ since' = [t \in Txns |-> {}]
    /\ ckptPc' = "none"
    /\ crashes' = crashes + 1
    /\ UNCHANGED <<durable, disk, writes, snap, ckpts>>

-----------------------------------------------------------------------------

Quiet == crashes = MaxCrash /\ page = disk /\ \A t \in Txns : status[t] # "idle"

Next ==
    \/ \E t \in Txns :
         \/ Begin(t) \/ Insert(t) \/ CommitLog(t) \/ CommitFlush(t) \/ Abort(t)
         \/ \E op \in {"UPDATE", "DELETE"}, k \in Slots : Write(t, op, k)
    \/ FlushLog \/ CkptLog \/ CkptPages \/ Crash
    \/ \E k \in Slots : FlushPage(k)
    \/ Quiet /\ UNCHANGED vars

Spec == Init /\ [][Next]_vars

-----------------------------------------------------------------------------
(* Properties                                                              *)

Statuses == {"idle", "active", "doomed", "committing", "committed", "aborted", "stuck", "dead"}

TypeOK ==
    /\ durable \in 0..Len(log)
    /\ page \in [Slots -> Vals \cup {NoVal}]
    /\ disk \in [Slots -> Vals \cup {NoVal}]
    /\ status \in [Txns -> Statuses]
    /\ ckptPc \in {"none", "pages"}
    /\ ckpts \in 0..MaxCkpt
    /\ crashes \in 0..MaxCrash

\* The transactions with a COMMIT record in a log.
CommittedIn(L) == {L[i].txn : i \in {j \in DOMAIN L : L[j].type = "COMMIT"}}

\* The state the spec promises after recovery (section 7): the writes of
\* exactly the transactions whose COMMIT record is durable, in log order.
Expected(L) ==
    FoldLeft(ApplyLogical, InitState, SelectSeq(L, LAMBDA r : r.txn \in CommittedIn(L)))

\* Recovery from any crash rebuilds exactly the committed state of the
\* durable log (recover_from_checkpoint against the spec, section 7).
RecoveryRestoresCommitted ==
    [][crashes' > crashes => page' = Expected(log')]_vars

\* The slots whose log the code leaves unbalanced: a write of a transaction
\* rolled back before this crash (abort, or undo by an earlier recovery),
\* neither of which logs anything; a write whose conflict test threw after
\* its record was logged; a committed UPDATE or DELETE before a checkpoint,
\* which lives only in the version chain and which redo then skips.
Tainted(k) ==
    \/ \E t \in Txns : \E i \in DOMAIN writes[t] :
          /\ writes[t][i].slot = k
          /\ status[t] \in {"aborted", "dead"} \/ ~writes[t][i].ver
    \/ \E i, j \in DOMAIN log :
          /\ i < j /\ log[j].type = "CKPT"
          /\ log[i].type \in {"UPDATE", "DELETE"} /\ log[i].slot = k

\* Every other slot: recovery from any crash, including a crash after an
\* earlier recovery whose pages were partly written back, rebuilds its
\* committed value from the durable log, undoing the transactions that were
\* running and redoing the committed ones whatever the buffer pool wrote.
RecoveredUntainted ==
    [][crashes' > crashes =>
         \A k \in Slots : ~Tainted(k) => page'[k] = Expected(log')[k]]_vars

=============================================================================
