------------------------------ MODULE Catalog ------------------------------
(***************************************************************************)
(* The catalog and its recovery: SmManager's table and index DDL          *)
(* (src/system/sm_manager.cpp), the DB_META file it flushes, open_db at    *)
(* restart, and the CREATE_INDEX / DROP_INDEX passes of RecoveryManager    *)
(* (src/recovery/log_recovery.cpp, the no-checkpoint path: analyze, redo,  *)
(* undo, redo_indexes).                                                    *)
(*                                                                         *)
(* The catalog is one record: the tables and their index vectors in        *)
(* memory (db_), the open index handles (ihs_), the record and index files *)
(* on disk, and the meta file (the db_ last flushed).  A DDL statement     *)
(* runs in a transaction and is one step.  Table contents are abstracted   *)
(* to DupKeys: the index keys whose column holds a duplicate value, on     *)
(* which insert_entry's unique check throws.                               *)
(***************************************************************************)
EXTENDS Naturals, Sequences, SequencesExt, FiniteSets, FiniteSetsExt

CONSTANTS
    Txns,       \* transactions, model values
    Tabs,       \* table names
    Keys,       \* index column lists
    DupKeys,    \* keys whose column holds duplicates in every table
    InitTabs,   \* tables that exist at the start
    InitIdx,    \* the index vector of every initial table
    DDLOps,     \* the statements clients issue
    TxnTabs,    \* the tables each transaction's statements name
    MaxDDL,     \* DDL statements per transaction
    MaxCrash    \* crashes

ASSUME /\ DupKeys \subseteq Keys /\ InitTabs \subseteq Tabs
       /\ InitIdx \in Seq(Keys)
       /\ DDLOps \subseteq {"CREATE_TABLE", "DROP_TABLE", "CREATE_INDEX", "DROP_INDEX"}
       /\ TxnTabs \in [Txns -> SUBSET Tabs]
       /\ {MaxDDL, MaxCrash} \subseteq Nat

NoName == "-"

VARIABLES
    cat,      \* the catalog record, see TypeOK
    up,       \* "up", "down" after a crash, "failed" when open_db threw
    log,      \* the log records appended, in LSN order
    durable,  \* the length of the durable prefix of log
    status,   \* "idle", "growing", "committed", "aborted", "dead" (lost in a crash)
    ddl,      \* DDL statements each transaction has issued
    crashes

vars == <<cat, up, log, durable, status, ddl, crashes>>

Pairs(tab, ks) == {<<tab, k>> : k \in ToSet(ks)}

\* A log record; ok is a ghost: whether the statement that logged it took effect.
LogRec(type, t, tab, k, ok) == [type |-> type, txn |-> t, tab |-> tab, key |-> k, ok |-> ok]

\* flush_meta: the meta file becomes the in-memory tables and index vectors.
FlushMeta(c) == [c EXCEPT !.meta = [tabs |-> c.tabs, idx |-> c.idx]]

\* TabMeta::is_index / the ix_manager_->exists test on the index file.
IsIndex(c, tab, k) == k \in ToSet(c.idx[tab])
Exists(c, tab, k) == <<tab, k>> \in c.ixFiles

\* create_table: TableExistsError, else the record file, the table meta
\* with no index, and flush_meta.
CreateTable(c, tab) ==
    IF tab \in c.tabs THEN [c EXCEPT !.err = "TableExists"]
    ELSE FlushMeta([c EXCEPT !.tabs = @ \cup {tab}, !.files = @ \cup {tab},
                             !.idx[tab] = <<>>])

\* Whether create_index gets as far as add_log_to_buffer.
CreateLogs(c, tab, k) == tab \in c.tabs /\ ~IsIndex(c, tab, k)

\* create_index after its log record: create and open the index file,
\* insert every row; a duplicate key closes and destroys the file and
\* throws.  Otherwise the index joins the table meta and ihs_, and
\* flush_meta.
CreateIndex(c, tab, k) ==
    IF tab \notin c.tabs THEN [c EXCEPT !.err = "TableNotFound"]
    ELSE IF IsIndex(c, tab, k) THEN [c EXCEPT !.err = "IndexExists"]
    ELSE IF k \in DupKeys
         THEN [c EXCEPT !.ixFiles = @ \ {<<tab, k>>}, !.err = "unique"]
    ELSE FlushMeta([c EXCEPT !.ixFiles = @ \cup {<<tab, k>>},
                             !.idx[tab] = Append(@, k),
                             !.ihs = @ \cup {<<tab, k>>}])

\* drop_index: IndexNotFoundError unless the file exists; then (after its
\* log record) ihs_.at, which throws std::out_of_range for a handle that
\* is not open; close and destroy the file, erase the handle and the
\* table's index entry (get_index_meta throws when there is none), and
\* flush_meta.
DropIndex(c, tab, k) ==
    IF ~Exists(c, tab, k) THEN [c EXCEPT !.err = "IndexNotFound"]
    ELSE IF <<tab, k>> \notin c.ihs THEN [c EXCEPT !.err = "out_of_range"]
    ELSE LET c1 == [c EXCEPT !.ixFiles = @ \ {<<tab, k>>}, !.ihs = @ \ {<<tab, k>>}]
         IN IF tab \notin c.tabs \/ ~IsIndex(c, tab, k)
            THEN [c1 EXCEPT !.err = "IndexNotFound"]
            ELSE FlushMeta([c1 EXCEPT !.idx[tab] = RemoveFirst(@, k)])

\* drop_table's loop "for (auto index : obj_table.indexes) drop_index(...)":
\* the range-for keeps the end it read first while each drop_index erases
\* from the same vector.  i counts positions; past the vector's current
\* length the loop reads an erased element, undefined behaviour whose
\* outcome here is drop_index of an empty column list, IndexNotFoundError.
\* Each drop_index that finds its file appends a DROP_INDEX record to out.
RECURSIVE DropTableLoop(_, _, _, _, _)
DropTableLoop(c, t, tab, i, e) ==
    IF i > e \/ c.err # "ok" THEN c
    ELSE IF i > Len(c.idx[tab]) THEN [c EXCEPT !.err = "IndexNotFound"]
    ELSE LET k == c.idx[tab][i]
             c1 == DropIndex(c, tab, k)
             c2 == IF Exists(c, tab, k)
                   THEN [c1 EXCEPT !.out = Append(@, LogRec("DROP_INDEX", t, tab, k, c1.err = "ok"))]
                   ELSE c1
         IN DropTableLoop(c2, t, tab, i + 1, e)

\* drop_table: TableNotFoundError, the index loop, then close and destroy
\* the record file and erase the table from db_ and fhs_; no flush_meta.
DropTable(c, t, tab) ==
    IF tab \notin c.tabs THEN [c EXCEPT !.err = "TableNotFound"]
    ELSE LET c1 == DropTableLoop(c, t, tab, 1, Len(c.idx[tab]))
         IN IF c1.err # "ok" THEN c1
            ELSE [c1 EXCEPT !.files = @ \ {tab}, !.tabs = @ \ {tab}, !.idx[tab] = <<>>]

\* open_db's loop over a table's indexes: ihs_.emplace(open_index(...))
\* (a no-op when the handle is already there; open_index throws for a
\* missing file), drop_index and create_index with no context.  The
\* range-for keeps its first end while drop_index erases the entry and
\* create_index appends it again, so the entry now at position i + 1 is
\* the one just recreated.
RECURSIVE OpenLoop(_, _, _, _)
OpenLoop(c, tab, i, e) ==
    IF i > e \/ c.err # "ok" THEN c
    ELSE IF i > Len(c.idx[tab]) THEN [c EXCEPT !.err = "IndexNotFound"]
    ELSE LET k == c.idx[tab][i]
             c1 == DropIndex([c EXCEPT !.ihs = @ \cup {<<tab, k>>}], tab, k)
         IN IF ~Exists(c, tab, k) THEN [c EXCEPT !.err = "FileNotFound"]
            ELSE IF c1.err # "ok" THEN c1
            ELSE OpenLoop(CreateIndex(c1, tab, k), tab, i + 1, e)

\* open_db: read db_ from the meta file; for every table open its record
\* file (open_file throws for a missing one) and run the index loop.
OpenDb(c) ==
    FoldSet(LAMBDA tab, acc :
                IF acc.err # "ok" THEN acc
                ELSE IF tab \notin acc.files THEN [acc EXCEPT !.err = "FileNotFound"]
                ELSE OpenLoop(acc, tab, 1, Len(acc.idx[tab])),
            [c EXCEPT !.tabs = c.meta.tabs, !.idx = c.meta.idx, !.ihs = {}],
            c.meta.tabs)

\* analyze: COMMIT moves a transaction to committed_txns_; abort writes no
\* ABORT record, so every other transaction with a BEGIN stays active.
Committed(L) == {L[i].txn : i \in {j \in DOMAIN L : L[j].type = "COMMIT"}}
ActiveIn(L) == {L[i].txn : i \in {j \in DOMAIN L : L[j].type = "BEGIN"}} \ Committed(L)

\* undo_create_index (and redo of DROP_INDEX, the same code): if the index
\* file exists, close its handle, destroy the file and erase the entry
\* from the table meta; no flush_meta.
DestroyIndex(c, tab, k) ==
    IF ~Exists(c, tab, k) THEN c
    ELSE [c EXCEPT !.ihs = @ \ {<<tab, k>>}, !.ixFiles = @ \ {<<tab, k>>},
                   !.idx[tab] = IF tab \in c.tabs THEN RemoveFirst(@, k) ELSE @]

\* SmManager::redo_index: destroy an existing index file, create it anew
\* and insert every row; a duplicate key throws, which is caught, leaving
\* the new file without an open handle.
RedoIndex(c, tab, k) ==
    LET c1 == [DestroyIndex(c, tab, k) EXCEPT !.idx = c.idx, !.ixFiles = @ \cup {<<tab, k>>}]
    IN IF k \in DupKeys THEN c1 ELSE [c1 EXCEPT !.ihs = @ \cup {<<tab, k>>}]

\* process_log_for_redo for the index records: CREATE_INDEX on an existing
\* table whose index file is missing creates the file, appends the index
\* to the table meta (no flush_meta) and sets is_need_redo_indexes_;
\* DROP_INDEX destroys the index.
RedoRec(c, r) ==
    CASE r.type = "CREATE_INDEX" /\ r.tab \in c.tabs /\ ~Exists(c, r.tab, r.key) ->
              [c EXCEPT !.ixFiles = @ \cup {<<r.tab, r.key>>},
                        !.idx[r.tab] = Append(@, r.key), !.need = TRUE]
      [] r.type = "DROP_INDEX" -> DestroyIndex(c, r.tab, r.key)
      [] OTHER -> c

\* redo: the records of committed transactions, in LSN order.
Redo(c, L) ==
    FoldLeft(LAMBDA acc, r : IF r.txn \in Committed(L) THEN RedoRec(acc, r) ELSE acc, c, L)

\* undo_drop_index: unless the table is gone or the index file exists,
\* append the index to the table meta again and redo_index it.
UndoDrop(c, tab, k) ==
    IF tab \notin c.tabs \/ Exists(c, tab, k) THEN c
    ELSE RedoIndex([c EXCEPT !.idx[tab] = Append(@, k)], tab, k)

\* undo: the records of active transactions, in descending LSN order.
Undo(c, L) ==
    FoldLeft(LAMBDA acc, r :
                 CASE r.txn \notin ActiveIn(L) -> acc
                   [] r.type = "CREATE_INDEX" -> DestroyIndex(acc, r.tab, r.key)
                   [] r.type = "DROP_INDEX" -> UndoDrop(acc, r.tab, r.key)
                   [] OTHER -> acc,
             c, Reverse(L))

\* redo_indexes: redo_index for every index of every open table.
RedoIndexes(c) ==
    FoldSet(LAMBDA tab, acc : FoldLeft(LAMBDA a, k : RedoIndex(a, tab, k), acc, acc.idx[tab]),
            c, c.tabs)

\* recover_from_checkpoint with no checkpoint record: analyze, redo, undo,
\* then redo_indexes if redo set the flag.
Recover(c, L) ==
    LET c1 == Redo(c, L)
        c2 == Undo(c1, L)
    IN IF c1.need THEN RedoIndexes(c2) ELSE c2

Clean(c) == [c EXCEPT !.err = "ok", !.out = <<>>, !.need = FALSE]

InitCat ==
    LET idx == [tab \in Tabs |-> IF tab \in InitTabs THEN InitIdx ELSE <<>>]
        ix == UNION {Pairs(tab, InitIdx) : tab \in InitTabs}
    IN [tabs |-> InitTabs, idx |-> idx, ihs |-> ix, files |-> InitTabs, ixFiles |-> ix,
        meta |-> [tabs |-> InitTabs, idx |-> idx], err |-> "ok", out |-> <<>>, need |-> FALSE]

Init ==
    /\ cat = InitCat
    /\ up = "up"
    /\ log = <<>>
    /\ durable = 0
    /\ status = [t \in Txns |-> "idle"]
    /\ ddl = [t \in Txns |-> 0]
    /\ crashes = 0

\* TransactionManager::begin: a BEGIN record in the log buffer.
Begin(t) ==
    /\ up = "up" /\ status[t] = "idle"
    /\ status' = [status EXCEPT ![t] = "growing"]
    /\ log' = Append(log, LogRec("BEGIN", t, NoName, NoName, TRUE))
    /\ UNCHANGED <<cat, up, durable, ddl, crashes>>

\* One DDL statement of transaction t; a statement that throws leaves what
\* it did before the throw, and the transaction goes on.
Statement(t, op, tab, k) ==
    /\ up = "up" /\ status[t] = "growing" /\ ddl[t] < MaxDDL
    /\ LET res == CASE op = "CREATE_TABLE" -> CreateTable(cat, tab)
                    [] op = "DROP_TABLE" -> DropTable(cat, t, tab)
                    [] op = "CREATE_INDEX" -> CreateIndex(cat, tab, k)
                    [] op = "DROP_INDEX" -> DropIndex(cat, tab, k)
           new == CASE op = "CREATE_INDEX" /\ CreateLogs(cat, tab, k) ->
                           <<LogRec(op, t, tab, k, res.err = "ok")>>
                    [] op = "DROP_INDEX" /\ Exists(cat, tab, k) ->
                           <<LogRec(op, t, tab, k, res.err = "ok")>>
                    [] OTHER -> res.out
       IN /\ cat' = Clean(res)
          /\ log' = log \o new
    /\ ddl' = [ddl EXCEPT ![t] = @ + 1]
    /\ UNCHANGED <<up, durable, status, crashes>>

\* TransactionManager::commit: a COMMIT record, then flush_log_to_disk.
Commit(t) ==
    /\ up = "up" /\ status[t] = "growing"
    /\ log' = Append(log, LogRec("COMMIT", t, NoName, NoName, TRUE))
    /\ durable' = Len(log')
    /\ status' = [status EXCEPT ![t] = "committed"]
    /\ UNCHANGED <<cat, up, ddl, crashes>>

\* TransactionManager::abort: the write set holds no DDL, so the catalog
\* stays; flush_log_to_disk, and no ABORT record.
Abort(t) ==
    /\ up = "up" /\ status[t] = "growing"
    /\ durable' = Len(log)
    /\ status' = [status EXCEPT ![t] = "aborted"]
    /\ UNCHANGED <<cat, up, log, ddl, crashes>>

\* A crash keeps the files, the meta file and the durable log; db_, ihs_
\* and the running transactions are lost.
Crash ==
    /\ up = "up" /\ crashes < MaxCrash
    /\ up' = "down"
    /\ crashes' = crashes + 1
    /\ log' = SubSeq(log, 1, durable)
    /\ cat' = [cat EXCEPT !.tabs = {}, !.idx = [tab \in Tabs |-> <<>>], !.ihs = {}]
    /\ status' = [t \in Txns |-> IF status[t] = "growing" THEN "dead" ELSE status[t]]
    /\ UNCHANGED <<durable, ddl>>

\* Restart: open_db, then recovery over the durable log.
Restart ==
    /\ up = "down"
    /\ LET c == OpenDb(cat)
       IN IF c.err # "ok"
          THEN /\ up' = "failed" /\ cat' = Clean(c)
          ELSE /\ up' = "up" /\ cat' = Clean(Recover(c, log))
    /\ UNCHANGED <<log, durable, status, ddl, crashes>>

\* Every client is done, or the server does not start: nothing more happens.
Done ==
    /\ up = "failed" \/ (up = "up" /\ \A t \in Txns : status[t] \notin {"idle", "growing"})
    /\ UNCHANGED vars

Next ==
    \/ \E t \in Txns : Begin(t) \/ Commit(t) \/ Abort(t)
    \/ \E t \in Txns : \E op \in DDLOps, tab \in TxnTabs[t], k \in Keys : Statement(t, op, tab, k)
    \/ Crash
    \/ Restart
    \/ Done

Spec == Init /\ [][Next]_vars

-----------------------------------------------------------------------------
TypeOK ==
    /\ cat.tabs \subseteq Tabs /\ cat.files \subseteq Tabs
    /\ cat.idx \in [Tabs -> Seq(Keys)] /\ cat.meta.idx \in [Tabs -> Seq(Keys)]
    /\ cat.ihs \subseteq Tabs \X Keys /\ cat.ixFiles \subseteq Tabs \X Keys
    /\ cat.err = "ok" /\ cat.out = <<>> /\ cat.need = FALSE
    /\ up \in {"up", "down", "failed"}
    /\ durable \in 0..Len(log)
    /\ status \in [Txns -> {"idle", "growing", "committed", "aborted", "dead"}]

\* The indexes the durable log says exist: those at the start, then the
\* CREATE_INDEX and DROP_INDEX statements of committed transactions that
\* took effect, in LSN order.
ExpectedIdx(L) ==
    FoldLeft(LAMBDA acc, r :
                 CASE r.txn \notin Committed(L) \/ ~r.ok -> acc
                   [] r.type = "CREATE_INDEX" -> acc \cup {<<r.tab, r.key>>}
                   [] r.type = "DROP_INDEX" -> acc \ {<<r.tab, r.key>>}
                   [] OTHER -> acc,
             UNION {Pairs(tab, InitIdx) : tab \in InitTabs}, L)

\* Every index of the running catalog has its file and an open handle:
\* inserts, updates and deletes look every index of the table up with
\* ihs_.at, so a catalog index without a handle makes each of them throw.
\* Checked across DDL statements, crashes, open_db and recovery.
HandlesMatchCatalog ==
    up = "up" =>
        \A tab \in cat.tabs : Pairs(tab, cat.idx[tab]) \subseteq cat.ihs \cap cat.ixFiles

\* Redo of committed index DDL (spec: redo re-applies the CREATE_INDEX and
\* DROP_INDEX entries of committed transactions): after open_db and
\* recovery, every index a committed transaction created and nobody
\* committed a drop of is in the catalog again.
CommittedIndexesSurvive ==
    [][Restart /\ up' = "up" =>
         \A p \in ExpectedIdx(log) : p[1] \in cat'.tabs => IsIndex(cat', p[1], p[2])]_vars

\* The converse: after open_db and recovery the catalog holds no index
\* that no committed transaction created (undo reverts active ones).
OnlyCommittedIndexes ==
    [][Restart /\ up' = "up" =>
         \A tab \in cat'.tabs : \A k \in ToSet(cat'.idx[tab]) : <<tab, k>> \in ExpectedIdx(log)]_vars

\* drop_table deletes the table's index files (its comment), then the table:
\* a DROP TABLE of a table that exists removes the table, its indexes and
\* their open handles, whatever the number of indexes it has.
DropTableRemovesTable ==
    [][\A t \in Txns, tab \in Tabs :
         (\E k \in Keys : Statement(t, "DROP_TABLE", tab, k)) /\ tab \in cat.tabs =>
            /\ tab \notin cat'.tabs
            /\ \A k \in Keys : <<tab, k>> \notin cat'.ihs \cup cat'.ixFiles]_vars

\* The server comes back after every crash: open_db finds every record
\* and index file the meta file names.
OpenDbSucceeds == up # "failed"
====
